----------------------------- MODULE MCAccounts -----------------------------
(***************************************************************************)
(* Who is signed in, and the inbox of whoever is, one at a time.           *)
(*                                                                         *)
(* Session has the tasks that lead from one identity to the next; Inbox    *)
(* takes identities from the register that Session is shown to implement.  *)
(* A behavior picks one of the two, and the other stays in an initial      *)
(* state.  Variables that both have by one name get a letter.              *)
(***************************************************************************)
EXTENDS Session

CONSTANTS Mention, MaxSignIns, MaxLists, MaxMarks, MaxRuns   \* Inbox

VARIABLES
  part,   \* the component that moves
  userI, asked, stored, news, kept, connecting, state, loaded, loads, saves,
  view, gate, run, activated, excusedI, signIns, lists, marks

ib == <<userI, asked, stored, news, kept, connecting, state, loaded, loads,
        saves, view, gate, run, activated, excusedI, signIns, lists, marks>>

Ib == INSTANCE Inbox WITH user <- userI, excused <- excusedI

ASSUME AccountsAssumption == Ib!InboxBounds

Somebody == CHOOSE p \in Person : TRUE

AccountsInit ==
  /\ part \in {"session", "inbox"}
  /\ Init /\ (part = "session" \/ keyring = NoCredential)
  /\ keyring.of \in {Nobody, Somebody}   \* people are interchangeable
  /\ Ib!Init /\ (part = "inbox" \/ \A p \in Person : kept[p] = {})

AccountsNext ==
  \/ part = "session" /\ Next /\ UNCHANGED <<part, ib>>
  \/ part = "inbox" /\ Ib!Next /\ UNCHANGED <<part, vars>>

\* The fairness of Inbox, while it is the one that moves.
AccountsFairness ==
  /\ WF_ib(part = "inbox" /\ Ib!LoadSteps)
  /\ WF_ib(part = "inbox" /\ Ib!RunSteps)
  /\ WF_ib(part = "inbox" /\ (Ib!ConnectFails \/ Ib!Connected))
  /\ WF_ib(part = "inbox" /\ Ib!Announce)

AccountsSpec ==
  AccountsInit /\ [][AccountsNext]_<<part, vars, ib>> /\ AccountsFairness

-----------------------------------------------------------------------------
(* Properties, as their modules state them *)

\* No thread of anybody but the user of the inbox is shown, and what the inbox
\* keeps is of its types (Inbox); those of Session are proved.
ShownIsMine == Ib!ShownIsMine /\ Ib!TypeOK

\* At rest the inbox is what the next start will show (Inbox).
InboxConverges == Ib!InboxConverges

\* Whoever the inbox is activated for sees it loaded, or has left (Inbox).
EventuallyLoaded == Ib!EventuallyLoaded
\* views/inbox.rs: the state the lists "were derived with" (Inbox); the README
\* tells why the code does not keep it.
DerivedWithState == Ib!DerivedWithState
=============================================================================
