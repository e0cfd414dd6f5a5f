------------------------------ MODULE Session ------------------------------
(***************************************************************************)
(* Signing in and out (signed_state/src/backend.rs) with the dialogs that  *)
(* ask for it and the keyring of the operating system.                     *)
(*                                                                         *)
(* A job is one of the tasks the backend spawns: it waits for the keyring, *)
(* for a background computation or for a remote signer between the updates *)
(* that change the backend.  Its task is detached by the dialog, so it     *)
(* goes on when the dialog is closed, or when somebody else has signed in. *)
(***************************************************************************)
EXTENDS Naturals, FiniteSets

CONSTANTS
  Person, Nobody,   \* public keys, and none
  MaxJobs,          \* bound: tasks in flight
  MaxStarts,        \* bound: requests of the user
  MaxSignOuts,      \* bound: sign-outs
  MaxStops          \* bound: times the process stops and is started again

ASSUME SessionBounds ==
  /\ Nobody \notin Person
  /\ MaxJobs \in Nat \ {0}
  /\ MaxStarts \in Nat /\ MaxSignOuts \in Nat /\ MaxStops \in Nat

VARIABLES
  user,        \* Backend::current_user
  signer,      \* the key inside the UniversalSigner every publisher shares
  locked,      \* passphrase_required
  unlock,      \* the passphrase dialog is open
  form,        \* the import or onboarding dialog: "closed", "open" or "busy"
  keyring,     \* what the operating system keeps
  deletes,     \* credential deletions of sign_out that have not run yet
  job,         \* job[j]: the tasks
  answered,    \* ghost: people whose remote signer has answered once
  excused,     \* ghost: two jobs, or a job and a sign-out or its deletion, have
               \*   overlapped
  left,        \* ghost: the last thing asked for, in this session or before it,
               \*   was to sign out
  lost,        \* ghost: its deletion was refused, or the process stopped before it
  stranded,    \* ghost: a sign-in stored its credential and failed, and nobody has
               \*   signed in since
  starts, signOuts, stops    \* bounded

who == <<user, signer>>
dialogs == <<unlock, form>>
ghosts == <<answered, excused, left, lost, stranded>>
bounds == <<starts, signOuts, stops>>
vars == <<who, locked, dialogs, keyring, deletes, job, ghosts, bounds>>

Jobs == 1 .. MaxJobs

\* What is stored: a NIP-49 encrypted key or a bunker URI with its master key.
\* An nsec is encrypted before it is written, so it is never stored in plain.
Credential == [kind : {"ncryptsec", "bunker"}, of : Person]
NoCredential == [kind |-> "none", of |-> Nobody]

\* The ways to ask for a sign-in.  An nsec and an ncryptsec are imported alike
\* except that only the latter can be refused for its passphrase.
Kind == {"restore", "unlock", "nsec", "ncryptsec", "bunker", "create"}

Stored(k, p) ==
  [kind |-> IF k = "bunker" THEN "bunker" ELSE "ncryptsec", of |-> p]

Idle == [kind |-> "none", of |-> Nobody, at |-> "idle", write |-> "none",
         shown |-> FALSE]

\* at: "keyring" reading it, "crypto" computing in the background, "bunker"
\* awaiting its first answer, "write" awaiting the write of the credential,
\* "signer" in the detached task of set_signer.
\* write: the write of the credential, a task of its own once created.
Job == [kind : Kind \cup {"none"}, of : Person \cup {Nobody},
        at : {"idle", "keyring", "crypto", "bunker", "write", "signer"},
        write : {"none", "pending", "done", "failed"}, shown : BOOLEAN]

Started(k, p) ==
  [kind |-> k, of |-> p,
   at |-> IF k \in {"restore", "unlock"} THEN "keyring"
          ELSE IF k = "bunker" THEN "bunker" ELSE "crypto",
   write |-> IF k = "bunker" THEN "pending" ELSE "none",
   shown |-> k \notin {"restore", "unlock"}]

Init ==
  /\ user = Nobody /\ signer = Nobody
  /\ locked = FALSE /\ unlock = FALSE /\ form = "closed"
  /\ keyring \in Credential \cup {NoCredential}
  /\ deletes = 0
  /\ job = [j \in Jobs |-> IF j = 1 THEN Started("restore", Nobody) ELSE Idle]
  /\ answered = IF keyring.kind = "bunker" THEN {keyring.of} ELSE {}
  /\ excused = FALSE /\ left = FALSE /\ lost = FALSE /\ stranded = FALSE
  /\ starts = 0 /\ signOuts = 0 /\ stops = 0

Live == {j \in Jobs : job[j] # Idle}

Ends(j) == job' = [job EXCEPT ![j] = Idle]

\* Jobs whose dialog is gone have nothing to show their end in.
Hidden(f) == [j \in Jobs |-> [f[j] EXCEPT !.shown = FALSE]]

-----------------------------------------------------------------------------
(* The dialogs *)

OpenForm ==
  /\ user = Nobody /\ ~unlock /\ form = "closed"
  /\ form' = "open"
  /\ UNCHANGED <<who, locked, unlock, keyring, deletes, job, ghosts, bounds>>

\* The passphrase dialog cannot be dismissed; the others can, at any time.
CloseForm ==
  /\ form # "closed" /\ ~unlock
  /\ form' = "closed"
  /\ job' = Hidden(job)
  /\ UNCHANGED <<who, locked, unlock, keyring, deletes, ghosts, bounds>>

\* Success closes the dialog on top, whichever job it belongs to.
CloseTop(f) ==
  IF unlock THEN /\ unlock' = FALSE /\ job' = f /\ UNCHANGED form
            ELSE /\ form' = "closed" /\ job' = Hidden(f) /\ UNCHANGED unlock

Start(j, k, p) ==
  /\ job[j] = Idle /\ starts < MaxStarts
  /\ starts' = starts + 1
  /\ job' = [job EXCEPT ![j] = Started(k, p)]
  /\ excused' = (excused \/ Live # {} \/ deletes > 0)
  /\ left' = FALSE
  /\ UNCHANGED <<who, locked, unlock, keyring, deletes, answered, lost, stranded,
                 signOuts, stops>>

\* The form is disabled while the job it started is running.
Submit(j, k, p) ==
  /\ form = "open"
  /\ form' = "busy"
  /\ Start(j, k, p)

\* restore_with_passphrase: Enter submits even while the button is disabled.
Unlock(j) ==
  /\ unlock
  /\ UNCHANGED form
  /\ Start(j, "unlock", Nobody)

-----------------------------------------------------------------------------
(* The keyring *)

WriteLands(j) ==
  /\ job[j].write = "pending"
  /\ keyring' = Stored(job[j].kind, job[j].of)
  /\ job' = [job EXCEPT ![j].write = "done"]
  /\ UNCHANGED <<who, locked, dialogs, deletes, ghosts, bounds>>

WriteFails(j) ==
  /\ job[j].write = "pending"
  /\ job' = [job EXCEPT ![j].write = "failed"]
  /\ UNCHANGED <<who, locked, dialogs, keyring, deletes, ghosts, bounds>>

\* The deletion of a sign-out is detached; a failure is only logged.
DeleteRuns ==
  /\ deletes > 0
  /\ deletes' = deletes - 1
  /\ \/ keyring' = NoCredential /\ UNCHANGED lost
     \/ lost' = TRUE /\ UNCHANGED keyring
  /\ UNCHANGED <<who, locked, dialogs, job, answered, excused, left, stranded,
                 bounds>>

\* restore_session after the read: a bunker goes to its signer, an encrypted
\* key asks for the passphrase, and everything else is SignerRequired.
Restore(j) ==
  /\ job[j].kind = "restore" /\ job[j].at = "keyring"
  /\ \/ /\ keyring.kind = "bunker"
        /\ job' = [job EXCEPT ![j].at = "signer", ![j].of = keyring.of]
        /\ UNCHANGED <<locked, unlock>>
     \/ /\ keyring.kind = "ncryptsec"
        /\ Ends(j)
        /\ locked' = TRUE /\ unlock' = TRUE
     \/ /\ Ends(j)      \* nothing stored, or it cannot be read or parsed
        /\ UNCHANGED <<locked, unlock>>
  /\ UNCHANGED <<who, form, keyring, deletes, ghosts, bounds>>

ReadEncrypted(j) ==
  /\ job[j].kind = "unlock" /\ job[j].at = "keyring"
  /\ keyring.kind = "ncryptsec"
  /\ job' = [job EXCEPT ![j].at = "crypto", ![j].of = keyring.of]
  /\ UNCHANGED <<who, locked, dialogs, keyring, deletes, ghosts, bounds>>

-----------------------------------------------------------------------------
(* The jobs *)

\* A wrong passphrase, a keyring without the credential or one that refuses it,
\* a bunker that does not answer: the dialog shows the error and the task ends.
\* Dropping it cancels a write that has not run, unless it is running already.
Fail(j) ==
  /\ \/ job[j].kind = "unlock" /\ job[j].at \in {"keyring", "crypto"}
     \/ job[j].kind = "ncryptsec" /\ job[j].at = "crypto"
     \/ job[j].at = "bunker"
     \/ job[j].at = "write" /\ job[j].write = "failed"
  /\ Ends(j)
  /\ form' = IF job[j].shown /\ form = "busy" THEN "open" ELSE form
  /\ keyring' \in {keyring} \cup
       (IF job[j].write = "pending" THEN {Stored(job[j].kind, job[j].of)} ELSE {})
  /\ stranded' = (stranded \/ keyring' # keyring \/ job[j].write = "done")
  /\ UNCHANGED <<who, locked, unlock, deletes, answered, excused, left, lost,
                 bounds>>

\* The key is decrypted or encrypted and its credential goes to the keyring.
Computed(j) ==
  /\ job[j].at = "crypto" /\ job[j].kind # "unlock"
  /\ job' = [job EXCEPT ![j].at = "write", ![j].write = "pending"]
  /\ UNCHANGED <<who, locked, dialogs, keyring, deletes, ghosts, bounds>>

BunkerAnswers(j) ==
  /\ job[j].at = "bunker"
  /\ answered' = answered \cup {job[j].of}
  /\ job' = [job EXCEPT ![j].at = "write"]
  /\ UNCHANGED <<who, locked, dialogs, keyring, deletes, excused, left, lost,
                 stranded, bounds>>

\* Where a job that needs no more of its dialog hands over to set_signer: the
\* passphrase was right, or the credential is stored.
HandsOver(j) ==
  \/ job[j].kind = "unlock" /\ job[j].at = "crypto"
  \/ job[j].at = "write" /\ job[j].write = "done" /\ job[j].kind # "create"

SpawnSigner(j) ==
  /\ HandsOver(j)
  /\ CloseTop([job EXCEPT ![j].at = "signer"])
  /\ UNCHANGED <<who, locked, keyring, deletes, ghosts, bounds>>

\* The update that makes p the current user and emits SignerChanged.
Becomes(p) ==
  /\ signer' = p
  /\ user' = p
  /\ stranded' = FALSE
  /\ UNCHANGED <<answered, excused, left, lost>>

\* Mutant: the identity that was created goes through set_signer as well.
CreateTwice(j) ==
  /\ job[j].kind = "create" /\ job[j].at = "write" /\ job[j].write = "done"
  /\ Becomes(job[j].of)
  /\ CloseTop([job EXCEPT ![j].at = "signer"])
  /\ UNCHANGED <<locked, keyring, deletes, bounds>>

\* create_identity swaps the signer itself, in the update after the write.
\* Whoever was waiting for a passphrase still is.
Create(j) ==
  /\ job[j].kind = "create" /\ job[j].at = "write" /\ job[j].write = "done"
  /\ Becomes(job[j].of)
  /\ CloseTop([job EXCEPT ![j] = Idle])
  /\ UNCHANGED <<locked, keyring, deletes, bounds>>

\* set_signer, when the signer has told its key.  Nothing is checked: not who
\* is signed in by now, nor whether somebody has signed out.
SignerAnswers(j) ==
  /\ job[j].at = "signer"
  /\ Becomes(job[j].of)
  /\ locked' = FALSE
  /\ Ends(j)
  /\ UNCHANGED <<dialogs, keyring, deletes, bounds>>

\* Keys in memory always answer, a bunker may not.
SignerFails(j) ==
  /\ job[j].at = "signer"
  /\ job[j].kind \in {"restore", "bunker"}
  /\ Ends(j)
  /\ stranded' = (stranded \/ job[j].kind = "bunker")
  /\ UNCHANGED <<who, locked, dialogs, keyring, deletes, answered, excused, left,
                 lost, bounds>>

\* Mutant: signing out leaves the credential where it is.
SignOutKeeps ==
  /\ user # Nobody /\ signOuts < MaxSignOuts
  /\ user' = Nobody
  /\ locked' = FALSE
  /\ excused' = (excused \/ Live # {})
  /\ left' = TRUE /\ lost' = FALSE
  /\ signOuts' = signOuts + 1
  /\ UNCHANGED <<signer, dialogs, keyring, deletes, job, answered, stranded,
                 starts, stops>>

\* The shared signer keeps the key of the user who leaves.
SignOut ==
  /\ user # Nobody /\ signOuts < MaxSignOuts
  /\ user' = Nobody
  /\ locked' = FALSE
  /\ deletes' = deletes + 1
  /\ excused' = (excused \/ Live # {})
  /\ left' = TRUE /\ lost' = FALSE
  /\ signOuts' = signOuts + 1
  /\ UNCHANGED <<signer, dialogs, keyring, job, answered, stranded, starts,
                 stops>>

\* The process stops at any point; the next one starts by restoring.  A deletion
\* that has not run is gone with it, and the credential stays.
Stop ==
  /\ stops < MaxStops
  /\ stops' = stops + 1
  /\ user' = Nobody /\ signer' = Nobody
  /\ locked' = FALSE /\ unlock' = FALSE /\ form' = "closed"
  /\ deletes' = 0
  /\ job' = [j \in Jobs |-> IF j = 1 THEN Started("restore", Nobody) ELSE Idle]
  /\ lost' = (lost \/ deletes > 0)
  /\ UNCHANGED <<keyring, answered, excused, left, stranded, starts, signOuts>>

Next ==
  \/ OpenForm \/ CloseForm \/ DeleteRuns \/ SignOut \/ Stop
  \/ \E j \in Jobs :
       \/ \E k \in Kind \ {"restore", "unlock"}, p \in Person : Submit(j, k, p)
       \/ Unlock(j) \/ WriteLands(j) \/ WriteFails(j) \/ Restore(j)
       \/ ReadEncrypted(j) \/ Fail(j) \/ Computed(j) \/ BunkerAnswers(j)
       \/ SpawnSigner(j) \/ Create(j) \/ SignerAnswers(j) \/ SignerFails(j)

Spec == Init /\ [][Next]_vars

-----------------------------------------------------------------------------
(* Properties *)

TypeOK ==
  /\ user \in Person \cup {Nobody} /\ signer \in Person \cup {Nobody}
  /\ locked \in BOOLEAN /\ unlock \in BOOLEAN
  /\ form \in {"closed", "open", "busy"}
  /\ keyring \in Credential \cup {NoCredential}
  /\ deletes \in 0 .. MaxSignOuts
  /\ job \in [Jobs -> Job]
  /\ answered \subseteq Person
  /\ {excused, left, lost, stranded} \subseteq BOOLEAN
  /\ starts \in 0 .. MaxStarts
  /\ signOuts \in 0 .. MaxSignOuts /\ stops \in 0 .. MaxStops

\* Nothing waits for the keyring, for a computation or for a signer.
AtRest == Live = {} /\ deletes = 0

\* Every way of signing in, whatever it waits for and whoever signs in or out
\* meanwhile, signs in at most once and only whom it was asked to.
Register == INSTANCE Identity WITH
  asked <- [p \in Person |-> Cardinality({j \in Jobs : job[j].of = p})]
ImplementsIdentity == Register!Spec

\* What the keyring holds decides who the next start of the program signs in:
\* the identity of this session, and nobody after a sign-out, not even once the
\* program has been stopped and started again.  Three things break it, and each
\* is named: requests that overlap (excused), a sign-in that stores its credential
\* and fails (stranded), and a sign-out whose deletion is refused or cut off by
\* the end of the process (lost; SignedOutStays shows what comes of it).
NextStartAgrees ==
  (AtRest /\ ~excused) =>
    /\ (user # Nobody /\ ~stranded) => keyring.of = user
    /\ (left /\ ~lost) => keyring = NoCredential /\ user = Nobody

\* sidebar/mod.rs:930, of signing out: "You will be signed out on this device and
\* will need to sign in again on the next session."  Whoever signed out and has
\* asked for nothing since is not signed in.
SignedOutStays == (AtRest /\ left) => user = Nobody

\* backend.rs:368: "Verify the bunker responds before persisting the
\* credential."
BunkerVerified == keyring.kind = "bunker" => keyring.of \in answered
=============================================================================
