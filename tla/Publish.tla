------------------------------ MODULE Publish ------------------------------
(***************************************************************************)
(* What RepoStore publishes (signed_state/src/repo.rs): a pull request, a  *)
(* revision of it, issues and comments.  No caller asks for a draft, so    *)
(* set_status, which only a draft reaches, is left out.                    *)
(*                                                                         *)
(* An action checks what it can at once and goes on as a task of the       *)
(* store, which signs with the signer that is shared by everybody at the   *)
(* moment it signs.  The tasks report into one error and one warning of    *)
(* the store, and every action that starts clears the error.               *)
(***************************************************************************)
EXTENDS Naturals, FiniteSets

CONSTANTS
  Person, Nobody,
  Parts,          \* the patches of a series, 1 .. Parts
  MaxTasks,       \* bound: actions in flight
  MaxActions,     \* bound: actions of the user
  MaxSwitches     \* bound: changes of the signed-in user

PublishAssumption ==
  /\ Nobody \notin Person
  /\ Parts \in Nat \ {0} /\ MaxTasks \in Nat \ {0}
  /\ MaxActions \in Nat /\ MaxSwitches \in Nat

VARIABLES
  announced,    \* the store has an address
  user, signer, \* Backend::current_user and the key that signs
  lastError, lastWarning,
  tasks,        \* actions in flight
  accepted,     \* events a relay has accepted
  begun,        \* history: the actions that went on as a task
  unseen,       \* ghost: an error was cleared, or never set
  switched,     \* ghost: the signer has changed during an action
  actions, switches   \* bounded

messages == <<lastError, lastWarning>>
who == <<user, signer>>
ghosts == <<begun, unseen, switched>>
vars == <<announced, who, messages, tasks, accepted, ghosts, actions, switches>>

Kind == {"pull", "revision", "note"}

\* A task: n tells them apart, of is whose grasp servers and npub it was built
\* for, next is the patch to publish, by is who signed the event.
Task == [n : Nat, kind : Kind, of : Person \cup {Nobody},
         next : 1 .. Parts + 1,
         at : {"series", "sign", "push", "publish"},
         by : Person \cup {Nobody}]

\* part 0 is the event itself, a pull request or an update.
Event == [n : Nat, kind : Kind, part : 0 .. Parts, by : Person,
          of : Person \cup {Nobody}]

Init ==
  /\ announced \in BOOLEAN
  /\ user \in Person \cup {Nobody} /\ signer = user
  /\ lastError = FALSE /\ lastWarning = FALSE
  /\ tasks = {} /\ accepted = {}
  /\ begun = {} /\ unseen = FALSE /\ switched = FALSE
  /\ actions = 0 /\ switches = 0

New(kind) ==
  [n |-> actions, kind |-> kind, of |-> user, next |-> 1,
   at |-> IF kind = "note" THEN "sign" ELSE "series", by |-> Nobody]

-----------------------------------------------------------------------------
(* Actions of the user *)

Act ==
  /\ actions < MaxActions /\ actions' = actions + 1
  /\ Cardinality(tasks) < MaxTasks

\* open_pull_request and update_pull_request clear both messages, check the
\* patch, the user (a revision: the author of the pull request) and the
\* address, and report what they find.
Open(kind, valid) ==
  /\ Act
  /\ lastWarning' = FALSE
  /\ unseen' = (unseen \/ lastError)
  /\ IF announced /\ valid /\ user # Nobody
       THEN lastError' = FALSE /\ tasks' = tasks \cup {New(kind)}
       ELSE lastError' = TRUE /\ UNCHANGED tasks
  /\ begun' = begun \cup {t.n : t \in tasks'}
  /\ UNCHANGED <<announced, who, accepted, switched, switches>>

\* open_issue, comment and reply, then publish; nobody checks the user.
Note ==
  /\ Act
  /\ unseen' = (unseen \/ lastError)
  /\ IF announced THEN lastError' = FALSE /\ tasks' = tasks \cup {New("note")}
                  ELSE lastError' = TRUE /\ UNCHANGED tasks
  /\ begun' = begun \cup {t.n : t \in tasks'}
  /\ UNCHANGED <<announced, who, lastWarning, accepted, switched, switches>>

\* The user dismisses a message.
Dismiss ==
  /\ \/ lastError /\ lastError' = FALSE /\ unseen' = TRUE /\ UNCHANGED lastWarning
     \/ lastWarning /\ lastWarning' = FALSE /\ UNCHANGED <<lastError, unseen>>
  /\ UNCHANGED <<announced, who, tasks, accepted, begun, switched, actions,
                 switches>>

\* Somebody signs in, or out; the signer keeps its key then.
Switch(p) ==
  /\ switches < MaxSwitches /\ switches' = switches + 1
  /\ p # user
  /\ user' = p
  /\ signer' = IF p = Nobody THEN signer ELSE p
  /\ switched' = (switched \/ tasks # {})
  /\ UNCHANGED <<announced, messages, tasks, accepted, begun, unseen, actions>>

-----------------------------------------------------------------------------
(* The tasks *)

Moved(t, u) == (tasks \ {t}) \cup {u}

\* Mutant: an event counts as that of the user who asked for it.
AcceptAsked(t, part, by) ==
  accepted \cup {[n |-> t.n, kind |-> t.kind, part |-> part, by |-> t.of, of |-> t.of]}

Accept(t, part, by) ==
  accepted \cup {[n |-> t.n, kind |-> t.kind, part |-> part, by |-> by, of |-> t.of]}

\* A step that fails: its error is the store's, and the task is over.
Reported(t) ==
  /\ lastError' = TRUE
  /\ tasks' = tasks \ {t}
  /\ UNCHANGED <<announced, who, lastWarning, accepted, ghosts, actions,
                 switches>>

\* publish_patch_series, one patch: signed, sent, accepted by some relay, or
\* sent to none.
PatchAccepted(t) ==
  /\ t.at = "series" /\ signer # Nobody
  /\ accepted' = Accept(t, t.next, signer)
  /\ tasks' = Moved(t,
       [t EXCEPT !.next = @ + 1,
                 !.at = IF t.next = Parts THEN "sign" ELSE "series"])
  /\ UNCHANGED <<announced, who, messages, ghosts, actions, switches>>

PatchFails(t) == t.at = "series" /\ Reported(t)

\* finalize_async.  The builder names the servers of the one who asked.
Signed(t) ==
  /\ t.at = "sign" /\ signer # Nobody
  /\ tasks' = Moved(t, [t EXCEPT !.by = signer,
                                 !.at = IF t.kind = "pull" THEN "push" ELSE "publish"])
  /\ UNCHANGED <<announced, who, messages, accepted, ghosts, actions, switches>>

\* Mutant: a signer that refuses is reported for nothing but a comment.
PullOnly(t) == t.kind # "note"

\* Where the error of the signer ends the task without a word.
Unreported(t) == t.kind = "pull"

SignFails(t) ==
  /\ t.at = "sign"
  /\ lastError' = (lastError \/ ~Unreported(t))
  /\ unseen' = (unseen \/ t.kind = "pull")
  /\ tasks' = tasks \ {t}
  /\ UNCHANGED <<announced, who, lastWarning, accepted, begun, switched,
                 actions, switches>>

\* refs/nostr/<id> is pushed to every server, before anybody knows the id; a
\* pasted patch has nothing to push.  Without a success the store warns.
Pushed(t) ==
  /\ t.at = "push"
  /\ lastWarning' \in {lastWarning, TRUE}
  /\ tasks' = Moved(t, [t EXCEPT !.at = "publish"])
  /\ UNCHANGED <<announced, who, lastError, accepted, ghosts, actions, switches>>

\* Mutant: the event is announced while its patches are on their way.
PublishEarly(t) == t.at \in {"series", "publish"}

Publishable(t) == t.at = "publish"

Published(t) ==
  /\ Publishable(t)
  /\ accepted' = Accept(t, 0, IF t.by = Nobody THEN signer ELSE t.by)
  /\ tasks' = tasks \ {t}
  /\ UNCHANGED <<announced, who, messages, ghosts, actions, switches>>

PublishFails(t) == t.at = "publish" /\ Reported(t)

Step(t) ==
  \/ PatchAccepted(t) \/ PatchFails(t) \/ Signed(t) \/ SignFails(t)
  \/ Pushed(t) \/ Published(t) \/ PublishFails(t)

Next ==
  \/ \E kind \in {"pull", "revision"}, valid \in BOOLEAN : Open(kind, valid)
  \/ Note \/ Dismiss
  \/ \E p \in Person \cup {Nobody} : Switch(p)
  \/ \E t \in tasks : Step(t)

Spec == Init /\ [][Next]_vars

-----------------------------------------------------------------------------
(* Properties *)

TypeOK ==
  /\ user \in Person \cup {Nobody} /\ signer \in Person \cup {Nobody}
  /\ {announced, lastError, lastWarning, unseen, switched} \subseteq BOOLEAN
  /\ tasks \subseteq Task /\ accepted \subseteq Event

Events(kind) == {e \in accepted : e.kind = kind /\ e.part = 0}

\* A pull request that the relays know is whole: every patch of its series
\* was accepted before it, and when the identity did not change meanwhile
\* they are all signed by the one whose servers it names.
PullIsWhole ==
  \A e \in Events("pull") \cup Events("revision") :
    /\ \A i \in 1 .. Parts :
         \E q \in accepted : q.n = e.n /\ q.part = i
    /\ ~switched => \A q \in accepted : q.n = e.n => q.by = e.of

\* Whatever was asked for and went on as a task is on the relays when nothing
\* is in flight, or an error is shown.  Excused are an error that the user or a
\* later action has cleared, and a pull request that was not signed.
FailuresAreShown ==
  (tasks = {} /\ ~unseen /\ ~lastError) =>
    begun = {e.n : e \in {e \in accepted : e.part = 0}}

\* repo.rs:880: "Pull request published, but the commit could not be pushed".
WarnsOnlyPublished ==
  (lastWarning /\ tasks = {}) => Events("pull") # {}
=============================================================================
