----------------------------- MODULE SyncStatus -----------------------------
(***************************************************************************)
(* SyncStatusStore and SyncStatusDirectory (signed_state/src/              *)
(* sync_status.rs): how far each checkout is from the repository state     *)
(* published on Nostr.                                                     *)
(*                                                                         *)
(* One store probes the repositories somebody looks at and broadcasts the  *)
(* results; it keeps none.  Every panel has a directory, a cache that asks *)
(* the store for what it renders and does not have, and remembers what it  *)
(* asked for in "pending".  A pass is a background task over all active    *)
(* repositories; requests made while one is in flight fold into the next.  *)
(*                                                                         *)
(* A repository's status is abstracted to the version of the published     *)
(* state it was computed from.                                             *)
(***************************************************************************)
EXTENDS Naturals

CONSTANTS
  Repo,         \* repository addresses
  Directory,    \* panels that keep a directory
  User,         \* identities that may sign in
  NoUser,       \* nobody is signed in
  None,         \* no status cached
  MaxVersion    \* bound: versions of a repository's published state

ASSUME SyncStatusAssumption ==
  /\ NoUser \notin User
  /\ None \notin Nat
  /\ MaxVersion \in Nat

VARIABLES
  user,         \* Backend.current_user
  published,    \* the published state of each repository
  store,        \* SyncStatusStore: active, in_flight, pass_pending, poll_pending
  signal,       \* a wake-up is queued on SyncStatusStore.sender
  passes,       \* the pass tasks in flight
  dirs,         \* the directories: statuses and pending, per panel
  lastFailed    \* history: the latest pass ended in an error

vars == <<user, published, store, signal, passes, dirs, lastFailed>>

Version == 0 .. MaxVersion
MaxProbes == 3    \* bound: a directory's probe counter stops here

Store == [active : SUBSET Repo, inFlight : BOOLEAN, passPending : BOOLEAN,
          pollPending : BOOLEAN]

\* A pass captures its targets when it starts and computes them later.
Pass == [targets : (SUBSET Repo) \ {{}}, computed : BOOLEAN, found : [Repo -> Version]]

\* "probes" is a history of the directory: the probes it sent for each
\* repository since it was created or last forgot everything.
Dir == [statuses : [Repo -> Version \cup {None}], pending : SUBSET Repo,
        probes : [Repo -> 0 .. MaxProbes]]

TypeOK ==
  /\ user \in User \cup {NoUser}
  /\ published \in [Repo -> Version]
  /\ store \in Store
  /\ signal \in BOOLEAN
  /\ passes \in SUBSET Pass
  /\ dirs \in [Directory -> Dir]
  /\ lastFailed \in BOOLEAN

EmptyDir == [statuses |-> [r \in Repo |-> None], pending |-> {},
             probes |-> [r \in Repo |-> 0]]

Init ==
  /\ user \in User \cup {NoUser}
  /\ published = [r \in Repo |-> 0]
  /\ store = [active |-> {}, inFlight |-> FALSE, passPending |-> FALSE,
              pollPending |-> FALSE]
  /\ signal = FALSE
  /\ passes = {}
  /\ dirs = [d \in Directory |-> EmptyDir]
  /\ lastFailed = FALSE

Known(dir) == {r \in Repo : dir.statuses[r] # None}

-----------------------------------------------------------------------------
(* The store *)

\* Mutant: clear() releases the slot although the pass goes on.
ClearedSlot(s) == [s EXCEPT !.active = {}, !.passPending = FALSE, !.inFlight = FALSE]

\* Mutant: clear() forgets the requests but not what they were for.
ClearedPartly(s) == [s EXCEPT !.passPending = FALSE]

\* clear(): a pass in flight keeps its slot.
Cleared(s) == [s EXCEPT !.active = {}, !.passPending = FALSE]

\* Mutant: a pass starts with nothing to probe.
StartsEmpty(s) == ~s.inFlight /\ user # NoUser

\* run_pass() starts a pass only for a signed-in user with something to probe.
Starts(s) == ~s.inFlight /\ user # NoUser /\ s.active # {}

\* Mutant: a request during a pass is dropped.
FoldDropped(s) == s

Folded(s) == [s EXCEPT !.passPending = TRUE]

\* Mutant: the poll timer is not armed.
StartedOnce(s) == [s EXCEPT !.inFlight = TRUE]

Started(s) == [s EXCEPT !.inFlight = TRUE, !.pollPending = TRUE]

\* The store after run_pass(): folded, cleared because nobody is signed in,
\* with its slot taken and the poll timer armed, or left alone because nothing
\* is active.
AfterRunPass(s) ==
  CASE s.inFlight -> Folded(s)
    [] ~s.inFlight /\ user = NoUser -> Cleared(s)
    [] Starts(s) -> Started(s)
    [] OTHER -> s

\* The store and the pass tasks after run_pass() on store s and tasks ps.
RunPass(s, ps) ==
  /\ store' = AfterRunPass(s)
  /\ passes' = IF Starts(s)
               THEN ps \cup {[targets |-> s.active, computed |-> FALSE,
                              found |-> [r \in Repo |-> 0]]}
               ELSE ps

\* Mutant: the empty Updated is ignored.
DeliverKeeps(ds) == dirs' = ds

\* A clear() that had something to forget emits an empty Updated, on which
\* every directory forgets; otherwise the directories become ds.
Deliver(ds) ==
  dirs' = IF store.active # {} /\ store'.active = {}
          THEN [d \in Directory |-> EmptyDir]
          ELSE ds

\* probe(): the repositories become active and a wake-up is queued.
Probe(S) ==
  /\ store' = [store EXCEPT !.active = @ \cup S]
  /\ signal' = TRUE

\* The receiver task: one pass covers every signal queued since the wake.
ReceiveSignal ==
  /\ signal
  /\ signal' = FALSE
  /\ RunPass(store, passes)
  /\ Deliver(dirs)
  /\ UNCHANGED <<user, published, lastFailed>>

\* The checkouts store notifies, or the backend reports RepoUpdates or Synced.
Nudge ==
  /\ RunPass(store, passes)
  /\ Deliver(dirs)
  /\ UNCHANGED <<user, published, signal, lastFailed>>

PollFires ==
  /\ store.pollPending
  /\ RunPass([store EXCEPT !.pollPending = FALSE], passes)
  /\ Deliver(dirs)
  /\ UNCHANGED <<user, published, signal, lastFailed>>

\* Sign-in, sign-out or a change of identity.
SignerChanged(u) ==
  /\ user' = u
  /\ store' = Cleared(store)
  /\ Deliver(dirs)
  /\ UNCHANGED <<published, signal, passes, lastFailed>>

-----------------------------------------------------------------------------
(* A pass *)

\* The background half reads the published state of its targets, all at once
\* here: nothing relates the states of two repositories.
Compute(p) ==
  /\ ~p.computed
  /\ passes' = (passes \ {p}) \cup {[p EXCEPT !.computed = TRUE, !.found = published]}
  /\ UNCHANGED <<user, published, store, signal, dirs, lastFailed>>

\* Mutant: the pending mark is removed on every update.
AppliedAlways(dir, p) ==
  LET relevant == p.targets \cap (Known(dir) \cup dir.pending) IN
  [dir EXCEPT
     !.statuses = [r \in Repo |-> IF r \in relevant THEN p.found[r] ELSE @[r]],
     !.pending = @ \ p.targets]

\* SyncStatusDirectory::apply.  An update counts if the directory has a
\* status for the repository or waits for one; only in the second case is
\* the pending mark removed.
Applied(dir, p) ==
  LET relevant == p.targets \cap (Known(dir) \cup dir.pending) IN
  [dir EXCEPT
     !.statuses = [r \in Repo |-> IF r \in relevant THEN p.found[r] ELSE @[r]],
     !.pending = @ \ (p.targets \ Known(dir))]

\* The pass lands: its slot is released, its results are broadcast, and a
\* request folded meanwhile starts another pass.
Release(p, ds) ==
  LET freed == [store EXCEPT !.inFlight = FALSE, !.passPending = FALSE] IN
  /\ IF store.passPending
       THEN RunPass(freed, passes \ {p})
       ELSE store' = freed /\ passes' = passes \ {p}
  /\ Deliver(ds)
  /\ UNCHANGED <<user, published, signal>>

PassLands(p) ==
  /\ p.computed
  /\ Release(p, [d \in Directory |-> Applied(dirs[d], p)])
  /\ lastFailed' = FALSE

\* A database query failed: nothing is broadcast, but the slot is released.
PassFails(p) ==
  /\ Release(p, dirs)
  /\ lastFailed' = TRUE

-----------------------------------------------------------------------------
(* The directories and the rest of the program *)

Sent(dir, S) ==
  [dir EXCEPT
     !.pending = @ \cup S,
     !.probes = [r \in Repo |-> IF r \in S /\ @[r] < MaxProbes THEN @[r] + 1 ELSE @[r]]]

\* track(): ask for the repositories neither cached nor asked for yet.
Track(d, S) ==
  LET missing == (S \ Known(dirs[d])) \ dirs[d].pending IN
  /\ missing # {}
  /\ Probe(missing)
  /\ dirs' = [dirs EXCEPT ![d] = Sent(@, missing)]
  /\ UNCHANGED <<user, published, passes, lastFailed>>

\* statuses_of() and unsynced(), called from render: a miss queues a probe.
Render(d, r) ==
  /\ r \notin dirs[d].pending
  /\ Probe({r})
  /\ dirs' = [dirs EXCEPT ![d] = Sent(@, {r})]
  /\ UNCHANGED <<user, published, passes, lastFailed>>

\* RepoStore re-probes a repository it has just pushed.
ProbePushed(r) ==
  /\ Probe({r})
  /\ UNCHANGED <<user, published, passes, dirs, lastFailed>>

\* A panel closes and another takes its place: a new directory is empty.
Reopen(d) ==
  /\ dirs' = [dirs EXCEPT ![d] = EmptyDir]
  /\ UNCHANGED <<user, published, store, signal, passes, lastFailed>>

\* A push of ours, or a state event from a relay, publishes a newer state.
Publish(r) ==
  /\ published[r] < MaxVersion
  /\ published' = [published EXCEPT ![r] = @ + 1]
  /\ UNCHANGED <<user, store, signal, passes, dirs, lastFailed>>

Next ==
  \/ ReceiveSignal
  \/ Nudge
  \/ PollFires
  \/ \E u \in User \cup {NoUser} : SignerChanged(u)
  \/ \E p \in passes : Compute(p)
  \/ \E p \in passes : PassLands(p)
  \/ \E p \in passes : PassFails(p)
  \/ \E d \in Directory, S \in SUBSET Repo : Track(d, S)
  \/ \E d \in Directory, r \in Repo : Render(d, r)
  \/ \E r \in Repo : ProbePushed(r)
  \/ \E d \in Directory : Reopen(d)
  \/ \E r \in Repo : Publish(r)

\* The receiver is woken, the timer fires and a spawned pass ends.
PassStep == \E p \in passes : Compute(p) \/ PassLands(p)

Fairness ==
  /\ WF_vars(ReceiveSignal)
  /\ WF_vars(PollFires)
  /\ WF_vars(PassStep)

Spec == Init /\ [][Next]_vars /\ Fairness

-----------------------------------------------------------------------------
(* Properties *)

\* "Keeps the in-flight pass so its completion releases the slot exactly
\* once": two passes never run together, and the slot is taken exactly while
\* one runs, across sign-outs and failures.
SlotHeldByOnePass ==
  /\ \A p, q \in passes : p = q
  /\ store.inFlight <=> (passes # {})

\* The store probes everything a panel shows or waits for.  Otherwise a badge
\* would be frozen, or its probe lost, when an identity changes at a bad time.
ShownIsActive ==
  \A d \in Directory : Known(dirs[d]) \cup dirs[d].pending \subseteq store.active

\* While somebody is signed in and something is active, another pass is
\* certain to start: a wake-up is queued, the poll timer is armed, or the
\* pass in flight will be followed by another.
KeepsPolling ==
  (user # NoUser /\ store.active # {})
    => signal \/ store.pollPending \/ (store.inFlight /\ store.passPending)

\* Signed out, once the queue is drained and the last pass has landed, no
\* panel shows or waits for anything: a pass that lands late cannot bring
\* back badges for good.
SignedOutForgets ==
  (user = NoUser /\ ~signal /\ passes = {})
    => \A d \in Directory : Known(dirs[d]) = {} /\ dirs[d].pending = {}

\* Rendering asks for a status, the status arrives and causes a render: the
\* circle is broken after the second probe.
BoundedProbes ==
  \A d \in Directory, r \in Repo : dirs[d].probes[r] <= 2

\* A badge never goes back to an older published state, even when a pass
\* that started before a sign-out lands after it.
NeverOlder ==
  [][\A d \in Directory : \A r \in Known(dirs[d]) \cap Known(dirs'[d]) :
       dirs'[d].statuses[r] >= dirs[d].statuses[r]]_vars

\* A panel that waits for a repository gets an answer, or forgets, unless the
\* latest pass failed.
EventuallyAnswered ==
  \A d \in Directory, r \in Repo :
    (r \in dirs[d].pending)
      ~> (r \in Known(dirs[d]) \/ r \notin dirs[d].pending \/ lastFailed)

\* A badge does not stay behind the published state: the poll catches up even
\* when nobody probes after a push, unless the latest pass failed.
EventuallyFresh ==
  \A d \in Directory, r \in Repo :
    (r \in Known(dirs[d]) /\ dirs[d].statuses[r] # published[r])
      ~> (dirs[d].statuses[r] \in {None, published[r]} \/ lastFailed)

\* Nobody waits forever, and nothing shown stays behind, unless passes fail.
CatchesUp == EventuallyAnswered /\ EventuallyFresh
=============================================================================
