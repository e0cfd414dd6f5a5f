-------------------------- MODULE RepositoryProofs --------------------------
(***************************************************************************)
(* Proofs about what a user sees of a repository: its checkouts, for any   *)
(* repositories, commits and local passes; and its store, for any relays   *)
(* and whatever they hold, any people, patches and actions, any posts and  *)
(* statuses.  The invariants of the parts of the store begin with Pb       *)
(* (Publish), Ls (Listing) and St (RepoStore); a part that rests keeps its *)
(* own.                                                                    *)
(***************************************************************************)
EXTENDS MCRepository, Checkouts, FiniteSetTheorems, WellFoundedInduction, TLAPS

\* What a full refresh in flight knows was recorded when it started, and is no
\* less than what is shown.
AssociationsSound ==
  /\ assoc \subseteq recorded
  /\ \A x \in runs : assoc \subseteq x.known /\ x.known \subseteq recorded

IInv ==
  /\ TypeOK
  /\ OneRefresh
  /\ PollingAlive
  /\ AssociationsSound

-----------------------------------------------------------------------------
(* Checkouts: tasks *)

\* A task that starts is well typed and remembers what is asked for.
LEMMA NewTaskType ==
  ASSUME NEW known \in SUBSET Repo, readyReq \in SUBSET Repo, pushReq \in SUBSET Repo
  PROVE  /\ NewTask(known) \in Task
         /\ NewTask(known).known = known
         /\ Polls(NewTask(known)) <=> Requests # {}
<1>1. NoBanner \in [Repo -> Count]
  BY CheckoutsAssumption DEF NoBanner, Count
<1>2. NewTask(known) \in Task
  BY <1>1 DEF NewTask, Task
<1> QED
  BY <1>2 DEF NewTask, Polls, Requests

\* Counting commits keeps a task well typed and what it knows and was asked for.
LEMMA ComputedType ==
  ASSUME NEW x \in Task, local \in [Repo -> Count], tracked \in [Repo -> Count]
  PROVE  /\ Computed(x) \in Task
         /\ Computed(x).known = x.known
         /\ Polls(Computed(x)) <=> Polls(x)
<1> DEFINE rf == [r \in Repo |-> IF r \in x.known \cap x.ready THEN local[r] ELSE 0]
           pf == [r \in Repo |->
                    IF r \in x.known \cap x.push /\ local[r] > tracked[r]
                    THEN local[r] - tracked[r] ELSE 0]
<1>1. rf \in [Repo -> Count]
  BY CheckoutsAssumption DEF Count
<1>2. ASSUME NEW r \in Repo, local[r] > tracked[r] PROVE local[r] - tracked[r] \in Count
  <2>1. local[r] \in 0 .. MaxCommits /\ tracked[r] \in 0 .. MaxCommits
    BY DEF Count
  <2> QED
    BY <1>2, <2>1, CheckoutsAssumption DEF Count
<1>3. pf \in [Repo -> Count]
  BY <1>2, CheckoutsAssumption DEF Count
<1>4. Computed(x) = [x EXCEPT !.stage = "computed", !.readyFound = rf, !.pushFound = pf]
  BY DEF Computed
<1> HIDE DEF rf, pf
<1>5. /\ Computed(x) \in Task /\ Computed(x).known = x.known
      /\ Computed(x).ready = x.ready /\ Computed(x).push = x.push
  BY <1>1, <1>3, <1>4 DEF Task
<1> QED
  BY <1>5 DEF Polls

\* A run that moves on, in place of the only run, changes nothing else that the
\* invariant speaks of.
LEMMA RunAdvances ==
  ASSUME IInv, NEW x \in runs, NEW y \in Task, runs' = (runs \ {x}) \cup {y},
         y.known = x.known, Polls(y) <=> Polls(x),
         tracked' \in [Repo -> Count], fetchFailed' \in BOOLEAN,
         UNCHANGED <<local, remote, announcing, recorded, resultVars, requestVars,
                     gate, debounce, localPending, locals>>
  PROVE  IInv'
<1>1. runs' = {y}
  BY DEF IInv, OneRefresh
<1>2. TypeOK'
  BY <1>1 DEF IInv, TypeOK, resultVars, requestVars
<1>3. OneRefresh'
  BY <1>1 DEF IInv, OneRefresh
<1>4. \A z \in runs : z = x
  BY DEF IInv, OneRefresh
<1>5. PollingAlive'
  BY <1>1, <1>4 DEF IInv, PollingAlive, Requests, Polls, requestVars
<1>6. AssociationsSound'
  BY <1>1 DEF IInv, AssociationsSound, resultVars
<1> QED
  BY <1>2, <1>3, <1>5, <1>6 DEF IInv

-----------------------------------------------------------------------------
(* Checkouts: requests *)

\* refresh() leaves a debounce pending, or the request folded into the run in
\* flight; it never starts a debounce beside a run.
LEMMA RefreshOutcome ==
  ASSUME IInv, Refresh
  PROVE  /\ gate' \in Gate /\ debounce' \in BOOLEAN
         /\ gate'.running = gate.running
         /\ ~(debounce' /\ gate'.running)
         /\ debounce' \/ gate'.dirty
<1>1. gate \in Gate /\ debounce \in BOOLEAN /\ ~(debounce /\ gate.running)
  BY DEF IInv, TypeOK, OneRefresh
<1>2. CASE debounce
  BY <1>1, <1>2 DEF Refresh
<1>3. CASE ~debounce /\ gate.running
  <2>1. gate' = [gate EXCEPT !.dirty = TRUE] /\ debounce' = FALSE
    BY <1>1, <1>3 DEF Refresh, Requested, Folds
  <2> QED
    BY <1>1, <2>1 DEF Gate
<1>4. CASE ~debounce /\ ~gate.running
  <2>1. gate' = gate /\ debounce' = TRUE
    BY <1>1, <1>4 DEF Refresh, Requested, Folds
  <2> QED
    BY <1>1, <1>4, <2>1
<1> QED
  BY <1>1, <1>2, <1>3, <1>4

\* Any step that asks for a refresh, whatever it changes of the requests and
\* the statuses, keeps the invariant.
LEMMA RequestInv ==
  ASSUME IInv, Refresh,
         ready' \in [Repo -> Count], unpushed' \in [Repo -> Count],
         readyReq' \in SUBSET Repo, pushReq' \in SUBSET Repo,
         announcing' \in SUBSET Repo, recorded' \in SUBSET Repo,
         recorded \subseteq recorded',
         UNCHANGED <<local, remote, tracked, assoc, localPending, runs, locals,
                     fetchFailed>>
  PROVE  IInv'
<1>1. /\ gate' \in Gate /\ debounce' \in BOOLEAN
      /\ gate'.running = gate.running
      /\ ~(debounce' /\ gate'.running)
      /\ debounce' \/ gate'.dirty
  BY RefreshOutcome
<1>2. TypeOK'
  BY <1>1 DEF IInv, TypeOK
<1>3. OneRefresh'
  BY <1>1 DEF IInv, OneRefresh
<1>4. PollingAlive'
  BY <1>1 DEF PollingAlive
<1>5. AssociationsSound'
  BY DEF IInv, AssociationsSound
<1> QED
  BY <1>2, <1>3, <1>4, <1>5 DEF IInv

-----------------------------------------------------------------------------
(* Checkouts: steps *)

\* The initial states: nothing is asked for, the first refresh is debounced.
LEMMA InitInv == Init => IInv
<1> SUFFICES ASSUME Init PROVE IInv
  OBVIOUS
<1>1. NoBanner \in [Repo -> Count]
  BY CheckoutsAssumption DEF NoBanner, Count
<1>2. IdleGate \in Gate /\ IdleGate.running = FALSE
  BY DEF IdleGate, Gate
<1>3. TypeOK
  BY <1>1, <1>2 DEF Init, TypeOK
<1>4. OneRefresh /\ PollingAlive /\ AssociationsSound
  BY <1>2 DEF Init, OneRefresh, PollingAlive, Requests, AssociationsSound
<1> QED
  BY <1>3, <1>4 DEF IInv

\* The debounce elapses: the run that starts remembers the requests.
LEMMA RunRefreshInv == ASSUME IInv, RunRefresh PROVE IInv'
<1>1. /\ gate \in Gate /\ runs = {} /\ recorded \in SUBSET Repo
      /\ readyReq \in SUBSET Repo /\ pushReq \in SUBSET Repo
  BY DEF IInv, TypeOK, OneRefresh, RunRefresh
<1>2. /\ NewTask(recorded) \in Task /\ NewTask(recorded).known = recorded
      /\ Polls(NewTask(recorded)) <=> Requests # {}
  BY <1>1, NewTaskType
<1>3. /\ runs' = {NewTask(recorded)} /\ debounce' = FALSE
      /\ gate' = [gate EXCEPT !.running = TRUE]
      /\ UNCHANGED <<gitVars, recorded, resultVars, requestVars, localPending,
                     locals, fetchFailed>>
  BY <1>1 DEF RunRefresh, Begun
<1>4. gate' \in Gate /\ gate'.running = TRUE
  BY <1>1, <1>3 DEF Gate
<1>5. TypeOK'
  BY <1>2, <1>3, <1>4 DEF IInv, TypeOK, gitVars, resultVars, requestVars
<1>6. OneRefresh'
  BY <1>3, <1>4 DEF OneRefresh
<1>7. PollingAlive'
  BY <1>2, <1>3 DEF PollingAlive, Requests, Polls, requestVars
<1>8. AssociationsSound'
  BY <1>2, <1>3 DEF IInv, AssociationsSound, resultVars
<1> QED
  BY <1>5, <1>6, <1>7, <1>8 DEF IInv

\* A full refresh lands: it shows what it knew, and a folded request or a
\* request it was started for keeps the store going.
LEMMA LandFullInv == ASSUME IInv, NEW x \in runs, LandFull(x) PROVE IInv'
<1>1. /\ gate \in Gate /\ gate.running = TRUE /\ debounce = FALSE
      /\ x \in Task /\ runs' = {} /\ \A z \in runs : z = x
  BY DEF IInv, TypeOK, OneRefresh, LandFull, Gate
<1>2. gate' = [running |-> FALSE, dirty |-> FALSE]
  BY <1>1 DEF LandFull, Finished, Gate
<1>3. /\ assoc' = x.known /\ ready' = x.readyFound /\ unpushed' = x.pushFound
      /\ debounce' = (debounce \/ gate.dirty)
      /\ localPending' = (localPending \/ Polls(x))
      /\ UNCHANGED <<gitVars, recorded, requestVars, locals, fetchFailed>>
  BY DEF LandFull, NeedsFollowUp
<1>4. gate' \in Gate /\ gate'.running = FALSE
  BY <1>2 DEF Gate
<1>5. debounce' \in BOOLEAN /\ localPending' \in BOOLEAN
  BY <1>1, <1>3 DEF IInv, TypeOK, Gate, Polls
<1>6. TypeOK'
  BY <1>1, <1>3, <1>4, <1>5 DEF IInv, TypeOK, Task, gitVars, requestVars
<1>7. OneRefresh'
  BY <1>1, <1>4 DEF OneRefresh
<1>8. PollingAlive'
  <2> SUFFICES ASSUME Requests' # {} PROVE localPending' \/ debounce'
    BY DEF PollingAlive
  <2>1. Requests # {}
    BY <1>3 DEF Requests, requestVars
  <2>2. localPending \/ debounce \/ gate.dirty \/ Polls(x)
    BY <1>1, <2>1 DEF IInv, PollingAlive
  <2> QED
    BY <1>3, <2>2
<1>9. AssociationsSound'
  BY <1>1, <1>3 DEF IInv, AssociationsSound
<1> QED
  BY <1>6, <1>7, <1>8, <1>9 DEF IInv

\* A local pass writes statuses, never associations, and no step of it stops
\* the polling while something is asked for.
LEMMA LocalInv ==
  ASSUME IInv, locals' \in SUBSET Task, localPending' \in BOOLEAN,
         localPending => localPending' \/ Requests = {},
         ready' \in [Repo -> Count], unpushed' \in [Repo -> Count],
         UNCHANGED <<gitVars, recorded, assoc, requestVars, gate, debounce, runs,
                     fetchFailed>>
  PROVE  IInv'
<1>1. TypeOK'
  BY DEF IInv, TypeOK, gitVars, requestVars
<1>2. OneRefresh'
  BY DEF IInv, OneRefresh
<1>3. PollingAlive'
  BY DEF IInv, PollingAlive, Requests, requestVars
<1>4. AssociationsSound'
  BY DEF IInv, AssociationsSound
<1> QED
  BY <1>1, <1>2, <1>3, <1>4 DEF IInv

\* Commits and pushes happen outside the store.
LEMMA OutsideInv ==
  ASSUME IInv, local' \in [Repo -> Count], remote' \in [Repo -> Count],
         announcing' \in SUBSET Repo,
         UNCHANGED <<tracked, recorded, resultVars, requestVars, gate, debounce,
                     localPending, runs, locals, fetchFailed>>
  PROVE  IInv'
<1>1. TypeOK'
  BY DEF IInv, TypeOK, resultVars, requestVars
<1>2. OneRefresh' /\ PollingAlive' /\ AssociationsSound'
  BY DEF IInv, OneRefresh, PollingAlive, AssociationsSound, Requests, resultVars,
         requestVars
<1> QED
  BY <1>1, <1>2 DEF IInv

\* Every step, and every stutter, preserves the inductive invariant.
LEMMA NextInv == IInv /\ [Next]_vars => IInv'
<1> SUFFICES ASSUME IInv, [Next]_vars PROVE IInv'
  OBVIOUS
<1>0. TypeOK
  BY DEF IInv
<1>1. NoBanner \in [Repo -> Count]
  BY CheckoutsAssumption DEF NoBanner, Count
<1>2. ASSUME NEW r \in Repo, Commit(r) PROVE IInv'
  <2>1. local' \in [Repo -> Count]
    BY <1>0, <1>2, CheckoutsAssumption DEF Commit, TypeOK, Count
  <2> QED
    BY <1>0, <1>2, <2>1, OutsideInv DEF Commit, TypeOK
<1>3. ASSUME NEW r \in Repo, Push(r) PROVE IInv'
  <2>1. remote' \in [Repo -> Count]
    BY <1>0, <1>3 DEF Push, TypeOK
  <2> QED
    BY <1>0, <1>3, <2>1, OutsideInv DEF Push, TypeOK
<1>4. ASSUME NEW r \in Repo, Associate(r) PROVE IInv'
  BY <1>0, <1>4, RequestInv DEF Associate, TypeOK, gitVars, resultVars, requestVars
<1>5. ASSUME NEW r \in Repo, RequestStatuses(r) PROVE IInv'
  BY <1>0, <1>5, RequestInv DEF RequestStatuses, TypeOK, gitVars, resultVars
<1>6. ASSUME NEW r \in Repo, RequestPushStatuses(r) PROVE IInv'
  BY <1>0, <1>6, RequestInv DEF RequestPushStatuses, TypeOK, gitVars, resultVars
<1>7. ASSUME NEW r \in Repo, CheckoutPushed(r) PROVE IInv'
  <2>1. unpushed' \in [Repo -> Count]
    BY <1>0, <1>7, CheckoutsAssumption DEF CheckoutPushed, TypeOK, Count
  <2> QED
    BY <1>0, <1>7, <2>1, RequestInv DEF CheckoutPushed, TypeOK
<1>8. CASE SignerChanged
  BY <1>0, <1>1, <1>8, RequestInv DEF SignerChanged, TypeOK, gitVars
<1>9. CASE RunRefresh
  BY <1>9, RunRefreshInv
<1>10. ASSUME NEW x \in runs, NEW fetched \in BOOLEAN, Fetch(x, fetched) PROVE IInv'
  <2> DEFINE y == [x EXCEPT !.stage = "fetched"]
  <2>1. x \in Task
    BY <1>0 DEF TypeOK
  <2>2. /\ y \in Task /\ y.known = x.known
        /\ Polls(y) <=> Polls(x)
    BY <2>1 DEF Task, Polls
  <2>3. tracked' \in [Repo -> Count] /\ fetchFailed' \in BOOLEAN
    BY <1>0, <1>10 DEF Fetch, TypeOK
  <2>4. /\ runs' = (runs \ {x}) \cup {y}
        /\ UNCHANGED <<local, remote, announcing, recorded, resultVars,
                       requestVars, gate, debounce, localPending, locals>>
    BY <1>10 DEF Fetch
  <2> HIDE DEF y
  <2> QED
    BY <2>2, <2>3, <2>4, RunAdvances
<1>11. ASSUME NEW x \in runs, ComputeFull(x) PROVE IInv'
  <2>1. x \in Task /\ local \in [Repo -> Count] /\ tracked \in [Repo -> Count]
    BY <1>0 DEF TypeOK
  <2>2. /\ Computed(x) \in Task /\ Computed(x).known = x.known
        /\ Polls(Computed(x)) <=> Polls(x)
    BY <2>1, ComputedType
  <2>3. /\ runs' = (runs \ {x}) \cup {Computed(x)}
        /\ tracked' \in [Repo -> Count] /\ fetchFailed' \in BOOLEAN
        /\ UNCHANGED <<local, remote, announcing, recorded, resultVars,
                       requestVars, gate, debounce, localPending, locals>>
    BY <1>0, <1>11 DEF ComputeFull, TypeOK, gitVars
  <2> QED
    BY <2>2, <2>3, RunAdvances
<1>12. ASSUME NEW x \in runs, LandFull(x) PROVE IInv'
  BY <1>12, LandFullInv
<1>13. CASE TickStops
  BY <1>0, <1>13, LocalInv DEF TickStops, TypeOK, resultVars
<1>14. CASE TickFull
  BY <1>0, <1>14, RequestInv DEF TickFull, TypeOK, gitVars, resultVars, requestVars
<1>15. CASE TickLocal
  <2>1. NewTask(assoc) \in Task
    BY <1>0, NewTaskType DEF TypeOK
  <2> QED
    BY <1>0, <1>15, <2>1, LocalInv DEF TickLocal, TypeOK, resultVars
<1>16. ASSUME NEW x \in locals, ComputeLocal(x) PROVE IInv'
  <2>1. Computed(x) \in Task
    BY <1>0, ComputedType DEF TypeOK
  <2> QED
    BY <1>0, <1>16, <2>1, LocalInv DEF ComputeLocal, TypeOK, resultVars
<1>17. ASSUME NEW x \in locals, LandLocal(x) PROVE IInv'
  <2>1. x.readyFound \in [Repo -> Count] /\ x.pushFound \in [Repo -> Count]
    BY <1>0 DEF TypeOK, Task
  <2> QED
    BY <1>0, <1>17, <2>1, LocalInv DEF LandLocal, TypeOK
<1>18. CASE UNCHANGED vars
  BY <1>0, <1>18, LocalInv DEF vars, TypeOK, gitVars, requestVars
<1> QED
  BY <1>2, <1>3, <1>4, <1>5, <1>6, <1>7, <1>8, <1>9, <1>10, <1>11, <1>12, <1>13,
     <1>14, <1>15, <1>16, <1>17, <1>18 DEF Next

-----------------------------------------------------------------------------
(* Checkouts: the theorems *)

\* The inductive invariant holds throughout.
THEOREM Invariance == Spec => []IInv
  BY InitInv, NextInv, PTL DEF Spec

\* Every variable keeps its type; no status count is negative or out of range.
THEOREM TypeCorrect == Spec => []TypeOK
<1>1. IInv => TypeOK
  BY DEF IInv
<1> QED
  BY <1>1, Invariance, PTL

\* At most one full refresh is debounced or in flight.
THEOREM SingleRefresh == Spec => []OneRefresh
<1>1. IInv => OneRefresh
  BY DEF IInv
<1> QED
  BY <1>1, Invariance, PTL

\* Polling cannot die while some view has asked for statuses, however many
\* local passes are in flight.
THEOREM PollingKeptAlive == Spec => []PollingAlive
<1>1. IInv => PollingAlive
  BY DEF IInv
<1> QED
  BY <1>1, Invariance, PTL

\* No association is lost to a refresh that lands late.
THEOREM AssociationsNeverLost == Spec => AssociationsKept
<1>1. IInv /\ [Next]_vars => [assoc \subseteq assoc']_vars
  <2> SUFFICES ASSUME IInv, Next PROVE assoc \subseteq assoc'
    BY DEF vars
  <2>1. CASE \E x \in runs : LandFull(x)
    BY <2>1 DEF IInv, AssociationsSound, LandFull
  <2>2. CASE UNCHANGED assoc
    BY <2>2
  <2> QED
    BY <2>1, <2>2
    DEF Next, Commit, Push, Associate, RequestStatuses, RequestPushStatuses,
        CheckoutPushed, SignerChanged, RunRefresh, Fetch, ComputeFull, TickStops,
        TickFull, TickLocal, ComputeLocal, LandLocal, resultVars
<1> QED
  BY <1>1, Invariance, PTL DEF Spec, AssociationsKept

-----------------------------------------------------------------------------
(* Publish: the actions of the user *)

\* A task at its patches has one to publish, later ones have published them
\* all; what is pushed or published has been signed.
PbShaped ==
  \A t \in tasks :
    /\ t.at = "series" => t.kind # "note" /\ t.next <= Parts
    /\ (t.at # "series" /\ t.kind # "note") => t.next = Parts + 1
    /\ t.at \in {"push", "publish"} => t.by \in Person

\* Each action has its number, and its event is published when it is over.
PbNumbered ==
  /\ actions \in Nat
  /\ \A x \in tasks \cup accepted : x.n < actions
  /\ \A t, u \in tasks : t.n = u.n => t = u
  /\ \A e \in accepted, t \in tasks : e.part = 0 => e.n # t.n

\* The patches before the next one are accepted.
PbPatched ==
  \A t \in tasks : t.kind # "note" =>
    \A i \in 1 .. Parts : i < t.next => \E q \in accepted : q.n = t.n /\ q.part = i

\* As long as the signer stays, whoever opens a pull request signs all of it.
PbSigned ==
  /\ user # Nobody => signer = user
  /\ ~switched => \A t \in tasks : t.kind # "note" =>
       /\ t.of = user /\ user # Nobody
       /\ t.by # Nobody => t.by = t.of
       /\ \A q \in accepted : q.n = t.n => q.by = t.of

\* Without an error, what was begun is published or in flight.
PbFollowed ==
  (~unseen /\ ~lastError) =>
    \A n \in begun : \/ \E e \in accepted : e.part = 0 /\ e.n = n
                     \/ \E t \in tasks : t.n = n

\* What is published or in flight was begun.
PbBegun ==
  /\ \A e \in accepted : e.part = 0 => e.n \in begun
  /\ \A t \in tasks : t.n \in begun

PbInv ==
  /\ Pb!TypeOK /\ PbShaped /\ PbNumbered /\ PbPatched /\ PbSigned
  /\ Pb!PullIsWhole /\ PbFollowed /\ PbBegun

\* A task that ends without its event is reported, or excused.
LEMMA PbEnds ==
  ASSUME PbInv, NEW t \in tasks, tasks' = tasks \ {t},
         {lastError', unseen'} \subseteq BOOLEAN, lastError' \/ unseen',
         UNCHANGED <<announced, user, signer, lastWarning, accepted, begun, switched,
                     actions, switches>>
  PROVE  PbInv'
<1>1. Pb!TypeOK'
  BY DEF PbInv, Pb!TypeOK
<1>2. PbShaped' /\ PbNumbered' /\ PbPatched' /\ PbSigned'
  BY DEF PbInv, PbShaped, PbNumbered, PbPatched, PbSigned
<1>3. Pb!PullIsWhole'
  BY DEF PbInv, Pb!PullIsWhole, Pb!Events
<1>4. PbFollowed' /\ PbBegun'
  BY DEF PbInv, PbFollowed, PbBegun
<1> QED BY <1>1, <1>2, <1>3, <1>4 DEF PbInv

\* A task that moves on, alone or with a patch that the signer has signed.
LEMMA PbMoves ==
  ASSUME PbInv, NEW t \in tasks, NEW u \in Pb!Task, tasks' = (tasks \ {t}) \cup {u},
         u.n = t.n, u.kind = t.kind, u.of = t.of,
         u.by \in {t.by, signer}, 
         u.at = "series" => u.kind # "note" /\ u.next <= Parts,
         (u.at # "series" /\ u.kind # "note") => u.next = Parts + 1,
         u.at \in {"push", "publish"} => u.by \in Person,
         accepted \subseteq accepted',
         \A q \in accepted' \ accepted :
           q \in Pb!Event /\ q.n = t.n /\ q.part # 0 /\ q.by = signer,
         \A i \in 1 .. Parts : i < u.next =>
           i < t.next \/ \E q \in accepted' : q.n = t.n /\ q.part = i,
         lastWarning' \in BOOLEAN,
         UNCHANGED <<announced, user, signer, lastError, begun, unseen, switched,
                     actions, switches>>
  PROVE  PbInv'
<1>1. Pb!TypeOK'
  BY DEF PbInv, Pb!TypeOK
<1>2. PbShaped'
  BY DEF PbInv, PbShaped
<1>3. PbNumbered'
  <2>1. \A x \in tasks' \cup accepted' : x.n < actions'
    BY DEF PbInv, PbNumbered
  <2>2. \A v, w \in tasks' : v.n = w.n => v = w
    BY DEF PbInv, PbNumbered
  <2>3. \A e \in accepted', v \in tasks' : e.part = 0 => e.n # v.n
    BY DEF PbInv, PbNumbered
  <2> QED BY <2>1, <2>2, <2>3 DEF PbInv, PbNumbered
<1>4. PbPatched'
  <2> SUFFICES ASSUME NEW v \in tasks', v.kind # "note", NEW i \in 1 .. Parts, i < v.next
               PROVE  \E q \in accepted' : q.n = v.n /\ q.part = i
    BY DEF PbPatched
  <2>1. ASSUME NEW w \in tasks, w.n = v.n, w.kind = v.kind, i < w.next
        PROVE  \E q \in accepted' : q.n = v.n /\ q.part = i
    BY <2>1 DEF PbInv, PbPatched
  <2> QED BY <2>1
<1>5. PbSigned'
  <2>0. \A q \in accepted' : q \in accepted \/ (q.n = t.n /\ q.by = signer)
    OBVIOUS
  <2> SUFFICES ASSUME ~switched, NEW v \in tasks', v.kind # "note"
               PROVE  /\ v.of = user /\ user # Nobody
                      /\ v.by # Nobody => v.by = v.of
                      /\ \A q \in accepted' : q.n = v.n => q.by = v.of
    BY DEF PbInv, PbSigned
  <2>1. ASSUME NEW w \in tasks, w.kind # "note"
        PROVE  /\ w.of = user /\ user # Nobody /\ signer = user
               /\ w.by # Nobody => w.by = w.of
               /\ \A q \in accepted : q.n = w.n => q.by = w.of
    BY <2>1 DEF PbInv, PbSigned
  <2>2. CASE v = u
    BY <2>0, <2>1, <2>2
  <2>3. CASE v \in tasks
    BY <2>0, <2>1, <2>3
  <2> QED BY <2>2, <2>3
<1>6. Pb!PullIsWhole'
  <2> SUFFICES ASSUME NEW e \in accepted', e.part = 0, e.kind \in {"pull", "revision"}
               PROVE  /\ \A i \in 1 .. Parts : \E q \in accepted' : q.n = e.n /\ q.part = i
                      /\ ~switched => \A q \in accepted' : q.n = e.n => q.by = e.of
    BY DEF Pb!PullIsWhole, Pb!Events
  <2>1. e \in accepted
    OBVIOUS
  <2>2. /\ \A i \in 1 .. Parts : \E q \in accepted : q.n = e.n /\ q.part = i
        /\ ~switched => \A q \in accepted : q.n = e.n => q.by = e.of
    BY <2>1 DEF PbInv, Pb!PullIsWhole, Pb!Events
  <2>3. e.n # t.n
    BY <2>1 DEF PbInv, PbNumbered
  <2> QED BY <2>2, <2>3
<1>7. PbFollowed' /\ PbBegun'
  BY DEF PbInv, PbFollowed, PbBegun
<1> QED BY <1>1, <1>2, <1>3, <1>4, <1>5, <1>6, <1>7 DEF PbInv

\* The event of a task is published, and the task is over.
LEMMA PbPublishes ==
  ASSUME PbInv, NEW t \in tasks, Pb!Published(t)
  PROVE  PbInv'
<1>1. /\ t \in Pb!Task /\ t.at = "publish" /\ t.by \in Person /\ t.by # Nobody
      /\ t.kind # "note" => t.next = Parts + 1
      /\ Parts \in Nat
  BY RepositoryAssumption
  DEF PbInv, PbShaped, Pb!TypeOK, Pb!Published, Pb!Publishable, Pb!PublishAssumption
<1>2. PICK e : e = [n |-> t.n, kind |-> t.kind, part |-> 0, by |-> t.by, of |-> t.of]
  OBVIOUS
<1>3. /\ accepted' = accepted \cup {e} /\ tasks' = tasks \ {t}
      /\ UNCHANGED <<announced, user, signer, lastError, lastWarning, begun, unseen,
                     switched, actions, switches>>
  BY <1>1, <1>2 DEF Pb!Published, Pb!Accept, Pb!who, Pb!messages, Pb!ghosts
<1>4. e \in Pb!Event
  BY <1>1, <1>2 DEF Pb!Task, Pb!Event
<1>4a. e.n = t.n /\ e.kind = t.kind /\ e.part = 0 /\ e.by = t.by /\ e.of = t.of
  BY <1>2
<1>5. Pb!TypeOK'
  BY <1>3, <1>4 DEF PbInv, Pb!TypeOK
<1>6. PbShaped'
  BY <1>3 DEF PbInv, PbShaped
<1>7. PbNumbered'
  <2>1. \A x \in tasks' \cup accepted' : x.n < actions'
    BY <1>3, <1>4a DEF PbInv, PbNumbered
  <2>2. \A v, w \in tasks' : v.n = w.n => v = w
    BY <1>3 DEF PbInv, PbNumbered
  <2>3. \A d \in accepted', v \in tasks' : d.part = 0 => d.n # v.n
    BY <1>3, <1>4a DEF PbInv, PbNumbered
  <2> QED BY <1>3, <2>1, <2>2, <2>3 DEF PbInv, PbNumbered
<1>8. PbPatched'
  BY <1>3 DEF PbInv, PbPatched
<1>9. PbSigned'
  <2> SUFFICES ASSUME ~switched, NEW v \in tasks, v # t, v.kind # "note"
               PROVE  /\ v.of = user /\ user # Nobody
                      /\ v.by # Nobody => v.by = v.of
                      /\ \A q \in accepted' : q.n = v.n => q.by = v.of
    BY <1>3 DEF PbInv, PbSigned
  <2>1. e.n # v.n
    BY <1>4a DEF PbInv, PbNumbered
  <2> QED BY <1>3, <2>1 DEF PbInv, PbSigned
<1>10. Pb!PullIsWhole'
  <2> SUFFICES ASSUME NEW d \in accepted', d.part = 0, d.kind \in {"pull", "revision"}
               PROVE  /\ \A i \in 1 .. Parts : \E q \in accepted' : q.n = d.n /\ q.part = i
                      /\ ~switched' => \A q \in accepted' : q.n = d.n => q.by = d.of
    BY DEF Pb!PullIsWhole, Pb!Events
  <2>1. CASE d \in accepted
    <3>1. /\ \A i \in 1 .. Parts : \E q \in accepted : q.n = d.n /\ q.part = i
          /\ ~switched => \A q \in accepted : q.n = d.n => q.by = d.of
      BY <2>1 DEF PbInv, Pb!PullIsWhole, Pb!Events
    <3>2. d.n # e.n
      BY <1>4a, <2>1 DEF PbInv, PbNumbered
    <3> QED BY <1>3, <3>1, <3>2
  <2>2. CASE d = e
    <3>1. t.kind # "note" /\ t.next = Parts + 1
      BY <1>1, <1>4a, <2>2
    <3>2. \A i \in 1 .. Parts : \E q \in accepted : q.n = t.n /\ q.part = i
      BY <1>1, <3>1 DEF PbInv, PbPatched
    <3>3. ~switched => e.by = e.of /\ \A q \in accepted : q.n = t.n => q.by = t.of
      BY <1>1, <1>4a, <3>1 DEF PbInv, PbSigned
    <3> QED BY <1>3, <1>4a, <2>2, <3>2, <3>3
  <2> QED BY <1>3, <2>1, <2>2
<1>11. PbFollowed' /\ PbBegun'
  BY <1>3, <1>4a DEF PbInv, PbFollowed, PbBegun
<1> QED BY <1>5, <1>6, <1>7, <1>8, <1>9, <1>10, <1>11 DEF PbInv

\* An action checks what it can: it is refused with an error, or a task begins
\* with a number of its own.
LEMMA PbBegins ==
  ASSUME PbInv, NEW kind \in Pb!Kind, kind # "note" => user # Nobody \/ tasks' = tasks,
         actions' = actions + 1,
         \/ tasks' = tasks /\ lastError' = TRUE
         \/ tasks' = tasks \cup {Pb!New(kind)} /\ lastError' = FALSE,
         begun' = begun \cup {t.n : t \in tasks'}, unseen' = (unseen \/ lastError),
         lastWarning' \in BOOLEAN,
         UNCHANGED <<announced, user, signer, accepted, switched, switches>>
  PROVE  PbInv'
<1>1. /\ Parts \in Nat /\ Parts # 0 /\ actions \in Nat /\ user \in Person \cup {Nobody}
      /\ unseen \in BOOLEAN /\ lastError \in BOOLEAN
  BY RepositoryAssumption DEF Pb!PublishAssumption, PbInv, PbNumbered, Pb!TypeOK
<1>2. PICK u : u = Pb!New(kind)
  OBVIOUS
<1>3. /\ u.n = actions /\ u.kind = kind /\ u.of = user /\ u.next = 1 /\ u.by = Nobody
      /\ u.at = IF kind = "note" THEN "sign" ELSE "series"
      /\ u \in Pb!Task
  BY <1>1, <1>2 DEF Pb!New, Pb!Task, Pb!Kind
<1>4. tasks' = tasks \/ tasks' = tasks \cup {u}
  BY <1>2
<1>5. \A x \in tasks \cup accepted : x.n < actions
  BY DEF PbInv, PbNumbered
<1>6. \A x \in tasks \cup accepted : x.n \in Nat
  BY DEF PbInv, Pb!TypeOK, Pb!Task, Pb!Event
<1>7. \A x \in tasks \cup accepted : x.n # u.n
  BY <1>1, <1>3, <1>5, <1>6
<1>8. Pb!TypeOK'
  BY <1>1, <1>3, <1>4 DEF PbInv, Pb!TypeOK
<1>9. PbShaped'
  BY <1>1, <1>3, <1>4 DEF PbInv, PbShaped
<1>10. PbNumbered'
  <2>1. \A x \in tasks' \cup accepted' : x.n < actions'
    BY <1>1, <1>3, <1>4, <1>5, <1>6
  <2>2. \A v, w \in tasks' : v.n = w.n => v = w
    BY <1>4, <1>7 DEF PbInv, PbNumbered
  <2>3. \A e \in accepted', v \in tasks' : e.part = 0 => e.n # v.n
    BY <1>4, <1>7 DEF PbInv, PbNumbered
  <2> QED BY <1>1, <2>1, <2>2, <2>3 DEF PbNumbered
<1>11. PbPatched'
  <2>1. \A i \in 1 .. Parts : ~(i < u.next)
    BY <1>1, <1>3
  <2> QED BY <1>4, <2>1 DEF PbInv, PbPatched
<1>12. PbSigned'
  BY <1>3, <1>4, <1>7 DEF PbInv, PbSigned
<1>13. Pb!PullIsWhole'
  BY DEF PbInv, Pb!PullIsWhole, Pb!Events
<1>14. PbFollowed'
  <2> SUFFICES ASSUME ~unseen', ~lastError', NEW n \in begun'
               PROVE  \/ \E e \in accepted : e.part = 0 /\ e.n = n
                      \/ \E t \in tasks' : t.n = n
    BY DEF PbFollowed
  <2>1. ~unseen /\ ~lastError /\ tasks \subseteq tasks'
    BY <1>1, <1>4
  <2>2. CASE n \in begun
    BY <2>1, <2>2 DEF PbInv, PbFollowed
  <2> QED BY <2>2
<1>15. PbBegun'
  BY DEF PbInv, PbBegun
<1> QED BY <1>8, <1>9, <1>10, <1>11, <1>12, <1>13, <1>14, <1>15 DEF PbInv

\* Somebody signs in or out; what is in flight is excused then.
LEMMA PbSwitches ==
  ASSUME PbInv, NEW p \in Person \cup {Nobody}, Pb!Switch(p)
  PROVE  PbInv'
<1>1. /\ user' = p /\ signer' = (IF p = Nobody THEN signer ELSE p)
      /\ switched' = (switched \/ tasks # {})
      /\ UNCHANGED <<announced, lastError, lastWarning, tasks, accepted, begun, unseen,
                     actions>>
  BY DEF Pb!Switch, Pb!messages
<1>2. Pb!TypeOK'
  BY <1>1 DEF PbInv, Pb!TypeOK
<1>3. PbShaped' /\ PbNumbered' /\ PbPatched' /\ PbFollowed' /\ PbBegun'
  BY <1>1 DEF PbInv, PbShaped, PbNumbered, PbPatched, PbFollowed, PbBegun
<1>4. PbSigned'
  BY <1>1 DEF PbInv, PbSigned
<1>5. Pb!PullIsWhole'
  BY <1>1 DEF PbInv, Pb!PullIsWhole, Pb!Events
<1> QED BY <1>2, <1>3, <1>4, <1>5 DEF PbInv

\* A message is dismissed, or nothing happens.
LEMMA PbStays ==
  ASSUME PbInv, {lastError', lastWarning', unseen'} \subseteq BOOLEAN,
         unseen' \/ (lastError' = lastError /\ unseen' = unseen),
         UNCHANGED <<announced, user, signer, tasks, accepted, begun, switched, actions,
                     switches>>
  PROVE  PbInv'
<1>1. Pb!TypeOK' /\ PbShaped' /\ PbNumbered' /\ PbPatched' /\ PbFollowed' /\ PbBegun'
  BY DEF PbInv, PbShaped, PbNumbered, PbPatched, PbFollowed, PbBegun, Pb!TypeOK
<1>2. PbSigned' /\ Pb!PullIsWhole'
  BY DEF PbInv, PbSigned, Pb!PullIsWhole, Pb!Events
<1> QED BY <1>1, <1>2 DEF PbInv

\* A patch is accepted.
LEMMA PbPatchAccepted ==
  ASSUME PbInv, NEW t \in tasks, Pb!PatchAccepted(t)
  PROVE  PbInv'
<1>1. /\ t \in Pb!Task /\ t.at = "series" /\ t.kind # "note" /\ t.next <= Parts
      /\ Parts \in Nat /\ t.next \in 1 .. Parts + 1
  BY RepositoryAssumption
  DEF PbInv, PbShaped, Pb!TypeOK, Pb!PatchAccepted, Pb!PublishAssumption, Pb!Task
<1> DEFINE at == IF t.next = Parts THEN "sign" ELSE "series"
<1>2. PICK u : u = [t EXCEPT !.next = t.next + 1, !.at = at]
  OBVIOUS
<1>3. /\ u \in Pb!Task /\ u.n = t.n /\ u.kind = t.kind /\ u.of = t.of /\ u.by = t.by
      /\ u.next = t.next + 1 /\ u.at = at
  <2>1. PICK next : next = t.next + 1 /\ next \in 1 .. Parts + 1
    BY <1>1
  <2> HIDE DEF at
  <2>2. PICK w : w = [t EXCEPT !.next = next]
    OBVIOUS
  <2>2a. /\ w \in Pb!Task /\ w.n = t.n /\ w.kind = t.kind /\ w.of = t.of /\ w.by = t.by
         /\ w.next = next
    BY <1>1, <2>1, <2>2 DEF Pb!Task
  <2>3. u = [w EXCEPT !.at = at]
    BY <1>1, <1>2, <2>1, <2>2 DEF Pb!Task
  <2>4. at \in {"series", "sign"}
    BY DEF at
  <2> QED BY <2>1, <2>2a, <2>3, <2>4 DEF Pb!Task
<1>4. PICK e : e = [n |-> t.n, kind |-> t.kind, part |-> t.next, by |-> signer, of |-> t.of]
  OBVIOUS
<1>5. /\ signer # Nobody /\ signer \in Person
      /\ accepted' = accepted \cup {e} /\ tasks' = (tasks \ {t}) \cup {u}
      /\ UNCHANGED <<announced, user, signer, lastError, lastWarning, begun, unseen,
                     switched, actions, switches>>
  BY <1>2, <1>4
  DEF Pb!PatchAccepted, Pb!Moved, Pb!Accept, Pb!who, Pb!messages, Pb!ghosts, PbInv,
      Pb!TypeOK
<1>6. e \in Pb!Event
  BY <1>1, <1>4, <1>5 DEF Pb!Task, Pb!Event
<1>7. e.n = t.n /\ e.part = t.next /\ e.by = signer /\ t.next # 0
  BY <1>1, <1>4
<1>8. \A i \in 1 .. Parts : i < u.next =>
        i < t.next \/ \E q \in accepted' : q.n = t.n /\ q.part = i
  <2> SUFFICES ASSUME NEW i \in 1 .. Parts, i < u.next, ~(i < t.next)
               PROVE  e.part = i
    BY <1>5, <1>7
  <2> QED BY <1>1, <1>3, <1>7
<1>9. \A q \in accepted' \ accepted :
        q \in Pb!Event /\ q.n = t.n /\ q.part # 0 /\ q.by = signer
  BY <1>5, <1>6, <1>7
<1>10. /\ u.at = "series" => u.kind # "note" /\ u.next <= Parts
       /\ (u.at # "series" /\ u.kind # "note") => u.next = Parts + 1
       /\ u.at \notin {"push", "publish"}
  BY <1>1, <1>3
<1>11. lastWarning \in BOOLEAN
  BY DEF PbInv, Pb!TypeOK
<1> QED BY <1>3, <1>5, <1>8, <1>9, <1>10, <1>11, PbMoves

\* An event is signed, and pushed: the task moves on by itself.
LEMMA PbAdvances ==
  ASSUME PbInv, NEW t \in tasks, Pb!Signed(t) \/ Pb!Pushed(t)
  PROVE  PbInv'
<1>1. /\ t \in Pb!Task /\ t.at \in {"sign", "push"}
      /\ t.kind # "note" => t.next = Parts + 1
      /\ t.at = "push" => t.by \in Person
      /\ signer \in Person \cup {Nobody} /\ lastWarning \in BOOLEAN
  BY DEF PbInv, PbShaped, Pb!TypeOK, Pb!Signed, Pb!Pushed
<1>2. CASE Pb!Signed(t)
  <2>1. PICK u : u = [t EXCEPT !.by = signer,
                               !.at = IF t.kind = "pull" THEN "push" ELSE "publish"]
    OBVIOUS
  <2>2. /\ u \in Pb!Task /\ u.n = t.n /\ u.kind = t.kind /\ u.of = t.of
        /\ u.next = t.next /\ u.by = signer /\ u.at \in {"push", "publish"}
    BY <1>1, <2>1 DEF Pb!Task
  <2>3. /\ signer # Nobody /\ tasks' = (tasks \ {t}) \cup {u}
        /\ UNCHANGED <<announced, user, signer, lastError, lastWarning, accepted, begun,
                       unseen, switched, actions, switches>>
    BY <1>2, <2>1 DEF Pb!Signed, Pb!Moved, Pb!who, Pb!messages, Pb!ghosts
  <2>4. \A q \in accepted' \ accepted : FALSE
    BY <2>3
  <2> QED BY <1>1, <2>2, <2>3, <2>4, PbMoves
<1>3. CASE Pb!Pushed(t)
  <2>1. PICK u : u = [t EXCEPT !.at = "publish"]
    OBVIOUS
  <2>2. /\ u \in Pb!Task /\ u.n = t.n /\ u.kind = t.kind /\ u.of = t.of
        /\ u.next = t.next /\ u.by = t.by /\ u.at = "publish"
    BY <1>1, <2>1 DEF Pb!Task
  <2>3. /\ t.at = "push" /\ tasks' = (tasks \ {t}) \cup {u} /\ lastWarning' \in BOOLEAN
        /\ UNCHANGED <<announced, user, signer, lastError, accepted, begun,
                       unseen, switched, actions, switches>>
    BY <1>1, <1>3, <2>1 DEF Pb!Pushed, Pb!Moved, Pb!who, Pb!ghosts
  <2>4. \A q \in accepted' \ accepted : FALSE
    BY <2>3
  <2> QED BY <1>1, <2>2, <2>3, <2>4, PbMoves
<1> QED BY <1>2, <1>3

\* A step that fails ends its task.
LEMMA PbFails ==
  ASSUME PbInv, NEW t \in tasks, Pb!PatchFails(t) \/ Pb!SignFails(t) \/ Pb!PublishFails(t)
  PROVE  PbInv'
<1>0. lastError \in BOOLEAN /\ unseen \in BOOLEAN
  BY DEF PbInv, Pb!TypeOK
<1>1. CASE Pb!SignFails(t)
  <2>1. /\ lastError' \in BOOLEAN /\ unseen' \in BOOLEAN /\ (lastError' \/ unseen')
    BY <1>0, <1>1 DEF Pb!SignFails, Pb!Unreported
  <2>2. /\ tasks' = tasks \ {t}
        /\ UNCHANGED <<announced, user, signer, lastWarning, accepted, begun, switched,
                       actions, switches>>
    BY <1>1 DEF Pb!SignFails, Pb!who
  <2> QED BY <2>1, <2>2, PbEnds
<1>2. CASE Pb!PatchFails(t) \/ Pb!PublishFails(t)
  <2>1. /\ lastError' = TRUE /\ tasks' = tasks \ {t}
        /\ UNCHANGED <<announced, user, signer, lastWarning, accepted, begun, unseen,
                       switched, actions, switches>>
    BY <1>2 DEF Pb!PatchFails, Pb!PublishFails, Pb!Reported, Pb!who, Pb!ghosts
  <2> QED BY <1>0, <2>1, PbEnds
<1> QED BY <1>1, <1>2

\* Every step of publishing keeps it.
LEMMA PbKept == PbInv /\ [Pb!Next]_pb => PbInv'
<1> SUFFICES ASSUME PbInv, [Pb!Next]_pb PROVE PbInv'
  OBVIOUS
<1>0. {lastError, lastWarning, unseen} \subseteq BOOLEAN
  BY DEF PbInv, Pb!TypeOK
<1>1. ASSUME NEW kind \in {"pull", "revision"}, NEW valid \in BOOLEAN, Pb!Open(kind, valid)
      PROVE  PbInv'
  <2>0. /\ \/ tasks' = tasks /\ lastError' = TRUE
           \/ tasks' = tasks \cup {Pb!New(kind)} /\ lastError' = FALSE
        /\ user # Nobody \/ tasks' = tasks
    <3>1. CASE announced /\ valid /\ user # Nobody
      BY <1>1, <3>1 DEF Pb!Open
    <3>2. CASE ~(announced /\ valid /\ user # Nobody)
      BY <1>1, <3>2 DEF Pb!Open
    <3> QED BY <3>1, <3>2
  <2>1. /\ kind \in Pb!Kind
        /\ actions' = actions + 1 /\ lastWarning' = FALSE
        /\ begun' = begun \cup {t.n : t \in tasks'} /\ unseen' = (unseen \/ lastError)
        /\ UNCHANGED <<announced, user, signer, accepted, switched, switches>>
    BY <1>1 DEF Pb!Open, Pb!Act, Pb!who, Pb!Kind
  <2> QED BY <2>0, <2>1, PbBegins
<1>2. CASE Pb!Note
  <2>1. /\ actions' = actions + 1 /\ lastWarning' \in BOOLEAN
        /\ \/ tasks' = tasks /\ lastError' = TRUE
           \/ tasks' = tasks \cup {Pb!New("note")} /\ lastError' = FALSE
        /\ begun' = begun \cup {t.n : t \in tasks'} /\ unseen' = (unseen \/ lastError)
        /\ UNCHANGED <<announced, user, signer, accepted, switched, switches>>
    BY <1>0, <1>2 DEF Pb!Note, Pb!Act, Pb!who
  <2>2. "note" \in Pb!Kind
    BY DEF Pb!Kind
  <2> QED BY <2>1, <2>2, PbBegins
<1>3. CASE Pb!Dismiss
  <2>1. /\ lastError' \in BOOLEAN /\ lastWarning' \in BOOLEAN /\ unseen' \in BOOLEAN
        /\ unseen' \/ (lastError' = lastError /\ unseen' = unseen)
        /\ UNCHANGED <<announced, user, signer, tasks, accepted, begun, switched,
                       actions, switches>>
    BY <1>0, <1>3 DEF Pb!Dismiss, Pb!who
  <2> QED BY <2>1, PbStays
<1>4. CASE UNCHANGED pb
  BY <1>0, <1>4, PbStays DEF pb
<1> QED
  BY <1>1, <1>2, <1>3, <1>4, PbSwitches, PbPatchAccepted, PbAdvances, PbFails, PbPublishes
  DEF Pb!Next, Pb!Step

\* At first nothing is in flight and nothing was begun.
LEMMA PbStarts == Pb!Init => PbInv
<1> SUFFICES ASSUME Pb!Init PROVE PbInv
  OBVIOUS
<1>1. Pb!TypeOK
  BY DEF Pb!Init, Pb!TypeOK
<1>2. PbShaped /\ PbNumbered /\ PbPatched /\ PbSigned
  BY DEF Pb!Init, PbShaped, PbNumbered, PbPatched, PbSigned
<1>3. Pb!PullIsWhole /\ PbFollowed /\ PbBegun
  BY DEF Pb!Init, Pb!PullIsWhole, Pb!Events, PbFollowed, PbBegun
<1> QED BY <1>1, <1>2, <1>3 DEF PbInv

\* Nothing that was begun is lost from sight.
LEMMA PbShows == PbInv => Pb!FailuresAreShown
<1> SUFFICES ASSUME PbInv, tasks = {}, ~unseen, ~lastError
             PROVE  begun = {e.n : e \in {e \in accepted : e.part = 0}}
  BY DEF Pb!FailuresAreShown
<1> QED BY DEF PbInv, PbFollowed, PbBegun

-----------------------------------------------------------------------------
(* Listing: sorting *)

\* Among natural numbers one is the least.
LEMMA LeastNatural ==
  ASSUME NEW S \in SUBSET Nat, S # {}
  PROVE  \E m \in S : \A k \in S : m <= k
<1>1. PICK m \in S : \A k \in S : <<k, m>> \notin OpToRel(<, Nat)
  BY NatLessThanWellFounded, WFMin
<1>2. \A k \in S : ~ (k < m)
  BY <1>1 DEF OpToRel
<1> QED
  BY <1>2

\* Listing counts as the library does.
LEMMA LsCounts == \A S : Ls!Cardinality(S) = Cardinality(S)
  BY DEF Ls!Cardinality, Cardinality

\* Posts differ by their ids.
LsDistinct(S) == \A p, q \in S : p.id = q.id => p = q

\* What is listed before a post.
LsBefore(S, p) == {q \in S : q.at > p.at \/ (q.at = p.at /\ q.id > p.id)}

\* Something is listed last.
LEMMA LsLast ==
  ASSUME NEW S \in SUBSET Ls!Post, S # {}, LsDistinct(S)
  PROVE  \E p \in S : LsBefore(S, p) = S \ {p}
<1> DEFINE times == {p.at : p \in S}
<1>1. \A p \in S : p.at \in Nat /\ p.id \in Nat
  BY DEF Ls!Post
<1>2. PICK a \in times : \A k \in times : a <= k
  <2>1. times \in SUBSET Nat /\ times # {}
    BY <1>1
  <2> HIDE DEF times
  <2> QED BY <2>1, LeastNatural
<1> DEFINE ids == {p.id : p \in {q \in S : q.at = a}}
<1>3. PICK d \in ids : \A k \in ids : d <= k
  <2>1. ids \in SUBSET Nat /\ ids # {}
    BY <1>1, <1>2
  <2> HIDE DEF ids
  <2> QED BY <2>1, LeastNatural
<1>4. PICK p \in S : p.at = a /\ p.id = d
  BY <1>3
<1>5. ASSUME NEW q \in S, q # p
      PROVE  q.at > p.at \/ (q.at = p.at /\ q.id > p.id)
  <2>1. q.id # p.id
    BY <1>5 DEF LsDistinct
  <2>2. a <= q.at /\ (q.at = a => d <= q.id)
    BY <1>2, <1>3
  <2> QED BY <1>1, <1>4, <2>1, <2>2
<1>6. ~(p.at > p.at) /\ ~(p.id > p.id)
  BY <1>1
<1> QED BY <1>5, <1>6 DEF LsBefore

\* The sets of some size that are sorted: each place is somebody's.
LsSorted(S) ==
  \A i \in 1 .. Cardinality(S) : \E p \in S : Cardinality(LsBefore(S, p)) = i - 1

\* The last one and the others in their order.
LEMMA LsSortedStep ==
  ASSUME NEW S \in SUBSET Ls!Post, IsFiniteSet(S), LsDistinct(S), S # {},
         \A p \in S : LsSorted(S \ {p})
  PROVE  LsSorted(S)
<1>1. PICK p \in S : LsBefore(S, p) = S \ {p}
  BY LsLast
<1>2. /\ IsFiniteSet(S \ {p}) /\ Cardinality(S \ {p}) = Cardinality(S) - 1
      /\ Cardinality(S) \in Nat /\ Cardinality(S \ {p}) \in Nat
  BY FS_RemoveElement, FS_CardinalityType
<1>3. ASSUME NEW q \in S \ {p} PROVE LsBefore(S, q) = LsBefore(S \ {p}, q)
  <2>1. q \in LsBefore(S, p)
    BY <1>1
  <2>2. q.at \in Nat /\ q.id \in Nat /\ p.at \in Nat /\ p.id \in Nat
    BY DEF Ls!Post
  <2>3. p \notin LsBefore(S, q)
    BY <2>1, <2>2 DEF LsBefore
  <2> QED BY <2>3 DEF LsBefore
<1> SUFFICES ASSUME NEW i \in 1 .. Cardinality(S)
             PROVE  \E q \in S : Cardinality(LsBefore(S, q)) = i - 1
  BY DEF LsSorted
<1>4. CASE i = Cardinality(S)
  BY <1>1, <1>2, <1>4
<1>5. CASE i # Cardinality(S)
  <2>1. i \in 1 .. Cardinality(S \ {p})
    BY <1>2, <1>5
  <2>2. PICK q \in S \ {p} : Cardinality(LsBefore(S \ {p}, q)) = i - 1
    BY <2>1 DEF LsSorted
  <2> QED BY <1>3, <2>2
<1> QED BY <1>4, <1>5

\* Every finite set of posts with different ids is sorted.
LEMMA LsSorting ==
  ASSUME NEW S \in SUBSET Ls!Post, IsFiniteSet(S), LsDistinct(S)
  PROVE  LsSorted(S)
<1> DEFINE bad == {n \in Nat : \E T \in SUBSET Ls!Post :
                     IsFiniteSet(T) /\ LsDistinct(T) /\ Cardinality(T) = n /\ ~LsSorted(T)}
<1>1. SUFFICES ASSUME ~LsSorted(S) PROVE FALSE
  OBVIOUS
<1>2. Cardinality(S) \in bad
  BY <1>1, FS_CardinalityType
<1>3. PICK n \in bad : \A k \in bad : n <= k
  <2>1. bad \in SUBSET Nat /\ bad # {}
    BY <1>2
  <2> HIDE DEF bad
  <2> QED BY <2>1, LeastNatural
<1>4. PICK T \in SUBSET Ls!Post :
        IsFiniteSet(T) /\ LsDistinct(T) /\ Cardinality(T) = n /\ ~LsSorted(T)
  BY <1>3
<1>5. T # {}
  <2>1. ASSUME T = {} PROVE LsSorted(T)
    <3>1. Cardinality(T) = 0
      BY <2>1, FS_EmptySet
    <3> QED BY <3>1 DEF LsSorted
  <2> QED BY <1>4, <2>1
<1>6. ASSUME NEW p \in T PROVE LsSorted(T \ {p})
  <2>1. /\ IsFiniteSet(T \ {p}) /\ Cardinality(T \ {p}) = n - 1 /\ n \in Nat
        /\ Cardinality(T \ {p}) \in Nat
    BY <1>3, <1>4, FS_RemoveElement, FS_CardinalityType
  <2>2. T \ {p} \in SUBSET Ls!Post /\ LsDistinct(T \ {p})
    BY <1>4 DEF LsDistinct
  <2>3. n - 1 \notin bad
    BY <1>3, <2>1
  <2> QED BY <2>1, <2>2, <2>3
<1> QED BY <1>4, <1>5, <1>6, LsSortedStep

\* A list sorted has as many places as posts, and a post at each.
LEMMA LsNewestFirst ==
  ASSUME NEW S \in SUBSET Ls!Post, IsFiniteSet(S), LsDistinct(S)
  PROVE  /\ DOMAIN Ls!NewestFirst(S) = 1 .. Cardinality(S)
         /\ \A i \in 1 .. Cardinality(S) : Ls!NewestFirst(S)[i] \in S
<1>1. Ls!NewestFirst(S) =
        [i \in 1 .. Ls!Cardinality(S) |->
           CHOOSE p \in S : Ls!Cardinality(LsBefore(S, p)) = i - 1]
  BY DEF Ls!NewestFirst, LsBefore
<1>2. Ls!Cardinality(S) = Cardinality(S)
  BY LsCounts
<1>3. ASSUME NEW i \in 1 .. Cardinality(S)
      PROVE  \E p \in S : Ls!Cardinality(LsBefore(S, p)) = i - 1
  <2>1. PICK p \in S : Cardinality(LsBefore(S, p)) = i - 1
    BY LsSorting DEF LsSorted
  <2>2. Ls!Cardinality(LsBefore(S, p)) = Cardinality(LsBefore(S, p))
    BY LsCounts
  <2> QED BY <2>1, <2>2
<1> QED BY <1>1, <1>2, <1>3

-----------------------------------------------------------------------------
(* Listing: the lists *)

\* The database has as many ids as posts.
LsNumbered ==
  /\ posts \in SUBSET Ls!Post /\ statuses \in SUBSET Ls!StatusEvent
  /\ IsFiniteSet(posts) /\ Cardinality(posts) <= MaxPosts
  /\ LsDistinct(posts) /\ \A p \in posts : p.id <= Cardinality(posts)

\* The store shows what was read, and the lists are built from the store.
LsBuilt ==
  /\ read \in Ls!Snapshot /\ read.posts \subseteq posts
  /\ store = Ls!Computed(read)
  /\ filter \in [Ls!Side -> Ls!Filter]
  /\ list = [k \in Ls!Side |-> Ls!Rebuilt(store, k, filter[k])]

LsInv == LsNumbered /\ LsBuilt

\* A post has a new id.
LEMMA LsPostArrives == ASSUME LsInv, Ls!PostArrives PROVE LsInv'
<1>1. PICK p : /\ posts' = posts \cup {p} /\ p \in Ls!Post /\ p.id = Cardinality(posts) + 1
               /\ Cardinality(posts) < MaxPosts
  <2>1. PICK kind \in Ls!Kind, by \in Person, at \in 1 .. MaxTime :
          /\ Ls!Cardinality(posts) < MaxPosts
          /\ posts' = posts \cup {[id |-> Ls!Cardinality(posts) + 1, kind |-> kind,
                                   by |-> by, at |-> at]}
    BY DEF Ls!PostArrives
  <2>2. Ls!Cardinality(posts) = Cardinality(posts) /\ Cardinality(posts) \in Nat
    BY LsCounts, FS_CardinalityType DEF LsInv, LsNumbered
  <2>3. PICK p : p = [id |-> Cardinality(posts) + 1, kind |-> kind, by |-> by, at |-> at]
    OBVIOUS
  <2>4. MaxPosts \in Nat
    BY RepositoryAssumption DEF Ls!ListingAssumption
  <2>5. p \in Ls!Post /\ p.id = Cardinality(posts) + 1
    BY <2>1, <2>2, <2>3, <2>4 DEF Ls!Post
  <2> QED BY <2>1, <2>2, <2>3, <2>5
<1>2. UNCHANGED <<statuses, store, read, filter, list>>
  BY DEF Ls!PostArrives
<1>3. /\ Cardinality(posts) \in Nat /\ MaxPosts \in Nat
      /\ \A q \in posts : q.id \in Nat /\ q.id <= Cardinality(posts)
  BY RepositoryAssumption, FS_CardinalityType
  DEF LsInv, LsNumbered, Ls!ListingAssumption, Ls!Post
<1>4. p \notin posts
  BY <1>1, <1>3
<1>5. IsFiniteSet(posts') /\ Cardinality(posts') = Cardinality(posts) + 1
  BY <1>1, <1>4, FS_AddElement DEF LsInv, LsNumbered
<1>6. LsNumbered'
  <2>1. LsDistinct(posts')
    BY <1>1, <1>3 DEF LsInv, LsNumbered, LsDistinct
  <2>2. \A q \in posts' : q.id <= Cardinality(posts')
    BY <1>1, <1>3, <1>5
  <2>3. Cardinality(posts') <= MaxPosts
    BY <1>1, <1>3, <1>5
  <2>4. posts' \in SUBSET Ls!Post /\ statuses' \in SUBSET Ls!StatusEvent
    BY <1>1, <1>2 DEF LsInv, LsNumbered
  <2> QED BY <1>5, <2>1, <2>2, <2>3, <2>4 DEF LsNumbered
<1>7. LsBuilt'
  BY <1>1, <1>2 DEF LsInv, LsBuilt
<1> QED BY <1>6, <1>7 DEF LsInv

\* Every step of the lists keeps it.
LEMMA LsKept == LsInv /\ [Ls!Next]_ls => LsInv'
<1> SUFFICES ASSUME LsInv, [Ls!Next]_ls PROVE LsInv'
  OBVIOUS
<1>1. CASE Ls!StatusArrives
  <2>1. statuses' \in SUBSET Ls!StatusEvent
    <3>1. PICK p \in posts, by \in Person, says \in Status, at \in 1 .. MaxTime :
            statuses' = statuses \cup
              {[of |-> p.id, by |-> by, says |-> says, at |-> at]}
      BY <1>1 DEF Ls!StatusArrives
    <3>2. p.id \in 1 .. MaxPosts
      BY DEF LsInv, LsNumbered, Ls!Post
    <3> QED BY <3>1, <3>2 DEF LsInv, LsNumbered, Ls!StatusEvent
  <2> QED BY <1>1, <2>1 DEF Ls!StatusArrives, LsInv, LsNumbered, LsBuilt
<1>2. CASE Ls!Land
  <2>1. read' \in Ls!Snapshot /\ read'.posts \subseteq posts
    BY <1>2 DEF Ls!Land, LsInv, LsNumbered, Ls!Snapshot
  <2> QED BY <1>2, <2>1 DEF Ls!Land, LsInv, LsNumbered, LsBuilt
<1>3. ASSUME NEW k \in Ls!Side, NEW f \in Ls!Filter, Ls!Choose(k, f)
      PROVE  LsInv'
  <2>1. /\ filter' = [filter EXCEPT ![k] = f]
        /\ list' = [list EXCEPT ![k] = Ls!Rebuilt(store, k, f)]
        /\ UNCHANGED <<posts, statuses, store, read>>
    BY <1>3 DEF Ls!Choose
  <2>2. filter' \in [Ls!Side -> Ls!Filter]
    BY <2>1 DEF LsInv, LsBuilt
  <2>3. list' = [j \in Ls!Side |-> Ls!Rebuilt(store, j, filter'[j])]
    BY <2>1 DEF LsInv, LsBuilt
  <2> QED BY <2>1, <2>2, <2>3 DEF LsInv, LsNumbered, LsBuilt
<1>4. CASE UNCHANGED ls
  BY <1>4 DEF ls, LsInv, LsNumbered, LsBuilt
<1> QED BY <1>1, <1>2, <1>3, <1>4, LsPostArrives DEF Ls!Next

\* At first the database and the lists are empty.
LEMMA LsStarts == Ls!Init => LsInv
<1> SUFFICES ASSUME Ls!Init PROVE LsInv
  OBVIOUS
<1>1. MaxPosts \in Nat /\ OpenStatus \in Ls!Filter
  BY RepositoryAssumption DEF Ls!ListingAssumption, Ls!Filter
<1>2. LsNumbered
  BY <1>1, FS_EmptySet DEF Ls!Init, LsNumbered, LsDistinct
<1>3. LsBuilt
  BY <1>1 DEF Ls!Init, LsBuilt, Ls!Snapshot, Ls!Empty
<1> QED BY <1>2, <1>3 DEF LsInv

\* The sequences of the store are of the posts that were read.
LEMMA LsSequences ==
  ASSUME LsInv, NEW kinds, NEW S, S = {p \in read.posts : p.kind \in kinds}
  PROVE  /\ DOMAIN Ls!NewestFirst(S) = 1 .. Cardinality(S)
         /\ Cardinality(S) \in Nat /\ Cardinality(S) <= MaxPosts
         /\ \A i \in 1 .. Cardinality(S) : Ls!NewestFirst(S)[i] \in S
<1>1. S \in SUBSET posts /\ S \in SUBSET Ls!Post
  BY DEF LsInv, LsNumbered, LsBuilt
<1>2. IsFiniteSet(S) /\ Cardinality(S) <= Cardinality(posts) /\ Cardinality(S) \in Nat
      /\ Cardinality(posts) \in Nat /\ MaxPosts \in Nat
  BY <1>1, FS_Subset, FS_CardinalityType, RepositoryAssumption
  DEF LsInv, LsNumbered, Ls!ListingAssumption
<1>3. LsDistinct(S)
  BY <1>1 DEF LsInv, LsNumbered, LsDistinct
<1>4. Cardinality(S) <= MaxPosts
  <2>1. Cardinality(posts) <= MaxPosts
    BY DEF LsInv, LsNumbered
  <2> QED BY <1>2, <2>1
<1> QED BY <1>1, <1>2, <1>3, <1>4, LsNewestFirst

\* A row is numbered among the roots before it.
LEMMA LsRows ==
  ASSUME LsInv, NEW n \in Nat, n <= MaxPosts, NEW roots \in SUBSET (1 .. n), NEW i \in roots
  PROVE  /\ Ls!Cardinality({j \in roots : j <= i}) \in 1 .. MaxPosts
         /\ roots = 1 .. n => Ls!Cardinality({j \in roots : j <= i}) = i
<1> DEFINE before == {j \in roots : j <= i}
<1>1. Ls!Cardinality(before) = Cardinality(before)
  BY LsCounts
<1>2. IsFiniteSet(1 .. n) /\ Cardinality(1 .. n) = n
  BY FS_Interval
<1>3. before \in SUBSET (1 .. n) /\ i \in before /\ i \in 1 .. n
  <2>1. i \in 1 .. n /\ i <= i
    OBVIOUS
  <2> QED BY <2>1
<1>4. roots = 1 .. n => before = 1 .. i
  BY <1>3
<1>5. IsFiniteSet(1 .. i) /\ Cardinality(1 .. i) = i
  BY <1>3, FS_Interval
<1> HIDE DEF before
<1>6. IsFiniteSet(before) /\ Cardinality(before) <= n
  BY <1>2, <1>3, FS_Subset
<1>7. Cardinality(before) \in Nat /\ Cardinality(before) # 0
  BY <1>3, <1>6, FS_CardinalityType, FS_EmptySet
<1>8. Cardinality(before) \in 1 .. MaxPosts
  BY <1>6, <1>7, RepositoryAssumption DEF Ls!ListingAssumption
<1>9. roots = 1 .. n => Cardinality(before) = i
  BY <1>4, <1>5
<1> QED BY <1>1, <1>8, <1>9 DEF before

\* The sequence that a list is of.
LsOf(side) == IF side = "pr" THEN store.prs ELSE store.issues
LsRoots(side) == {i \in DOMAIN LsOf(side) : Ls!IsRoot(LsOf(side)[i])}
LsStatus(side, i) == store.status[LsOf(side)[i].id]

\* What a list shows and counts.
LEMMA LsShows ==
  ASSUME LsInv, NEW side \in Ls!Side
  PROVE  /\ list[side].visible =
              {Ls!Cardinality({j \in LsRoots(side) : j <= i}) :
                 i \in {j \in LsRoots(side) : filter[side] \in {All, LsStatus(side, j)}}}
         /\ list[side].counts =
              [x \in Status |-> Ls!Cardinality({i \in LsRoots(side) : LsStatus(side, i) = x})]
         /\ \E n \in Nat : n <= MaxPosts /\ DOMAIN LsOf(side) = 1 .. n
<1>1. list[side] = Ls!Rebuilt(store, side, filter[side])
  BY DEF LsInv, LsBuilt
<1>2. /\ store.issues = Ls!NewestFirst({p \in read.posts : p.kind = "issue"})
      /\ store.prs = Ls!NewestFirst({p \in read.posts : p.kind # "issue"})
  BY DEF LsInv, LsBuilt, Ls!Computed
<1>3. /\ {p \in read.posts : p.kind = "issue"} = {p \in read.posts : p.kind \in {"issue"}}
      /\ {p \in read.posts : p.kind # "issue"} = {p \in read.posts : p.kind \in {"pr", "update"}}
  BY DEF LsInv, LsBuilt, Ls!Snapshot, Ls!Post, Ls!Kind
<1>4. \E n \in Nat : n <= MaxPosts /\ DOMAIN store.issues = 1 .. n
  <2>1. PICK kinds : kinds = {"issue"}
    OBVIOUS
  <2>1a. PICK S : S = {p \in read.posts : p.kind \in kinds}
    OBVIOUS
  <2>2. Cardinality(S) \in Nat /\ Cardinality(S) <= MaxPosts
        /\ DOMAIN Ls!NewestFirst(S) = 1 .. Cardinality(S)
    BY <2>1a, LsSequences
  <2>3. store.issues = Ls!NewestFirst(S)
    BY <1>2, <1>3, <2>1, <2>1a
  <2> QED BY <2>2, <2>3
<1>5. \E n \in Nat : n <= MaxPosts /\ DOMAIN store.prs = 1 .. n
  <2>1. PICK kinds : kinds = {"pr", "update"}
    OBVIOUS
  <2>1a. PICK S : S = {p \in read.posts : p.kind \in kinds}
    OBVIOUS
  <2>2. Cardinality(S) \in Nat /\ Cardinality(S) <= MaxPosts
        /\ DOMAIN Ls!NewestFirst(S) = 1 .. Cardinality(S)
    BY <2>1a, LsSequences
  <2>3. store.prs = Ls!NewestFirst(S)
    BY <1>2, <1>3, <2>1, <2>1a
  <2> QED BY <2>2, <2>3
<1>6. \E n \in Nat : n <= MaxPosts /\ DOMAIN LsOf(side) = 1 .. n
  BY <1>4, <1>5 DEF LsOf
<1>7. list[side].visible =
              {Ls!Cardinality({j \in LsRoots(side) : j <= i}) :
                 i \in {j \in LsRoots(side) : filter[side] \in {All, LsStatus(side, j)}}}
  BY <1>1 DEF Ls!Rebuilt, LsOf, LsRoots, LsStatus
<1>8. list[side].counts =
              [x \in Status |-> Ls!Cardinality({i \in LsRoots(side) : LsStatus(side, i) = x})]
  BY <1>1 DEF Ls!Rebuilt, LsOf, LsRoots, LsStatus
<1> QED BY <1>6, <1>7, <1>8

\* The lists keep their type.
LEMMA LsTyped == LsInv => Ls!TypeOK
<1> SUFFICES ASSUME LsInv PROVE Ls!TypeOK
  OBVIOUS
<1>1. ASSUME NEW k \in Ls!Side PROVE list[k].visible \subseteq 1 .. MaxPosts
  <2>1. PICK n \in Nat : n <= MaxPosts /\ DOMAIN LsOf(k) = 1 .. n
    BY LsShows
  <2>2. LsRoots(k) \in SUBSET (1 .. n)
    BY <2>1 DEF LsRoots
  <2>3. \A i \in LsRoots(k) : Ls!Cardinality({j \in LsRoots(k) : j <= i}) \in 1 .. MaxPosts
    BY <2>1, <2>2, LsRows
  <2>4. list[k].visible =
          {Ls!Cardinality({j \in LsRoots(k) : j <= i}) :
             i \in {j \in LsRoots(k) : filter[k] \in {All, LsStatus(k, j)}}}
    BY LsShows
  <2> SUFFICES ASSUME NEW x \in list[k].visible PROVE x \in 1 .. MaxPosts
    OBVIOUS
  <2>5. PICK i \in {j \in LsRoots(k) : filter[k] \in {All, LsStatus(k, j)}} :
          x = Ls!Cardinality({j \in LsRoots(k) : j <= i})
    BY <2>4
  <2>6. i \in LsRoots(k)
    BY <2>5
  <2> HIDE <2>4
  <2> QED BY <2>3, <2>5, <2>6
<1> QED BY <1>1 DEF LsInv, LsNumbered, LsBuilt, Ls!TypeOK

\* The badges and the buttons count the same posts.
LEMMA LsAgree == LsInv => Ls!BadgesAgree
<1> SUFFICES ASSUME LsInv, NEW k \in Ls!Side
             PROVE  Ls!OpenCount(store, k) = list[k].counts[OpenStatus]
  BY DEF Ls!BadgesAgree
<1>1. OpenStatus \in Status
  BY RepositoryAssumption DEF Ls!ListingAssumption
<1>2. list[k].counts[OpenStatus] =
        Ls!Cardinality({i \in LsRoots(k) : LsStatus(k, i) = OpenStatus})
  BY <1>1, LsShows
<1>3. Ls!OpenCount(store, k) =
        Ls!Cardinality({i \in DOMAIN LsOf(k) :
                          Ls!Counts(LsOf(k)[i]) /\ LsStatus(k, i) = OpenStatus})
  BY DEF Ls!OpenCount, LsOf, LsStatus
<1>4. {i \in DOMAIN LsOf(k) : Ls!Counts(LsOf(k)[i]) /\ LsStatus(k, i) = OpenStatus}
        = {i \in LsRoots(k) : LsStatus(k, i) = OpenStatus}
  BY DEF LsRoots, Ls!Counts, Ls!IsRoot
<1> QED BY <1>2, <1>3, <1>4

\* The status of an item is the last word of its author and the maintainers.
LEMMA LsSays ==
  ASSUME LsInv, NEW p
  PROVE  /\ Ls!Resolved(read.statuses, p) \in Status
         /\ Ls!Says(p, Ls!Resolved(read.statuses, p))
<1> DEFINE trusted == {e \in read.statuses : e.of = p.id /\ Ls!Resolves(e, p)}
           newest == {e \in trusted : \A f \in trusted : f.at <= e.at}
           theirs == {e \in read.statuses : e.of = p.id /\ e.by \in Trusted \cup {p.by}}
<1>1. OpenStatus \in Status
  BY RepositoryAssumption DEF Ls!ListingAssumption
<1>2. trusted = theirs
  BY DEF Ls!Resolves
<1>3. \A e \in newest : e.says \in Status
  BY DEF LsInv, LsBuilt, Ls!Snapshot, Ls!StatusEvent
<1>4. Ls!Resolved(read.statuses, p) =
        IF newest = {} THEN OpenStatus ELSE (CHOOSE e \in newest : TRUE).says
  BY DEF Ls!Resolved
<1>5. \A s : Ls!Says(p, s) <=> IF newest = {} THEN s = OpenStatus ELSE \E e \in newest : e.says = s
  BY <1>2 DEF Ls!Says
<1> HIDE DEF newest
<1>6. CASE newest = {}
  BY <1>1, <1>4, <1>5, <1>6
<1>7. CASE newest # {}
  <2>1. (CHOOSE e \in newest : TRUE) \in newest
    BY <1>7
  <2> QED BY <1>3, <1>4, <1>5, <1>7, <2>1
<1> QED BY <1>6, <1>7

\* The list of issues shows what the trusted people said last.
LEMMA LsIssues == LsInv => Ls!IssuesAreThoseSaid
<1> SUFFICES ASSUME LsInv, NEW i \in DOMAIN store.issues
             PROVE  LET p == store.issues[i]
                    IN  /\ (i \in list["issue"].visible /\ filter["issue"] # All)
                             => Ls!Says(p, filter["issue"])
                        /\ i \notin list["issue"].visible =>
                             \E s \in Status \ {filter["issue"]} : Ls!Says(p, s)
  BY DEF Ls!IssuesAreThoseSaid
<1> DEFINE S == {p \in read.posts : p.kind \in {"issue"}}
<1>1. store.issues = Ls!NewestFirst(S)
  BY DEF LsInv, LsBuilt, Ls!Computed
<1>2. PICK n \in Nat : n <= MaxPosts /\ DOMAIN store.issues = 1 .. n
                       /\ \A j \in 1 .. n : store.issues[j] \in S
  BY <1>1, LsSequences
<1>3. LsOf("issue") = store.issues /\ "issue" \in Ls!Side
  BY DEF LsOf, Ls!Side
<1>4. LsRoots("issue") = 1 .. n
  BY <1>2, <1>3 DEF LsRoots, Ls!IsRoot, Ls!Side
<1>5. PICK p \in read.posts : p = store.issues[i]
  BY <1>2
<1>6. LsStatus("issue", i) = Ls!Resolved(read.statuses, p)
  <2>1. p \in posts /\ p \in Ls!Post /\ read.posts \subseteq posts /\ LsDistinct(posts)
    BY DEF LsInv, LsNumbered, LsBuilt
  <2>2. p.id \in 1 .. MaxPosts
    BY <2>1 DEF Ls!Post
  <2>3. (CHOOSE q \in read.posts : q.id = p.id) = p
    BY <2>1 DEF LsDistinct
  <2>4. store.status[p.id] =
          IF \E q \in read.posts : q.id = p.id
            THEN Ls!Resolved(read.statuses, CHOOSE q \in read.posts : q.id = p.id)
            ELSE OpenStatus
    BY <2>2 DEF LsInv, LsBuilt, Ls!Computed
  <2> QED BY <1>3, <1>5, <2>3, <2>4 DEF LsStatus
<1>7. \A j \in 1 .. n : Ls!Cardinality({m \in 1 .. n : m <= j}) = j
  BY <1>2, LsRows
<1>8. list["issue"].visible = {j \in 1 .. n : filter["issue"] \in {All, LsStatus("issue", j)}}
  <2>1. list["issue"].visible =
          {Ls!Cardinality({m \in LsRoots("issue") : m <= j}) :
             j \in {k \in LsRoots("issue") : filter["issue"] \in {All, LsStatus("issue", k)}}}
    BY <1>3, LsShows
  <2>2. \A j \in 1 .. n : Ls!Cardinality({m \in LsRoots("issue") : m <= j}) = j
    <3> SUFFICES ASSUME NEW j \in 1 .. n
                 PROVE  Ls!Cardinality({m \in LsRoots("issue") : m <= j}) = j
      OBVIOUS
    <3>1. {m \in LsRoots("issue") : m <= j} = {m \in 1 .. n : m <= j}
      BY <1>4
    <3> QED BY <1>7, <3>1
  <2> QED BY <1>4, <2>1, <2>2
<1>9. i \in 1 .. n
  BY <1>2
<1>10. /\ Ls!Resolved(read.statuses, p) \in Status
       /\ Ls!Says(p, Ls!Resolved(read.statuses, p))
  BY LsSays
<1> QED BY <1>5, <1>6, <1>8, <1>9, <1>10

-----------------------------------------------------------------------------
(* RepoStore: whom it has asked *)

\* The variables keep their types, and what is asked is asked of somebody.
StTyped ==
  /\ St!TypeOK /\ held \in [St!Where -> St!Content]
  /\ {current, refetched, unreached} \subseteq BOOLEAN
  /\ \A x \in asked : \E r \in St!Where : \E y : x = <<r, y>>

\* A local repository has asked nobody and found nothing.
StLocal ==
  addr = FALSE =>
    /\ announcement = 0 /\ repoRelays = {} /\ rootFetches = {} /\ passes = {}
    /\ asks = {} /\ asked = {} /\ db = St!Empty /\ news = FALSE

\* A request is for roots or for none, and on record.
StAsks ==
  \A a \in asks :
    /\ a.what # {} /\ a.to \subseteq St!Where
    /\ a.what \subseteq Root \/ a.what \cap Root = {}
    /\ \A r \in a.to, y \in a.what : <<r, y>> \in asked

\* Whatever was asked is marked as asked, and nothing was asked twice.
StMarked ==
  /\ \A r, y : <<r, y>> \in asked =>
       \/ y \in rootFetches /\ r # Gossip
       \/ y = St!Repository /\ (r = Bootstrap \/ r \in repoRelays)
       \/ r = Gossip /\ \E v \in St!Versions :
            y = St!OfMaintainers(v) /\ Maintainers[v] \subseteq synced
  /\ refetched = FALSE

\* The relays of the announcement that is shown have been asked.
StTold ==
  /\ addr => Listed[announcement] \subseteq repoRelays
  /\ \A r \in repoRelays : <<r, St!Repository>> \in asked

\* The database has what a relay holds of what it was asked for.
StCovered(r, y) ==
  IF y \in Root THEN y \in held[r].topics => y \in db.topics
  ELSE held[r].ann <= db.ann /\ held[r].roots \subseteq db.roots /\ held[r].gone \subseteq db.gone

\* Unless a request was given up, what was asked is answered or in flight.
StAnswered ==
  ~unreached => \A r, y : <<r, y>> \in asked =>
    StCovered(r, y) \/ \E a \in asks : r \in a.to /\ y \in a.what

\* A deletion comes from a relay that was asked.
StGone ==
  \A x \in db.gone : \E r \in St!Where : \E y :
    <<r, y>> \in asked /\ y \notin Root /\ x \in held[r].gone

-----------------------------------------------------------------------------
(* RepoStore: what its passes have read *)

\* The pass that started last has read what the database holds, unless the pump
\* has yet to say that it holds more.
StLatest ==
  /\ \A p, q \in passes : p.latest /\ q.latest => p = q
  /\ current => \A p \in passes : ~p.latest
  /\ \A p \in passes : p.at = "land" => p.topics \subseteq p.roots
  /\ ~news => \A p \in passes : p.latest =>
       /\ p.at # "query" => p.roots = St!Visible(db) /\ p.ann = db.ann
       /\ p.at = "land" => p.topics = db.topics \cap p.roots

\* So has the one that is shown.
StShown ==
  (addr /\ current /\ ~news) =>
    /\ shown.roots = St!Visible(db) /\ shown.topics = db.topics \cap shown.roots
    /\ db.ann <= announcement

StInv ==
  /\ StTyped /\ StLocal /\ StAsks /\ StMarked /\ StTold /\ StAnswered /\ StGone
  /\ StLatest /\ StShown

-----------------------------------------------------------------------------
(* RepoStore: requests and answers *)

\* What the bounds say of the relays and of what they are asked.
LEMMA StNames ==
  /\ Listed \in [St!Versions -> SUBSET Relay] /\ Listed[0] = {} /\ 0 \in St!Versions
  /\ St!Versions \subseteq Nat
  /\ Relay \subseteq St!Where /\ Bootstrap \in St!Where /\ Gossip \in St!Where
  /\ Bootstrap \notin Relay /\ Gossip \notin Relay /\ Gossip # Bootstrap
  /\ St!Repository \notin Root
  /\ \A v \in St!Versions : St!OfMaintainers(v) \notin Root
                            /\ St!OfMaintainers(v) # St!Repository
  /\ \A v, w \in St!Versions :
       St!OfMaintainers(v) = St!OfMaintainers(w) => Maintainers[v] = Maintainers[w]
<1>1. /\ Listed \in [St!Versions -> SUBSET Relay] /\ Listed[0] = {} /\ MaxVersion \in Nat
      /\ Bootstrap \notin Relay /\ Gossip \notin Relay \cup {Bootstrap}
      /\ St!Repository \notin Root
      /\ \A v \in St!Versions : St!OfMaintainers(v) \notin Root
  BY RepositoryAssumption DEF St!RepoStoreAssumption
<1>2. 0 \in St!Versions /\ St!Versions \subseteq Nat
  BY <1>1 DEF St!Versions
<1>3. \A v \in St!Versions : St!OfMaintainers(v) # St!Repository
  BY DEF St!OfMaintainers, St!Repository
<1>4. \A v, w \in St!Versions :
        St!OfMaintainers(v) = St!OfMaintainers(w) => Maintainers[v] = Maintainers[w]
  BY DEF St!OfMaintainers
<1>5. Relay \subseteq St!Where /\ Bootstrap \in St!Where /\ Gossip \in St!Where
  BY DEF St!Where
<1> QED BY <1>1, <1>2, <1>3, <1>4, <1>5

\* What is asked by some requests.
LEMMA StEach ==
  ASSUME NEW R
  PROVE  /\ \A r, y : <<r, y>> \in St!Each(R) <=> \E a \in R : r \in a.to /\ y \in a.what
         /\ \A x \in St!Each(R) : \E a \in R : \E r \in a.to, y \in a.what : x = <<r, y>>
<1>1. ASSUME NEW x
      PROVE  x \in St!Each(R) <=> \E a \in R : \E r \in a.to, y \in a.what : x = <<r, y>>
  BY DEF St!Each
<1>2. ASSUME NEW r, NEW y, <<r, y>> \in St!Each(R)
      PROVE  \E a \in R : r \in a.to /\ y \in a.what
  <2>1. PICK a \in R : \E q \in a.to, z \in a.what : <<r, y>> = <<q, z>>
    BY <1>1, <1>2
  <2> QED BY <2>1
<1>3. ASSUME NEW r, NEW y, NEW a \in R, r \in a.to, y \in a.what
      PROVE  <<r, y>> \in St!Each(R)
  BY <1>1, <1>3
<1> QED BY <1>1, <1>2, <1>3

\* Requests that are sent are on record and in flight.
LEMMA StSends ==
  ASSUME StTyped, StAsks, StAnswered, StGone,
         NEW R, asks' = asks \cup St!Made(R), asked' = asked \cup St!Each(R),
         \A a \in R : /\ a.to \subseteq St!Where
                      /\ a.what \subseteq Root \/ a.what \cap Root = {},
         \A r, y : <<r, y>> \in asked /\ StCovered(r, y) => StCovered(r, y)',
         db'.gone = db.gone, UNCHANGED <<held, unreached>>
  PROVE  /\ StAsks' /\ StAnswered' /\ StGone'
         /\ \A x \in asked' : \E r \in St!Where : \E y : x = <<r, y>>
         /\ \A r, y : <<r, y>> \in asked' <=>
              <<r, y>> \in asked \/ \E a \in R : r \in a.to /\ y \in a.what
<1>1. \A r, y : <<r, y>> \in asked' <=>
              <<r, y>> \in asked \/ \E a \in R : r \in a.to /\ y \in a.what
  BY StEach
<1>2. \A x \in asked' : \E r \in St!Where : \E y : x = <<r, y>>
  <2> SUFFICES ASSUME NEW x \in asked' PROVE \E r \in St!Where : \E y : x = <<r, y>>
    OBVIOUS
  <2>1. CASE x \in asked
    BY <2>1 DEF StTyped
  <2>2. CASE x \in St!Each(R)
    BY <2>2, StEach
  <2> QED BY <2>1, <2>2
<1>3. \A a \in asks' : a \in asks \/ (a \in R /\ a.to # {} /\ a.what # {})
  BY DEF St!Made
<1>4. StAsks'
  <2> SUFFICES ASSUME NEW a \in asks'
               PROVE  /\ a.what # {} /\ a.to \subseteq St!Where
                      /\ a.what \subseteq Root \/ a.what \cap Root = {}
                      /\ \A r \in a.to, y \in a.what : <<r, y>> \in asked'
    BY DEF StAsks
  <2>1. CASE a \in asks
    BY <1>1, <2>1 DEF StAsks
  <2>2. CASE a \in R /\ a.to # {} /\ a.what # {}
    BY <1>1, <2>2
  <2> QED BY <1>3, <2>1, <2>2
<1>5. StAnswered'
  <2> SUFFICES ASSUME ~unreached, NEW r, NEW y, <<r, y>> \in asked'
               PROVE  StCovered(r, y)' \/ \E a \in asks' : r \in a.to /\ y \in a.what
    BY DEF StAnswered
  <2>1. CASE <<r, y>> \in asked
    BY <2>1 DEF StAnswered
  <2>2. CASE \E a \in R : r \in a.to /\ y \in a.what
    <3>1. PICK a \in R : r \in a.to /\ y \in a.what
      BY <2>2
    <3>2. a \in asks'
      BY <3>1 DEF St!Made
    <3> QED BY <3>1, <3>2
  <2> QED BY <1>1, <2>1, <2>2
<1>6. StGone'
  BY <1>1 DEF StGone
<1> QED BY <1>1, <1>2, <1>4, <1>5, <1>6

\* Merging takes nothing away.
LEMMA StMerges ==
  ASSUME NEW c \in St!Content, NEW d \in St!Content
  PROVE  /\ St!Merged(c, d) \in St!Content
         /\ c.ann <= St!Merged(c, d).ann /\ d.ann <= St!Merged(c, d).ann
         /\ St!Merged(c, d).roots = c.roots \cup d.roots
         /\ St!Merged(c, d).gone = c.gone \cup d.gone
         /\ St!Merged(c, d).topics = c.topics \cup d.topics
<1>1. c.ann \in Nat /\ d.ann \in Nat
  BY StNames DEF St!Content
<1>2. PICK n : n = IF c.ann > d.ann THEN c.ann ELSE d.ann
  OBVIOUS
<1>3. n \in St!Versions /\ c.ann <= n /\ d.ann <= n
  BY <1>1, <1>2 DEF St!Content
<1>4. (c.state \/ d.state) \in BOOLEAN
  OBVIOUS
<1>5. PICK b \in BOOLEAN : b = (c.state \/ d.state)
  BY <1>4
<1>6. St!Merged(c, d) = [ann |-> n, state |-> b, roots |-> c.roots \cup d.roots,
                         gone |-> c.gone \cup d.gone, topics |-> c.topics \cup d.topics]
  BY <1>2, <1>5 DEF St!Merged
<1> QED BY <1>3, <1>6 DEF St!Content

\* What a relay answers.
LEMMA StAnswers ==
  ASSUME StTyped, NEW r \in St!Where, NEW what
  PROVE  /\ St!Answer(r, what) \in St!Content
         /\ what \subseteq Root =>
              /\ St!Answer(r, what).topics = held[r].topics \cap what
              /\ St!Answer(r, what).gone = {}
         /\ ~(what \subseteq Root) =>
              /\ St!Answer(r, what).ann = held[r].ann
              /\ St!Answer(r, what).roots = held[r].roots
              /\ St!Answer(r, what).gone = held[r].gone
<1>1. held[r] \in St!Content
  BY DEF StTyped
<1>2. St!Empty \in St!Content /\ St!Empty.gone = {}
  BY StNames DEF St!Empty, St!Content
<1>3. CASE what \subseteq Root
  <2>1. PICK t : t = held[r].topics \cap what
    OBVIOUS
  <2>2. t \in SUBSET Root
    BY <1>1, <2>1 DEF St!Content
  <2>3. St!Answer(r, what) = [St!Empty EXCEPT !.topics = t]
    BY <1>3, <2>1 DEF St!Answer
  <2> QED BY <1>2, <1>3, <2>1, <2>2, <2>3 DEF St!Content
<1>4. CASE ~(what \subseteq Root)
  <2>1. St!Answer(r, what) = [held[r] EXCEPT !.topics = {}]
    BY <1>4 DEF St!Answer
  <2> QED BY <1>1, <1>4, <2>1 DEF St!Content
<1> QED BY <1>3, <1>4

-----------------------------------------------------------------------------
(* RepoStore: its steps *)

\* The passes in flight after one has moved on or ended.
LEMMA StPasses ==
  ASSUME StInv, NEW p \in passes, passes' \in SUBSET St!Pass, StLatest',
         UNCHANGED <<addr, announcement, loaded, shown, repoRelays, rootFetches, synced,
                     db, news, held, asks, current, asked, refetched, unreached>>
  PROVE  StInv'
<1>1. addr = TRUE
  BY DEF StInv, StLocal, StTyped, St!TypeOK
<1>2. StTyped'
  BY DEF StInv, StTyped, St!TypeOK
<1>3. StLocal'
  BY <1>1 DEF StLocal
<1>4. StAsks' /\ StMarked' /\ StTold' /\ StGone'
  BY DEF StInv, StAsks, StMarked, StTold, StGone
<1>5. StAnswered'
  BY DEF StInv, StAnswered, StCovered
<1>6. StShown'
  BY DEF StInv, StShown, St!Visible
<1> QED BY <1>2, <1>3, <1>4, <1>5, <1>6 DEF StInv

\* A pass reads on from the database.
LEMMA StReads ==
  ASSUME StInv, NEW p \in passes, St!ReadRepository(p) \/ St!ReadTopics(p)
  PROVE  StInv'
<1>1. /\ p \in St!Pass /\ db \in St!Content /\ passes \in SUBSET St!Pass
      /\ news \in BOOLEAN /\ current \in BOOLEAN
  BY DEF StInv, StTyped, St!TypeOK
<1>2. UNCHANGED <<addr, announcement, loaded, shown, repoRelays, rootFetches, synced,
                  db, news, held, asks, current, asked, refetched, unreached>>
  BY DEF St!ReadRepository, St!ReadTopics, St!store, St!network, St!ghosts
<1>3. PICK q \in St!Pass :
        /\ passes' = (passes \ {p}) \cup {q} /\ q.latest = p.latest
        /\ \/ p.at = "query" /\ q.at = "roots" /\ q.roots = St!Visible(db) /\ q.ann = db.ann
           \/ p.at = "roots" /\ q.at = "land" /\ q.roots = p.roots /\ q.ann = p.ann
              /\ q.topics = db.topics \cap p.roots
  <2>1. CASE St!ReadRepository(p)
    <3>1. PICK a, b, c : a = db.ann /\ b = db.state /\ c = St!Visible(db)
      OBVIOUS
    <3>2. a \in St!Versions /\ b \in BOOLEAN /\ c \in SUBSET Root
      BY <1>1, <3>1 DEF St!Content, St!Visible
    <3>3. PICK q1 : q1 = [p EXCEPT !.at = "roots"]
      OBVIOUS
    <3>4. /\ q1 \in St!Pass /\ q1.latest = p.latest /\ q1.at = "roots"
      BY <1>1, <3>3 DEF St!Pass
    <3>5. PICK q2 : q2 = [q1 EXCEPT !.ann = a]
      OBVIOUS
    <3>6. q2 \in St!Pass /\ q2.latest = p.latest /\ q2.at = "roots" /\ q2.ann = a
      BY <3>2, <3>4, <3>5 DEF St!Pass
    <3>7. PICK q3 : q3 = [q2 EXCEPT !.state = b]
      OBVIOUS
    <3>8. q3 \in St!Pass /\ q3.latest = p.latest /\ q3.at = "roots" /\ q3.ann = a
      BY <3>2, <3>6, <3>7 DEF St!Pass
    <3>9. PICK q4 : q4 = [q3 EXCEPT !.roots = c]
      OBVIOUS
    <3>10. /\ q4 \in St!Pass /\ q4.latest = p.latest /\ q4.at = "roots" /\ q4.ann = a
           /\ q4.roots = c
      BY <3>2, <3>8, <3>9 DEF St!Pass
    <3>11. p.at = "query" /\ passes' = (passes \ {p}) \cup {q4}
      <4>1. p.at = "query" /\ passes' = (passes \ {p}) \cup
              {[p EXCEPT !.at = "roots", !.ann = a, !.state = b, !.roots = c]}
        BY <2>1, <3>1 DEF St!ReadRepository
      <4> QED BY <3>3, <3>5, <3>7, <3>9, <4>1
    <3> QED BY <3>1, <3>10, <3>11
  <2>2. CASE St!ReadTopics(p)
    <3>1. PICK t : t = db.topics \cap p.roots
      OBVIOUS
    <3>2. t \in SUBSET Root
      BY <1>1, <3>1 DEF St!Content
    <3>3. PICK q1 : q1 = [p EXCEPT !.at = "land"]
      OBVIOUS
    <3>4. /\ q1 \in St!Pass /\ q1.latest = p.latest /\ q1.at = "land"
          /\ q1.roots = p.roots /\ q1.ann = p.ann
      BY <1>1, <3>3 DEF St!Pass
    <3>5. PICK q2 : q2 = [q1 EXCEPT !.topics = t]
      OBVIOUS
    <3>6. /\ q2 \in St!Pass /\ q2.latest = p.latest /\ q2.at = "land"
          /\ q2.roots = p.roots /\ q2.ann = p.ann /\ q2.topics = t
      BY <3>2, <3>4, <3>5 DEF St!Pass
    <3>7. p.at = "roots" /\ passes' = (passes \ {p}) \cup {q2}
      <4>1. p.at = "roots" /\ passes' = (passes \ {p}) \cup
              {[p EXCEPT !.at = "land", !.topics = t]}
        BY <2>2, <3>1 DEF St!ReadTopics
      <4> QED BY <3>3, <3>5, <4>1
    <3> QED BY <3>1, <3>6, <3>7
  <2> QED BY <2>1, <2>2
<1>4. passes' \in SUBSET St!Pass
  BY <1>1, <1>3
<1>5. StLatest'
  <2>0. St!Visible(db)' = St!Visible(db)
    BY <1>2 DEF St!Visible
  <2>1. \A u, v \in passes' : u.latest /\ v.latest => u = v
    BY <1>3 DEF StInv, StLatest
  <2>2. current' => \A u \in passes' : ~u.latest
    BY <1>2, <1>3 DEF StInv, StLatest
  <2>3. \A u \in passes' : u.at = "land" => u.topics \subseteq u.roots
    BY <1>3 DEF StInv, StLatest
  <2>4. ASSUME ~news', NEW u \in passes', u.latest
        PROVE  /\ u.at # "query" => u.roots = St!Visible(db) /\ u.ann = db.ann
               /\ u.at = "land" => u.topics = db.topics \cap u.roots
    <3>1. CASE u = q
      <4>1. p.latest /\ ~news
        BY <1>2, <1>3, <2>4, <3>1
      <4>2. p.at # "query" => p.roots = St!Visible(db) /\ p.ann = db.ann
        BY <4>1 DEF StInv, StLatest
      <4> QED BY <1>3, <3>1, <4>2
    <3>2. CASE u \in passes
      BY <1>2, <2>4, <3>2 DEF StInv, StLatest
    <3> QED BY <1>3, <3>1, <3>2
  <2> QED BY <1>2, <2>0, <2>1, <2>2, <2>3, <2>4 DEF StLatest
<1> QED BY <1>2, <1>4, <1>5, StPasses

\* A query of a pass fails.
LEMMA StPassFails ==
  ASSUME StInv, NEW p \in passes, St!PassFails(p)
  PROVE  StInv'
<1>1. /\ passes' = passes \ {p}
      /\ UNCHANGED <<addr, announcement, loaded, shown, repoRelays, rootFetches, synced,
                     db, news, held, asks, current, asked, refetched, unreached>>
  BY DEF St!PassFails, St!store, St!ghosts
<1>2. passes' \in SUBSET St!Pass
  BY <1>1 DEF StInv, StTyped, St!TypeOK
<1>3. StLatest'
  BY <1>1 DEF StInv, StLatest, St!Visible
<1> QED BY <1>1, <1>2, <1>3, StPasses

\* A request is given up.
LEMMA StGivesUp ==
  ASSUME StInv, NEW a \in asks, St!GiveUp(a)
  PROVE  StInv'
<1>1. /\ asks' = asks \ {a} /\ unreached' = TRUE
      /\ UNCHANGED <<addr, announcement, loaded, shown, repoRelays, rootFetches, synced,
                     passes, db, news, held, current, asked, refetched>>
  BY DEF St!GiveUp, St!store, St!ghosts
<1>2. StTyped'
  BY <1>1 DEF StInv, StTyped, St!TypeOK
<1>3. StLocal'
  BY <1>1 DEF StInv, StLocal
<1>4. StAsks' /\ StMarked' /\ StTold' /\ StGone' /\ StAnswered'
  BY <1>1 DEF StInv, StAsks, StMarked, StTold, StGone, StAnswered
<1>5. StLatest' /\ StShown'
  BY <1>1 DEF StInv, StLatest, StShown, St!Visible
<1> QED BY <1>2, <1>3, <1>4, <1>5 DEF StInv

\* A relay answers, and the database has what it holds of what it was asked for.
LEMMA StDelivers ==
  ASSUME StInv, NEW a \in asks, NEW r \in a.to, St!Deliver(a, r)
  PROVE  StInv'
<1>1. /\ asks' = (asks \ {a}) \cup St!Made({St!Ask(a.to \ {r}, a.what)})
      /\ db' = St!Merged(db, St!Answer(r, a.what))
      /\ news' = (news \/ db' # db)
      /\ UNCHANGED <<addr, announcement, loaded, shown, repoRelays, rootFetches, synced,
                     passes, held, unreached, current, asked, refetched>>
  BY DEF St!Deliver, St!store, St!ghosts
<1>2. /\ a.to \subseteq St!Where /\ (a.what \subseteq Root \/ a.what \cap Root = {})
      /\ a.what # {} /\ \A s \in a.to, y \in a.what : <<s, y>> \in asked
  BY DEF StInv, StAsks
<1>3. PICK c \in St!Content :
        /\ c = St!Answer(r, a.what)
        /\ a.what \subseteq Root => c.topics = held[r].topics \cap a.what /\ c.gone = {}
        /\ ~(a.what \subseteq Root) =>
             c.ann = held[r].ann /\ c.roots = held[r].roots /\ c.gone = held[r].gone
  BY <1>2, StAnswers DEF StInv
<1>4. /\ db \in St!Content /\ news \in BOOLEAN
  BY DEF StInv, StTyped, St!TypeOK
<1>5. /\ db' \in St!Content /\ db.ann <= db'.ann /\ c.ann <= db'.ann
      /\ db'.roots = db.roots \cup c.roots /\ db'.gone = db.gone \cup c.gone
      /\ db'.topics = db.topics \cup c.topics
  BY <1>1, <1>3, <1>4, StMerges
<1>6. addr = TRUE
  BY DEF StInv, StLocal, StTyped, St!TypeOK
<1>7. StTyped'
  BY <1>1, <1>4, <1>5 DEF StInv, StTyped, St!TypeOK
<1>8. StLocal'
  BY <1>1, <1>6 DEF StLocal
<1>9. \A b \in asks' : b \in asks \/ (b.to = a.to \ {r} /\ b.what = a.what)
  BY <1>1 DEF St!Made, St!Ask
<1>10. StAsks'
  BY <1>1, <1>2, <1>9 DEF StInv, StAsks
<1>11. StMarked' /\ StTold'
  BY <1>1 DEF StInv, StMarked, StTold
<1>12. ASSUME NEW s \in St!Where, NEW y, StCovered(s, y) PROVE StCovered(s, y)'
  <2>1. held[s].ann \in Nat /\ db.ann \in Nat /\ db'.ann \in Nat
    BY <1>4, <1>5, StNames DEF StInv, StTyped, St!Content
  <2>2. held' = held
    BY <1>1
  <2>3. CASE y \in Root
    BY <1>5, <1>12, <2>2, <2>3 DEF StCovered
  <2>4. CASE y \notin Root
    BY <1>5, <1>12, <2>1, <2>2, <2>4 DEF StCovered
  <2> QED BY <2>3, <2>4
<1>13. ASSUME NEW y \in a.what PROVE StCovered(r, y)'
  <2>1. held' = held
    BY <1>1
  <2>2. CASE y \in Root
    <3>1. a.what \subseteq Root
      BY <1>2, <1>13, <2>2
    <3> QED BY <1>3, <1>5, <1>13, <2>1, <2>2, <3>1 DEF StCovered
  <2>3. CASE y \notin Root
    BY <1>3, <1>5, <1>13, <2>1, <2>3 DEF StCovered
  <2> QED BY <2>2, <2>3
<1>14. StAnswered'
  <2> SUFFICES ASSUME ~unreached, NEW s, NEW y, <<s, y>> \in asked
               PROVE  StCovered(s, y)' \/ \E b \in asks' : s \in b.to /\ y \in b.what
    BY <1>1 DEF StAnswered
  <2>0. s \in St!Where
    BY DEF StInv, StTyped
  <2>1. CASE StCovered(s, y)
    BY <1>12, <2>0, <2>1
  <2>2. CASE \E b \in asks : s \in b.to /\ y \in b.what
    <3>1. PICK b \in asks : s \in b.to /\ y \in b.what
      BY <2>2
    <3>2. CASE b # a
      BY <1>1, <3>1, <3>2
    <3>3. CASE b = a /\ s = r
      BY <1>13, <3>1, <3>3
    <3>4. CASE b = a /\ s # r
      <4>1. PICK d : d = St!Ask(a.to \ {r}, a.what)
        OBVIOUS
      <4>2. s \in d.to /\ y \in d.what
        BY <3>1, <3>4, <4>1 DEF St!Ask
      <4>3. d \in St!Made({d})
        BY <4>2 DEF St!Made
      <4> QED BY <1>1, <4>1, <4>2, <4>3
    <3> QED BY <3>2, <3>3, <3>4
  <2> QED BY <2>1, <2>2 DEF StInv, StAnswered
<1>15. StGone'
  <2> SUFFICES ASSUME NEW x \in db'.gone
               PROVE  \E s \in St!Where : \E y :
                        <<s, y>> \in asked /\ y \notin Root /\ x \in held[s].gone
    BY <1>1 DEF StGone
  <2>1. CASE x \in db.gone
    BY <2>1 DEF StInv, StGone
  <2>2. CASE x \in c.gone
    <3>1. ~(a.what \subseteq Root) /\ x \in held[r].gone
      BY <1>3, <2>2
    <3>2. PICK y \in a.what : y \notin Root
      BY <3>1
    <3> QED BY <1>2, <3>1, <3>2
  <2> QED BY <1>5, <2>1, <2>2
<1>16. StLatest' /\ StShown'
  <2>1. CASE db' = db
    <3>1. news' = news
      BY <1>1, <1>4, <2>1
    <3> QED BY <1>1, <2>1, <3>1 DEF StInv, StLatest, StShown, St!Visible
  <2>2. CASE db' # db
    <3>1. news' = TRUE
      BY <1>1, <2>2
    <3> QED BY <1>1, <3>1 DEF StInv, StLatest, StShown
  <2> QED BY <2>1, <2>2
<1> QED BY <1>7, <1>8, <1>10, <1>11, <1>14, <1>15, <1>16 DEF StInv

\* A refresh starts a pass that has read nothing; the others are not the latest.
LEMMA StRefreshes ==
  ASSUME StInv, St!Refresh
  PROVE  passes' \in SUBSET St!Pass /\ current' = FALSE /\ StLatest' /\ StShown'
<1>1. current' = FALSE
  BY DEF St!Refresh
<1>2. PICK n : n = St!NewPass
  OBVIOUS
<1>3. n \in St!Pass /\ n.at = "query"
  BY <1>2, StNames DEF St!NewPass, St!Pass
<1>4. ASSUME NEW q \in passes'
      PROVE  q \in St!Pass /\ (q = n \/ q.latest = FALSE)
             /\ (q.at = "land" => q.topics \subseteq q.roots)
  <2>1. q = n \/ \E p \in passes : q = [p EXCEPT !.latest = FALSE]
    BY <1>2, <1>4 DEF St!Refresh
  <2>2. CASE q = n
    BY <1>3, <2>2
  <2>3. ASSUME NEW p \in passes, q = [p EXCEPT !.latest = FALSE]
        PROVE  q \in St!Pass /\ q.latest = FALSE
               /\ (q.at = "land" => q.topics \subseteq q.roots)
    <3>1. p \in St!Pass /\ (p.at = "land" => p.topics \subseteq p.roots)
      BY DEF StInv, StTyped, StLatest, St!TypeOK
    <3> QED BY <2>3, <3>1 DEF St!Pass
  <2> QED BY <2>1, <2>2, <2>3
<1>5. StLatest'
  BY <1>1, <1>3, <1>4 DEF StLatest
<1>6. StShown'
  BY <1>1 DEF StShown
<1> QED BY <1>1, <1>4, <1>5, <1>6

\* The pump says that there is more to read.
LEMMA StUpdates == ASSUME StInv, St!Updated PROVE StInv'
<1>1. /\ news = TRUE /\ news' = FALSE
      /\ UNCHANGED <<addr, announcement, loaded, shown, repoRelays, rootFetches, synced,
                     db, held, asks, asked, refetched, unreached>>
  BY DEF St!Updated, St!store, St!network, StInv, StTyped, St!TypeOK
<1>2. addr = TRUE
  BY <1>1 DEF StInv, StLocal, StTyped, St!TypeOK
<1>3. St!Refresh
  BY <1>2 DEF St!Updated
<1>4. passes' \in SUBSET St!Pass /\ current' = FALSE /\ StLatest' /\ StShown'
  BY <1>3, StRefreshes
<1>5. StTyped'
  BY <1>1, <1>4 DEF StInv, StTyped, St!TypeOK
<1>6. StLocal'
  BY <1>1, <1>2 DEF StLocal
<1>7. StAsks' /\ StMarked' /\ StTold' /\ StGone'
  BY <1>1 DEF StInv, StAsks, StMarked, StTold, StGone
<1>8. StAnswered'
  BY <1>1 DEF StInv, StAnswered, StCovered
<1> QED BY <1>4, <1>5, <1>6, <1>7, <1>8 DEF StInv

\* A local repository is announced.
LEMMA StAnnounces ==
  ASSUME StInv, NEW v \in St!Versions, St!Announce(v)
  PROVE  StInv'
<1>1. addr = FALSE /\ v \in Nat
  BY StNames DEF St!Announce, StInv, StTyped, St!TypeOK
<1>2. /\ announcement = 0 /\ repoRelays = {} /\ rootFetches = {} /\ passes = {}
      /\ asks = {} /\ asked = {} /\ db = St!Empty /\ news = FALSE /\ refetched = FALSE
  BY <1>1 DEF StInv, StLocal, StMarked
<1>3. PICK a : a = St!Ask({Bootstrap}, {St!Repository})
  OBVIOUS
<1>4. PICK b : b = St!Ask(Listed[v] \ repoRelays, {St!Repository})
  OBVIOUS
<1>5. /\ a.to = {Bootstrap} /\ a.what = {St!Repository}
      /\ b.to = Listed[v] /\ b.what = {St!Repository}
  BY <1>2, <1>3, <1>4 DEF St!Ask
<1>6. PICK R : R = {a, b}
  OBVIOUS
<1>7. /\ addr' = TRUE /\ announcement' = v /\ loaded' = FALSE
      /\ repoRelays' = Listed[v]
      /\ asks' = asks \cup St!Made(R) /\ asked' = asked \cup St!Each(R)
      /\ refetched' = (refetched \/ St!Each(R) \cap asked # {})
      /\ UNCHANGED <<shown, rootFetches, synced, news, held, unreached>>
  BY <1>2, <1>3, <1>4, <1>6 DEF St!Announce, St!Send
<1>8. Listed[v] \subseteq Relay /\ Bootstrap \in St!Where /\ Relay \subseteq St!Where
      /\ St!Repository \notin Root /\ Bootstrap \notin Relay
  BY StNames
<1>9. db' \in St!Content /\ db'.gone = db.gone
  <2>1. db \in St!Content
    BY DEF StInv, StTyped, St!TypeOK
  <2>2. db' = db \/ db' = [db EXCEPT !.ann = v]
    BY DEF St!Announce
  <2> QED BY <2>1, <2>2 DEF St!Content
<1>10. passes' \in SUBSET St!Pass /\ current' = FALSE /\ StLatest' /\ StShown'
  BY StRefreshes DEF St!Announce
<1>11. /\ StAsks' /\ StAnswered' /\ StGone'
       /\ \A x \in asked' : \E r \in St!Where : \E y : x = <<r, y>>
       /\ \A r, y : <<r, y>> \in asked' <=>
            <<r, y>> \in asked \/ \E d \in R : r \in d.to /\ y \in d.what
  <2>1. \A d \in R : /\ d.to \subseteq St!Where
                     /\ d.what \subseteq Root \/ d.what \cap Root = {}
    BY <1>5, <1>6, <1>8
  <2>2. \A r, y : <<r, y>> \in asked /\ StCovered(r, y) => StCovered(r, y)'
    BY <1>2
  <2>3. UNCHANGED <<held, unreached>>
    BY <1>7
  <2> QED BY <1>7, <1>9, <2>1, <2>2, <2>3, StSends DEF StInv
<1>12. \A r, y : <<r, y>> \in asked' <=>
         y = St!Repository /\ (r = Bootstrap \/ r \in Listed[v])
  BY <1>2, <1>5, <1>6, <1>11
<1>13. StTyped'
  <2>1. refetched' = FALSE
    BY <1>2, <1>7
  <2>2. announcement' \in St!Versions /\ repoRelays' \subseteq Relay
    BY <1>7, <1>8
  <2> QED BY <1>7, <1>9, <1>10, <1>11, <2>1, <2>2 DEF StInv, StTyped, St!TypeOK
<1>14. StLocal'
  BY <1>7 DEF StLocal
<1>15. StMarked'
  <2>1. refetched' = FALSE
    BY <1>2, <1>7
  <2> QED BY <1>7, <1>12, <2>1 DEF StMarked
<1>16. StTold'
  BY <1>7, <1>12 DEF StTold
<1> QED BY <1>10, <1>11, <1>13, <1>14, <1>15, <1>16 DEF StInv

\* The store opens on a hint, or on a local repository.
LEMMA StStarts == St!Init => StInv
<1> SUFFICES ASSUME St!Init PROVE StInv
  OBVIOUS
<1>1. /\ shown = St!Unloaded /\ rootFetches = {} /\ synced = {}
      /\ db = St!Empty /\ news = FALSE /\ held \in World
      /\ refetched = FALSE /\ unreached = FALSE
  BY DEF St!Init
<1>2. /\ held \in [St!Where -> St!Content] /\ St!Empty \in St!Content
      /\ St!Empty.gone = {} /\ shown.roots = {} /\ shown.topics = {}
  <2>1. World \subseteq [St!Where -> St!Content]
    BY RepositoryAssumption DEF St!RepoStoreAssumption
  <2> QED BY <1>1, <2>1, StNames DEF St!Empty, St!Content, St!Unloaded
<1>3. CASE St!OpenedLocal
  <2>1. /\ addr = FALSE /\ announcement = 0 /\ loaded = TRUE /\ repoRelays = {}
        /\ current = TRUE /\ passes = {} /\ asks = {} /\ asked = {}
    BY <1>3 DEF St!OpenedLocal
  <2>2. StTyped
    BY <1>1, <1>2, <2>1, StNames DEF StTyped, St!TypeOK
  <2>3. StLocal /\ StAsks /\ StMarked /\ StTold /\ StAnswered /\ StGone
    BY <1>1, <1>2, <2>1 DEF StLocal, StAsks, StMarked, StTold, StAnswered, StGone
  <2>4. StLatest /\ StShown
    BY <2>1 DEF StLatest, StShown
  <2> QED BY <2>2, <2>3, <2>4 DEF StInv
<1>4. ASSUME NEW hint \in St!Versions, St!Opened(hint)
      PROVE  StInv
  <2>1. PICK a : a = St!Ask({Bootstrap}, {St!Repository})
    OBVIOUS
  <2>2. PICK b : b = St!Ask(Listed[hint], {St!Repository})
    OBVIOUS
  <2>3. PICK n : n = St!NewPass
    OBVIOUS
  <2>4. /\ addr = TRUE /\ announcement = hint /\ loaded = FALSE
        /\ repoRelays = Listed[hint] /\ current = FALSE /\ passes = {n}
        /\ asks = St!Made({a, b}) /\ asked = St!Each(asks)
    BY <1>4, <2>1, <2>2, <2>3 DEF St!Opened
  <2>5. n \in St!Pass /\ n.at = "query"
    BY <2>3, StNames DEF St!NewPass, St!Pass
  <2>6. /\ a.to = {Bootstrap} /\ a.what = {St!Repository}
        /\ b.to = Listed[hint] /\ b.what = {St!Repository}
    BY <2>1, <2>2 DEF St!Ask
  <2>7. Listed[hint] \subseteq Relay /\ Bootstrap \in St!Where /\ Relay \subseteq St!Where
        /\ St!Repository \notin Root /\ Bootstrap \notin Relay
    BY StNames
  <2>8. \A d : d \in asks <=> d \in {a, b} /\ d.to # {} /\ d.what # {}
    BY <2>4 DEF St!Made
  <2>9. \A r, y : <<r, y>> \in asked <=> \E d \in asks : r \in d.to /\ y \in d.what
    BY <2>4, StEach
  <2>10. \A x \in asked : \E d \in asks : \E r \in d.to, y \in d.what : x = <<r, y>>
    BY <2>4, StEach
  <2>11. \A r, y : <<r, y>> \in asked <=>
           y = St!Repository /\ (r = Bootstrap \/ r \in Listed[hint])
    <3>1. ASSUME NEW r, NEW y, <<r, y>> \in asked
          PROVE  y = St!Repository /\ (r = Bootstrap \/ r \in Listed[hint])
      <4>1. PICK d \in asks : r \in d.to /\ y \in d.what
        BY <2>9, <3>1
      <4>2. d = a \/ d = b
        BY <2>8
      <4> QED BY <2>6, <4>1, <4>2
    <3>2. <<Bootstrap, St!Repository>> \in asked
      <4>1. a \in asks
        BY <2>6, <2>8
      <4> QED BY <2>6, <2>9, <4>1
    <3>3. ASSUME NEW r \in Listed[hint] PROVE <<r, St!Repository>> \in asked
      <4>1. b \in asks
        BY <2>6, <2>8
      <4> QED BY <2>6, <2>9, <4>1
    <3> QED BY <3>1, <3>2, <3>3
  <2>12. \A d \in asks : d.to \subseteq St!Where
    BY <2>6, <2>7, <2>8
  <2>13. StTyped
    <3>1. \A x \in asked : \E r \in St!Where : \E y : x = <<r, y>>
      BY <2>10, <2>12
    <3>2. passes \subseteq St!Pass
      BY <2>4, <2>5
    <3> QED BY <1>1, <1>2, <2>4, <2>7, <3>1, <3>2 DEF StTyped, St!TypeOK
  <2>14. StLocal
    BY <2>4 DEF StLocal
  <2>15. StAsks
    BY <2>6, <2>7, <2>8, <2>9, <2>12 DEF StAsks
  <2>16. StMarked /\ StTold
    BY <1>1, <2>4, <2>11 DEF StMarked, StTold
  <2>17. StAnswered /\ StGone
    BY <1>1, <1>2, <2>9 DEF StAnswered, StGone
  <2>18. StLatest /\ StShown
    BY <2>4, <2>5 DEF StLatest, StShown
  <2> QED BY <2>13, <2>14, <2>15, <2>16, <2>17, <2>18 DEF StInv
<1> QED BY <1>3, <1>4 DEF St!Init

\* A pass lands: what it has found decides whom to ask next.
LEMMA StLands ==
  ASSUME StInv, NEW p \in passes, St!Land(p)
  PROVE  StInv'
<1>1. /\ p \in St!Pass /\ p.at = "land" /\ passes \in SUBSET St!Pass
      /\ announcement \in St!Versions /\ repoRelays \subseteq Relay
      /\ rootFetches \subseteq Root /\ addr = TRUE /\ current \in BOOLEAN
  BY DEF StInv, StTyped, St!TypeOK, StLocal, St!Land
<1>2. p.ann \in St!Versions /\ p.roots \subseteq Root /\ p.topics \subseteq p.roots
  BY <1>1 DEF St!Pass, StInv, StLatest
<1>3. PICK v : v = announcement'
  OBVIOUS
<1>4. /\ v \in St!Versions /\ v = IF St!KeepHint(p) THEN announcement ELSE p.ann
  BY <1>1, <1>2, <1>3 DEF St!Land
<1>5. PICK relays : relays = repoRelays \cup Listed[v]
  OBVIOUS
<1>6. PICK fresh : fresh = p.roots \ rootFetches
  OBVIOUS
<1>7. PICK a : a = St!Ask(St!NewRelays(v), {St!Repository})
  OBVIOUS
<1>8. PICK b : b = St!Ask(St!MaintainerRelays(v), {St!OfMaintainers(v)})
  OBVIOUS
<1>9. PICK c : c = St!Ask({Bootstrap}, fresh)
  OBVIOUS
<1>10. PICK d : d = St!Ask(relays, fresh)
  OBVIOUS
<1>11. PICK R : R = {a, b, c, d}
  OBVIOUS
<1>12. /\ passes' = passes \ {p} /\ announcement' = v /\ repoRelays' = relays
       /\ synced' = IF St!MaintainerRelays(v) = {} THEN synced
                    ELSE synced \cup Maintainers[v]
       /\ shown' = [state |-> p.state \/ shown.state, roots |-> p.roots,
                    topics |-> p.topics]
       /\ loaded' = TRUE /\ rootFetches' = rootFetches \cup p.roots
       /\ asks' = asks \cup St!Made(R) /\ asked' = asked \cup St!Each(R)
       /\ refetched' = (refetched \/ St!Each(R) \cap asked # {})
       /\ current' = p.latest
       /\ UNCHANGED <<addr, db, news, held, unreached>>
  BY <1>3, <1>5, <1>6, <1>7, <1>8, <1>9, <1>10, <1>11 DEF St!Land, St!Send
<1>13. /\ a.to = Listed[v] \ repoRelays /\ a.what = {St!Repository}
       /\ b.to = (IF Uncensored /\ Maintainers[v] \ synced # {} THEN {Gossip} ELSE {})
       /\ b.what = {St!OfMaintainers(v)}
       /\ c.to = {Bootstrap} /\ c.what = fresh /\ d.to = relays /\ d.what = fresh
  BY <1>7, <1>8, <1>9, <1>10 DEF St!Ask, St!NewRelays, St!MaintainerRelays
<1>14. /\ Listed[v] \subseteq Relay /\ Relay \subseteq St!Where
       /\ Bootstrap \in St!Where /\ Gossip \in St!Where
       /\ Bootstrap \notin Relay /\ Gossip \notin Relay /\ Gossip # Bootstrap
       /\ St!Repository \notin Root /\ St!OfMaintainers(v) \notin Root
       /\ St!OfMaintainers(v) # St!Repository
  BY <1>4, StNames
<1>15. relays \subseteq Relay /\ fresh \subseteq Root /\ fresh \cap rootFetches = {}
  BY <1>1, <1>2, <1>5, <1>6, <1>14
<1>16. /\ StAsks' /\ StAnswered' /\ StGone'
       /\ \A x \in asked' : \E r \in St!Where : \E y : x = <<r, y>>
       /\ \A r, y : <<r, y>> \in asked' <=>
            <<r, y>> \in asked \/ \E e \in R : r \in e.to /\ y \in e.what
  <2>1. \A e \in R : /\ e.to \subseteq St!Where
                     /\ e.what \subseteq Root \/ e.what \cap Root = {}
    BY <1>11, <1>13, <1>14, <1>15
  <2>2. \A r, y : <<r, y>> \in asked /\ StCovered(r, y) => StCovered(r, y)'
    BY <1>12 DEF StCovered
  <2>3. db'.gone = db.gone /\ UNCHANGED <<held, unreached>>
    BY <1>12
  <2> QED BY <1>12, <2>1, <2>2, <2>3, StSends DEF StInv
<1>17. \A r, y : (\E e \in R : r \in e.to /\ y \in e.what) <=>
         \/ y = St!Repository /\ r \in Listed[v] \ repoRelays
         \/ y = St!OfMaintainers(v) /\ r = Gossip /\ Uncensored /\ Maintainers[v] \ synced # {}
         \/ y \in fresh /\ (r = Bootstrap \/ r \in relays)
  BY <1>11, <1>13
<1>18. \A r, y : <<r, y>> \in asked =>
         \/ y \in rootFetches /\ r # Gossip
         \/ y = St!Repository /\ (r = Bootstrap \/ r \in repoRelays)
         \/ r = Gossip /\ \E w \in St!Versions :
              y = St!OfMaintainers(w) /\ Maintainers[w] \subseteq synced
  BY DEF StInv, StMarked
<1>19. refetched' = FALSE
  <2>1. ASSUME NEW x \in St!Each(R), x \in asked PROVE FALSE
    <3>1. PICK r, y : x = <<r, y>> /\ \E e \in R : r \in e.to /\ y \in e.what
      BY <2>1, StEach
    <3>2. <<r, y>> \in asked
      BY <2>1, <3>1
    <3>3. CASE y = St!Repository /\ r \in Listed[v] \ repoRelays
      <4>1. y \notin rootFetches /\ r # Bootstrap /\ r # Gossip
        BY <1>1, <1>14, <3>3
      <4> QED BY <1>18, <3>2, <3>3, <4>1
    <3>4. CASE y = St!OfMaintainers(v) /\ r = Gossip /\ Maintainers[v] \ synced # {}
      <4>1. y \notin rootFetches /\ y # St!Repository
        BY <1>1, <1>14, <3>4
      <4>2. PICK w \in St!Versions : y = St!OfMaintainers(w) /\ Maintainers[w] \subseteq synced
        BY <1>18, <3>2, <4>1
      <4>3. Maintainers[w] = Maintainers[v]
        BY <1>4, <3>4, <4>2, StNames
      <4> QED BY <3>4, <4>2, <4>3
    <3>5. CASE y \in fresh /\ (r = Bootstrap \/ r \in relays)
      <4>1. r # Gossip /\ y \notin rootFetches /\ y # St!Repository
        BY <1>14, <1>15, <3>5
      <4> QED BY <1>18, <3>2, <4>1
    <3> QED BY <1>17, <3>1, <3>3, <3>4, <3>5
  <2>2. refetched = FALSE
    BY DEF StInv, StMarked
  <2> QED BY <1>12, <2>1, <2>2
<1>20. StTyped'
  <2>1. repoRelays' \subseteq Relay /\ rootFetches' \subseteq Root
    BY <1>1, <1>2, <1>12, <1>15
  <2>2. passes' \subseteq St!Pass
    BY <1>1, <1>12
  <2>3. shown'.roots = p.roots /\ shown'.topics = p.topics
    BY <1>12
  <2>4. p.latest \in BOOLEAN
    BY <1>1 DEF St!Pass
  <2>5. St!TypeOK'
    BY <1>2, <1>4, <1>12, <2>1, <2>2, <2>3 DEF StInv, StTyped, St!TypeOK
  <2> QED BY <1>12, <1>16, <1>19, <2>4, <2>5 DEF StInv, StTyped
<1>21. StLocal'
  BY <1>1, <1>12 DEF StLocal
<1>22. StMarked'
  <2> SUFFICES ASSUME NEW r, NEW y, <<r, y>> \in asked'
               PROVE  \/ y \in rootFetches' /\ r # Gossip
                      \/ y = St!Repository /\ (r = Bootstrap \/ r \in repoRelays')
                      \/ r = Gossip /\ \E w \in St!Versions :
                           y = St!OfMaintainers(w) /\ Maintainers[w] \subseteq synced'
    BY <1>19 DEF StMarked
  <2>0. synced \subseteq synced'
    BY <1>12
  <2>1. CASE <<r, y>> \in asked
    <3>1. rootFetches \subseteq rootFetches' /\ repoRelays \subseteq repoRelays'
      BY <1>5, <1>12
    <3> QED BY <1>18, <2>0, <2>1, <3>1
  <2>2. CASE y = St!Repository /\ r \in Listed[v] \ repoRelays
    BY <1>5, <1>12, <2>2
  <2>3. CASE y = St!OfMaintainers(v) /\ r = Gossip /\ Uncensored /\ Maintainers[v] \ synced # {}
    <3>1. St!MaintainerRelays(v) # {}
      BY <2>3 DEF St!MaintainerRelays
    <3>2. Maintainers[v] \subseteq synced'
      BY <1>12, <3>1
    <3> QED BY <1>4, <2>3, <3>2
  <2>4. CASE y \in fresh /\ (r = Bootstrap \/ r \in relays)
    BY <1>6, <1>12, <1>14, <1>15, <2>4
  <2> QED BY <1>16, <1>17, <2>1, <2>2, <2>3, <2>4
<1>23. StTold'
  <2>1. Listed[v] \subseteq relays
    BY <1>5
  <2>2. ASSUME NEW r \in relays PROVE <<r, St!Repository>> \in asked'
    <3>1. CASE r \in repoRelays
      BY <1>16, <3>1 DEF StInv, StTold
    <3>2. CASE r \in Listed[v] \ repoRelays
      BY <1>16, <1>17, <3>2
    <3> QED BY <1>5, <3>1, <3>2
  <2> QED BY <1>12, <2>1, <2>2 DEF StTold
<1>24. StLatest'
  <2>1. db' = db /\ news' = news /\ St!Visible(db)' = St!Visible(db)
    BY <1>12 DEF St!Visible
  <2>2. current' => \A q \in passes' : ~q.latest
    BY <1>12 DEF StInv, StLatest
  <2> QED BY <1>12, <2>1, <2>2 DEF StInv, StLatest
<1>25. StShown'
  <2> SUFFICES ASSUME p.latest, ~news
               PROVE  /\ p.roots = St!Visible(db) /\ p.topics = db.topics \cap p.roots
                      /\ db.ann <= v
    BY <1>12 DEF StShown, St!Visible
  <2>1. /\ p.roots = St!Visible(db) /\ p.ann = db.ann /\ p.topics = db.topics \cap p.roots
    BY <1>1 DEF StInv, StLatest
  <2>2. db.ann <= v
    <3>1. v \in Nat /\ p.ann \in Nat
      BY <1>2, <1>4, StNames
    <3>2. CASE St!KeepHint(p)
      BY <2>1, <3>1, <3>2 DEF St!KeepHint
    <3>3. CASE ~St!KeepHint(p)
      BY <1>4, <2>1, <3>1, <3>3
    <3> QED BY <3>2, <3>3
  <2> QED BY <2>1, <2>2
<1> QED BY <1>16, <1>20, <1>21, <1>22, <1>23, <1>24, <1>25 DEF StInv

\* Every step of the store keeps it.
LEMMA StKept == StInv /\ [St!Next]_st => StInv'
<1> SUFFICES ASSUME StInv, [St!Next]_st PROVE StInv'
  OBVIOUS
<1>1. CASE UNCHANGED st
  <2>0. StTyped' /\ StLocal'
    BY <1>1 DEF st, StInv, StTyped, St!TypeOK, StLocal
  <2>1. StAsks' /\ StMarked' /\ StTold' /\ StGone'
    BY <1>1 DEF st, StInv, StAsks, StMarked, StTold, StGone
  <2>2. StAnswered' /\ StLatest' /\ StShown'
    BY <1>1 DEF st, StInv, StAnswered, StCovered, StLatest, StShown, St!Visible
  <2> QED BY <2>0, <2>1, <2>2 DEF StInv
<1> QED
  BY <1>1, StReads, StPassFails, StGivesUp, StDelivers, StUpdates, StAnnounces, StLands
  DEF St!Next, St!Advance

\* At rest the store has found all there is to find, and asked nobody twice.
LEMMA StFinds == StInv => St!TypeOK /\ FindsEverything
<1> SUFFICES ASSUME StInv PROVE FindsEverything
  BY DEF StInv, StTyped
<1>1. St!NeverRefetched
  BY DEF StInv, StMarked, St!NeverRefetched
<1>2. \A r, y : <<r, y>>[1] = r /\ <<r, y>>[2] = y
  OBVIOUS
<1>3. ASSUME NEW r
      PROVE  r \in St!Reached <=> r \in St!Where /\ \E y : <<r, y>> \in asked /\ y \notin Root
  <2>1. ASSUME r \in St!Reached PROVE \E y : <<r, y>> \in asked /\ y \notin Root
    <3>1. PICK x \in asked : x[1] = r /\ x[2] \notin Root
      BY <2>1 DEF St!Reached
    <3>2. PICK q, y : x = <<q, y>>
      BY DEF StInv, StTyped
    <3> QED BY <1>2, <3>1, <3>2
  <2>2. ASSUME r \in St!Where, NEW y, <<r, y>> \in asked, y \notin Root
        PROVE  r \in St!Reached
    BY <1>2, <2>2 DEF St!Reached
  <2> QED BY <2>1, <2>2 DEF St!Reached
<1>4. ASSUME St!AtRest, addr, current, ~unreached
      PROVE  /\ \A r \in St!Reached :
                  /\ held[r].ann <= announcement
                  /\ held[r].roots \subseteq
                       shown.roots \cup UNION {held[q].gone : q \in St!Reached}
                  /\ held[r].gone \cap shown.roots = {}
             /\ Listed[announcement] \subseteq St!Reached
             /\ \A x \in asked :
                  x[2] \in shown.roots \cap held[x[1]].topics => x[2] \in shown.topics
  <2>1. asks = {} /\ news = FALSE
    BY <1>4 DEF St!AtRest, StInv, StTyped, St!TypeOK
  <2>2. \A r, y : <<r, y>> \in asked => StCovered(r, y)
    BY <1>4, <2>1 DEF StInv, StAnswered
  <2>3. /\ shown.roots = db.roots \ db.gone /\ shown.topics = db.topics \cap shown.roots
        /\ db.ann <= announcement
    BY <1>4, <2>1 DEF StInv, StShown, St!Visible
  <2>4. /\ db.ann \in Nat /\ announcement \in Nat /\ shown.roots \subseteq Root
        /\ announcement \in St!Versions
    BY StNames DEF StInv, StTyped, St!TypeOK, St!Content
  <2>5. ASSUME NEW r \in St!Reached
        PROVE  /\ held[r].ann <= announcement
               /\ held[r].roots \subseteq
                    shown.roots \cup UNION {held[q].gone : q \in St!Reached}
               /\ held[r].gone \cap shown.roots = {}
    <3>1. PICK y : <<r, y>> \in asked /\ y \notin Root
      BY <1>3
    <3>2. /\ held[r].ann <= db.ann /\ held[r].roots \subseteq db.roots
          /\ held[r].gone \subseteq db.gone
      BY <2>2, <3>1 DEF StCovered
    <3>3. held[r].ann \in Nat
      BY <1>3, StNames DEF StInv, StTyped, St!Content
    <3>4. held[r].ann <= announcement
      BY <2>3, <2>4, <3>2, <3>3
    <3>5. ASSUME NEW x \in db.gone
          PROVE  x \in UNION {held[q].gone : q \in St!Reached}
      <4>1. PICK q \in St!Where : \E z : <<q, z>> \in asked /\ z \notin Root /\ x \in held[q].gone
        BY DEF StInv, StGone
      <4>2. q \in St!Reached /\ x \in held[q].gone
        BY <1>3, <4>1
      <4> QED BY <4>2
    <3> QED BY <2>3, <3>2, <3>4, <3>5
  <2>6. Listed[announcement] \subseteq St!Reached
    <3> SUFFICES ASSUME NEW r \in Listed[announcement] PROVE r \in St!Reached
      OBVIOUS
    <3>1. r \in repoRelays
      BY <1>4 DEF StInv, StTold
    <3>2. <<r, St!Repository>> \in asked
      BY <3>1 DEF StInv, StTold
    <3>3. r \in St!Where /\ St!Repository \notin Root
      BY <2>4, StNames
    <3> QED BY <1>3, <3>2, <3>3
  <2>7. ASSUME NEW x \in asked, x[2] \in shown.roots, x[2] \in held[x[1]].topics
        PROVE  x[2] \in shown.topics
    <3>1. PICK r, y : x = <<r, y>>
      BY DEF StInv, StTyped
    <3>2. y \in shown.roots /\ y \in held[r].topics /\ <<r, y>> \in asked /\ x[2] = y
      BY <1>2, <2>7, <3>1
    <3>3. y \in db.topics
      BY <2>2, <2>4, <3>2 DEF StCovered
    <3> QED BY <2>3, <3>2, <3>3
  <2> QED BY <2>5, <2>6, <2>7
<1>5. St!FindsEverything
  BY <1>4 DEF St!FindsEverything
<1> QED BY <1>1, <1>5 DEF FindsEverything

-----------------------------------------------------------------------------
(* The store *)

StoreInv == PbInv /\ StInv /\ LsInv

\* One part moves and the others rest.
LEMMA StoreKept == StoreInv /\ [RepositoryNext]_<<part, pb, st, ls>> => StoreInv'
<1> SUFFICES ASSUME StoreInv, [RepositoryNext]_<<part, pb, st, ls>> PROVE StoreInv'
  OBVIOUS
<1>1. [Pb!Next]_pb /\ [St!Next]_st /\ [Ls!Next]_ls
  BY DEF RepositoryNext
<1> QED BY <1>1, PbKept, StKept, LsKept DEF StoreInv

\* The invariants of the parts hold throughout.
THEOREM StoreInvariance == RepositorySpec => []StoreInv
<1>1. RepositoryInit => StoreInv
  BY PbStarts, StStarts, LsStarts DEF RepositoryInit, StoreInv
<1> QED BY <1>1, StoreKept, PTL DEF RepositorySpec

\* Publishing, the passes of the store and its lists are well typed: a task has no
\* more steps than patches, a relay accepts nothing that nobody has signed, the
\* store asks no relay that no announcement lists, and numbers no row past the posts.
THEOREM StoreTyped == RepositorySpec => []WellTyped
<1>1. StoreInv => WellTyped
  BY StFinds, LsTyped DEF StoreInv, PbInv, WellTyped
<1> QED BY <1>1, StoreInvariance, PTL

\* At rest the store has found all there is to find on the relays that the
\* announcements lead to, and asked nobody twice (run_refresh,
\* connect_announced_relays, sync_maintainer_relays).
THEOREM EverythingIsFound == RepositorySpec => []FindsEverything
<1>1. StoreInv => FindsEverything
  BY StFinds DEF StoreInv
<1> QED BY <1>1, StoreInvariance, PTL

\* A pull request or a revision that the relays know has all its patches, signed
\* by one identity unless it changed meanwhile (open_pull_request,
\* update_pull_request, publish_patch_series).
THEOREM PullsAreWhole == RepositorySpec => []PullIsWhole
<1>1. StoreInv => PullIsWhole
  BY DEF StoreInv, PbInv, PullIsWhole
<1> QED BY <1>1, StoreInvariance, PTL

\* What was begun is on the relays or in flight, or its error is shown, or was
\* cleared, or is that of a signer that refused a pull request (publish).
THEOREM FailuresShow == RepositorySpec => []FailuresAreShown
<1>1. StoreInv => FailuresAreShown
  BY PbShows DEF StoreInv, FailuresAreShown
<1> QED BY <1>1, StoreInvariance, PTL

\* The list of issues shows what the author or a maintainer said last, and both
\* lists count what the badges count (RepoStatus::resolve, filter_by_status).
THEOREM TheListsAreRight == RepositorySpec => []ListsAreRight
<1>1. StoreInv => ListsAreRight
  BY LsIssues, LsAgree DEF StoreInv, ListsAreRight
<1> QED BY <1>1, StoreInvariance, PTL
=============================================================================
