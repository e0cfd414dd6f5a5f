-------------------------- MODULE RepoListProofs --------------------------
(***************************************************************************)
(* Proofs about RepoList, for any number of repositories, identities and   *)
(* stamps.  Everything rests on one inductive invariant, IInv: the parts   *)
(* below relate what a run in flight has read to the database and to the   *)
(* list already shown.                                                     *)
(***************************************************************************)
EXTENDS RepoList, TLAPS

\* What a run read was in the database when it read it, and is not older
\* than what is shown.
RunsSound ==
  /\ \A r \in Repo : shown[r] <= announced[r]
  /\ \A x \in runs :
       /\ x.stage # "begun" =>
            \A r \in Repo : shown[r] <= x.ann[r] /\ x.ann[r] <= announced[r]
       /\ x.stage = "deletions" => \A r \in Repo : x.del[r] <= deleted[r]

\* With no batch held back and no follow-up due, what the run in flight read
\* is still what the database holds.
RunsCurrent ==
  (~batch /\ ~gate.dirty) =>
    \A x \in runs :
      /\ x.stage # "begun" => x.ann = announced
      /\ x.stage = "deletions" => x.del = deleted

\* Only an abandoned run leaves a follow-up behind an idle gate.
DirtyAtRest == (gate.dirty /\ ~gate.running) => abandoned

\* Requests are served in order.
InOrder ==
  /\ served <= asked
  /\ \A x \in runs : served <= x.covers /\ x.covers <= asked

IInv ==
  /\ TypeOK
  /\ OneRun
  /\ InOrder
  /\ RunsSound
  /\ RunsCurrent
  /\ DirtyAtRest
  /\ Converged
  /\ OwnStatesAsked

-----------------------------------------------------------------------------
\* Filtering a snapshot by another yields a snapshot.
LEMMA VisibleType ==
  ASSUME NEW ann \in Snapshot, NEW del \in Snapshot
  PROVE  /\ Visible(ann, del) \in Snapshot
         /\ \A r \in Repo : Visible(ann, del)[r] \in {0, ann[r]}
  BY RepoListAssumption DEF Visible, Snapshot, Stamp

\* A run record just created is well typed.
LEMMA NewRunType ==
  ASSUME NEW n \in Nat
  PROVE  /\ NewRun(n) \in Run
         /\ NewRun(n).stage = "begun"
         /\ NewRun(n).covers = n
  BY RepoListAssumption DEF NewRun, Run, Nothing, Snapshot, Stamp

\* The initial states satisfy the inductive invariant.
LEMMA InitInv == Init => IInv
<1> SUFFICES ASSUME Init PROVE IInv
  OBVIOUS
<1>1. /\ NewRun(1) \in Run
      /\ NewRun(1).stage = "begun"
      /\ NewRun(1).covers = 1
  BY NewRunType
<1>0. Nothing \in Snapshot
  BY RepoListAssumption DEF Nothing, Snapshot, Stamp
<1>5. gate \in Gate /\ gate.running
  BY DEF Init, Gate, IdleGate, Begun
<1>2. TypeOK
  BY <1>0, <1>1, <1>5 DEF Init, TypeOK
<1>3. OneRun /\ InOrder /\ RunsCurrent /\ DirtyAtRest /\ Converged /\ OwnStatesAsked
  BY <1>1 DEF Init, OneRun, InOrder, RunsCurrent, DirtyAtRest, Converged,
     OwnStatesAsked, IdleGate, Begun
<1>4. RunsSound
  BY <1>1, RepoListAssumption
  DEF Init, RunsSound, Nothing, Snapshot, Stamp
<1> QED
  BY <1>2, <1>3, <1>4 DEF IInv

\* A request, whoever makes it, leaves the invariant true.  What else the
\* caller changes is the batch flag, the user and the synced set.
LEMMA RefreshInv ==
  ASSUME IInv, Refresh,
         UNCHANGED <<announced, deleted, shown, served, abandoned>>,
         batch' \in BOOLEAN, user' \in User \cup {NoUser},
         stateSynced' \in SUBSET Repo
  PROVE  IInv'
<1>1. CASE gate.running
  <2>1. gate' = [gate EXCEPT !.dirty = TRUE] /\ runs' = runs /\ asked' = asked + 1
    BY <1>1 DEF Refresh, Folds, Requested
  <2>2. gate'.running /\ gate'.dirty /\ gate' \in Gate
    BY <1>1, <2>1 DEF IInv, TypeOK, Gate
  <2> QED
    BY <1>1, <2>1, <2>2
    DEF IInv, TypeOK, OneRun, InOrder, RunsSound, RunsCurrent, DirtyAtRest,
        Converged, OwnStatesAsked, Run
<1>2. CASE ~gate.running
  <2>1. runs = {}
    BY <1>2 DEF IInv, OneRun
  <2>2. asked' = asked + 1 /\ asked' \in Nat /\ runs' = {NewRun(asked')}
    BY <1>2, <2>1 DEF Refresh, Folds, IInv, TypeOK
  <2>3. gate' = [gate EXCEPT !.running = TRUE]
    BY <1>2 DEF Refresh, Folds, Begun
  <2>4. gate'.running /\ gate' \in Gate /\ gate'.dirty = gate.dirty
    BY <2>3 DEF IInv, TypeOK, Gate
  <2>5. /\ NewRun(asked') \in Run
        /\ NewRun(asked').stage = "begun"
        /\ NewRun(asked').covers = asked'
    BY <2>2, NewRunType
  <2>6. TypeOK'
    BY <2>2, <2>4, <2>5 DEF IInv, TypeOK
  <2>7. InOrder'
    BY <2>2, <2>5 DEF IInv, InOrder, TypeOK
  <2>8. (OneRun /\ RunsSound /\ RunsCurrent /\ DirtyAtRest /\ Converged
         /\ OwnStatesAsked)'
    BY <2>2, <2>4, <2>5 DEF IInv, OneRun, RunsSound, RunsCurrent, DirtyAtRest,
       Converged, OwnStatesAsked
  <2> QED
    BY <2>6, <2>7, <2>8 DEF IInv
<1> QED
  BY <1>1, <1>2

\* A query leaves the invariant true: what it reads is in the database, and
\* is current for as long as no batch is held back.
LEMMA AdvanceInv ==
  ASSUME IInv, NEW x \in runs, NEW y \in Run, Advance(x, y),
         y.covers = x.covers,
         \/ y.stage = "announcements" /\ y.ann = announced
         \/ y.stage = "deletions" /\ y.del = deleted /\ x.stage = "announcements"
                                  /\ y.ann = x.ann
  PROVE  IInv'
<1>1. runs = {x} /\ gate.running
  BY DEF IInv, OneRun
<1>2. runs' = {y}
  BY <1>1 DEF Advance
<1>3. UNCHANGED <<announced, deleted, batch, user, gate, shown, stateSynced,
                  asked, served, abandoned>>
  BY DEF Advance, dbVars
<1>4. TypeOK'
  BY <1>2, <1>3 DEF IInv, TypeOK
<1>5. (OneRun /\ InOrder /\ DirtyAtRest /\ Converged /\ OwnStatesAsked)'
  BY <1>1, <1>2, <1>3 DEF IInv, OneRun, InOrder, DirtyAtRest, Converged,
     OwnStatesAsked
<1>6. RunsCurrent'
  BY <1>1, <1>2, <1>3 DEF IInv, RunsCurrent
<1>7. RunsSound'
  <2>1. \A r \in Repo : announced[r] <= announced[r] /\ deleted[r] <= deleted[r]
    BY RepoListAssumption DEF IInv, TypeOK, Snapshot, Stamp
  <2> QED
    BY <1>1, <1>2, <1>3, <2>1 DEF IInv, RunsSound
<1> QED
  BY <1>4, <1>5, <1>6, <1>7 DEF IInv

\* Reading the announcements or the deletions preserves the invariant: what
\* is read is what the database holds at that moment.
LEMMA ReadInv ==
  ASSUME IInv, NEW x \in runs, ReadAnnouncements(x) \/ ReadDeletions(x)
  PROVE  IInv'
<1>1. x \in Run /\ announced \in Snapshot /\ deleted \in Snapshot
  BY DEF IInv, TypeOK
<1>2. CASE ReadAnnouncements(x)
  <2> DEFINE y == [x EXCEPT !.stage = "announcements", !.ann = announced]
  <2>1. /\ y \in Run /\ y.covers = x.covers
        /\ y.stage = "announcements" /\ y.ann = announced
    BY <1>1 DEF Run
  <2>2. Advance(x, y)
    BY <1>2 DEF ReadAnnouncements
  <2> HIDE DEF y
  <2> QED
    BY <2>1, <2>2, AdvanceInv
<1>3. CASE ReadDeletions(x)
  <2> DEFINE y == [x EXCEPT !.stage = "deletions", !.del = deleted]
  <2>1. /\ y \in Run /\ y.covers = x.covers /\ x.stage = "announcements"
        /\ y.stage = "deletions" /\ y.del = deleted /\ y.ann = x.ann
    BY <1>1, <1>3 DEF Run, ReadDeletions
  <2>2. Advance(x, y)
    BY <1>3 DEF ReadDeletions
  <2> HIDE DEF y
  <2> QED
    BY <2>1, <2>2, AdvanceInv
<1> QED
  BY <1>2, <1>3

\* Landing shows what the run read, and that is current unless a batch is
\* held back or a follow-up starts.
LEMMA LandInv ==
  ASSUME IInv, NEW x \in runs, Land(x)
  PROVE  IInv'
<1>1. runs = {x} /\ gate.running /\ x \in Run
  BY DEF IInv, OneRun, TypeOK
<1>2. /\ x.ann \in Snapshot /\ x.del \in Snapshot /\ x.covers \in Nat
      /\ x.stage = "deletions"
  BY <1>1 DEF Run, Land
<1>3. shown' = Visible(x.ann, x.del) /\ shown' \in Snapshot
  BY <1>2, VisibleType DEF Land
<1>4. \A r \in Repo : shown'[r] <= announced[r]
  <2> SUFFICES ASSUME NEW r \in Repo PROVE shown'[r] <= announced[r]
    OBVIOUS
  <2>1. shown'[r] \in {0, x.ann[r]}
    BY <1>2, <1>3, VisibleType
  <2>2. x.ann[r] <= announced[r] /\ announced[r] \in Nat /\ 0 <= announced[r]
    BY <1>2, RepoListAssumption
    DEF IInv, RunsSound, TypeOK, Snapshot, Stamp
  <2> QED
    BY <2>1, <2>2
<1>5. /\ UNCHANGED <<announced, deleted, batch, user, asked>>
      /\ served' = x.covers /\ abandoned' = FALSE
  BY DEF Land, dbVars
<1>6. /\ gate' \in Gate /\ ~gate'.dirty
      /\ gate'.running = gate.dirty
      /\ ~gate.dirty => runs' = {}
      /\ gate.dirty => runs' = {NewRun(asked)}
  <2>1. gate \in Gate
    BY DEF IInv, TypeOK
  <2>2. CASE gate.dirty
    <3>1. gate' = Begun(Finished(gate)) /\ runs' = {NewRun(asked)}
      BY <1>1, <2>2 DEF Land, NeedsFollowUp
    <3>2. gate' = [running |-> TRUE, dirty |-> FALSE]
      BY <2>1, <3>1 DEF Begun, Finished, Gate
    <3> QED
      BY <2>2, <3>1, <3>2 DEF Gate
  <2>3. CASE ~gate.dirty
    <3>1. gate' = Finished(gate) /\ runs' = {}
      BY <1>1, <2>3 DEF Land, NeedsFollowUp
    <3>2. gate' = [running |-> FALSE, dirty |-> FALSE]
      BY <2>1, <3>1 DEF Finished, Gate
    <3>3. gate' \in Gate /\ gate'.dirty = FALSE /\ gate'.running = FALSE
      BY <3>2 DEF Gate
    <3>4. gate.dirty = FALSE
      BY <2>1, <2>3 DEF Gate
    <3> QED
      BY <3>1, <3>3, <3>4
  <2> QED
    BY <2>2, <2>3
<1>7. /\ NewRun(asked) \in Run /\ NewRun(asked).stage = "begun"
      /\ NewRun(asked).covers = asked
  BY NewRunType DEF IInv, TypeOK
<1>8. /\ stateSynced' \in SUBSET Repo
      /\ user # NoUser => OwnRelayed(shown', user) \subseteq stateSynced'
  BY RepoListAssumption DEF Land, IInv, TypeOK, OwnRelayed
<1>9. TypeOK'
  BY <1>2, <1>3, <1>5, <1>6, <1>7, <1>8 DEF IInv, TypeOK
<1>10. OneRun' /\ InOrder'
  BY <1>1, <1>2, <1>5, <1>6, <1>7 DEF IInv, OneRun, InOrder, TypeOK
<1>11. RunsSound' /\ RunsCurrent' /\ DirtyAtRest'
  BY <1>4, <1>5, <1>6, <1>7 DEF RunsSound, RunsCurrent, DirtyAtRest
<1>12. Converged'
  BY <1>1, <1>2, <1>3, <1>5, <1>6 DEF IInv, RunsCurrent, Converged
<1>13. OwnStatesAsked'
  BY <1>5, <1>8 DEF OwnStatesAsked
<1> QED
  BY <1>9, <1>10, <1>11, <1>12, <1>13 DEF IInv

\* An abandoned run frees the gate and excuses what is left undone.
LEMMA AbandonInv ==
  ASSUME IInv, NEW x \in runs, Abandon(x)
  PROVE  IInv'
<1>1. runs' = {} /\ abandoned' = TRUE
  BY DEF IInv, OneRun, Abandon
<1>2. gate' \in Gate /\ ~gate'.running
  BY DEF IInv, TypeOK, Abandon, Aborted, Gate
<1>3. UNCHANGED <<announced, deleted, batch, user, shown, stateSynced, asked, served>>
  BY DEF Abandon, dbVars
<1> QED
  BY <1>1, <1>2, <1>3
  DEF IInv, TypeOK, OneRun, InOrder, RunsSound, RunsCurrent, DirtyAtRest,
      Converged, OwnStatesAsked

\* New data in the database comes with a batch to announce it.
LEMMA StoreInv ==
  ASSUME IInv, NEW r \in Repo, NEW s \in Stamp,
         StoreAnnouncement(r, s) \/ StoreDeletion(r, s)
  PROVE  IInv'
<1>1. /\ announced' \in Snapshot /\ deleted' \in Snapshot
      /\ \A q \in Repo : announced[q] <= announced'[q] /\ deleted[q] <= deleted'[q]
  BY RepoListAssumption
  DEF IInv, TypeOK, Snapshot, Stamp, StoreAnnouncement, StoreDeletion
<1>2. /\ batch' = TRUE
      /\ UNCHANGED <<user, gate, runs, shown, stateSynced, asked, served, abandoned>>
  BY DEF StoreAnnouncement, StoreDeletion, storeVars
<1>3. TypeOK' /\ OneRun' /\ InOrder' /\ RunsCurrent' /\ DirtyAtRest'
      /\ Converged' /\ OwnStatesAsked'
  BY <1>1, <1>2 DEF IInv, TypeOK, OneRun, InOrder, RunsCurrent, DirtyAtRest,
     Converged, OwnStatesAsked
<1>4. RunsSound'
  <2>1. \A q \in Repo : shown[q] \in Nat /\ announced[q] \in Nat
                        /\ announced'[q] \in Nat /\ deleted[q] \in Nat
                        /\ deleted'[q] \in Nat
    BY <1>1, RepoListAssumption DEF IInv, TypeOK, Snapshot, Stamp
  <2>2. \A x \in runs : \A q \in Repo : x.ann[q] \in Nat /\ x.del[q] \in Nat
    BY RepoListAssumption DEF IInv, TypeOK, Run, Snapshot, Stamp
  <2>3. \A q \in Repo : shown[q] <= announced'[q]
    BY <1>1, <2>1 DEF IInv, RunsSound
  <2>4. \A x \in runs : x.stage # "begun" =>
          \A q \in Repo : shown[q] <= x.ann[q] /\ x.ann[q] <= announced'[q]
    BY <1>1, <2>1, <2>2 DEF IInv, RunsSound
  <2>5. \A x \in runs : x.stage = "deletions" => \A q \in Repo : x.del[q] <= deleted'[q]
    BY <1>1, <2>1, <2>2 DEF IInv, RunsSound
  <2> QED
    BY <1>2, <2>3, <2>4, <2>5 DEF RunsSound
<1> QED
  BY <1>3, <1>4 DEF IInv

\* Every step, and every stutter, preserves the inductive invariant.
LEMMA NextInv == IInv /\ [Next]_vars => IInv'
<1> SUFFICES ASSUME IInv, [Next]_vars PROVE IInv'
  OBVIOUS
<1>1. ASSUME NEW r \in Repo, NEW s \in Stamp,
             StoreAnnouncement(r, s) \/ StoreDeletion(r, s)
      PROVE  IInv'
  BY <1>1, StoreInv
<1>2. CASE PumpEmit
  <2>1. /\ Refresh /\ batch' \in BOOLEAN /\ user' = user /\ stateSynced' = stateSynced
        /\ UNCHANGED <<announced, deleted, shown, served, abandoned>>
    BY <1>2 DEF PumpEmit, dbVars
  <2> QED
    BY <2>1, RefreshInv DEF IInv, TypeOK
<1>3. CASE BackendSynced
  <2>1. /\ Refresh /\ batch' = batch /\ user' = user /\ stateSynced' = stateSynced
        /\ UNCHANGED <<announced, deleted, shown, served, abandoned>>
    BY <1>3 DEF BackendSynced, dbVars
  <2> QED
    BY <2>1, RefreshInv DEF IInv, TypeOK
<1>4. ASSUME NEW u \in User \cup {NoUser}, SignerChanged(u)
      PROVE  IInv'
  <2>1. /\ Refresh /\ batch' = batch /\ user' = u /\ stateSynced' = {}
        /\ UNCHANGED <<announced, deleted, shown, served, abandoned>>
    BY <1>4 DEF SignerChanged, dbVars
  <2> QED
    BY <2>1, RefreshInv DEF IInv, TypeOK
<1>5. ASSUME NEW x \in runs, ReadAnnouncements(x) \/ ReadDeletions(x)
      PROVE  IInv'
  BY <1>5, ReadInv
<1>6. ASSUME NEW x \in runs, Land(x)
      PROVE  IInv'
  BY <1>6, LandInv
<1>7. ASSUME NEW x \in runs, Abandon(x)
      PROVE  IInv'
  BY <1>7, AbandonInv
<1>8. CASE UNCHANGED vars
  BY <1>8 DEF vars, IInv, TypeOK, OneRun, InOrder, RunsSound, RunsCurrent,
     DirtyAtRest, Converged, OwnStatesAsked
<1> QED
  BY <1>1, <1>2, <1>3, <1>4, <1>5, <1>6, <1>7, <1>8 DEF Next

-----------------------------------------------------------------------------
(* The theorems *)

\* The inductive invariant holds throughout: what a run in flight has read
\* is in the database, is no older than the list shown, and is current
\* unless a batch or a follow-up is still to come.
THEOREM Invariance == Spec => []IInv
  BY InitInv, NextInv, PTL DEF Spec

\* Every variable of the store keeps its type.
THEOREM TypeCorrect == Spec => []TypeOK
<1>1. IInv => TypeOK
  BY DEF IInv
<1> QED
  BY <1>1, Invariance, PTL

\* RefreshGate and its callers in repos.rs keep at most one refresh in
\* flight, and the gate is closed exactly while there is one.
THEOREM SingleRun == Spec => []OneRun
<1>1. IInv => OneRun
  BY DEF IInv
<1> QED
  BY <1>1, Invariance, PTL

\* No update is lost by folding: at rest, with no batch held back and the
\* latest run successful, the list is what the database holds.
THEOREM ListConverges == Spec => []Converged
<1>1. IInv => Converged
  BY DEF IInv
<1> QED
  BY <1>1, Invariance, PTL

\* sync_own_repo_states: at rest after a successful run, the states of the
\* signed-in user's own repositories were all asked for.
THEOREM OwnStates == Spec => []OwnStatesAsked
<1>1. IInv => OwnStatesAsked
  BY DEF IInv
<1> QED
  BY <1>1, Invariance, PTL

\* Only a landing changes the list, and a landing replaces an entry by an
\* older one only when a stored deletion covers it.
LEMMA StepNeverOlder ==
  ASSUME IInv, [Next]_vars, NEW r \in Repo, shown'[r] < shown[r]
  PROVE  deleted[r] >= shown[r]
<1>0. shown[r] \in Nat /\ deleted[r] \in Nat /\ announced[r] \in Nat
  BY RepoListAssumption DEF IInv, TypeOK, Snapshot, Stamp
<1>1. CASE shown' = shown
  BY <1>0, <1>1
<1>2. ASSUME NEW x \in runs, Land(x)
      PROVE  deleted[r] >= shown[r]
  <2>1. x.ann \in Snapshot /\ x.del \in Snapshot /\ x.stage = "deletions"
    BY <1>2 DEF IInv, TypeOK, Run, Land
  <2>2. shown'[r] = IF x.ann[r] > x.del[r] THEN x.ann[r] ELSE 0
    BY <1>2 DEF Land, Visible
  <2>3. shown[r] <= x.ann[r] /\ x.del[r] <= deleted[r]
    BY <1>2, <2>1 DEF IInv, RunsSound
  <2>4. x.ann[r] \in Nat /\ x.del[r] \in Nat
    BY <2>1, RepoListAssumption DEF Snapshot, Stamp
  <2> QED
    BY <1>0, <2>2, <2>3, <2>4
<1>3. \/ shown' = shown
      \/ \E x \in runs : Land(x)
  BY DEF Next, vars, storeVars, StoreAnnouncement, StoreDeletion, PumpEmit,
     BackendSynced, SignerChanged, ReadAnnouncements, ReadDeletions, Advance,
     Abandon
<1> QED
  BY <1>1, <1>2, <1>3

\* The list never goes back in time.
THEOREM ListNeverOlder == Spec => NeverOlder
<1>1. IInv /\ [Next]_vars
        => [\A r \in Repo : shown'[r] < shown[r] => deleted[r] >= shown[r]]_vars
  BY StepNeverOlder
<1> QED
  BY <1>1, Invariance, PTL DEF Spec, NeverOlder

\* RepoListStore keeps the safety half of the contract of a coalesced
\* refresh: each step is a request, a publication that serves a newer
\* request, or neither.
THEOREM ImplementsContract == Spec => ImplementsSafeContract
<1> USE DEF Contract!vars
<1>1. Init => Contract!Init
  BY DEF Init, Contract!Init
<1>2. IInv /\ [Next]_vars => [Contract!Next]_(Contract!vars)
  <2> SUFFICES ASSUME IInv, [Next]_vars
               PROVE  [Contract!Next]_(Contract!vars)
    OBVIOUS
  <2>1. asked \in Nat /\ served \in Nat
    BY DEF IInv, TypeOK
  <2>2. CASE UNCHANGED <<asked, served>>
    BY <2>2
  <2>3. CASE asked' = asked + 1 /\ served' = served
    BY <2>3 DEF Contract!Next, Contract!Ask
  <2>4. ASSUME NEW x \in runs, Land(x)
        PROVE  [Contract!Next]_(Contract!vars)
    <3>1. /\ served' = x.covers /\ asked' = asked
          /\ served <= x.covers /\ x.covers <= asked /\ x.covers \in Nat
      BY <2>4 DEF Land, IInv, InOrder, TypeOK, Run
    <3>2. CASE served' = served
      BY <3>1, <3>2
    <3>3. CASE served' # served
      BY <2>1, <3>1, <3>3 DEF Contract!Next, Contract!Serve
    <3> QED
      BY <3>2, <3>3
  <2>5. \/ UNCHANGED <<asked, served>>
        \/ asked' = asked + 1 /\ served' = served
        \/ \E x \in runs : Land(x)
    BY DEF Next, vars, storeVars, StoreAnnouncement, StoreDeletion, PumpEmit,
       BackendSynced, SignerChanged, Refresh, ReadAnnouncements, ReadDeletions,
       Advance, Abandon
  <2> QED
    BY <2>2, <2>3, <2>4, <2>5
<1> QED
  BY <1>1, <1>2, Invariance, PTL DEF Spec, ImplementsSafeContract, Contract!SafeSpec
=============================================================================
