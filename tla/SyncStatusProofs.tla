-------------------------- MODULE SyncStatusProofs --------------------------
(***************************************************************************)
(* Proofs about SyncStatus, for any repositories, panels, identities and   *)
(* versions.  The inductive invariant has two halves: what holds of the    *)
(* store and its pass, and what holds of each directory by itself, given   *)
(* the active set, the published versions and the pass in flight.          *)
(***************************************************************************)
EXTENDS SyncStatus, TLAPS

\* How many probes a directory may have sent for r: one that was answered and
\* one that is waiting.
Due(dir, r) ==
  (IF r \in Known(dir) THEN 1 ELSE 0) + (IF r \in dir.pending THEN 1 ELSE 0)

\* What a directory shows or waits for is active, was probed no more than that,
\* and is neither newer than the published state nor than what the pass in
\* flight has found.
SoundDir(dir, active, pub, ps) ==
  /\ dir \in Dir
  /\ Known(dir) \cup dir.pending \subseteq active
  /\ \A r \in Repo : dir.probes[r] <= Due(dir, r)
  /\ \A r \in Known(dir) :
       /\ dir.statuses[r] <= pub[r]
       /\ \A p \in ps : p.computed => dir.statuses[r] <= p.found[r]

DirsSound == \A d \in Directory : SoundDir(dirs[d], store.active, published, passes)

\* What a pass has found was published.
PassesSound == \A p \in passes : p.computed => \A r \in Repo : p.found[r] <= published[r]

\* Signed out, whatever is active is about to be cleared: a wake-up is queued,
\* or the pass in flight is followed by another run_pass.
SignedOutDrains ==
  user = NoUser =>
    signal \/ store.active = {} \/ (store.inFlight /\ store.passPending)

IInv ==
  /\ TypeOK
  /\ SlotHeldByOnePass
  /\ KeepsPolling
  /\ SignedOutDrains
  /\ PassesSound
  /\ DirsSound

-----------------------------------------------------------------------------
(* Directories *)

\* A directory that has forgotten everything is sound, whatever is active.
LEMMA EmptySound ==
  ASSUME NEW active, NEW pub, NEW ps
  PROVE  SoundDir(EmptyDir, active, pub, ps) /\ Known(EmptyDir) = {}
<1>1. EmptyDir \in Dir
  BY DEF EmptyDir, Dir, MaxProbes
<1>2. Known(EmptyDir) = {} /\ EmptyDir.pending = {}
  BY DEF EmptyDir, Known
<1>3. \A r \in Repo : EmptyDir.probes[r] = 0
  BY DEF EmptyDir
<1> QED
  BY <1>1, <1>2, <1>3 DEF SoundDir, Due

\* A sound directory stays sound when more becomes active, newer versions are
\* published and a pass reads the published state.
LEMMA SoundDirMonotone ==
  ASSUME NEW dir, NEW active, NEW active2, active \subseteq active2,
         NEW pub \in [Repo -> Version], NEW pub2 \in [Repo -> Version],
         \A r \in Repo : pub[r] <= pub2[r],
         NEW ps, NEW ps2,
         \A q \in ps2 : q.computed => q \in ps \/ q.found = pub,
         SoundDir(dir, active, pub, ps)
  PROVE  SoundDir(dir, active2, pub2, ps2)
<1>1. dir \in Dir /\ Known(dir) \cup dir.pending \subseteq active2
  BY DEF SoundDir
<1>2. ASSUME NEW r \in Known(dir)
      PROVE  /\ dir.statuses[r] <= pub2[r]
             /\ \A q \in ps2 : q.computed => dir.statuses[r] <= q.found[r]
  <2>1. r \in Repo /\ dir.statuses[r] \in Nat /\ pub[r] \in Nat /\ pub2[r] \in Nat
    BY <1>1, SyncStatusAssumption DEF Known, Dir, Version
  <2>2. dir.statuses[r] <= pub[r]
    BY DEF SoundDir
  <2>3. dir.statuses[r] <= pub2[r]
    BY <2>1, <2>2
  <2>4. ASSUME NEW q \in ps2, q.computed PROVE dir.statuses[r] <= q.found[r]
    BY <2>2, <2>4 DEF SoundDir
  <2> QED
    BY <2>3, <2>4
<1> QED
  BY <1>1, <1>2 DEF SoundDir

\* Asking for repositories that are not waited for yet makes them active and
\* adds at most one probe for each.
LEMMA SentSound ==
  ASSUME NEW dir, NEW active, NEW pub, NEW ps, SoundDir(dir, active, pub, ps),
         NEW S \in SUBSET Repo, S \cap dir.pending = {}
  PROVE  SoundDir(Sent(dir, S), active \cup S, pub, ps)
<1> DEFINE new == Sent(dir, S)
<1>1. dir \in Dir
  BY DEF SoundDir
<1>2. /\ new \in Dir /\ new.statuses = dir.statuses
      /\ new.pending = dir.pending \cup S
      /\ \A r \in Repo : new.probes[r] = IF r \in S /\ dir.probes[r] < MaxProbes
                                         THEN dir.probes[r] + 1 ELSE dir.probes[r]
  <2> DEFINE sent == [r \in Repo |-> IF r \in S /\ dir.probes[r] < MaxProbes
                                    THEN dir.probes[r] + 1 ELSE dir.probes[r]]
  <2>1. sent \in [Repo -> 0 .. MaxProbes]
    BY <1>1 DEF Dir, MaxProbes
  <2>2. new = [dir EXCEPT !.pending = dir.pending \cup S, !.probes = sent]
    BY DEF Sent
  <2>3. \A r \in Repo : sent[r] = IF r \in S /\ dir.probes[r] < MaxProbes
                                  THEN dir.probes[r] + 1 ELSE dir.probes[r]
    OBVIOUS
  <2> HIDE DEF sent, new
  <2>4. /\ new \in Dir /\ new.statuses = dir.statuses
        /\ new.pending = dir.pending \cup S /\ new.probes = sent
    BY <1>1, <2>1, <2>2 DEF Dir
  <2> QED
    BY <2>3, <2>4
<1>3. Known(new) = Known(dir)
  BY <1>2 DEF Known
<1>4. ASSUME NEW r \in Repo PROVE new.probes[r] <= Due(new, r)
  <2>1. dir.probes[r] <= Due(dir, r) /\ dir.probes[r] \in 0 .. 3
    BY <1>1 DEF SoundDir, Dir, MaxProbes
  <2> QED
    BY <1>2, <1>3, <2>1 DEF Due, MaxProbes
<1>5. Known(new) \cup new.pending \subseteq active \cup S
  BY <1>2, <1>3 DEF SoundDir
<1>6. \A r \in Known(new) :
        /\ new.statuses[r] <= pub[r]
        /\ \A p \in ps : p.computed => new.statuses[r] <= p.found[r]
  BY <1>2, <1>3 DEF SoundDir
<1> HIDE DEF new
<1> QED
  BY <1>2, <1>4, <1>5, <1>6 DEF SoundDir, new

\* Applying what the pass in flight has found never shows an older version.
LEMMA AppliedNotOlder ==
  ASSUME NEW dir, NEW active, NEW pub \in [Repo -> Version], NEW ps,
         SoundDir(dir, active, pub, ps),
         NEW p \in Pass, p \in ps, p.computed, NEW r \in Known(dir)
  PROVE  Applied(dir, p).statuses[r] >= dir.statuses[r]
<1>1. /\ dir \in Dir /\ p.found \in [Repo -> Version] /\ r \in Repo
      /\ dir.statuses[r] \in Nat /\ p.found[r] \in Nat
  BY SyncStatusAssumption DEF SoundDir, Pass, Known, Dir, Version
<1>2. dir.statuses[r] <= p.found[r]
  BY DEF SoundDir
<1>3. Applied(dir, p).statuses[r] \in {p.found[r], dir.statuses[r]}
  BY <1>1 DEF Applied, Dir
<1> QED
  BY <1>1, <1>2, <1>3

\* Applying what the pass in flight has found shows it where it was waited for
\* or shown, and settles one probe.
LEMMA AppliedSound ==
  ASSUME NEW dir, NEW active, NEW pub \in [Repo -> Version], NEW ps,
         SoundDir(dir, active, pub, ps),
         NEW p \in Pass, p \in ps, p.computed, \A r \in Repo : p.found[r] <= pub[r],
         NEW ps2, \A q \in ps2 : ~q.computed
  PROVE  SoundDir(Applied(dir, p), active, pub, ps2)
<1> DEFINE new == Applied(dir, p)
           relevant == p.targets \cap (Known(dir) \cup dir.pending)
<1>1. /\ dir \in Dir /\ p.targets \in SUBSET Repo /\ p.found \in [Repo -> Version]
      /\ Known(dir) \subseteq Repo /\ dir.pending \subseteq Repo
  BY DEF SoundDir, Pass, Known, Dir
<1>2. /\ new \in Dir
      /\ new.probes = dir.probes
      /\ new.pending = dir.pending \ (p.targets \ Known(dir))
      /\ \A r \in Repo : new.statuses[r] = IF r \in relevant THEN p.found[r]
                                           ELSE dir.statuses[r]
  BY <1>1 DEF Applied, Dir
<1>3. Known(new) = Known(dir) \cup relevant
  BY <1>1, <1>2, SyncStatusAssumption DEF Known, Version
<1>4. Known(new) \cup new.pending \subseteq active
  BY <1>2, <1>3 DEF SoundDir
<1>5. ASSUME NEW r \in Repo PROVE new.probes[r] <= Due(new, r)
  <2>1. dir.probes[r] <= Due(dir, r) /\ dir.probes[r] \in 0 .. 3
    BY <1>1 DEF SoundDir, Dir, MaxProbes
  <2> QED
    BY <1>2, <1>3, <2>1 DEF Due
<1>6. ASSUME NEW r \in Known(new) PROVE new.statuses[r] <= pub[r]
  BY <1>1, <1>2, <1>3 DEF SoundDir, Known
<1> QED
  BY <1>2, <1>4, <1>5, <1>6 DEF SoundDir

-----------------------------------------------------------------------------
(* The store *)

\* run_pass leaves at most one pass, holding the slot; it changes the active
\* set only by clearing it; and afterwards another pass is certain, or nobody
\* is signed in and the active set is empty or about to be.
LEMMA RunPassSound ==
  ASSUME NEW s \in Store, NEW ps \in SUBSET Pass, RunPass(s, ps),
         \A p, q \in ps : p = q, s.inFlight <=> (ps # {})
  PROVE  /\ store' \in Store /\ passes' \in SUBSET Pass
         /\ SlotHeldByOnePass'
         /\ store'.active \in {s.active, {}}
         /\ \A q \in passes' : q.computed => q \in ps
         /\ (user # NoUser /\ store'.active # {})
              => store'.pollPending \/ (store'.inFlight /\ store'.passPending)
         /\ user = NoUser
              => store'.active = {} \/ (store'.inFlight /\ store'.passPending)
<1>1. CASE s.inFlight
  <2>1. store' = [s EXCEPT !.passPending = TRUE] /\ passes' = ps
    BY <1>1 DEF RunPass, AfterRunPass, Folded, Starts
  <2> QED
    BY <1>1, <2>1 DEF Store, SlotHeldByOnePass
<1>2. CASE ~s.inFlight /\ user = NoUser
  <2>1. store' = [s EXCEPT !.active = {}, !.passPending = FALSE] /\ passes' = ps
    BY <1>2 DEF RunPass, AfterRunPass, Cleared, Starts
  <2> QED
    BY <1>2, <2>1 DEF Store, SlotHeldByOnePass
<1>3. CASE ~s.inFlight /\ user # NoUser /\ s.active # {}
  <2> DEFINE new == [targets |-> s.active, computed |-> FALSE,
                     found |-> [r \in Repo |-> 0]]
  <2>1. /\ store' = [s EXCEPT !.inFlight = TRUE, !.pollPending = TRUE]
        /\ passes' = {new}
    BY <1>3 DEF RunPass, AfterRunPass, Started, Starts
  <2>2. new \in Pass /\ ~new.computed
    <3>1. s.active \in (SUBSET Repo) \ {{}}
      BY <1>3 DEF Store
    <3>2. [r \in Repo |-> 0] \in [Repo -> Version]
      BY SyncStatusAssumption DEF Version
    <3> QED
      BY <3>1, <3>2 DEF Pass
  <2> HIDE DEF new
  <2>3. store' \in Store /\ store'.active = s.active /\ store'.inFlight = TRUE
        /\ store'.pollPending = TRUE
    BY <2>1 DEF Store
  <2> QED
    BY <1>3, <2>1, <2>2, <2>3 DEF SlotHeldByOnePass
<1>4. CASE ~s.inFlight /\ user # NoUser /\ s.active = {}
  <2>1. store' = s /\ passes' = ps
    BY <1>4 DEF RunPass, AfterRunPass, Starts
  <2> QED
    BY <1>4, <2>1 DEF SlotHeldByOnePass
<1> QED
  BY <1>1, <1>2, <1>3, <1>4

\* Delivering directories that are sound for what was active leaves every
\* directory sound: if the active set was emptied, they have all forgotten.
LEMMA DeliverSound ==
  ASSUME NEW ds \in [Directory -> Dir], Deliver(ds),
         store'.active \in {store.active, {}},
         \A d \in Directory : SoundDir(ds[d], store.active, published', passes')
  PROVE  dirs' \in [Directory -> Dir] /\ DirsSound'
<1>1. CASE store.active # {} /\ store'.active = {}
  <2>1. dirs' = [d \in Directory |-> EmptyDir]
    BY <1>1 DEF Deliver
  <2>2. EmptyDir \in Dir
    BY DEF EmptyDir, Dir, MaxProbes
  <2>3. ASSUME NEW d \in Directory
        PROVE  SoundDir(dirs'[d], store'.active, published', passes')
    BY <2>1, EmptySound
  <2> QED
    BY <2>1, <2>2, <2>3 DEF DirsSound
<1>2. CASE store'.active = store.active
  <2>1. dirs' = ds \/ dirs' = [d \in Directory |-> EmptyDir]
    BY DEF Deliver
  <2>2. CASE store.active # {}
    BY <1>2, <2>2 DEF Deliver, DirsSound
  <2>3. CASE store.active = {}
    BY <1>2, <2>3 DEF Deliver, DirsSound
  <2> QED
    BY <2>2, <2>3
<1> QED
  BY <1>1, <1>2

\* The initial states: nothing is active, nothing is shown.
LEMMA InitInv == Init => IInv
<1> SUFFICES ASSUME Init PROVE IInv
  OBVIOUS
<1>1. EmptyDir \in Dir
  BY DEF EmptyDir, Dir, MaxProbes
<1>2. TypeOK
  <2>1. published \in [Repo -> Version]
    BY SyncStatusAssumption DEF Init, Version
  <2>2. store \in Store /\ passes \in SUBSET Pass
    BY DEF Init, Store
  <2>3. dirs \in [Directory -> Dir]
    BY <1>1 DEF Init
  <2> QED
    BY <2>1, <2>2, <2>3 DEF Init, TypeOK
<1>3. SlotHeldByOnePass /\ KeepsPolling /\ SignedOutDrains /\ PassesSound
  BY DEF Init, SlotHeldByOnePass, KeepsPolling, SignedOutDrains, PassesSound
<1>4. DirsSound
  BY EmptySound DEF Init, DirsSound
<1> QED
  BY <1>2, <1>3, <1>4 DEF IInv

\* A wake-up, a nudge or the poll timer: run_pass on the store as it is.
LEMMA RunPassInv ==
  ASSUME IInv, NEW s \in Store, s.active = store.active,
         s.inFlight = store.inFlight, RunPass(s, passes), Deliver(dirs),
         UNCHANGED <<user, published, lastFailed>>, signal' \in BOOLEAN
  PROVE  IInv'
<1>1. passes \in SUBSET Pass /\ dirs \in [Directory -> Dir] /\ published \in [Repo -> Version]
  BY DEF IInv, TypeOK
<1>2. /\ store' \in Store /\ passes' \in SUBSET Pass
      /\ SlotHeldByOnePass'
      /\ store'.active \in {store.active, {}}
      /\ \A q \in passes' : q.computed => q \in passes
      /\ (user # NoUser /\ store'.active # {})
           => store'.pollPending \/ (store'.inFlight /\ store'.passPending)
      /\ user = NoUser
           => store'.active = {} \/ (store'.inFlight /\ store'.passPending)
  BY <1>1, RunPassSound DEF IInv, SlotHeldByOnePass
<1>3. ASSUME NEW d \in Directory
      PROVE  SoundDir(dirs[d], store.active, published', passes')
  <2>1. SoundDir(dirs[d], store.active, published, passes)
    BY DEF IInv, DirsSound
  <2>2. \A r \in Repo : published[r] <= published[r]
    BY <1>1, SyncStatusAssumption DEF Version
  <2> QED
    BY <1>1, <1>2, <2>1, <2>2, SoundDirMonotone
<1>4. dirs' \in [Directory -> Dir] /\ DirsSound'
  BY <1>1, <1>2, <1>3, DeliverSound
<1>5. TypeOK'
  BY <1>2, <1>4 DEF IInv, TypeOK
<1>6. KeepsPolling' /\ SignedOutDrains'
  BY <1>2 DEF KeepsPolling, SignedOutDrains
<1>7. PassesSound'
  BY <1>2 DEF IInv, PassesSound
<1> QED
  BY <1>2, <1>4, <1>5, <1>6, <1>7 DEF IInv

\* A pass lands or fails: given directories that are sound without it, the
\* slot is released and a folded request starts the next pass.
LEMMA ReleaseInv ==
  ASSUME IInv, NEW p \in passes, NEW ds \in [Directory -> Dir], Release(p, ds),
         \A d \in Directory : SoundDir(ds[d], store.active, published, {}),
         lastFailed' \in BOOLEAN
  PROVE  IInv'
<1> DEFINE freed == [store EXCEPT !.inFlight = FALSE, !.passPending = FALSE]
<1>1. /\ store \in Store /\ passes \ {p} \in SUBSET Pass
      /\ published \in [Repo -> Version] /\ user \in User \cup {NoUser}
      /\ signal \in BOOLEAN
  BY DEF IInv, TypeOK
<1>2. passes \ {p} = {} /\ store.inFlight
  BY DEF IInv, SlotHeldByOnePass
<1>3. /\ freed \in Store /\ freed.active = store.active /\ ~freed.inFlight
      /\ freed.pollPending = store.pollPending
  BY <1>1 DEF Store
<1>4. UNCHANGED <<user, published, signal>> /\ Deliver(ds)
  BY DEF Release
<1> HIDE DEF freed
<1>5. /\ store' \in Store /\ passes' \in SUBSET Pass
      /\ SlotHeldByOnePass'
      /\ store'.active \in {store.active, {}}
      /\ \A q \in passes' : ~q.computed
      /\ KeepsPolling' /\ SignedOutDrains'
  <2>1. CASE store.passPending
    <3>1. RunPass(freed, {})
      BY <1>2, <2>1 DEF Release, freed
    <3> QED
      BY <1>2, <1>3, <1>4, <3>1, RunPassSound DEF KeepsPolling, SignedOutDrains
  <2>2. CASE ~store.passPending
    <3>1. store' = freed /\ passes' = {}
      BY <1>2, <2>2 DEF Release, freed
    <3>2. KeepsPolling' /\ SignedOutDrains'
      BY <1>3, <1>4, <2>2, <3>1 DEF IInv, KeepsPolling, SignedOutDrains
    <3> QED
      BY <1>3, <3>1, <3>2 DEF SlotHeldByOnePass
  <2> QED
    BY <2>1, <2>2
<1>6. ASSUME NEW d \in Directory
      PROVE  SoundDir(ds[d], store.active, published', passes')
  <2>1. \A r \in Repo : published[r] <= published[r]
    BY <1>1, SyncStatusAssumption DEF Version
  <2> QED
    BY <1>1, <1>4, <1>5, <2>1, SoundDirMonotone
<1>7. dirs' \in [Directory -> Dir] /\ DirsSound'
  BY <1>5, <1>6, <1>4, DeliverSound
<1>8. TypeOK' /\ PassesSound'
  BY <1>1, <1>4, <1>5, <1>7 DEF TypeOK, PassesSound
<1> QED
  BY <1>5, <1>7, <1>8 DEF IInv

\* Every step, and every stutter, preserves the inductive invariant.
LEMMA NextInv == IInv /\ [Next]_vars => IInv'
<1> SUFFICES ASSUME IInv, [Next]_vars PROVE IInv'
  OBVIOUS
<1>0. /\ TypeOK
      /\ passes \in SUBSET Pass /\ dirs \in [Directory -> Dir]
      /\ published \in [Repo -> Version] /\ store \in Store
  BY DEF IInv, TypeOK
<1>1. \A r \in Repo : published[r] <= published[r]
  BY <1>0, SyncStatusAssumption DEF Version
<1>2. CASE ReceiveSignal
  BY <1>0, <1>2, RunPassInv DEF ReceiveSignal
<1>3. CASE Nudge
  BY <1>0, <1>3, RunPassInv DEF Nudge, TypeOK
<1>4. CASE PollFires
  <2> DEFINE s == [store EXCEPT !.pollPending = FALSE]
  <2>1. s \in Store /\ s.active = store.active /\ s.inFlight = store.inFlight
    BY <1>0 DEF Store
  <2>2. RunPass(s, passes)
    BY <1>4 DEF PollFires
  <2> HIDE DEF s
  <2> QED
    BY <1>0, <1>4, <2>1, <2>2, RunPassInv DEF PollFires, TypeOK
<1>5. ASSUME NEW u \in User \cup {NoUser}, SignerChanged(u) PROVE IInv'
  <2>1. /\ store' = [store EXCEPT !.active = {}, !.passPending = FALSE]
        /\ UNCHANGED <<published, signal, passes, lastFailed>> /\ user' = u
        /\ Deliver(dirs)
    BY <1>5 DEF SignerChanged, Cleared
  <2>2. store' \in Store /\ store'.active = {} /\ store'.inFlight = store.inFlight
    BY <1>0, <2>1 DEF Store
  <2>3. dirs' \in [Directory -> Dir] /\ DirsSound'
    BY <1>0, <2>1, <2>2, DeliverSound DEF IInv, DirsSound
  <2>4. TypeOK' /\ SlotHeldByOnePass' /\ PassesSound'
    BY <2>1, <2>2, <2>3 DEF IInv, TypeOK, SlotHeldByOnePass, PassesSound
  <2>5. KeepsPolling' /\ SignedOutDrains'
    BY <2>2 DEF KeepsPolling, SignedOutDrains
  <2> QED
    BY <2>3, <2>4, <2>5 DEF IInv
<1>6. ASSUME NEW p \in passes, Compute(p) PROVE IInv'
  <2> DEFINE new == [p EXCEPT !.computed = TRUE, !.found = published]
  <2>1. new \in Pass /\ new.computed /\ new.found = published
    BY <1>0 DEF Pass
  <2>2. passes' = {new} /\ UNCHANGED <<user, published, store, signal, dirs, lastFailed>>
    BY <1>6 DEF Compute, IInv, SlotHeldByOnePass
  <2> HIDE DEF new
  <2>3. TypeOK' /\ SlotHeldByOnePass' /\ KeepsPolling' /\ SignedOutDrains'
    BY <2>1, <2>2
    DEF IInv, TypeOK, SlotHeldByOnePass, KeepsPolling, SignedOutDrains
  <2>4. PassesSound'
    BY <1>1, <2>1, <2>2 DEF PassesSound
  <2>5. ASSUME NEW d \in Directory
        PROVE  SoundDir(dirs[d], store.active, published, {new})
    BY <1>0, <1>1, <2>1, SoundDirMonotone DEF IInv, DirsSound
  <2> QED
    BY <2>2, <2>3, <2>4, <2>5 DEF IInv, DirsSound
<1>7. ASSUME NEW p \in passes, PassLands(p) PROVE IInv'
  <2> DEFINE ds == [d \in Directory |-> Applied(dirs[d], p)]
  <2>1. ASSUME NEW d \in Directory
        PROVE  SoundDir(ds[d], store.active, published, {}) /\ ds[d] \in Dir
    <3>1. SoundDir(dirs[d], store.active, published, passes)
      BY DEF IInv, DirsSound
    <3>2. p \in Pass /\ p.computed /\ \A r \in Repo : p.found[r] <= published[r]
      BY <1>0, <1>7 DEF IInv, PassesSound, PassLands
    <3>3. SoundDir(Applied(dirs[d], p), store.active, published, {})
      BY <1>0, <3>1, <3>2, AppliedSound
    <3> QED
      BY <3>3 DEF SoundDir
  <2>2. ds \in [Directory -> Dir]
    BY <2>1
  <2>3. Release(p, ds) /\ lastFailed' \in BOOLEAN
    BY <1>7 DEF PassLands
  <2> HIDE DEF ds
  <2> QED
    BY <2>1, <2>2, <2>3, ReleaseInv
<1>8. ASSUME NEW p \in passes, PassFails(p) PROVE IInv'
  <2>1. \A d \in Directory : SoundDir(dirs[d], store.active, published, {})
    BY DEF IInv, DirsSound, SoundDir
  <2> QED
    BY <1>0, <1>8, <2>1, ReleaseInv DEF PassFails
<1>9. ASSUME NEW d \in Directory, NEW S \in SUBSET Repo, S \cap dirs[d].pending = {},
             Probe(S), dirs' = [dirs EXCEPT ![d] = Sent(dirs[d], S)],
             UNCHANGED <<user, published, passes, lastFailed>>
      PROVE  IInv'
  <2>1. /\ store' = [store EXCEPT !.active = store.active \cup S] /\ signal' = TRUE
    BY <1>9 DEF Probe
  <2>2. /\ store' \in Store /\ store'.active = store.active \cup S
        /\ store'.inFlight = store.inFlight
    BY <1>0, <2>1 DEF Store
  <2>3. ASSUME NEW e \in Directory
        PROVE  SoundDir(dirs'[e], store'.active, published', passes')
    <3>1. SoundDir(dirs[e], store.active, published, passes)
      BY DEF IInv, DirsSound
    <3>2. CASE e = d
      BY <1>0, <1>9, <2>2, <3>1, <3>2, SentSound
    <3>3. CASE e # d
      BY <1>0, <1>1, <1>9, <2>2, <3>1, <3>3, SoundDirMonotone
    <3> QED
      BY <3>2, <3>3
  <2>4. dirs' \in [Directory -> Dir]
    BY <1>0, <1>9, <2>3 DEF SoundDir
  <2>5. TypeOK' /\ SlotHeldByOnePass' /\ PassesSound' /\ KeepsPolling' /\ SignedOutDrains'
    BY <1>9, <2>1, <2>2, <2>4
    DEF IInv, TypeOK, SlotHeldByOnePass, PassesSound, KeepsPolling, SignedOutDrains
  <2> QED
    BY <2>3, <2>5 DEF IInv, DirsSound
<1>10. ASSUME NEW d \in Directory, NEW S \in SUBSET Repo, Track(d, S) PROVE IInv'
  BY <1>9, <1>10 DEF Track
<1>11. ASSUME NEW d \in Directory, NEW r \in Repo, Render(d, r) PROVE IInv'
  BY <1>9, <1>11 DEF Render
<1>12. ASSUME NEW r \in Repo, ProbePushed(r) PROVE IInv'
  <2>1. /\ store' = [store EXCEPT !.active = store.active \cup {r}] /\ signal' = TRUE
        /\ UNCHANGED <<user, published, passes, dirs, lastFailed>>
    BY <1>12 DEF ProbePushed, Probe
  <2>2. /\ store' \in Store /\ store'.active = store.active \cup {r}
        /\ store'.inFlight = store.inFlight
    BY <1>0, <2>1 DEF Store
  <2>3. DirsSound'
    BY <1>0, <1>1, <2>1, <2>2, SoundDirMonotone DEF IInv, DirsSound
  <2> QED
    BY <2>1, <2>2, <2>3
    DEF IInv, TypeOK, SlotHeldByOnePass, PassesSound, KeepsPolling, SignedOutDrains
<1>13. ASSUME NEW d \in Directory, Reopen(d) PROVE IInv'
  <2>1. /\ dirs' = [dirs EXCEPT ![d] = EmptyDir]
        /\ UNCHANGED <<user, published, store, signal, passes, lastFailed>>
    BY <1>13 DEF Reopen
  <2>2. DirsSound'
    BY <1>0, <2>1, EmptySound DEF IInv, DirsSound
  <2>3. dirs' \in [Directory -> Dir]
    BY <1>0, <2>1, <2>2 DEF DirsSound, SoundDir
  <2> QED
    BY <2>1, <2>2, <2>3
    DEF IInv, TypeOK, SlotHeldByOnePass, PassesSound, KeepsPolling, SignedOutDrains
<1>14. ASSUME NEW r \in Repo, Publish(r) PROVE IInv'
  <2>1. /\ published' \in [Repo -> Version]
        /\ \A q \in Repo : published[q] <= published'[q]
        /\ UNCHANGED <<user, store, signal, passes, dirs, lastFailed>>
    BY <1>0, <1>14, SyncStatusAssumption DEF Publish, Version
  <2>2. DirsSound'
    BY <1>0, <2>1, SoundDirMonotone DEF IInv, DirsSound
  <2>3. PassesSound'
    BY <1>0, <2>1, SyncStatusAssumption DEF IInv, PassesSound, Pass, Version
  <2> QED
    BY <2>1, <2>2, <2>3
    DEF IInv, TypeOK, SlotHeldByOnePass, KeepsPolling, SignedOutDrains
<1>15. CASE UNCHANGED vars
  BY <1>15
  DEF vars, IInv, TypeOK, SlotHeldByOnePass, KeepsPolling, SignedOutDrains,
      PassesSound, DirsSound
<1> QED
  BY <1>2, <1>3, <1>4, <1>5, <1>6, <1>7, <1>8, <1>10, <1>11, <1>12, <1>13, <1>14,
     <1>15 DEF Next

\* A badge is replaced by one that is as new, or forgotten, in every step: the
\* pass in flight has read at least what is shown.
LEMMA StepNeverOlder ==
  ASSUME IInv, [Next]_vars, NEW d \in Directory,
         NEW r \in Known(dirs[d]) \cap Known(dirs'[d])
  PROVE  dirs'[d].statuses[r] >= dirs[d].statuses[r]
<1>1. /\ passes \in SUBSET Pass /\ dirs \in [Directory -> Dir]
      /\ published \in [Repo -> Version]
  BY DEF IInv, TypeOK
<1>2. r \in Repo /\ dirs[d].statuses[r] \in Nat
  BY <1>1, SyncStatusAssumption DEF Known, Dir, Version
<1>3. Known(EmptyDir) = {}
  BY DEF Known, EmptyDir
<1>4. ASSUME dirs'[d] = EmptyDir \/ dirs'[d].statuses = dirs[d].statuses
      PROVE  dirs'[d].statuses[r] >= dirs[d].statuses[r]
  BY <1>2, <1>3, <1>4
<1>5. ASSUME Deliver(dirs) PROVE dirs'[d] = EmptyDir \/ dirs'[d] = dirs[d]
  BY <1>5 DEF Deliver
<1>6. ASSUME NEW p \in passes, PassLands(p)
      PROVE  dirs'[d].statuses[r] >= dirs[d].statuses[r]
  <2>1. Deliver([e \in Directory |-> Applied(dirs[e], p)])
    BY <1>6 DEF PassLands, Release
  <2>2. dirs'[d] = EmptyDir \/ dirs'[d] = Applied(dirs[d], p)
    BY <2>1 DEF Deliver
  <2>3. CASE dirs'[d] = Applied(dirs[d], p)
    <3>1. SoundDir(dirs[d], store.active, published, passes)
      BY DEF IInv, DirsSound
    <3>2. p \in Pass /\ p.computed /\ \A q \in Repo : p.found[q] <= published[q]
      BY <1>1, <1>6 DEF IInv, PassesSound, PassLands
    <3> QED
      BY <1>1, <2>3, <3>1, <3>2, AppliedNotOlder
  <2> QED
    BY <1>4, <2>2, <2>3
<1>7. ASSUME NEW e \in Directory, NEW S, dirs' = [dirs EXCEPT ![e] = Sent(dirs[e], S)]
      PROVE  dirs'[d].statuses = dirs[d].statuses
  <2>1. Sent(dirs[e], S).statuses = dirs[e].statuses
    BY <1>1 DEF Sent, Dir
  <2> QED
    BY <1>1, <1>7, <2>1
<1>8. CASE ReceiveSignal \/ Nudge \/ PollFires \/ \E u \in User \cup {NoUser} : SignerChanged(u)
  BY <1>4, <1>5, <1>8 DEF ReceiveSignal, Nudge, PollFires, SignerChanged
<1>9. CASE \E p \in passes : Compute(p) \/ PassFails(p)
  BY <1>4, <1>5, <1>9 DEF Compute, PassFails, Release
<1>10. CASE \E e \in Directory, S \in SUBSET Repo : Track(e, S)
  BY <1>4, <1>7, <1>10 DEF Track
<1>11. CASE \E e \in Directory, q \in Repo : Render(e, q)
  BY <1>4, <1>7, <1>11 DEF Render
<1>12. CASE \E e \in Directory : Reopen(e)
  BY <1>1, <1>4, <1>12 DEF Reopen
<1>13. CASE (\E q \in Repo : ProbePushed(q) \/ Publish(q)) \/ UNCHANGED vars
  BY <1>4, <1>13 DEF ProbePushed, Publish, vars
<1> QED
  BY <1>6, <1>8, <1>9, <1>10, <1>11, <1>12, <1>13 DEF Next

-----------------------------------------------------------------------------
(* The theorems *)

\* The inductive invariant holds throughout.
THEOREM Invariance == Spec => []IInv
  BY InitInv, NextInv, PTL DEF Spec

\* Every variable of the store and of the directories keeps its type.
THEOREM TypeCorrect == Spec => []TypeOK
<1>1. IInv => TypeOK
  BY DEF IInv
<1> QED
  BY <1>1, Invariance, PTL

\* The slot is held by exactly the pass in flight, across sign-outs and failed
\* passes, for any number of panels.
THEOREM OnePassInSlot == Spec => []SlotHeldByOnePass
<1>1. IInv => SlotHeldByOnePass
  BY DEF IInv
<1> QED
  BY <1>1, Invariance, PTL

\* Whatever a panel shows or waits for is probed again.
THEOREM ShownStaysActive == Spec => []ShownIsActive
<1>1. IInv => ShownIsActive
  BY DEF IInv, DirsSound, SoundDir, ShownIsActive
<1> QED
  BY <1>1, Invariance, PTL

\* While somebody is signed in and something is active, the store cannot fall
\* asleep.
THEOREM PollingKeptAlive == Spec => []KeepsPolling
<1>1. IInv => KeepsPolling
  BY DEF IInv
<1> QED
  BY <1>1, Invariance, PTL

\* A sign-out ends with every panel empty.
THEOREM SignOutForgets == Spec => []SignedOutForgets
<1>1. IInv => SignedOutForgets
  <2> SUFFICES ASSUME IInv, user = NoUser, ~signal, passes = {},
                      NEW d \in Directory
               PROVE  Known(dirs[d]) = {} /\ dirs[d].pending = {}
    BY DEF SignedOutForgets
  <2>1. store.active = {}
    BY DEF IInv, SlotHeldByOnePass, SignedOutDrains
  <2>2. Known(dirs[d]) \cup dirs[d].pending \subseteq store.active
    BY DEF IInv, DirsSound, SoundDir
  <2> QED
    BY <2>1, <2>2
<1> QED
  BY <1>1, Invariance, PTL

\* Rendering sends a directory at most two probes for a repository.
THEOREM ProbesBounded == Spec => []BoundedProbes
<1>1. IInv => BoundedProbes
  <2> SUFFICES ASSUME IInv, NEW d \in Directory, NEW r \in Repo
               PROVE  dirs[d].probes[r] <= 2
    BY DEF BoundedProbes
  <2>1. dirs[d].probes[r] <= Due(dirs[d], r) /\ dirs[d].probes[r] \in 0 .. 3
    BY DEF IInv, TypeOK, DirsSound, SoundDir, Dir, MaxProbes
  <2> QED
    BY <2>1 DEF Due
<1> QED
  BY <1>1, Invariance, PTL

\* Badges never go back in time.
THEOREM BadgesNeverOlder == Spec => NeverOlder
<1>1. IInv /\ [Next]_vars =>
        [\A d \in Directory : \A r \in Known(dirs[d]) \cap Known(dirs'[d]) :
           dirs'[d].statuses[r] >= dirs[d].statuses[r]]_vars
  BY StepNeverOlder
<1> QED
  BY <1>1, Invariance, PTL DEF Spec, NeverOlder
=============================================================================
