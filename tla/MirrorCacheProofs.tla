-------------------------- MODULE MirrorCacheProofs --------------------------
(***************************************************************************)
(* Proofs about MirrorCache, for any panels, readers, loads and stops.  The *)
(* invariant follows the directory: what each task that holds the clone    *)
(* lock, or was handed the mirror, may rely on.                            *)
(***************************************************************************)
EXTENDS MirrorCache, TLAPS

\* What the holder of the lock has established, and what a caller was handed.
HeldSound ==
  \A c \in Client :
    /\ stage[c] = "clearing" => ~Openable
    /\ stage[c] = "cloning" => dir = "unfinished"
    /\ stage[c] \in {"updating", "reading"} => Openable /\ (crashes = 0 => dir = "whole")

\* Nobody replaces the mirror while somebody reads it: it could be opened when
\* it was handed out, and only what cannot be opened is replaced.
ReadersApart ==
  \A c, d \in Client :
    stage[c] = "reading" => stage[d] \notin {"clearing", "creating", "cloning"}

\* Unless the process was stopped, an unfinished clone is being cloned.
UnfinishedIsCloned ==
  crashes = 0 /\ dir = "unfinished" => \E c \in Client : stage[c] = "cloning"

DirInv ==
  /\ ClonesSerialized
  /\ HeldSound
  /\ ReadersApart
  /\ UnfinishedIsCloned

IInv ==
  /\ TypeOK
  /\ DirInv
  /\ OnePush

-----------------------------------------------------------------------------
(* The directory *)

\* A step that leaves the directory and the lock alone, and moves loads only
\* between stages that have neither, keeps what is known of the directory.
LEMMA QuietInv ==
  ASSUME DirInv, dir' = dir, lock' = lock, crashes' = crashes,
         \A c \in Client :
           \/ stage'[c] = stage[c]
           \/ stage[c] \notin Locked /\ stage'[c] \notin Locked \cup {"reading"}
  PROVE  DirInv'
<1>1. ClonesSerialized'
  BY DEF DirInv, ClonesSerialized, Locked
<1>2. HeldSound'
  BY DEF DirInv, HeldSound, Locked, Openable
<1>3. ReadersApart'
  BY DEF DirInv, ReadersApart, Locked
<1>4. UnfinishedIsCloned'
  BY DEF DirInv, UnfinishedIsCloned, Locked
<1> QED
  BY <1>1, <1>2, <1>3, <1>4 DEF DirInv

\* What a move of one load does to the stages.
LEMMA GotoStage ==
  ASSUME TypeOK, NEW c \in Client, NEW s \in Stage, Goto(c, s)
  PROVE  /\ stage' \in [Client -> Stage]
         /\ stage'[c] = s
         /\ \A d \in Client : d # c => stage'[d] = stage[d]
BY DEF TypeOK, Goto

\* Taking the lock.
LEMMA TakeLockInv ==
  ASSUME IInv, NEW c \in Client, TakeLock(c)
  PROVE  DirInv'
<1>1. stage'[c] = "checking" /\ \A d \in Client : d # c => stage'[d] = stage[d]
  BY GotoStage DEF IInv, TakeLock, Stage, Locked
<1>2. /\ stage[c] = "locking" /\ lock = None /\ lock' = c
      /\ dir' = dir /\ crashes' = crashes
  BY DEF TakeLock, Free
<1>3. \A d \in Client : stage[d] \notin Locked
  BY <1>2, MirrorCacheAssumption DEF IInv, DirInv, ClonesSerialized
<1>4. ClonesSerialized'
  BY <1>1, <1>2, <1>3 DEF IInv, DirInv, ClonesSerialized, Locked
<1>5. HeldSound'
  BY <1>1, <1>2 DEF IInv, DirInv, HeldSound, Openable
<1>6. ReadersApart'
  BY <1>1, <1>2 DEF IInv, DirInv, ReadersApart
<1>7. UnfinishedIsCloned'
  BY <1>1, <1>2 DEF IInv, DirInv, UnfinishedIsCloned
<1> QED
  BY <1>4, <1>5, <1>6, <1>7 DEF DirInv

\* The holder moves on while it keeps the lock and the directory.
LEMMA CheckInv ==
  ASSUME IInv, NEW c \in Client, Check(c)
  PROVE  DirInv'
<1>1. /\ stage'[c] = IF Openable THEN "updating" ELSE "clearing"
      /\ \A d \in Client : d # c => stage'[d] = stage[d]
  BY GotoStage DEF IInv, Check, Stage, Locked, Reusable
<1>2. /\ stage[c] = "checking" /\ lock' = lock
      /\ dir' = dir /\ crashes' = crashes
  BY DEF Check
<1>3. \A d \in Client : d # c => stage[d] \notin Locked
  BY <1>2 DEF IInv, DirInv, ClonesSerialized, Locked
<1>4. Openable /\ crashes = 0 => dir = "whole"
  BY <1>2, <1>3 DEF IInv, DirInv, UnfinishedIsCloned, Openable, Locked
<1>5. ClonesSerialized'
  BY <1>1, <1>2, <1>3 DEF IInv, DirInv, ClonesSerialized, Locked
<1>6. HeldSound'
  BY <1>1, <1>2, <1>4 DEF IInv, DirInv, HeldSound, Openable
<1>7. ReadersApart'
  BY <1>1, <1>2 DEF IInv, DirInv, ReadersApart, HeldSound
<1>8. UnfinishedIsCloned'
  BY <1>1, <1>2, <1>3 DEF IInv, DirInv, UnfinishedIsCloned, Locked
<1> QED
  BY <1>5, <1>6, <1>7, <1>8 DEF DirInv

\* The holder replaces the directory: nobody else is in the region and nobody
\* reads.
LEMMA ReplaceInv ==
  ASSUME IInv, NEW c \in Client, Clear(c) \/ Create(c) \/ CloneArrives(c) \/ CloneFails(c)
  PROVE  DirInv'
<1> DEFINE W == {"clearing", "creating", "cloning"}
<1>1. stage[c] \in W /\ crashes' = crashes
  BY DEF Clear, Create, CloneArrives, CloneFails
<1>2. \A d \in Client : d # c => stage[d] \notin Locked \cup {"reading"}
  BY <1>1 DEF IInv, DirInv, ClonesSerialized, ReadersApart, Locked
<1>3. \/ stage'[c] = "creating" /\ dir' = "absent" /\ lock' = lock
      \/ stage'[c] = "cloning" /\ dir' = "unfinished" /\ lock' = lock
      \/ stage'[c] = "updating" /\ dir' = "whole" /\ lock' = lock
      \/ stage'[c] = "failed" /\ dir' = "absent" /\ lock' = None
  <2>1. CASE Clear(c)
    BY <2>1, GotoStage DEF Clear, IInv, Stage, Locked
  <2>2. CASE Create(c)
    <3>1. dir = "absent"
      BY <2>2 DEF Create, IInv, DirInv, ClonesSerialized
    <3> QED
      BY <2>2, <3>1, GotoStage DEF Create, IInv, Stage, Locked
  <2>3. CASE CloneArrives(c)
    BY <2>3, GotoStage DEF CloneArrives, IInv, Stage, Locked
  <2>4. CASE CloneFails(c)
    BY <2>4, GotoStage DEF CloneFails, Unlock, IInv, Stage, Locked
  <2> QED
    BY <2>1, <2>2, <2>3, <2>4
<1>4. \A d \in Client : d # c => stage'[d] = stage[d]
  BY GotoStage DEF IInv, Clear, Create, CloneArrives, CloneFails, Stage, Locked
<1>5. lock = c
  BY <1>1 DEF IInv, DirInv, ClonesSerialized, Locked
<1>6. ClonesSerialized'
  BY <1>2, <1>3, <1>4, <1>5, MirrorCacheAssumption DEF ClonesSerialized, Locked
<1>7. HeldSound'
  BY <1>2, <1>3, <1>4 DEF HeldSound, Openable, Locked
<1>8. ReadersApart'
  BY <1>2, <1>3, <1>4 DEF ReadersApart
<1>9. UnfinishedIsCloned'
  BY <1>3 DEF UnfinishedIsCloned
<1> QED
  BY <1>6, <1>7, <1>8, <1>9 DEF DirInv

\* The holder leaves, with the mirror or with an error.
LEMMA LeaveInv ==
  ASSUME IInv, NEW c \in Client, Updated(c) \/ ClearFails(c)
  PROVE  DirInv'
<1>1. /\ stage[c] \in Locked /\ lock' = None /\ dir' = dir /\ crashes' = crashes
      /\ stage[c] # "cloning"
  BY DEF Updated, ClearFails, Unlock, Locked
<1>2. \A d \in Client : d # c => stage[d] \notin Locked
  BY <1>1 DEF IInv, DirInv, ClonesSerialized
<1>3. \/ stage[c] = "updating" /\ stage'[c] = "reading"
      \/ stage'[c] = "failed"
  BY GotoStage DEF IInv, Updated, ClearFails, Stage, Locked
<1>4. \A d \in Client : d # c => stage'[d] = stage[d]
  BY GotoStage DEF IInv, Updated, ClearFails, Stage, Locked
<1>5. ClonesSerialized'
  BY <1>1, <1>2, <1>3, <1>4, MirrorCacheAssumption DEF ClonesSerialized, Locked
<1>6. HeldSound'
  BY <1>1, <1>3, <1>4 DEF IInv, DirInv, HeldSound, Openable
<1>7. ReadersApart'
  BY <1>1, <1>2, <1>3, <1>4 DEF IInv, DirInv, ReadersApart, Locked
<1>8. UnfinishedIsCloned'
  BY <1>1, <1>3, <1>4 DEF IInv, DirInv, UnfinishedIsCloned
<1> QED
  BY <1>5, <1>6, <1>7, <1>8 DEF DirInv

\* A stop of the process leaves no task behind.
LEMMA CrashInv ==
  ASSUME IInv, Crash
  PROVE  DirInv' /\ dir' \in Directory
<1>1. /\ lock' = None /\ stage' = Idle
      /\ crashes' = crashes + 1
  BY DEF Crash
<1>2. \A c \in Client : stage'[c] = "idle"
  BY <1>1 DEF Idle
<1>3. crashes' # 0
  BY <1>1 DEF IInv, TypeOK
<1>4. DirInv'
  BY <1>1, <1>2, <1>3, MirrorCacheAssumption
     DEF DirInv, ClonesSerialized, HeldSound, ReadersApart, UnfinishedIsCloned, Locked
<1>5. dir' \in Directory
  BY DEF Crash, LeftBehind, IInv, TypeOK, Directory
<1> QED
  BY <1>4, <1>5

-----------------------------------------------------------------------------
(* Types *)

\* What a delivered result does to the stages and the data.
LEMMA DeliverStage ==
  ASSUME TypeOK, NEW c \in Client, NEW v \in View, Deliver(c, v)
  PROVE  /\ stage' \in [Client -> Stage]
         /\ stage'[c] \in {"landing", "idle"}
         /\ \A d \in Client : d # c => stage'[d] = stage[d]
         /\ data' \in [Client -> View]
<1>1. CASE c \in Panel \ closed
  <2>1. Goto(c, "landing") /\ data' = [data EXCEPT ![c] = v]
    BY <1>1 DEF Deliver
  <2>2. data' \in [Client -> View]
    BY <2>1 DEF TypeOK
  <2> QED
    BY <2>1, <2>2, GotoStage DEF Stage
<1>2. CASE c \notin Panel \ closed
  <2>1. Goto(c, "idle") /\ data' = data
    BY <1>2 DEF Deliver
  <2> QED
    BY <2>1, GotoStage DEF Stage, TypeOK
<1> QED
  BY <1>1, <1>2

\* What is read is something a panel can show.
LEMMA ContentsType == Contents \in View
BY DEF Contents, View

\* A load that begins is counted, and begins outside the locked region.
LEMMA StartedType ==
  ASSUME TypeOK, NEW c \in Client, Started(c), loads[c] < MaxLoads
  PROVE  /\ stage' \in [Client -> Stage]
         /\ stage'[c] \in {"opening", "locking"}
         /\ \A d \in Client : d # c => stage'[d] = stage[d]
         /\ loads' \in [Client -> 0 .. MaxLoads]
         /\ recloned' \in [Client -> BOOLEAN]
<1> DEFINE s == IF c \in Panel THEN "opening" ELSE "locking"
<1>1. Goto(c, s) /\ s \in Stage /\ s \in {"opening", "locking"}
  BY DEF Started, Stage
<1>2. loads[c] + 1 \in 0 .. MaxLoads
  BY MirrorCacheAssumption DEF TypeOK
<1>3. loads' \in [Client -> 0 .. MaxLoads]
  BY <1>2 DEF Started, TypeOK
<1>4. recloned' \in [Client -> BOOLEAN]
  BY DEF Started, TypeOK
<1> HIDE DEF s
<1> QED
  BY <1>1, <1>3, <1>4, GotoStage

\* The steps of ensure_clone keep the types.
LEMMA EnsureType ==
  ASSUME TypeOK, NEW c \in Client,
         \/ TakeLock(c) \/ Check(c) \/ Clear(c) \/ ClearFails(c) \/ Create(c)
         \/ CloneArrives(c) \/ CloneFails(c) \/ Updated(c)
  PROVE  TypeOK'
<1>1. \E s \in Stage : Goto(c, s)
  BY DEF TakeLock, Check, Clear, ClearFails, Create, CloneArrives, CloneFails, Updated,
         Stage, Locked
<1>2. stage' \in [Client -> Stage]
  BY <1>1, GotoStage
<1>3. lock' \in Client \cup {None}
  BY DEF TypeOK, TakeLock, Check, Clear, ClearFails, Create, CloneArrives, CloneFails,
         Updated, Unlock
<1>4. dir' \in Directory
  BY DEF TypeOK, TakeLock, Check, Clear, ClearFails, Create, CloneArrives, CloneFails,
         Updated, Directory
<1>5. recloned' \in [Client -> BOOLEAN]
  BY DEF TypeOK, TakeLock, Check, Clear, ClearFails, Create, CloneArrives, CloneFails,
         Updated
<1>6. UNCHANGED <<data, hadClone, shown, loads, pushing, push, kind, marked, closed, crashes>>
  BY DEF TakeLock, Check, Clear, ClearFails, Create, CloneArrives, CloneFails, Updated,
         pushVars
<1> QED
  BY <1>2, <1>3, <1>4, <1>5, <1>6 DEF TypeOK

-----------------------------------------------------------------------------
(* The steps outside the locked region: loads *)

\* The caller, or the panel, is handed a result.
LEMMA ResultStep ==
  ASSUME IInv, NEW c \in Client,
         \/ Read(c)
         \/ LoadFailed(c)
         \/ c \in Panel /\ Open(c) /\ ~(NotFound /\ c \notin closed)
  PROVE  TypeOK' /\ DirInv'
<1>1. TypeOK
  BY DEF IInv
<1>2. \E v \in View : Deliver(c, v)
  BY ContentsType DEF Read, LoadFailed, Open, View
<1>3. /\ stage' \in [Client -> Stage]
      /\ stage'[c] \in {"landing", "idle"}
      /\ \A d \in Client : d # c => stage'[d] = stage[d]
      /\ data' \in [Client -> View]
  BY <1>1, <1>2, DeliverStage
<1>4. stage[c] \notin Locked
  BY DEF Read, LoadFailed, Open, Locked
<1>5. UNCHANGED <<dir, lock, shown, loads, recloned, pushing, push, kind, marked, closed, crashes>>
  BY DEF Read, LoadFailed, Open, pushVars
<1>6. hadClone' \in [Client -> BOOLEAN]
  <2>1. CASE hadClone' = hadClone
    BY <1>1, <2>1 DEF TypeOK
  <2>2. CASE hadClone' = [hadClone EXCEPT ![c] = Openable]
    BY <1>1, <2>2 DEF TypeOK, Openable
  <2> QED
    BY <2>1, <2>2 DEF Read, LoadFailed, Open
<1>7. TypeOK'
  BY <1>1, <1>3, <1>5, <1>6 DEF TypeOK
<1>8. DirInv'
  BY <1>3, <1>4, <1>5, QuietInv DEF IInv, Locked
<1> QED
  BY <1>7, <1>8

\* A load begins, looks for the mirror in vain, lands, or refreshes.
LEMMA LoadStepInv ==
  ASSUME IInv, NEW c \in Client,
         \/ StartLoad(c)
         \/ c \in Panel /\ Open(c) /\ NotFound /\ c \notin closed
         \/ c \in Panel /\ (Land(c) \/ Reopen(c) \/ Refresh(c) \/ CatchUp(c))
  PROVE  TypeOK' /\ DirInv'
<1>1. TypeOK
  BY DEF IInv
<1>2. /\ stage[c] \notin Locked
      /\ UNCHANGED <<dir, lock, pushing, push, kind, marked, closed, crashes>>
  BY DEF StartLoad, Open, Land, Reopen, Refresh, CatchUp, Locked, pushVars
<1>3. /\ stage' \in [Client -> Stage]
      /\ stage'[c] \notin Locked \cup {"reading"}
      /\ \A d \in Client : d # c => stage'[d] = stage[d]
      /\ loads' \in [Client -> 0 .. MaxLoads]
      /\ recloned' \in [Client -> BOOLEAN]
  <2>1. CASE StartLoad(c)
    <3>1. Started(c) /\ loads[c] < MaxLoads
      BY <2>1 DEF StartLoad
    <3> QED
      BY <1>1, <3>1, StartedType DEF Locked
  <2>2. CASE ~StartLoad(c)
    <3>1. UNCHANGED <<loads, recloned>>
      BY <2>2 DEF Open, Land, Reopen, Refresh, CatchUp
    <3>2. \E s \in {"locking", "reopening", "idle", "refreshing", "catching"} : Goto(c, s)
      BY <2>2 DEF Open, Land, Reopen, Refresh, CatchUp
    <3>3. PICK s \in {"locking", "reopening", "idle", "refreshing", "catching"} : Goto(c, s)
      BY <3>2
    <3>4. s \in Stage /\ s \notin Locked \cup {"reading"}
      BY <3>3 DEF Stage, Locked
    <3> QED
      BY <1>1, <3>1, <3>3, <3>4, GotoStage DEF TypeOK
  <2> QED
    BY <2>1, <2>2
<1>4. data' \in [Client -> View] /\ hadClone' \in [Client -> BOOLEAN]
  <2>1. data' = data \/ data' = [data EXCEPT ![c] = "nothing"]
    BY DEF StartLoad, Open, Land, Reopen, Refresh, CatchUp
  <2>2. \/ hadClone' = hadClone
        \/ hadClone' = [hadClone EXCEPT ![c] = Openable]
        \/ hadClone' = [hadClone EXCEPT ![c] = FALSE]
    BY DEF StartLoad, Open, Land, Reopen, Refresh, CatchUp
  <2>3. data' \in [Client -> View]
    BY <1>1, <2>1 DEF TypeOK, View
  <2>4. hadClone' \in [Client -> BOOLEAN]
    <3>1. CASE hadClone' = [hadClone EXCEPT ![c] = Openable]
      BY <1>1, <3>1 DEF TypeOK, Openable
    <3>2. CASE hadClone' = hadClone \/ hadClone' = [hadClone EXCEPT ![c] = FALSE]
      BY <1>1, <3>2 DEF TypeOK
    <3> QED
      BY <2>2, <3>1, <3>2
  <2> QED
    BY <2>3, <2>4
<1>5. shown' \in [Panel -> View]
  <2>1. \/ shown' = shown
        \/ c \in Panel /\ shown' = [shown EXCEPT ![c] = data[c]]
        \/ c \in Panel /\ shown' = [shown EXCEPT ![c] = Contents]
    BY DEF StartLoad, Open, Land, Reopen, Refresh, CatchUp
  <2>2. data[c] \in View /\ Contents \in View
    BY <1>1, ContentsType DEF TypeOK
  <2> QED
    BY <1>1, <2>1, <2>2 DEF TypeOK
<1>6. TypeOK'
  BY <1>1, <1>2, <1>3, <1>4, <1>5 DEF TypeOK
<1>7. DirInv'
  BY <1>2, <1>3, QuietInv DEF IInv
<1> QED
  BY <1>6, <1>7

-----------------------------------------------------------------------------
(* Pushes *)

\* A push starts: the backend refuses it if another one lives.
LEMMA PushInv ==
  ASSUME IInv, NEW p \in Panel, Push(p)
  PROVE  TypeOK' /\ DirInv' /\ OnePush'
<1>1. /\ pushing' = [pushing EXCEPT ![p] = TRUE]
      /\ push' = [push EXCEPT ![p] = IF marked THEN "ended" ELSE "spawned"]
      /\ \E k \in Kind : kind' = [kind EXCEPT ![p] = k]
      /\ marked' = TRUE
      /\ UNCHANGED <<dir, lock, stage, data, hadClone, shown, loads, recloned, closed, crashes>>
  BY DEF Push, Refused, loadVars
<1>2. TypeOK'
  BY <1>1 DEF IInv, TypeOK, PushStage
<1>3. DirInv'
  BY <1>1, QuietInv DEF IInv
<1>4. OnePush'
  BY <1>1 DEF IInv, TypeOK, OnePush, Live
<1> QED
  BY <1>2, <1>3, <1>4

\* A push runs and ends.
LEMMA RunPushInv ==
  ASSUME IInv, NEW p \in Panel, PollPush(p) \/ EndPush(p)
  PROVE  TypeOK' /\ DirInv' /\ OnePush'
<1>1. /\ \/ push[p] = "spawned" /\ push' = [push EXCEPT ![p] = "running"] /\ marked' = marked
         \/ push[p] = "running" /\ push' = [push EXCEPT ![p] = "ended"] /\ marked' = FALSE
      /\ UNCHANGED <<dir, lock, stage, data, hadClone, shown, loads, recloned,
                     pushing, kind, closed, crashes>>
  BY DEF PollPush, EndPush, loadVars
<1>2. TypeOK'
  BY <1>1 DEF IInv, TypeOK, PushStage
<1>3. DirInv'
  BY <1>1, QuietInv DEF IInv
<1>4. OnePush'
  BY <1>1 DEF IInv, TypeOK, OnePush, Live
<1> QED
  BY <1>2, <1>3, <1>4

\* A push lands, and may begin a load.
LEMMA LandPushInv ==
  ASSUME IInv, NEW p \in Panel, LandPush(p)
  PROVE  TypeOK' /\ DirInv' /\ OnePush'
<1>1. /\ push[p] = "ended" /\ push' = [push EXCEPT ![p] = "none"]
      /\ kind' = [kind EXCEPT ![p] = "mirror"]
      /\ pushing' = [pushing EXCEPT ![p] = FALSE]
      /\ UNCHANGED <<dir, lock, data, hadClone, shown, marked, closed, crashes>>
  BY DEF LandPush, FlagCleared, loadVars
<1>2. TypeOK /\ p \in Client
  BY DEF IInv, Client
<1>3. /\ stage' \in [Client -> Stage]
      /\ \A c \in Client :
           \/ stage'[c] = stage[c]
           \/ stage[c] \notin Locked /\ stage'[c] \notin Locked \cup {"reading"}
      /\ loads' \in [Client -> 0 .. MaxLoads]
      /\ recloned' \in [Client -> BOOLEAN]
  <2>1. CASE Started(p) /\ stage[p] = "idle" /\ loads[p] < MaxLoads
    BY <1>2, <2>1, StartedType DEF Locked
  <2>2. CASE UNCHANGED loadVars
    BY <1>2, <2>2 DEF loadVars, TypeOK
  <2> QED
    BY <2>1, <2>2 DEF LandPush
<1>4. TypeOK'
  BY <1>1, <1>2, <1>3 DEF TypeOK, PushStage, Kind
<1>5. DirInv'
  BY <1>1, <1>3, QuietInv DEF IInv
<1>6. OnePush'
  BY <1>1, <1>2 DEF IInv, TypeOK, OnePush, Live
<1> QED
  BY <1>4, <1>5, <1>6

-----------------------------------------------------------------------------
(* The end of a panel and of the process *)

\* What closes is not in the locked region, or stays in it.
LEMMA CloseInv ==
  ASSUME IInv, NEW c \in Client, Close(c)
  PROVE  TypeOK' /\ DirInv' /\ OnePush'
<1>1. TypeOK
  BY DEF IInv
<1>2. \E s \in Stage :
        /\ Goto(c, s)
        /\ s = stage[c] \/ (stage[c] \notin Locked \cup {"reading"} /\ s = "idle")
  BY <1>1 DEF Close, Stage, TypeOK, Locked
<1>3. /\ stage' \in [Client -> Stage]
      /\ \A d \in Client :
           \/ stage'[d] = stage[d]
           \/ stage[d] \notin Locked /\ stage'[d] \notin Locked \cup {"reading"}
  <2>1. PICK s \in Stage :
          /\ Goto(c, s)
          /\ s = stage[c] \/ (stage[c] \notin Locked \cup {"reading"} /\ s = "idle")
    BY <1>2
  <2> QED
    BY <1>1, <2>1, GotoStage DEF Locked
<1>4. UNCHANGED <<dir, lock, loads, recloned, crashes>>
  BY DEF Close
<1>5. shown' \in [Panel -> View]
  BY <1>1 DEF Close, TypeOK, View
<1>6. pushing' \in [Panel -> BOOLEAN]
  BY <1>1 DEF Close, TypeOK
<1>7. push' \in [Panel -> PushStage] /\ kind' \in [Panel -> Kind]
  BY <1>1 DEF Close, TypeOK, PushStage, Kind
<1>8. data' \in [Client -> View] /\ hadClone' \in [Client -> BOOLEAN]
  BY <1>1 DEF Close, TypeOK, View
<1>9. marked' \in BOOLEAN /\ closed' \subseteq Client
  BY <1>1 DEF Close, TypeOK
<1>10. TypeOK'
  BY <1>1, <1>3, <1>4, <1>5, <1>6, <1>7, <1>8, <1>9 DEF TypeOK
<1>11. DirInv'
  BY <1>3, <1>4, QuietInv DEF IInv
<1>12. OnePush'
  BY DEF IInv, TypeOK, OnePush, Live, Close, Dropped
<1> QED
  BY <1>10, <1>11, <1>12

\* A stop keeps the types, and no push survives it.
LEMMA CrashRest ==
  ASSUME IInv, Crash
  PROVE  TypeOK' /\ OnePush'
<1>1. dir' \in Directory
  BY CrashInv
<1>2. crashes' \in 0 .. MaxCrashes
  BY MirrorCacheAssumption DEF Crash, IInv, TypeOK
<1>3. stage' \in [Client -> Stage] /\ data' \in [Client -> View]
  BY DEF Crash, Idle, NoData, Stage, View
<1>4. hadClone' \in [Client -> BOOLEAN] /\ recloned' \in [Client -> BOOLEAN]
  BY DEF Crash, AllFalse
<1>5. /\ shown' \in [Panel -> View] /\ pushing' \in [Panel -> BOOLEAN]
      /\ push' \in [Panel -> PushStage] /\ kind' \in [Panel -> Kind]
  BY DEF Crash, NoneOf, View, PushStage, Kind
<1>6. /\ lock' \in Client \cup {None} /\ marked' \in BOOLEAN /\ closed' \subseteq Client
      /\ loads' \in [Client -> 0 .. MaxLoads]
  BY DEF Crash, IInv, TypeOK
<1>7. TypeOK'
  BY <1>1, <1>2, <1>3, <1>4, <1>5, <1>6 DEF TypeOK
<1>8. OnePush'
  BY DEF Crash, NoneOf, OnePush, Live
<1> QED
  BY <1>7, <1>8

-----------------------------------------------------------------------------
(* The invariant *)

\* At first no task is under way, and no clone is unfinished.
LEMMA InitInv == Init => IInv
<1> SUFFICES ASSUME Init PROVE IInv
  OBVIOUS
<1>1. TypeOK
  <2>1. stage \in [Client -> Stage] /\ data \in [Client -> View]
    BY DEF Init, Idle, NoData, Stage, View
  <2>2. hadClone \in [Client -> BOOLEAN] /\ recloned \in [Client -> BOOLEAN]
    BY DEF Init, AllFalse
  <2>3. /\ shown \in [Panel -> View] /\ pushing \in [Panel -> BOOLEAN]
        /\ push \in [Panel -> PushStage] /\ kind \in [Panel -> Kind]
    BY DEF Init, NoneOf, View, PushStage, Kind
  <2>4. loads \in [Client -> 0 .. MaxLoads] /\ crashes \in 0 .. MaxCrashes
    BY MirrorCacheAssumption DEF Init
  <2>5. /\ dir \in Directory /\ lock \in Client \cup {None}
        /\ marked \in BOOLEAN /\ closed \subseteq Client
    BY DEF Init, Directory
  <2> QED
    BY <2>1, <2>2, <2>3, <2>4, <2>5 DEF TypeOK
<1>2. DirInv
  BY MirrorCacheAssumption
     DEF Init, Idle, DirInv, ClonesSerialized, HeldSound, ReadersApart,
         UnfinishedIsCloned, Locked
<1>3. OnePush
  BY DEF Init, NoneOf, OnePush, Live
<1> QED
  BY <1>1, <1>2, <1>3 DEF IInv

\* A step that does not touch the pushes keeps them apart.
LEMMA PushesQuiet ==
  ASSUME OnePush, UNCHANGED <<pushVars, closed>>
  PROVE  OnePush'
BY DEF OnePush, pushVars

\* Every step preserves the invariant.
LEMMA NextInv == IInv /\ [Next]_vars => IInv'
<1> SUFFICES ASSUME IInv, [Next]_vars PROVE IInv'
  OBVIOUS
<1>1. ASSUME NEW c \in Client,
             \/ TakeLock(c) \/ Check(c) \/ Clear(c) \/ ClearFails(c) \/ Create(c)
             \/ CloneArrives(c) \/ CloneFails(c) \/ Updated(c)
      PROVE  IInv'
  <2>1. TypeOK'
    BY <1>1, EnsureType DEF IInv
  <2>2. DirInv'
    BY <1>1, TakeLockInv, CheckInv, ReplaceInv, LeaveInv
  <2>3. OnePush'
    BY <1>1, PushesQuiet
       DEF IInv, TakeLock, Check, Clear, ClearFails, Create, CloneArrives, CloneFails, Updated
  <2> QED
    BY <2>1, <2>2, <2>3 DEF IInv
<1>2. ASSUME NEW c \in Client, Read(c) \/ LoadFailed(c) \/ StartLoad(c)
      PROVE  IInv'
  <2>1. TypeOK' /\ DirInv'
    BY <1>2, ResultStep, LoadStepInv
  <2>2. OnePush'
    BY <1>2, PushesQuiet DEF IInv, Read, LoadFailed, StartLoad
  <2> QED
    BY <2>1, <2>2 DEF IInv
<1>3. ASSUME NEW p \in Panel, Open(p) \/ Land(p) \/ Reopen(p) \/ Refresh(p) \/ CatchUp(p)
      PROVE  IInv'
  <2>1. p \in Client
    BY DEF Client
  <2>2. TypeOK' /\ DirInv'
    BY <1>3, <2>1, ResultStep, LoadStepInv
  <2>3. OnePush'
    BY <1>3, PushesQuiet DEF IInv, Open, Land, Reopen, Refresh, CatchUp
  <2> QED
    BY <2>2, <2>3 DEF IInv
<1>4. ASSUME NEW p \in Panel, Push(p) \/ PollPush(p) \/ EndPush(p) \/ LandPush(p)
      PROVE  IInv'
  BY <1>4, PushInv, RunPushInv, LandPushInv DEF IInv
<1>5. ASSUME NEW c \in Client, Close(c)
      PROVE  IInv'
  BY <1>5, CloseInv DEF IInv
<1>6. CASE Crash
  BY <1>6, CrashInv, CrashRest DEF IInv
<1>7. CASE UNCHANGED vars
  <2>1. TypeOK'
    BY <1>7 DEF IInv, TypeOK, vars
  <2>2. DirInv'
    BY <1>7, QuietInv DEF IInv, vars
  <2>3. OnePush'
    BY <1>7, PushesQuiet DEF IInv, vars, pushVars
  <2> QED
    BY <2>1, <2>2, <2>3 DEF IInv
<1> QED
  BY <1>1, <1>2, <1>3, <1>4, <1>5, <1>6, <1>7 DEF Next

LEMMA Invariance == Spec => []IInv
BY InitInv, NextInv, PTL DEF Spec

\* The model keeps its types: git_store.rs, cache.rs and the panels' fields.
THEOREM TypeCorrect == Spec => []TypeOK
<1>1. IInv => TypeOK
  BY DEF IInv
<1> QED
  BY <1>1, Invariance, PTL

\* Clones of the mirror are serialized: GitCache::ensure_clone's lock has one
\* holder from its first look at the directory to the end of the clone.
THEOREM CloneSerial == Spec => []ClonesSerialized
<1>1. IInv => ClonesSerialized
  BY DEF IInv, DirInv
<1> QED
  BY <1>1, Invariance, PTL

\* What ensure_clone hands out is a repository, and a finished clone unless the
\* process was stopped, however long the caller takes to read it.
THEOREM EnsuredWhole == Spec => []EnsuredIsWhole
<1>1. IInv => EnsuredIsWhole
  BY DEF IInv, DirInv, HeldSound, EnsuredIsWhole
<1> QED
  BY <1>1, Invariance, PTL

\* Of all stores of a repository one pushes at a time, and the backend's mark is
\* there as long as it does.
THEOREM OnePushAtATime == Spec => []OnePush
<1>1. IInv => OnePush
  BY DEF IInv
<1> QED
  BY <1>1, Invariance, PTL

\* No step of any load, nor a stop of the process, undoes a finished clone.
LEMMA WholeStep == IInv /\ [Next]_vars => (dir = "whole" => dir' = "whole")
<1> SUFFICES ASSUME IInv, [Next]_vars, dir = "whole" PROVE dir' = "whole"
  OBVIOUS
<1>1. \A c \in Client : stage[c] \notin {"clearing", "creating", "cloning"}
  BY DEF IInv, DirInv, HeldSound, ClonesSerialized, Openable
<1>2. ASSUME NEW c \in Client,
             \/ StartLoad(c) \/ TakeLock(c) \/ Check(c) \/ Clear(c) \/ ClearFails(c)
             \/ Create(c) \/ CloneArrives(c) \/ CloneFails(c) \/ Updated(c) \/ Read(c)
             \/ LoadFailed(c) \/ Close(c)
      PROVE  dir' = dir
  BY <1>1, <1>2
     DEF StartLoad, TakeLock, Check, Clear, ClearFails, Create, CloneArrives, CloneFails,
         Updated, Read, LoadFailed, Close
<1>3. ASSUME NEW p \in Panel,
             \/ Open(p) \/ Land(p) \/ Reopen(p) \/ Refresh(p) \/ CatchUp(p)
             \/ Push(p) \/ PollPush(p) \/ EndPush(p) \/ LandPush(p)
      PROVE  dir' = dir
  BY <1>3 DEF Open, Land, Reopen, Refresh, CatchUp, Push, PollPush, EndPush, LandPush
<1>4. CASE Crash
  <2>1. LeftBehind = {dir}
    BY <1>1 DEF LeftBehind
  <2> QED
    BY <1>4, <2>1 DEF Crash
<1>5. CASE UNCHANGED vars
  BY <1>5 DEF vars
<1> QED
  BY <1>2, <1>3, <1>4, <1>5 DEF Next

\* A finished clone stays: ensure_clone removes and clones only what cannot be
\* opened, and its lock keeps it from a directory another task is filling.
THEOREM WholeMirrorKept == Spec => WholeKept
<1>1. IInv /\ [Next]_vars => [dir = "whole" => dir' = "whole"]_vars
  BY WholeStep
<1> QED
  BY <1>1, Invariance, PTL DEF Spec, WholeKept
=============================================================================
