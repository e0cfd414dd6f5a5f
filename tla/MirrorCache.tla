----------------------------- MODULE MirrorCache -----------------------------
(***************************************************************************)
(* The mirror of one repository: GitCache (signed_git/src/cache.rs), the   *)
(* repository panel that opens, clones and refreshes it                    *)
(* (workspace/src/views/repo/mod.rs), the pull request panels that ensure  *)
(* it, and the marks that keep pushes of the repository apart              *)
(* (signed_state/src/repo.rs, backend.rs).                                 *)
(*                                                                         *)
(* The mirror is a directory that several tasks of the background pool     *)
(* share.  ensure_clone holds a lock per path from its first look at the   *)
(* directory to the end of the clone; Mirrors::open takes no lock.  A      *)
(* repository is created on disk before its objects arrive, so that a      *)
(* clone in progress can already be opened and looks empty.  The process   *)
(* may stop at any time and leave what it was writing.                     *)
(*                                                                         *)
(* Git is external: what a clone, an interrupted clone and a fetch leave   *)
(* behind is chosen among what the code is prepared for.                   *)
(***************************************************************************)
EXTENDS Naturals, FiniteSets

CONSTANTS
  Panel,       \* repository panels, each with its store
  Reader,      \* pull request panels, which only ensure the mirror
  None,        \* nobody holds the lock
  MaxLoads,    \* bound: loads started by each panel and reader
  MaxCrashes   \* bound: how often the process stops

Client == Panel \cup Reader

ASSUME MirrorCacheAssumption ==
  /\ Panel \cap Reader = {}
  /\ None \notin Client
  /\ MaxLoads \in Nat /\ MaxCrashes \in Nat

\* What is at repo_path: nothing; a directory without a repository; a
\* repository that was created but has no branch yet; one that cannot be
\* opened; a finished clone.
Directory == {"absent", "leftover", "unfinished", "damaged", "whole"}

\* Where a load is.  From "checking" to "updating" it holds the clone lock.
Locked == {"checking", "clearing", "creating", "cloning", "updating"}
Stage == {"idle", "opening", "locking", "reading", "landing", "failed",
          "reopening", "refreshing", "catching"} \cup Locked

\* What a panel's file tree shows.
View == {"nothing", "empty", "files", "error"}

\* A push: none; spawned and not yet polled; running under its guard; over or
\* refused, with the store not yet told.
PushStage == {"none", "spawned", "running", "ended"}
Live == {"spawned", "running"}

\* What is pushed: the mirror, a checkout, or the mirror with the deletions of a
\* reset, whose task is detached from the panel.
Kind == {"mirror", "checkout", "reset"}

VARIABLES
  dir,        \* the directory at repo_path
  lock,       \* who holds the clone lock of the path
  stage,      \* where each client's load is
  data,       \* what each client's load has read
  hadClone,   \* load_repo's had_clone
  shown,      \* what each panel shows
  pushing,    \* RepoStore.pushing of each panel
  push,       \* the push task of each panel
  kind,       \* what it pushes
  marked,     \* pushing_repos contains the address
  loads,      \* loads started so far
  closed,     \* panels the user has closed
  crashes,    \* history: how often the process stopped
  recloned    \* history: the last load of the client got as far as a clone

loadVars == <<stage, data, hadClone, shown, loads, recloned>>
pushVars == <<pushing, push, kind, marked>>
vars == <<dir, lock, stage, data, hadClone, shown, pushing, push, kind,
          marked, loads, closed, crashes, recloned>>

TypeOK ==
  /\ dir \in Directory
  /\ lock \in Client \cup {None}
  /\ stage \in [Client -> Stage]
  /\ data \in [Client -> View]
  /\ hadClone \in [Client -> BOOLEAN]
  /\ shown \in [Panel -> View]
  /\ pushing \in [Panel -> BOOLEAN]
  /\ push \in [Panel -> PushStage]
  /\ kind \in [Panel -> Kind]
  /\ marked \in BOOLEAN
  /\ loads \in [Client -> 0 .. MaxLoads]
  /\ closed \subseteq Client
  /\ crashes \in 0 .. MaxCrashes
  /\ recloned \in [Client -> BOOLEAN]

Idle == [c \in Client |-> "idle"]
NoData == [c \in Client |-> "nothing"]
AllFalse == [c \in Client |-> FALSE]
NoneOf(v) == [p \in Panel |-> v]

Init ==
  /\ dir \in {"absent", "leftover", "whole"}
  /\ loads = [c \in Client |-> 0]
  /\ crashes = 0
  /\ lock = None /\ stage = Idle /\ data = NoData /\ hadClone = AllFalse
  /\ shown = NoneOf("nothing") /\ closed = {} /\ recloned = AllFalse
  /\ pushing = NoneOf(FALSE) /\ push = NoneOf("none") /\ kind = NoneOf("mirror")
  /\ marked = FALSE

-----------------------------------------------------------------------------
(* The directory *)

\* gix::open succeeds, though there may be nothing in the repository yet.
Openable == dir \in {"unfinished", "whole"}

\* gix::open fails with an error that is_not_found() recognises.
NotFound == dir \in {"absent", "leftover"}

\* Mutant: the reader passes on what it found.
RawContents == dir

\* load_repo_data: an unborn HEAD is no error, it yields an empty tree.
Contents ==
  IF dir = "whole" THEN "files" ELSE IF dir = "unfinished" THEN "empty" ELSE "error"

Goto(c, s) == stage' = [stage EXCEPT ![c] = s]

\* A result is for a panel that is still open.
Deliver(c, view) ==
  IF c \in Panel \ closed
    THEN Goto(c, "landing") /\ data' = [data EXCEPT ![c] = view]
    ELSE Goto(c, "idle") /\ UNCHANGED data

-----------------------------------------------------------------------------
(* GitCache::ensure_clone *)

\* Mutant: each call locks a lock of its own.
AlwaysFree == TRUE

\* There is one lock per path, shared by all callers.
Free == lock = None

\* Mutant: an error returns past the guard.
KeepLock == lock' = lock

\* The guard is dropped on every way out.
Unlock == lock' = None

\* The clone lock of the path is taken before the first look.
TakeLock(c) ==
  /\ stage[c] = "locking"
  /\ Free
  /\ lock' = c
  /\ Goto(c, "checking")
  /\ UNCHANGED <<dir, data, hadClone, shown, loads, recloned, pushVars, closed, crashes>>

\* Mutants: any directory is taken for a mirror; every caller clones.
Exists == dir # "absent"
NeverThere == FALSE

\* What ensure_clone returns as it is.
Reusable == Openable

\* A mirror that can be opened is refreshed, anything else is cloned.
Check(c) ==
  /\ stage[c] = "checking"
  /\ Goto(c, IF Reusable THEN "updating" ELSE "clearing")
  /\ UNCHANGED <<dir, lock, data, hadClone, shown, loads, recloned, pushVars, closed, crashes>>

\* The parent is created and the remains of an earlier clone are removed.
Clear(c) ==
  /\ stage[c] = "clearing"
  /\ dir' = "absent"
  /\ Goto(c, "creating")
  /\ recloned' = [recloned EXCEPT ![c] = TRUE]
  /\ UNCHANGED <<lock, data, hadClone, shown, loads, pushVars, closed, crashes>>

\* Either may fail.
ClearFails(c) ==
  /\ stage[c] = "clearing"
  /\ Unlock
  /\ Goto(c, "failed")
  /\ recloned' = [recloned EXCEPT ![c] = TRUE]
  /\ UNCHANGED <<dir, data, hadClone, shown, loads, pushVars, closed, crashes>>

\* Repo::clone refuses a destination that exists, and creates the repository
\* before anything has arrived.
Create(c) ==
  /\ stage[c] = "creating"
  /\ IF dir = "absent"
       THEN /\ dir' = "unfinished"
            /\ lock' = lock
            /\ Goto(c, "cloning")
       ELSE /\ dir' = dir
            /\ Unlock
            /\ Goto(c, "failed")
  /\ UNCHANGED <<data, hadClone, shown, loads, recloned, pushVars, closed, crashes>>

\* One of the clone URLs works: the clone is checked out.
CloneArrives(c) ==
  /\ stage[c] = "cloning"
  /\ dir' = "whole"
  /\ Goto(c, "updating")
  /\ UNCHANGED <<lock, data, hadClone, shown, loads, recloned, pushVars, closed, crashes>>

\* None of them does; git removes the directory it created for each.
CloneFails(c) ==
  /\ stage[c] = "cloning"
  /\ dir' = "absent"
  /\ Unlock
  /\ Goto(c, "failed")
  /\ UNCHANGED <<data, hadClone, shown, loads, recloned, pushVars, closed, crashes>>

\* The fetch is best effort: with or without it the repository is returned,
\* and the lock guard is dropped.
Updated(c) ==
  /\ stage[c] = "updating"
  /\ Unlock
  /\ Goto(c, "reading")
  /\ UNCHANGED <<dir, data, hadClone, shown, loads, recloned, pushVars, closed, crashes>>

\* The caller reads what it was given, without the lock.
Read(c) ==
  /\ stage[c] = "reading"
  /\ Deliver(c, Contents)
  /\ UNCHANGED <<dir, lock, hadClone, shown, loads, recloned, pushVars, closed, crashes>>

\* The caller shows the error.
LoadFailed(c) ==
  /\ stage[c] = "failed"
  /\ Deliver(c, "error")
  /\ UNCHANGED <<dir, lock, hadClone, shown, loads, recloned, pushVars, closed, crashes>>

-----------------------------------------------------------------------------
(* Loads *)

\* A panel loads when it opens, when its announcement arrives, and after it
\* has pushed a checkout.  Its loads follow each other here; loads that overlap
\* are those of two panels.
Started(c) ==
  /\ loads' = [loads EXCEPT ![c] = @ + 1]
  /\ recloned' = [recloned EXCEPT ![c] = FALSE]
  /\ Goto(c, IF c \in Panel THEN "opening" ELSE "locking")

StartLoad(c) ==
  /\ stage[c] = "idle" /\ loads[c] < MaxLoads /\ c \notin closed
  /\ Started(c)
  /\ UNCHANGED <<dir, lock, data, hadClone, shown, pushVars, closed, crashes>>

\* Mirrors::open takes no lock.  A mirror that is there is read; one that is
\* not found is cloned; any other error ends the load.
Open(p) ==
  /\ stage[p] = "opening"
  /\ hadClone' = [hadClone EXCEPT ![p] = Openable]
  /\ IF NotFound /\ p \notin closed
       THEN Goto(p, "locking") /\ UNCHANGED data
       ELSE Deliver(p, Contents)
  /\ UNCHANGED <<dir, lock, shown, loads, recloned, pushVars, closed, crashes>>

\* The result is shown.  If the mirror was already there it is refreshed from
\* the network, unless the store says at this moment that it is pushing.
Land(p) ==
  /\ stage[p] = "landing" /\ p \notin closed
  /\ shown' = [shown EXCEPT ![p] = data[p]]
  /\ Goto(p, IF hadClone[p] /\ ~pushing[p] THEN "reopening" ELSE "idle")
  /\ data' = [data EXCEPT ![p] = "nothing"]
  /\ hadClone' = [hadClone EXCEPT ![p] = FALSE]
  /\ UNCHANGED <<dir, lock, loads, recloned, pushVars, closed, crashes>>

\* The refresh opens the mirror again, and gives up if it cannot.
Reopen(p) ==
  /\ stage[p] = "reopening"
  /\ Goto(p, IF Openable THEN "refreshing" ELSE "idle")
  /\ UNCHANGED <<dir, lock, data, hadClone, shown, loads, recloned, pushVars, closed, crashes>>

\* fast_forward_branches has something to move only where there are branches.
Movable == dir = "whole"

\* Fetch, fast-forward and land: the file tree is rebuilt only if a branch moved.
Refresh(p) ==
  /\ stage[p] = "refreshing"
  /\ \E moved \in BOOLEAN :
       /\ moved => Movable
       /\ Goto(p, IF moved /\ p \notin closed THEN "catching" ELSE "idle")
  /\ UNCHANGED <<dir, lock, data, hadClone, shown, loads, recloned, pushVars, closed, crashes>>

\* catch_up_worktree: the tree on disk is shown.
CatchUp(p) ==
  /\ stage[p] = "catching" /\ p \notin closed
  /\ shown' = [shown EXCEPT ![p] = Contents]
  /\ Goto(p, "idle")
  /\ UNCHANGED <<dir, lock, data, hadClone, loads, recloned, pushVars, closed, crashes>>

-----------------------------------------------------------------------------
(* Pushes of the repository *)

\* Mutant: each store looks only at its own flag.
NotRefused == FALSE

\* The backend looks at the addresses being pushed.
Refused == marked

\* Mutant: the flag is cleared when the push succeeds.
FlagClearedOnSuccess(p) ==
  \E ok \in BOOLEAN : pushing' = [pushing EXCEPT ![p] = ~ok]

FlagCleared(p) == pushing' = [pushing EXCEPT ![p] = FALSE]

\* push_repository, reset_repository, push_checkout and run_push.  The store
\* looks at its own flag, the backend at the addresses being pushed.  When the
\* backend refuses, the store is told with the next poll.
Push(p) ==
  /\ ~pushing[p] /\ p \notin closed
  /\ pushing' = [pushing EXCEPT ![p] = TRUE]
  /\ push' = [push EXCEPT ![p] = IF Refused THEN "ended" ELSE "spawned"]
  /\ \E k \in Kind : kind' = [kind EXCEPT ![p] = k]
  /\ marked' = TRUE
  /\ UNCHANGED <<dir, lock, loadVars, closed, crashes>>

\* The first poll creates the guard that will remove the mark.
PollPush(p) ==
  /\ push[p] = "spawned"
  /\ push' = [push EXCEPT ![p] = "running"]
  /\ UNCHANGED <<dir, lock, loadVars, pushing, kind, marked, closed, crashes>>

\* The push succeeds or fails; its guard is dropped with it.
EndPush(p) ==
  /\ push[p] = "running"
  /\ push' = [push EXCEPT ![p] = "ended"]
  /\ marked' = FALSE
  /\ UNCHANGED <<dir, lock, loadVars, pushing, kind, closed, crashes>>

\* The store's flag is cleared.  After a checkout was pushed the panel loads
\* again.
LandPush(p) ==
  /\ push[p] = "ended"
  /\ push' = [push EXCEPT ![p] = "none"]
  /\ kind' = [kind EXCEPT ![p] = "mirror"]
  /\ FlagCleared(p)
  /\ \/ /\ kind[p] = "checkout" /\ p \notin closed
        /\ stage[p] = "idle" /\ loads[p] < MaxLoads
        /\ Started(p)
        /\ UNCHANGED <<data, hadClone, shown>>
     \/ UNCHANGED loadVars
  /\ UNCHANGED <<dir, lock, marked, closed, crashes>>

-----------------------------------------------------------------------------
(* The end of a panel and of the process *)

\* A reset is detached and goes on without the panel.
Dropped(c) == c \in Panel /\ kind[c] # "reset"

\* A panel closes and drops its tasks and its store.  What a thread of the pool
\* is doing goes on; what was still queued is cancelled, and results go
\* nowhere.  A push that was polled takes its mark with it, one that was not
\* leaves it.
Close(c) ==
  /\ c \notin closed
  /\ closed' = closed \cup {c}
  /\ \E s \in IF stage[c] \in Locked \cup {"reading"} THEN {stage[c]}
              ELSE IF stage[c] \in {"landing", "catching"} THEN {"idle"}
              ELSE {stage[c], "idle"} : Goto(c, s)
  /\ shown' = [p \in Panel |-> IF p = c THEN "nothing" ELSE shown[p]]
  /\ pushing' = [p \in Panel |-> pushing[p] /\ p # c]
  /\ push' = [p \in Panel |-> IF p = c /\ Dropped(c) THEN "none" ELSE push[p]]
  /\ kind' = [p \in Panel |-> IF p = c /\ Dropped(c) THEN "mirror" ELSE kind[p]]
  /\ marked' = (marked /\ ~(Dropped(c) /\ push[c] = "running"))
  /\ data' = [data EXCEPT ![c] = "nothing"]
  /\ hadClone' = [hadClone EXCEPT ![c] = FALSE]
  /\ UNCHANGED <<dir, lock, loads, recloned, crashes>>

\* What a stop leaves at repo_path.  A clone in progress leaves a directory
\* without a repository, an empty repository, or one that cannot be opened; a
\* removal in progress leaves a part of what was there.
LeftBehind ==
  {dir}
  \cup {d \in {"leftover", "unfinished", "damaged"} : \E c \in Client : stage[c] = "cloning"}
  \cup {d \in {"absent", "leftover"} : \E c \in Client : stage[c] = "clearing"}

\* The process stops: nothing survives but the directory.
Crash ==
  /\ crashes < MaxCrashes
  /\ crashes' = crashes + 1
  /\ dir' \in LeftBehind
  /\ lock' = None /\ stage' = Idle /\ data' = NoData /\ hadClone' = AllFalse
  /\ shown' = NoneOf("nothing") /\ closed' = {} /\ recloned' = AllFalse
  /\ pushing' = NoneOf(FALSE) /\ push' = NoneOf("none") /\ kind' = NoneOf("mirror")
  /\ marked' = FALSE
  /\ UNCHANGED loads

Next ==
  \/ \E c \in Client :
       \/ StartLoad(c) \/ TakeLock(c) \/ Check(c) \/ Clear(c) \/ ClearFails(c)
       \/ Create(c) \/ CloneArrives(c) \/ CloneFails(c) \/ Updated(c) \/ Read(c)
       \/ LoadFailed(c) \/ Close(c)
  \/ \E p \in Panel :
       \/ Open(p) \/ Land(p) \/ Reopen(p) \/ Refresh(p) \/ CatchUp(p)
       \/ Push(p) \/ PollPush(p) \/ EndPush(p) \/ LandPush(p)
  \/ Crash

\* A task of the pool runs until it ends, and its result is delivered.
LoadStep(c) ==
  \/ TakeLock(c) \/ Check(c) \/ Clear(c) \/ ClearFails(c)
  \/ Create(c) \/ CloneArrives(c) \/ CloneFails(c) \/ Updated(c) \/ Read(c) \/ LoadFailed(c)
  \/ c \in Panel /\ (Open(c) \/ Land(c) \/ Reopen(c) \/ Refresh(c) \/ CatchUp(c))

PushStep(p) == PollPush(p) \/ EndPush(p) \/ LandPush(p)

Fairness ==
  /\ \A c \in Client : WF_vars(LoadStep(c))
  /\ \A p \in Panel : WF_vars(PushStep(p))

Spec == Init /\ [][Next]_vars /\ Fairness

-----------------------------------------------------------------------------
(* Properties *)

\* Clones are serialized: the lock has one holder, every task between its first
\* look at the directory and the end of its clone is that holder, and a clone
\* that starts finds nothing at its destination ("destination already exists"
\* cannot come back).
ClonesSerialized ==
  /\ \A c \in Client : stage[c] \in Locked <=> lock = c
  /\ \A c \in Client : stage[c] = "creating" => dir = "absent"

\* Whoever is handed the mirror by ensure_clone finds a repository there, and
\* unless the process was stopped during a clone it is a finished one: no other
\* task removes it or clones over it.
EnsuredIsWhole ==
  \A c \in Client :
    stage[c] = "reading" => Openable /\ (crashes = 0 => dir = "whole")

\* A finished clone stays: no panel, failure, or stop of the process undoes it.
WholeKept == [][dir = "whole" => dir' = "whole"]_vars

\* One push of the repository at a time, whichever panel starts it, and as long
\* as it lives the backend refuses others, and so does its store if it is still there.
OnePush ==
  \A p, q \in Panel :
    /\ push[p] \in Live /\ push[q] \in Live => p = q
    /\ push[p] \in Live => marked /\ (p \notin closed => pushing[p])

\* Every load ends, with the mirror or an error: nobody waits for the lock
\* forever, whoever fails or is closed while holding it.
LoadsEnd == \A c \in Client : (stage[c] # "idle") ~> (stage[c] = "idle")

\* The flag that disables the push button of a panel is cleared again.
PushesEnd == \A p \in Panel : pushing[p] ~> ~pushing[p]

\* Whatever a panel has started comes to an end.
EverythingEnds == LoadsEnd /\ PushesEnd

\* "Clones are now serialized and later loads reuse the finished clone"
\* (CHANGELOG.md): a panel would never show a clone that is not finished.
OpensFinished == \A p \in Panel : shown[p] # "empty"

\* "So the refresh no longer races the push" (CHANGELOG.md): whichever panel
\* started it, no refresh is decided on while a push of the repository runs.
RefreshAvoidsPush ==
  [][\A p, q \in Panel :
       stage[p] = "landing" /\ stage'[p] = "reopening" => push[q] # "running"]_vars

\* "An unusable mirror directory [is] now removed and re-cloned" (CHANGELOG.md):
\* a panel would only end up without files after it tried to clone.
InterruptedReplaced ==
  \A p \in Panel :
    stage[p] = "idle" /\ shown[p] \in {"empty", "error"} => recloned[p]
=============================================================================
