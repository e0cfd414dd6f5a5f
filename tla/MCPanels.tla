------------------------------ MODULE MCPanels ------------------------------
(***************************************************************************)
(* The panels of the workspace and the marks of the inbox, one at a time.  *)
(*                                                                         *)
(* The components share no state, so that interleaving them would show     *)
(* nothing: a behavior picks one, and the others stay in an initial state. *)
(* Variables that two of them have by one name get a letter.               *)
(***************************************************************************)
EXTENDS Compare

CONSTANTS
  Tag, MaxTip, MaxRequests, MaxFailures,                      \* Worktree
  File, Readme, MaxFiles, MaxTexts, MaxVersions, MaxOpens,    \* Previews
  Binding, Series, NoBinding, MaxChanges,                     \* Detail
  Author, Directory, MaxVersion, MaxLoads, MaxRenders,        \* Profiles
  Id, AdvanceWindow, MarkAllWindow, MaxTime,                  \* ReadState
  Trunk                                                       \* Worktree: Branch

VARIABLES
  panel,   \* the component that moves
  server, origin, tip, head, tree, mirrored, shown, known, loadingW, switching,
  errorW, tasksW, overlapped, broken, raced, requests, failures,
  disk, files, order, bytes, loadingP, selected, pane, commits, pending,
  walking, reads, walks, hung, cleared, crossed, twice, overtaken, opens,
  root, loaded, bound, loadingD, errorD, generationD, paneD, commitsD, worktree,
  loads, opened, changes,
  stored, news, inFlight, queue, batch, syncing, profiles, pendingF, loadsF,
  outrun, failed, failuresF, renders,
  now, all, marks

wt == <<server, origin, tip, head, tree, mirrored, shown, known, loadingW,
        switching, errorW, tasksW, overlapped, broken, raced, requests, failures>>
pv == <<disk, files, order, bytes, loadingP, selected, pane, commits, pending,
        walking, reads, walks, hung, cleared, crossed, twice, overtaken, opens>>
dt == <<root, loaded, bound, loadingD, errorD, generationD, paneD, commitsD,
        worktree, loads, opened, changes>>
pf == <<stored, news, inFlight, queue, batch, syncing, profiles, pendingF,
        loadsF, outrun, failed, failuresF, renders>>
rs == <<now, all, marks>>

Wt == INSTANCE Worktree WITH
  loading <- loadingW, error <- errorW, tasks <- tasksW, Branch <- Trunk
Pv == INSTANCE Previews WITH loading <- loadingP
Dt == INSTANCE Detail WITH
  loading <- loadingD, error <- errorD, generation <- generationD,
  pane <- paneD, commits <- commitsD
Pf == INSTANCE Profiles WITH
  pending <- pendingF, loads <- loadsF, failures <- failuresF
Rs == INSTANCE ReadState

ASSUME PanelsAssumption ==
  /\ Wt!WorktreeAssumption /\ Pv!PreviewsAssumption /\ Dt!DetailAssumption
  /\ Pf!ProfilesAssumption /\ Rs!ReadStateAssumption

Panel == {"compare", "worktree", "previews", "detail", "profiles", "marks"}

\* A panel that stays put does so in one of its initial states.
PanelsInit ==
  /\ panel \in Panel
  /\ Init /\ (panel = "compare" \/ tasks = {})
  /\ Wt!Init /\ (panel = "worktree" \/ mirrored)
  /\ Pv!Init
  /\ Dt!Init /\ (panel = "detail" \/ ~loaded)
  /\ Pf!Init /\ (panel = "profiles" \/ \A a \in Author : stored[a] = 0)
  /\ Rs!Init

PanelsNext ==
  \/ /\ panel = "compare" /\ Next
     /\ UNCHANGED <<panel, wt, pv, dt, pf, rs>>
  \/ /\ panel = "worktree" /\ Wt!Next
     /\ UNCHANGED <<panel, vars, pv, dt, pf, rs>>
  \/ /\ panel = "previews" /\ Pv!Next
     /\ UNCHANGED <<panel, vars, wt, dt, pf, rs>>
  \/ /\ panel = "detail" /\ Dt!Next
     /\ UNCHANGED <<panel, vars, wt, pv, pf, rs>>
  \/ /\ panel = "profiles" /\ Pf!Next
     /\ UNCHANGED <<panel, vars, wt, pv, dt, rs>>
  \/ /\ panel = "marks" /\ Rs!Next
     /\ UNCHANGED <<panel, vars, wt, pv, dt, pf>>

PanelsSpec ==
  PanelsInit /\ [][PanelsNext]_<<panel, vars, wt, pv, dt, pf, rs>>

-----------------------------------------------------------------------------
(* Properties, as their modules state them *)

\* Every panel's state is well typed.
WellTyped ==
  /\ TypeOK /\ Wt!TypeOK /\ Pv!TypeOK /\ Dt!TypeOK /\ Pf!TypeOK /\ Rs!TypeOK

\* At rest the panel shows the files, commit and history of HEAD (Worktree).
ShowsTheWorktree == Wt!ShowsTheWorktree

\* Trimming the previews ends within the limits (Previews).
EvictionEnds == Pv!EvictionEnds

\* A preview is of the branch that is checked out, and no commit that is wanted
\* is forgotten (Previews).
PreviewIsCurrent == Pv!PreviewIsCurrent /\ Pv!BatchesGoOn

\* A pull request's panel shows the version it is bound to (Detail).
PanelShowsBound == Dt!PanelShowsBound

\* At rest every panel shows the stored profiles, and nobody is locked out of
\* being fetched (Profiles).
ShowsStored == Pf!ShowsStored /\ Pf!NobodyLockedOut

\* What was marked stays marked (ReadState), and no branch of the mirror loses
\* a commit (Worktree).
NothingTakenBack == Rs!MarksAreKept /\ Wt!TipsAdvance

-----------------------------------------------------------------------------
(* What comments of the code say and it does not keep; the README has them *)

\* repo.rs:960: a checkout is "replacing worktree contents" (Worktree).
CheckoutReplaces == Wt!CheckoutReplaces

\* history.rs:57: reload is to "walk HEAD again" (Worktree).
HistoryIsHeads == Wt!HistoryIsHeads

\* read_state.rs:74: a cutoff "leaves unmarked events uncovered" (ReadState).
LeavesUnmarked == Rs!LeavesUnmarked
=============================================================================
