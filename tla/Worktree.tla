------------------------------ MODULE Worktree ------------------------------
(***************************************************************************)
(* The repository panel (workspace/src/views/repo) over the worktree of    *)
(* the mirror of its repository (signed_git/src/repo.rs).                  *)
(*                                                                         *)
(* Opening the panel reads the mirror, shows it, fetches, fast-forwards    *)
(* the branches and shows what has moved; the user switches the branch or  *)
(* tag meanwhile.  Both write the files of one directory by force, each in *)
(* a background task of its own, and git runs under neither of them.       *)
(* Every task lands on the panel whatever has landed since.                *)
(***************************************************************************)
EXTENDS Naturals, FiniteSets

CONSTANTS
  Branch, Tag, None,  \* names of refs, and none
  MaxTip,             \* bound: commits of a branch are 0 .. MaxTip
  MaxTasks,           \* bound: tasks in flight when the user acts
  MaxRequests,        \* bound: switches, pushes and restarts
  MaxFailures         \* bound: git commands that fail

WorktreeAssumption ==
  /\ Branch # {} /\ Branch \cap Tag = {} /\ None \notin Branch \cup Tag
  /\ MaxTip \in Nat /\ MaxTasks \in Nat \ {0}
  /\ MaxRequests \in Nat /\ MaxFailures \in Nat

VARIABLES
  server,        \* server[b]: the tip of branch b on the servers
  origin, tip,   \* refs/remotes/origin/b and refs/heads/b of the mirror
  head,          \* HEAD: a branch, or a tag it is detached at
  tree,          \* the commit whose files the worktree holds, or Torn
  mirrored,      \* the mirror exists
  shown,         \* the panel: head_commit, files, history, both selectors
  known,         \* RepoDetailView::worktree is set
  loading, switching, error,
  tasks,         \* background tasks of the panel
  overlapped,    \* ghost: the user has acted while a task was in flight
  broken,        \* ghost: a git command has failed, or the process stopped
                 \*   while files were written
  raced,         \* ghost: two walks of the history were in flight at once
  requests, failures   \* bounded

mirror == <<server, origin, tip, head, tree, mirrored>>
panel == <<shown, known, loading, switching, error>>
ghosts == <<overlapped, broken, raced>>
bounds == <<requests, failures>>
vars == <<mirror, panel, tasks, ghosts, bounds>>

Ref == Branch \cup Tag
Commit == [on : Ref, n : 0 .. MaxTip]
NoCommit == [on |-> None, n |-> 0]
Torn == [on |-> None, n |-> 1]       \* files of two trees

CommitOf(r, tips) == [on |-> r, n |-> IF r \in Branch THEN tips[r] ELSE 0]
HeadCommit == CommitOf(head, tip)
CurrentBranch == IF head \in Branch THEN head ELSE None

\* head_commit, the tree and README, the commit list, and what the selectors
\* of branches and tags say.
Nothing == [head |-> NoCommit, files |-> NoCommit, history |-> NoCommit,
            branch |-> None, tag |-> None]

\* ref: the branch being written or switched to; on: the current branch that
\* fast_forward_branches has read; todo: branches it has not looked at; got: the
\* snapshot, or the commit walked; old: the selection to restore.
Task == [id : Nat, kind : {"load", "refresh", "switch", "reload", "catchUp",
                           "history"},
         at : {"start", "forward", "write", "writing", "move", "read", "land"},
         ref : Ref \cup {None}, n : 0 .. MaxTip, was : 0 .. MaxTip, on : Branch \cup {None},
         todo : SUBSET Branch, moved : BOOLEAN, ok : BOOLEAN,
         commit : Commit \cup {NoCommit}, files : Commit \cup {NoCommit, Torn},
         old : Ref \cup {None}]

Fresh(S) == CHOOSE i \in 1 .. Cardinality(S) + 1 : \A t \in S : t.id # i
New(kind, at, S) ==
  [id |-> Fresh(S), kind |-> kind, at |-> at, ref |-> None, n |-> 0, was |-> 0,
   on |-> None, todo |-> {}, moved |-> FALSE, ok |-> TRUE,
   commit |-> NoCommit, files |-> NoCommit, old |-> None]
With(kind, at, S) == S \cup {New(kind, at, S)}

Start ==
  /\ shown = Nothing /\ known = FALSE
  /\ loading = TRUE /\ switching = FALSE /\ error = FALSE
  /\ tasks = With("load", "start", {})

Init ==
  /\ server = [b \in Branch |-> 0] /\ origin = server /\ tip = server
  /\ head \in Branch
  /\ tree = HeadCommit
  /\ mirrored \in BOOLEAN
  /\ Start
  /\ overlapped = FALSE /\ broken = FALSE /\ raced = FALSE
  /\ requests = 0 /\ failures = 0

-----------------------------------------------------------------------------
(* The mirror *)

\* Somebody pushes to the servers.
Advance(b) ==
  /\ server[b] < MaxTip
  /\ server' = [server EXCEPT ![b] = @ + 1]
  /\ UNCHANGED <<origin, tip, head, tree, mirrored, panel, tasks, ghosts,
                 bounds>>

Becomes(t, u) == tasks' = (tasks \ {t}) \cup {u}
Writers == {t \in tasks : t.at = "writing"}

\* force_checkout removes and writes file by file; two at once leave either.
WriteStarts(t) ==
  /\ t.at = "write"
  /\ tree' = Torn
  /\ Becomes(t, [t EXCEPT !.at = "writing"])
  /\ UNCHANGED <<server, origin, tip, head, mirrored, panel, ghosts, bounds>>

WriteEnds(t) ==
  /\ t.at = "writing"
  /\ tree' \in {[on |-> t.ref, n |-> t.n]} \cup
       (IF Writers # {t} \/ tree # Torn THEN {Torn} ELSE {})
  /\ Becomes(t, [t EXCEPT !.at = IF t.kind = "switch" THEN "land" ELSE "move"])
  /\ UNCHANGED <<server, origin, tip, head, mirrored, panel, ghosts, bounds>>

\* checkout_branch, checkout_tag: the tree is looked up, HEAD is moved, and
\* then the files are written.
MoveHead(t) ==
  /\ t.kind = "switch" /\ t.at = "start"
  /\ head' = t.ref
  /\ Becomes(t, [t EXCEPT !.at = "write", !.n = CommitOf(t.ref, tip).n])
  /\ UNCHANGED <<server, origin, tip, tree, mirrored, panel, ghosts, bounds>>

\* fetch, whose failure is ignored, and the branches to look at.
Fetch(t) ==
  /\ t.kind = "refresh" /\ t.at = "start"
  /\ origin' \in {server, origin}
  /\ Becomes(t, [t EXCEPT !.at = "forward", !.on = CurrentBranch, !.todo = Branch])
  /\ UNCHANGED <<server, tip, head, tree, mirrored, panel, ghosts, bounds>>

\* The worktree is what HEAD says.
Clean == tree = HeadCommit

\* One branch of fast_forward_branches.  The current one is skipped when the
\* worktree is dirty, and otherwise its files come before its ref.
Turn(t) == CHOOSE b \in t.todo : TRUE

Skip(t, b) ==
  /\ t.at = "forward"
  /\ tip[b] >= origin[b] \/ (b = t.on /\ ~Clean)
  /\ Becomes(t, [t EXCEPT !.todo = @ \ {b}])
  /\ UNCHANGED <<mirror, panel, ghosts, bounds>>

ForwardCurrent(t, b) ==
  /\ t.at = "forward" /\ tip[b] < origin[b]
  /\ b = t.on /\ Clean
  /\ Becomes(t, [t EXCEPT !.at = "write", !.todo = @ \ {b}, !.ref = b,
                          !.n = origin[b], !.was = tip[b]])
  /\ UNCHANGED <<mirror, panel, ghosts, bounds>>

ForwardOther(t, b) ==
  /\ t.at = "forward" /\ tip[b] < origin[b]
  /\ b # t.on
  /\ tip' = [tip EXCEPT ![b] = origin[b]]
  /\ Becomes(t, [t EXCEPT !.todo = @ \ {b}, !.moved = TRUE])
  /\ UNCHANGED <<server, origin, head, tree, mirrored, panel, ghosts, bounds>>

\* Mutant: the ref is moved whatever it is by now.
StillThere(t) == TRUE

\* The ref is moved only from where it was read.
AsRead(t) == tip[t.ref] = t.was

\* Otherwise the whole fast-forward ends with an error and reports no move.
MoveBranch(t) ==
  /\ t.at = "move"
  /\ IF AsRead(t)
       THEN /\ tip' = [tip EXCEPT ![t.ref] = t.n]
            /\ Becomes(t, [t EXCEPT !.at = "forward", !.moved = TRUE])
       ELSE /\ UNCHANGED tip
            /\ Becomes(t, [t EXCEPT !.at = "read", !.moved = FALSE])
  /\ UNCHANGED <<server, origin, head, tree, mirrored, panel, ghosts, bounds>>

Forwarded(t) ==
  /\ t.at = "forward" /\ t.todo = {}
  /\ Becomes(t, [t EXCEPT !.at = "read"])
  /\ UNCHANGED <<mirror, panel, ghosts, bounds>>

\* snapshot
Read(t) ==
  /\ t.at = "read"
  /\ Becomes(t, [t EXCEPT !.at = "land", !.commit = HeadCommit, !.files = tree,
                          !.on = CurrentBranch])
  /\ UNCHANGED <<mirror, panel, ghosts, bounds>>

\* Mirrors::open, or Mirrors::ensure, which clones; only the mirror that was
\* there before is refreshed from the network.
Open(t) ==
  /\ t.kind = "load" /\ t.at = "start"
  /\ IF mirrored THEN UNCHANGED <<origin, tip, tree, mirrored>>
     ELSE /\ mirrored' = TRUE
          /\ origin' = server /\ tip' = server
          /\ tree' = CommitOf(head, server)
  /\ Becomes(t, [t EXCEPT !.at = "read", !.moved = ~mirrored])
  /\ UNCHANGED <<server, head, panel, ghosts, bounds>>

\* A git command fails; what it had done by then stays.
Fail(t) ==
  /\ t.at \in {"start", "write", "writing", "read"} /\ t.kind # "refresh"
  /\ failures < MaxFailures /\ failures' = failures + 1
  /\ Becomes(t, [t EXCEPT !.at = "land", !.ok = FALSE])
  /\ broken' = TRUE
  /\ UNCHANGED <<mirror, panel, overlapped, raced, requests>>

-----------------------------------------------------------------------------
(* The panel *)

Landing(t, kind) == t \in tasks /\ t.at = "land" /\ t.kind = kind
Rest(t) == tasks \ {t}

\* RepoHistoryView::reload drops the list and walks again.
Reload(p, S) ==
  /\ shown' = [p EXCEPT !.history = NoCommit]
  /\ tasks' = With("history", "start", S)
  /\ raced' = (raced \/ \E t \in S : t.kind = "history")

Show(p, S) == shown' = p /\ tasks' = S /\ UNCHANGED raced

Walk(t) ==
  /\ t.kind = "history" /\ t.at = "start"
  /\ Becomes(t, [t EXCEPT !.at = "land", !.commit = HeadCommit])
  /\ UNCHANGED <<mirror, panel, ghosts, bounds>>

HistoryLands(t) ==
  /\ Landing(t, "history")
  /\ shown' = IF t.ok THEN [shown EXCEPT !.history = t.commit] ELSE shown
  /\ tasks' = Rest(t)
  /\ UNCHANGED <<mirror, known, loading, switching, error, ghosts, bounds>>

\* set_branches selects the current branch; without one it leaves the selector.
Selecting(p, b) == IF b = None THEN p ELSE [p EXCEPT !.branch = b]

\* load_repo: apply_repo_data, or the error; then the refresh, unless the
\* mirror has just been cloned or is being pushed.
LoadLands(t, pushing) ==
  /\ Landing(t, "load")
  /\ loading' = FALSE
  /\ IF t.ok
       THEN /\ known' = TRUE /\ UNCHANGED error
            /\ Reload(Selecting([shown EXCEPT !.head = t.commit, !.files = t.files], t.on),
                      IF t.moved \/ pushing THEN Rest(t)
                      ELSE With("refresh", "start", Rest(t)))
       ELSE error' = TRUE /\ UNCHANGED known /\ Show(shown, Rest(t))
  /\ UNCHANGED <<mirror, switching, overlapped, broken, bounds>>

\* The landing of the refresh and catch_up_worktree.
RefreshLands(t) ==
  /\ Landing(t, "refresh")
  /\ LET p == Selecting([shown EXCEPT !.head = t.commit], t.on)
         S == IF t.moved THEN With("catchUp", "read", Rest(t)) ELSE Rest(t)
     IN  IF t.commit # shown.head THEN Reload(p, S) ELSE Show(p, S)
  /\ UNCHANGED <<mirror, known, loading, switching, error, overlapped, broken, bounds>>

\* Mutant: what the refresh has brought is compared with the head it has set.
CatchUpByHead(t) ==
  /\ Landing(t, "catchUp")
  /\ IF t.commit = shown.head THEN Show(shown, Rest(t))
     ELSE Reload([shown EXCEPT !.head = t.commit, !.files = t.files], Rest(t))
  /\ UNCHANGED <<mirror, known, loading, switching, error, overlapped, broken, bounds>>

CatchUpLands(t) ==
  /\ Landing(t, "catchUp")
  /\ IF ~t.ok THEN error' = TRUE /\ Show(shown, Rest(t))
     ELSE /\ UNCHANGED error
          /\ LET p == [shown EXCEPT !.head = t.commit, !.files = t.files]
             IN  IF t.commit # shown.head THEN Reload(p, Rest(t))
                                          ELSE Show(p, Rest(t))
  /\ UNCHANGED <<mirror, known, loading, switching, overlapped, broken, bounds>>

\* switch_ref; the selector of the other kind is cleared.
Switch(r) ==
  /\ known /\ ~switching /\ Cardinality(tasks) < MaxTasks
  /\ requests < MaxRequests /\ requests' = requests + 1
  /\ r \notin {shown.branch, shown.tag}
  /\ switching' = TRUE
  /\ LET s == [New("switch", "start", tasks) EXCEPT
                 !.ref = r,
                 !.old = IF shown.tag # None THEN shown.tag ELSE shown.branch]
     IN  tasks' = tasks \cup {s}
  /\ shown' = [shown EXCEPT !.branch = IF r \in Branch THEN r ELSE None,
                            !.tag = IF r \in Tag THEN r ELSE None]
  /\ overlapped' = (overlapped \/ tasks # {})
  /\ UNCHANGED <<mirror, known, loading, error, broken, raced, failures>>

SwitchLands(t) ==
  /\ Landing(t, "switch")
  /\ IF t.ok THEN /\ tasks' = With("reload", "read", Rest(t))
                  /\ UNCHANGED <<shown, switching, error>>
     ELSE /\ error' = TRUE /\ switching' = FALSE
          /\ shown' = [shown EXCEPT
                         !.branch = IF t.old \in Branch THEN t.old ELSE None,
                         !.tag = IF t.old \in Tag THEN t.old ELSE None]
          /\ tasks' = Rest(t)
  /\ UNCHANGED <<mirror, known, loading, ghosts, bounds>>

\* reload_worktree
ReloadLands(t) ==
  /\ Landing(t, "reload")
  /\ switching' = FALSE
  /\ IF t.ok
       THEN /\ Reload([shown EXCEPT !.head = t.commit, !.files = t.files], Rest(t))
            /\ UNCHANGED error
       ELSE /\ Show([shown EXCEPT !.head = NoCommit, !.files = NoCommit], Rest(t))
            /\ error' = TRUE
  /\ UNCHANGED <<mirror, known, loading, overlapped, broken, bounds>>

\* A checkout was pushed from the panel: the repository is loaded again.
PushedFromPanel ==
  /\ known /\ Cardinality(tasks) < MaxTasks
  /\ \A t \in tasks : t.kind # "load"
  /\ loading' = TRUE /\ error' = FALSE
  /\ tasks' = With("load", "start", tasks)
  /\ overlapped' = (overlapped \/ tasks # {})
  /\ requests < MaxRequests /\ requests' = requests + 1
  /\ UNCHANGED <<mirror, shown, known, switching, broken, raced, failures>>

\* The process stops and the panel is opened again.
Stop ==
  /\ requests < MaxRequests /\ requests' = requests + 1
  /\ shown' = Nothing /\ known' = FALSE
  /\ loading' = TRUE /\ switching' = FALSE /\ error' = FALSE
  /\ tasks' = With("load", "start", {})
  /\ broken' = (broken \/ ~Clean)
  /\ raced' = FALSE
  /\ UNCHANGED <<mirror, overlapped, failures>>

Land(t) ==
  \/ HistoryLands(t) \/ \E pushing \in BOOLEAN : LoadLands(t, pushing)
  \/ RefreshLands(t) \/ CatchUpLands(t) \/ SwitchLands(t) \/ ReloadLands(t)

Git(t) ==
  \/ Open(t) \/ Read(t) \/ Walk(t) \/ MoveHead(t) \/ Fetch(t)
  \/ WriteStarts(t) \/ WriteEnds(t) \/ MoveBranch(t) \/ Forwarded(t)
  \/ t.todo # {} /\ LET b == Turn(t) IN Skip(t, b) \/ ForwardCurrent(t, b) \/ ForwardOther(t, b)

Next ==
  \/ \E b \in Branch : Advance(b)
  \/ \E r \in Ref : Switch(r)
  \/ PushedFromPanel \/ Stop
  \/ \E t \in tasks : Git(t) \/ Land(t) \/ Fail(t)

Spec == Init /\ [][Next]_vars

-----------------------------------------------------------------------------
(* Properties *)

TypeOK ==
  /\ {server, origin, tip} \subseteq [Branch -> 0 .. MaxTip]
  /\ head \in Ref /\ tree \in Commit \cup {Torn}
  /\ mirrored \in BOOLEAN
  /\ {known, loading, switching, error, overlapped, broken, raced} \subseteq BOOLEAN
  /\ tasks \subseteq Task

AtRest == tasks = {}

\* When nothing is in flight, the files on disk are those of HEAD, the panel
\* shows them, their commit and the name of HEAD, and it waits for nothing.
\* Excused are requests that have overlapped, and failures.
ShowsTheWorktree ==
  (AtRest /\ ~overlapped /\ ~broken) =>
    /\ Clean
    /\ shown.head = HeadCommit /\ shown.files = tree
    /\ shown.branch = CurrentBranch /\ shown.tag \in {None, head}
    /\ ~raced => shown.history = HeadCommit
    /\ known /\ ~loading /\ ~switching

\* A commit that a branch of the mirror had is never taken back.
TipsAdvance == [][\A b \in Branch : tip'[b] >= tip[b]]_vars

\* repo.rs:960: a branch is checked out "replacing worktree contents".
CheckoutReplaces ==
  (AtRest /\ ~broken) => Clean

\* history.rs:57: reload is to "Drop the current list and walk HEAD again."
HistoryIsHeads ==
  (AtRest /\ ~overlapped /\ ~broken) => shown.history = HeadCommit
=============================================================================
