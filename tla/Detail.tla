------------------------------ MODULE Detail ------------------------------
(***************************************************************************)
(* The panel of one pull request and the commits opened from it            *)
(* (workspace/src/views/pull_requests/detail.rs, views/commit_diff).       *)
(*                                                                         *)
(* The panel binds itself to what the store knows of the pull request and  *)
(* loads its changes on a task: from the patch series if there is one,     *)
(* from the mirror otherwise.  Every change of the store binds it anew;    *)
(* the load of an earlier binding may land after that.                     *)
(***************************************************************************)
EXTENDS Naturals

CONSTANTS
  Binding,      \* what the root event, its updates and patches amount to
  Series,       \* the bindings whose changes are in patch events
  NoBinding,
  MaxChanges,   \* bound: changes of the store
  MaxOpens      \* bound: commits opened

DetailAssumption ==
  Series \subseteq Binding /\ NoBinding \notin Binding /\ MaxChanges \in Nat

VARIABLES
  root,        \* the pull request in the store, as a binding
  loaded,      \* RepoStore::loaded
  bound, loading, error, generation,
  pane,        \* DiffPane::diff, as the binding it belongs to
  commits,     \* the commits listed, as the binding they belong to
  worktree,    \* the panel knows the worktree of the mirror
  loads,       \* loads in flight
  opened,      \* the panels of single commits
  changes

view == <<bound, loading, error, generation, pane, commits, worktree>>
vars == <<root, loaded, view, loads, opened, changes>>

Bindings == Binding \cup {NoBinding}
Load == [g : 1 .. MaxChanges + 1, of : Binding,
         at : {"parse", "fetch", "land"}, from : {"series", "mirror"},
         fails : BOOLEAN]
Commit == [n : 1 .. MaxOpens, of : Binding, loading : BOOLEAN, shows : BOOLEAN]

\* The first sync is deferred to the end of the update that opens the panel.
Init ==
  /\ loaded \in BOOLEAN
  /\ root \in IF loaded THEN Bindings ELSE {NoBinding}
  /\ bound = NoBinding /\ generation = 0 /\ loads = {}
  /\ loading = TRUE /\ error = "none"
  /\ pane = NoBinding /\ commits = NoBinding /\ worktree = FALSE
  /\ opened = {} /\ changes = 0

\* sync_missing leaves the generation and the load in flight alone.
SyncMissing(isLoaded) ==
  /\ bound' = NoBinding
  /\ loading' = IF isLoaded /\ error # "missing" THEN FALSE
                ELSE (loading \/ ~isLoaded)
  /\ error' = IF isLoaded THEN "missing" ELSE "none"
  /\ UNCHANGED <<generation, loads>>

LoadDiff(b) ==
  /\ bound' = b
  /\ loading' = TRUE /\ error' = "none"
  /\ generation' = generation + 1
  /\ loads' = loads \cup {[g |-> generation', of |-> b, at |-> "parse",
                           from |-> "series", fails |-> FALSE]}

Sync(b, isLoaded) ==
  /\ CASE b = NoBinding -> SyncMissing(isLoaded)
       [] b # NoBinding /\ b = bound -> UNCHANGED <<bound, loading, error, generation, loads>>
       [] OTHER -> LoadDiff(b)
  /\ UNCHANGED <<pane, commits, worktree>>

FirstSync ==
  /\ generation = 0 /\ bound = NoBinding /\ error = "none"
  /\ Sync(root, loaded)
  /\ UNCHANGED <<root, loaded, opened, changes>>

\* A pass of the store lands: the observer syncs in the same update.
StoreChanges(b) ==
  /\ changes < MaxChanges /\ changes' = changes + 1
  /\ root' = b /\ loaded' = TRUE
  /\ Sync(b, TRUE)
  /\ UNCHANGED opened

Becomes(l, m) == loads' = (loads \ {l}) \cup {m}

\* A series that does not parse is an error of its own; an empty diff without
\* a link to patches sends the load to the mirror.
Parse(l) ==
  /\ l.at = "parse"
  /\ \/ \E fails \in BOOLEAN :
          l.of \in Series /\ Becomes(l, [l EXCEPT !.at = "land", !.fails = fails])
     \/ l.of \notin Series /\ Becomes(l, [l EXCEPT !.at = "fetch", !.from = "mirror"])
  /\ UNCHANGED <<root, loaded, view, opened, changes>>

\* The mirror is opened or cloned; the tip may not be there.
Fetch(l) ==
  /\ l.at = "fetch"
  /\ \E fails \in BOOLEAN : Becomes(l, [l EXCEPT !.at = "land", !.fails = fails])
  /\ UNCHANGED <<root, loaded, view, opened, changes>>

\* Mutant: whatever lands is shown.
Always(l) == TRUE

\* A newer binding superseded this load.
Newest(l) == l.g = generation

Lands(l) ==
  /\ l.at = "land"
  /\ loads' = loads \ {l}
  /\ IF Newest(l)
       THEN /\ loading' = FALSE
            /\ worktree' = (l.from = "mirror" /\ ~l.fails)
            /\ commits' = IF l.from = "mirror" /\ l.fails THEN NoBinding ELSE l.of
            /\ IF l.fails THEN error' = "load" /\ UNCHANGED pane
                          ELSE pane' = l.of /\ UNCHANGED error
            /\ UNCHANGED <<bound, generation>>
       ELSE UNCHANGED view
  /\ UNCHANGED <<root, loaded, opened, changes>>

-----------------------------------------------------------------------------
(* A single commit of the mirror *)

\* open_commit_diff: the row opens in the worktree the load has left.
OpenCommit ==
  /\ ~loading /\ error = "none" /\ commits # NoBinding /\ worktree
  /\ \E n \in 1 .. MaxOpens :
       /\ \A c \in opened : c.n < n
       /\ opened' = opened \cup
            {[n |-> n, of |-> commits, loading |-> TRUE, shows |-> FALSE]}
  /\ UNCHANGED <<root, loaded, view, loads, changes>>

\* Its load reads the worktree twice and ends either way.
CommitLands(c) ==
  /\ c.loading
  /\ \E shows \in BOOLEAN :
       opened' = (opened \ {c}) \cup {[c EXCEPT !.loading = FALSE, !.shows = shows]}
  /\ UNCHANGED <<root, loaded, view, loads, changes>>

Next ==
  \/ FirstSync \/ OpenCommit
  \/ \E b \in Bindings : StoreChanges(b)
  \/ \E l \in loads : Parse(l) \/ Fetch(l) \/ Lands(l)
  \/ \E c \in opened : CommitLands(c)

Spec == Init /\ [][Next]_vars

-----------------------------------------------------------------------------
(* Properties *)

TypeOK ==
  /\ root \in Bindings /\ bound \in Bindings /\ pane \in Bindings /\ commits \in Bindings
  /\ loaded \in BOOLEAN /\ loading \in BOOLEAN /\ worktree \in BOOLEAN
  /\ error \in {"none", "missing", "load"}
  /\ generation \in 0 .. MaxChanges + 1
  /\ loads \subseteq Load /\ opened \subseteq Commit

\* A panel that neither loads nor reports an error shows the diff and the
\* commits of the pull request as the store has it, and its commits open in the
\* worktree only if they came from there, whatever loads of earlier versions
\* are still on their way (the generation of load_diff).
PanelShowsBound ==
  (~loading /\ error = "none") =>
    /\ root # NoBinding /\ bound = root
    /\ pane = root /\ commits = root
    /\ worktree <=> root \notin Series
=============================================================================
