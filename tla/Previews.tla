------------------------------ MODULE Previews ------------------------------
(***************************************************************************)
(* The Files tab of a repository panel (workspace/src/views/repo/files.rs):*)
(* a cache of previews and of the last commits of files, filled by         *)
(* background reads, emptied by a switch of the branch and trimmed when    *)
(* the mirror has caught up.  Nothing ties a read to the branch it was     *)
(* started on, and one pane shows whatever has landed last.                *)
(***************************************************************************)
EXTENDS Naturals, FiniteSets, SequencesExt

CONSTANTS
  File, None,    \* paths of the tree, and none
  Readme,        \* the path of the README, which is in every tree
  MaxFiles,      \* MAX_PREVIEWED_FILES
  MaxTexts,      \* MAX_PREVIEW_CACHE_BYTES, in texts of one size
  MaxVersions,   \* bound: contents the worktree has one after the other
  MaxOpens       \* bound: files opened

PreviewsAssumption ==
  /\ None \notin File /\ Readme \in File
  /\ MaxFiles \in Nat \ {0} /\ MaxTexts \in Nat \ {0}
  /\ MaxVersions \in Nat \ {0} /\ MaxOpens \in Nat

VARIABLES
  disk,            \* what the worktree holds: a version, and the files in it
  files,           \* files[f]: the preview of f
  order, bytes,    \* file_order, preview_bytes
  loading,         \* loading_files
  selected, pane,  \* selected_file, and the document in the pane
  commits,         \* commits[f]: the version whose last commit is shown, or 0
  pending, walking,  \* pending_commits, loading_commits
  reads, walks,    \* background tasks
  hung,            \* the loop of evict_previews does not end
  cleared,         \* ghost: the version of the last clear_previews
  crossed,         \* ghost: previews were cleared while a task was in flight
  twice,           \* ghost: a file was read into the cache that it, or
                   \*   its path in order, was in already
  overtaken,       \* ghost: a file was selected while a read was in flight
  opens            \* bounded

cache == <<files, order, bytes, loading, selected, pane>>
labels == <<commits, pending, walking, walks>>
ghosts == <<cleared, crossed, twice, overtaken>>
vars == <<disk, cache, labels, reads, hung, ghosts, opens>>

Overview == "overview"   \* the README, shown while no file is selected
Absent == [kind |-> "none", of |-> 0]

\* Binary files and files that are too large are alike.
Preview == [kind : {"text", "other", "failed"}, of : 1 .. MaxVersions] \cup {Absent}
Cached == {f \in File : files[f] # Absent}

Init ==
  /\ disk = [version |-> 1, present |-> File]
  /\ files = [f \in File |-> Absent] /\ order = <<>> /\ bytes = 0
  /\ loading = {} /\ selected = None /\ pane = Overview
  /\ commits = [f \in File |-> 0] /\ pending = {} /\ walking = FALSE
  /\ reads = {} /\ walks = {}
  /\ hung = FALSE
  /\ cleared = 1 /\ crossed = FALSE /\ twice = FALSE /\ overtaken = FALSE
  /\ opens = 0

-----------------------------------------------------------------------------
(* The last commits of files, in batches *)

Walk(paths) == [paths |-> paths, seen |-> 0]

\* load_commit for a path that is not known or wanted yet.
LoadCommit(f, known, wanted, running) ==
  LET new == IF known[f] = 0 THEN {f} ELSE {}
      all == wanted \cup new
  IN  IF new \subseteq wanted \/ running
        THEN pending' = all /\ walking' = running /\ UNCHANGED walks
        ELSE pending' = {} /\ walking' = TRUE /\ walks' = walks \cup {Walk(all)}

WalkReads(w) ==
  /\ w.seen = 0
  /\ walks' = (walks \ {w}) \cup {[w EXCEPT !.seen = disk.version]}
  /\ UNCHANGED <<disk, cache, commits, pending, walking, reads, hung, ghosts, opens>>

\* Mutant: the paths that came in meanwhile wait for the next request.
NextBatch == FALSE

\* What came in during a batch makes the next one.
Waiting == pending # {}

WalkLands(w, found) ==
  /\ w.seen # 0
  /\ commits' = IF found THEN [f \in File |-> IF f \in w.paths THEN w.seen ELSE commits[f]]
                         ELSE commits
  /\ IF Waiting
       THEN /\ walks' = (walks \ {w}) \cup {Walk(pending)}
            /\ pending' = {} /\ walking' = TRUE
       ELSE walks' = walks \ {w} /\ walking' = FALSE /\ UNCHANGED pending
  /\ UNCHANGED <<disk, cache, reads, hung, ghosts, opens>>

-----------------------------------------------------------------------------
(* Previews *)

\* open_file
Open(f) ==
  /\ ~hung /\ opens < MaxOpens /\ opens' = opens + 1
  /\ f \in disk.present
  /\ selected' = f
  /\ overtaken' = (overtaken \/ reads # {})
  /\ IF files[f] # Absent
       THEN /\ pane' = IF files[f].kind = "text" THEN f ELSE pane
            /\ UNCHANGED <<loading, reads, pending, walking, walks>>
     ELSE IF f \in loading
       THEN UNCHANGED <<pane, loading, reads, pending, walking, walks>>
     ELSE /\ loading' = loading \cup {f}
          /\ reads' = reads \cup {[of |-> f, n |-> opens, got |-> Absent]}
          /\ LoadCommit(f, commits, pending, walking)
          /\ UNCHANGED pane
  /\ UNCHANGED <<disk, files, order, bytes, commits, hung, cleared, crossed, twice>>

\* The background task reads the file, or finds that it cannot.
Read(r, kind) ==
  /\ r.got = Absent
  /\ r.of \notin disk.present => kind = "failed"
  /\ reads' = (reads \ {r}) \cup {[r EXCEPT !.got = [kind |-> kind, of |-> disk.version]]}
  /\ UNCHANGED <<disk, cache, labels, hung, ghosts, opens>>

Texts(c) == Cardinality({f \in File : c.files[f].kind = "text"})
TooMuch(c) ==
  Cardinality({f \in File : c.files[f] # Absent}) > MaxFiles \/ c.bytes > MaxTexts

\* Mutant: the last path of the order is not kept.
MoreThanNone(s) == s # <<>>

MoreThanOne(s) == Len(s) > 1

\* One round of evict_previews: the oldest path goes, or to the end of the
\* order when it is the selected one.  Failed previews are in no order.
Evicted(c) ==
  LET f == Head(c.order)
  IN  IF f = selected THEN [c EXCEPT !.order = Append(Tail(@), f)]
      ELSE [files |-> [c.files EXCEPT ![f] = Absent],
            order |-> Tail(c.order),
            bytes |-> IF c.files[f].kind = "text" THEN c.bytes - 1 ELSE c.bytes,
            pane |-> IF c.pane = f THEN None ELSE c.pane,
            dropped |-> c.dropped \cup {f}]

Round(c) == IF TooMuch(c) /\ MoreThanOne(c.order) THEN Evicted(c) ELSE c

\* The rounds of the loop: as many as can change anything.
Rounds(c) ==
  LET last == 2 * Len(c.order) + 1
      after[i \in 0 .. last] == IF i = 0 THEN c ELSE Round(after[i - 1])
  IN  after[last]

Store(f, p) ==
  [files |-> [files EXCEPT ![f] = p], order |-> Append(order, f),
   bytes |-> IF p.kind = "text" THEN bytes + 1 ELSE bytes,
   pane |-> IF p.kind = "text" THEN f ELSE pane, dropped |-> {}]

\* A read lands, whatever is selected or shown by now.
ReadLands(r) ==
  /\ ~hung /\ r.got # Absent
  /\ reads' = reads \ {r}
  /\ loading' = loading \ {r.of}
  /\ twice' = (twice \/ Contains(order, r.of) \/ files[r.of] # Absent)
  /\ IF r.got.kind = "failed"
       THEN /\ files' = [files EXCEPT ![r.of] = r.got]
            /\ UNCHANGED <<order, bytes, pane, commits, hung>>
       ELSE LET c == Rounds(Store(r.of, r.got))
            IN  /\ files' = c.files /\ order' = c.order /\ bytes' = c.bytes
                /\ pane' = c.pane
                /\ hung' = (TooMuch(c) /\ MoreThanOne(c.order))
                /\ commits' = [f \in File |-> IF f \in c.dropped THEN 0 ELSE commits[f]]
  /\ UNCHANGED <<disk, selected, pending, walking, walks, cleared, crossed, overtaken, opens>>

-----------------------------------------------------------------------------
(* The worktree *)

NewContent(present) ==
  /\ disk.version < MaxVersions
  /\ disk' = [version |-> disk.version + 1, present |-> present]

\* Mutant: the commits of the files stay.
Remembered == commits

Forgotten == [f \in File |-> 0]

\* The worktree has changed and reload_worktree lands: clear_previews,
\* apply_entries and set_readme.
Switched(present) ==
  /\ ~hung /\ NewContent(present)
  /\ files' = [f \in File |-> Absent] /\ order' = <<>> /\ bytes' = 0
  /\ loading' = {} /\ selected' = None /\ pane' = Overview
  /\ commits' = Forgotten
  /\ LoadCommit(Readme, commits', {}, FALSE)
  /\ cleared' = disk.version + 1
  /\ crossed' = (crossed \/ reads # {} \/ walks # {})
  /\ UNCHANGED <<reads, hung, twice, overtaken, opens>>

\* catch_up: what is gone is dropped from the cache, what stays is kept as it
\* is, and the order keeps both.
CaughtUp(present) ==
  /\ ~hung /\ NewContent(present)
  /\ LET gone == File \ present
         lost == selected \in gone
     IN  /\ files' = [f \in File |-> IF f \in gone THEN Absent ELSE files[f]]
         /\ bytes' = bytes - Cardinality({f \in gone : files[f].kind = "text"})
         /\ commits' = [f \in File |-> IF f \in gone THEN 0 ELSE commits[f]]
         /\ selected' = IF lost THEN None ELSE selected
         /\ pane' = IF lost \/ selected = None THEN Overview
                    ELSE IF pane \in gone THEN None ELSE pane
  /\ IF selected' = None THEN LoadCommit(Readme, commits', pending, walking)
                         ELSE UNCHANGED <<pending, walking, walks>>
  /\ UNCHANGED <<order, loading, reads, hung, ghosts, opens>>

Next ==
  \/ \E f \in File : Open(f)
  \/ \E r \in reads : ReadLands(r) \/ \E kind \in {"text", "other", "failed"} : Read(r, kind)
  \/ \E w \in walks : WalkReads(w) \/ \E found \in BOOLEAN : WalkLands(w, found)
  \/ \E present \in {File} \cup {File \ {f} : f \in File \ {Readme}} :
       Switched(present) \/ CaughtUp(present)

Spec == Init /\ [][Next]_vars

-----------------------------------------------------------------------------
(* Properties *)

TypeOK ==
  /\ disk.version \in 1 .. MaxVersions /\ disk.present \subseteq File
  /\ files \in [File -> Preview] /\ bytes \in Nat
  /\ order \in Seq(File) /\ loading \subseteq File
  /\ selected \in File \cup {None} /\ pane \in File \cup {None, Overview}
  /\ commits \in [File -> 0 .. MaxVersions] /\ pending \subseteq File

AtRest == reads = {} /\ walks = {}

\* Trimming the cache ends, and leaves it within its limits as far as there is
\* something to evict.  Excused is a file that was stored twice: when its path
\* is all there is in the order, and it is selected, the loop moves it from the
\* front to the back for ever.
EvictionEnds ==
  ~twice => /\ ~hung
            /\ bytes = Cardinality({f \in File : files[f].kind = "text"})
            /\ Len(order) <= 1 \/ bytes <= MaxTexts

\* A preview is of the branch that is checked out, and the pane shows the file
\* that is selected when it is a text.  Excused are reads that were in flight
\* during a switch, or when another
\* file was selected.
PreviewIsCurrent ==
  (AtRest /\ ~crossed /\ ~hung) =>
    /\ \A f \in Cached : files[f].of >= cleared
    /\ \A f \in File : commits[f] # 0 => commits[f] >= cleared
    /\ (selected # None /\ ~overtaken) =>
         (files[selected] # Absent /\ (files[selected].kind = "text" => pane = selected))

\* A path whose commit is wanted is in a batch, or waits for one that runs.
BatchesGoOn == pending # {} => walks # {}
=============================================================================
