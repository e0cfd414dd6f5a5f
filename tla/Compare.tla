------------------------------ MODULE Compare ------------------------------
(***************************************************************************)
(* The form that proposes a pull request (workspace/src/views/             *)
(* pull_requests/new.rs): where the commits come from, which branches are  *)
(* compared, and what is handed to the store when it is submitted.         *)
(*                                                                         *)
(* The branches of a folder, the import of a fork and the comparison are   *)
(* background tasks that land on the form whatever has been chosen since;  *)
(* a fork is checked against the fork that was applied when its import     *)
(* began, a comparison against a generation, a folder against nothing.     *)
(***************************************************************************)
EXTENDS Naturals, FiniteSets

CONSTANTS
  Folder, Fork, None,  \* checkouts on disk, announced forks, and neither
  Branch,              \* short names; every source may have any of them
  MaxTasks,            \* bound: tasks in flight
  MaxChoices           \* bound: choices of the user

ASSUME CompareAssumption ==
  /\ Folder \cap Fork = {} /\ None \notin Folder \cup Fork
  /\ Branch # {}
  /\ MaxTasks \in Nat \ {0} /\ MaxChoices \in Nat

VARIABLES
  repoPath, fork,   \* the source: a folder, or a fork in the target's mirror
  base, compare,    \* the branches selected
  result,           \* merge_base and commits: the selection they belong to
  error,            \* an error is shown
  loading, submitting,
  generation,       \* compare_generation
  tasks,            \* tasks in flight
  open,             \* the panel
  sent,             \* history: pull requests handed to the store
  chosen,           \* ghost: the source asked for last
  excused,          \* ghost: the button was enabled during a comparison
  choices           \* bounded

source == <<repoPath, fork, base, compare>>
flags == <<loading, submitting, open>>
vars == <<source, result, error, flags, generation, tasks, sent, chosen,
          excused, choices>>

Source == Folder \cup Fork
Nowhere == [from |-> None, base |-> None, compare |-> None]
Selection == [from : Source, base : Branch, compare : Branch] \cup {Nowhere}

\* work_path: a fork takes precedence.
WorkPath(f, r) == IF f # None THEN f ELSE r
Selected == [from |-> WorkPath(fork, repoPath), base |-> base,
             compare |-> compare]

\* of: what the task was started for; seen: the fork applied then, the
\* generation, or the merge base taken along; no: which choice it belongs to.
Task(kind, of, seen) == [kind |-> kind, of |-> of, seen |-> seen, no |-> choices]
Of(kind) == {t \in tasks : t.kind = kind}

Init ==
  /\ repoPath = None /\ fork = None
  /\ base = None /\ compare = None
  /\ result = Nowhere /\ error = FALSE
  /\ loading = FALSE /\ submitting = FALSE /\ open = TRUE
  /\ generation = 0 /\ choices = 0
  \* the deferred prefill, when the repository has a checkout
  /\ tasks \in {{}} \cup {{Task("folder", d, 0)} : d \in Folder}
  /\ sent = {}
  /\ chosen = IF tasks = {} THEN None ELSE (CHOOSE t \in tasks : TRUE).of
  /\ excused = FALSE

Choice ==
  /\ open
  /\ choices < MaxChoices /\ choices' = choices + 1
  /\ Cardinality(tasks) < MaxTasks

-----------------------------------------------------------------------------
(* Choices of the user *)

\* apply_folder_path, once a folder is picked.
ChooseFolder(d) ==
  /\ Choice
  /\ tasks' = tasks \cup {Task("folder", d, 0)}
  /\ chosen' = d
  /\ UNCHANGED <<source, result, error, flags, generation, sent, excused>>

\* choose_fork
ChooseFork(f) ==
  /\ Choice
  /\ tasks' = tasks \cup {Task("fork", f, fork)}
  /\ loading' = TRUE /\ error' = FALSE
  /\ chosen' = f
  /\ UNCHANGED <<source, result, submitting, open, generation, sent, excused>>

\* base_ref and compare_ref name the same ref.  Those of a fork never do: one is
\* of the mirror's origin and one of what was imported from the fork.
SameRef(s) == s.from \notin Fork /\ s.base = s.compare

\* reload_compare for the selection s; one ref on both sides is an error at once
\* and supersedes the comparison in flight.
Reload(s, others) ==
  /\ generation' = generation + 1
  /\ IF SameRef(s)
       THEN /\ loading' = FALSE /\ error' = TRUE
            /\ result' = Nowhere
            /\ tasks' = others
       ELSE /\ loading' = TRUE /\ error' = FALSE
            /\ UNCHANGED result
            /\ tasks' = others \cup {Task("compare", s, generation')}

\* A branch is picked in one of the two lists.
ChooseBranches(b, c) ==
  /\ Choice
  /\ base # None /\ (b = base) # (c = compare)
  /\ base' = b /\ compare' = c
  /\ IF WorkPath(fork, repoPath) = None
       THEN UNCHANGED <<result, error, loading, generation, tasks>>
       ELSE Reload([from |-> WorkPath(fork, repoPath), base |-> b, compare |-> c],
                   tasks)
  /\ UNCHANGED <<repoPath, fork, submitting, open, sent, chosen, excused>>

\* Mutant: the button stays enabled while a comparison is loading.
ReadyEarly == ~submitting /\ result # Nowhere

Ready == ~submitting /\ ~loading /\ result # Nowhere

\* submit: regenerates the patch of the selection from the merge base shown.
Submit ==
  /\ open /\ Ready /\ WorkPath(fork, repoPath) # None
  /\ Cardinality(tasks) < MaxTasks
  /\ submitting' = TRUE /\ error' = FALSE
  /\ tasks' = tasks \cup {Task("submit", Selected, result)}
  /\ UNCHANGED <<source, result, loading, open, generation, sent, chosen,
                 excused, choices>>

\* The panel is closed: its tasks are dropped, its fields with it.
Close ==
  /\ open /\ open' = FALSE
  /\ tasks' = {}
  /\ UNCHANGED <<source, result, error, loading, submitting, generation, sent,
                 chosen, excused, choices>>

-----------------------------------------------------------------------------
(* Tasks that land *)

Landing(t) == t \in tasks

\* apply_checkout with the branches of the folder.
FolderLands(t) ==
  /\ Landing(t) /\ t.kind = "folder"
  /\ \E b, c \in Branch :
       /\ fork' = None /\ repoPath' = t.of
       /\ base' = b /\ compare' = c
       /\ Reload([from |-> t.of, base |-> b, compare |-> c], tasks \ {t})
  /\ UNCHANGED <<submitting, open, sent, chosen, excused, choices>>

\* apply_checkout with no branches, or no repository: the source is gone, the
\* comparison stays on the screen.
FolderEmpty(t) ==
  /\ Landing(t) /\ t.kind = "folder"
  /\ fork' = None /\ repoPath' = None
  /\ error' = TRUE
  /\ tasks' = tasks \ {t}
  /\ UNCHANGED <<base, compare, result, flags, generation, sent, chosen,
                 excused, choices>>

\* The fork that was applied when the import began is still the one applied.
AsExpected(t) == t.seen = fork

\* apply_fork
ForkLands(t) ==
  /\ Landing(t) /\ t.kind = "fork"
  /\ AsExpected(t)
  /\ \E b, c \in Branch :
       /\ fork' = t.of /\ UNCHANGED repoPath
       /\ base' = b /\ compare' = c
       /\ Reload([from |-> t.of, base |-> b, compare |-> c], tasks \ {t})
  /\ UNCHANGED <<submitting, open, sent, chosen, excused, choices>>

\* The import failed, or one side has no branches: the source stays.
ForkFails(t) ==
  /\ Landing(t) /\ t.kind = "fork"
  /\ AsExpected(t)
  /\ loading' = FALSE /\ error' = TRUE
  /\ excused' = (excused \/ Of("compare") # {})
  /\ tasks' = tasks \ {t}
  /\ UNCHANGED <<source, result, submitting, open, generation, sent, chosen,
                 choices>>

\* Discarded: another fork has been applied, or a folder after a fork.
ForkDiscarded(t) ==
  /\ Landing(t) /\ t.kind = "fork"
  /\ ~AsExpected(t)
  /\ loading' = FALSE
  /\ excused' = (excused \/ Of("compare") # {})
  /\ tasks' = tasks \ {t}
  /\ UNCHANGED <<source, result, error, submitting, open, generation, sent,
                 chosen, choices>>

\* Mutant: the generation is not looked at.
Always(t) == TRUE

UpToDate(t) == t.seen = generation

\* The comparison lands, or fails: no common ancestor, a ref that is gone.
CompareLands(t) ==
  /\ Landing(t) /\ t.kind = "compare"
  /\ tasks' = tasks \ {t}
  /\ IF ~UpToDate(t) THEN UNCHANGED <<result, error, loading>>
     ELSE /\ loading' = FALSE
          /\ \/ result' = t.of /\ UNCHANGED error
             \/ result' = Nowhere /\ error' = TRUE
  /\ UNCHANGED <<source, submitting, open, generation, sent, chosen, excused,
                 choices>>

\* The patch is generated and handed to the store.  The panel closes whether
\* the store goes on with it or finds an error at once.
Handed(t, underway) ==
  /\ Landing(t) /\ t.kind = "submit"
  /\ open' = FALSE /\ submitting' = FALSE
  /\ tasks' = {}
  /\ sent' = sent \cup {[of |-> t.of, mergeBase |-> t.seen, underway |-> underway]}
  /\ UNCHANGED <<source, result, error, loading, generation, chosen, excused,
                 choices>>

\* No commits between the branches, or git fails.
SubmitFails(t) ==
  /\ Landing(t) /\ t.kind = "submit"
  /\ submitting' = FALSE /\ error' = TRUE
  /\ tasks' = tasks \ {t}
  /\ UNCHANGED <<source, result, loading, open, generation, sent, chosen,
                 excused, choices>>

Land(t) ==
  \/ FolderLands(t) \/ FolderEmpty(t)
  \/ ForkLands(t) \/ ForkFails(t) \/ ForkDiscarded(t)
  \/ CompareLands(t)
  \/ \E underway \in BOOLEAN : Handed(t, underway)
  \/ SubmitFails(t)

Landings == \E t \in tasks : Land(t)

Next ==
  \/ \E d \in Folder : ChooseFolder(d)
  \/ \E f \in Fork : ChooseFork(f)
  \/ \E b, c \in Branch : ChooseBranches(b, c)
  \/ Submit \/ Close
  \/ Landings

\* A background task ends.
Spec == Init /\ [][Next]_vars /\ WF_vars(Landings)

-----------------------------------------------------------------------------
(* Properties *)

TypeOK ==
  /\ repoPath \in Folder \cup {None} /\ fork \in Fork \cup {None}
  /\ base \in Branch \cup {None} /\ compare \in Branch \cup {None}
  /\ result \in Selection
  /\ {error, loading, submitting, open, excused} \subseteq BOOLEAN
  /\ generation \in Nat /\ choices \in 0 .. MaxChoices
  /\ Cardinality(tasks) <= MaxTasks
  /\ \A s \in sent : s.of \in Selection /\ s.mergeBase \in Selection

\* When everything has landed, what is shown is the comparison of the source
\* and the branches selected, or an error; and the form is not left loading.
CompareSettles ==
  (open /\ tasks = {}) =>
    /\ ~loading /\ ~submitting
    /\ (WorkPath(fork, repoPath) # None /\ ~error) => result = Selected

\* The patch that is published starts at the merge base of the branches it is
\* taken from.  Excused are an import of a fork that ends without being applied
\* while a comparison is in flight, because both share the flag that disables
\* the button.
SubmitsWhatIsCompared ==
  ~excused => \A s \in sent : s.mergeBase = s.of

\* new.rs:620: "A source switch mid-flight discards the stale result.  E.g. the
\* user picked a folder while the fork was fetching."
ForkYields ==
  [][(chosen \in Folder /\ repoPath = chosen) => fork' \in {fork, None}]_vars
=============================================================================
