---------------------------- MODULE PanelsProofs ----------------------------
(***************************************************************************)
(* Proofs about the panels of MCPanels, for any number of files, branches, *)
(* people, bindings and tasks in flight.  Every panel has an inductive     *)
(* invariant of its own, which the steps of the others leave alone:        *)
(*   - the form of a new pull request (Compare): what the comparison of    *)
(*     the current generation has to do with the form (Superseding), what  *)
(*     the form shows once it has landed (ShownIsSelected), and who is     *)
(*     going to clear its flags (Awaited);                                 *)
(*   - the panel of a pull request (Detail): DetailInv, the newest load    *)
(*     is of what the panel is bound to;                                   *)
(*   - what was read (ReadState): MarksInv, no cutoff lies in the future;  *)
(*   - the profiles (Profiles): ProfilesInv, a profile that is not shown   *)
(*     as it is stored is on its way;                                      *)
(*   - the worktree (Worktree): WorktreeInv, at most one task besides the  *)
(*     walks of the history is under way, and what it is going to leave;   *)
(*   - the Files tab (Previews): PreviewsInv, the sum of the cached texts  *)
(*     is right as long as none was stored twice, so that every round of   *)
(*     the eviction comes closer to its end.                               *)
(***************************************************************************)
EXTENDS MCPanels, Sequences, FiniteSetTheorems, WellFoundedInduction, TLAPS

-----------------------------------------------------------------------------
(* The form of a new pull request (Compare) *)

\* The comparison that will be taken when it lands.
Current == {t \in tasks : t.kind = "compare" /\ t.seen = generation}

\* There is a source to compare.
Sourced == WorkPath(fork, repoPath) # None

TaskSound(t) ==
  /\ t.kind \in {"folder", "fork", "compare", "submit"}
  /\ t.kind = "folder" => t.of \in Folder
  /\ t.kind = "fork" => t.of \in Fork
  /\ t.kind = "compare" => t.of \in Selection /\ t.seen \in 0 .. generation
  /\ t.kind = "submit" => t.of \in Selection /\ t.seen \in Selection

Types ==
  /\ repoPath \in Folder \cup {None} /\ fork \in Fork \cup {None}
  /\ base \in Branch \cup {None} /\ compare \in Branch \cup {None}
  /\ Sourced => base \in Branch /\ compare \in Branch
  /\ base # None => base \in Branch /\ compare \in Branch
  /\ result \in Selection
  /\ error \in BOOLEAN /\ loading \in BOOLEAN /\ submitting \in BOOLEAN
  /\ open \in BOOLEAN /\ excused \in BOOLEAN
  /\ generation \in Nat /\ choices \in 0 .. MaxChoices
  /\ \A t \in tasks : TaskSound(t)
  /\ \A s \in sent : s.of \in Selection /\ s.mergeBase \in Selection

Bounded == IsFiniteSet(tasks) /\ Cardinality(tasks) <= MaxTasks

\* A comparison that will be taken is the only one, is of what is selected, and
\* keeps the button disabled.
Superseding ==
  /\ \A s, t \in Current : s = t
  /\ Sourced => \A t \in Current : t.of = Selected
  /\ (~excused /\ Current # {}) => loading

\* Otherwise what is shown is of what is selected, or there is an error, or a
\* fork that was chosen since, whose import cleared the error.
ShownIsSelected ==
  (open /\ Sourced /\ Current = {}) =>
    /\ result # Nowhere => result = Selected
    /\ ~error => result = Selected \/ \E t \in Of("fork") : AsExpected(t)

\* Whoever set a flag is going to clear it.
Awaited ==
  open => /\ loading => Current # {} \/ Of("fork") # {}
          /\ submitting => Of("submit") # {}

\* What is submitted is what was compared.
Submitted ==
  ~excused => /\ \A t \in Of("submit") : t.seen = t.of
              /\ \A s \in sent : s.mergeBase = s.of

IInv == Types /\ Bounded /\ Superseding /\ ShownIsSelected /\ Awaited /\ Submitted

-----------------------------------------------------------------------------
(* Reloading *)

\* Every comparison in flight is superseded, and the new one, if the refs differ,
\* is the only one that will be taken.
LEMMA ReloadSupersedes ==
  ASSUME generation \in Nat, NEW s, NEW others, Reload(s, others),
         \A t \in others : TaskSound(t)
  PROVE  /\ generation' \in Nat /\ generation' > generation
         /\ Current' \subseteq {Task("compare", s, generation')}
         /\ ~SameRef(s) =>
              Current' = {Task("compare", s, generation')} /\ loading' = TRUE
         /\ SameRef(s) =>
              /\ Current' = {} /\ loading' = FALSE /\ error' = TRUE
              /\ result' = Nowhere
<1>1. generation' = generation + 1
  BY DEF Reload
<1>2. \A t \in others : ~ (t.kind = "compare" /\ t.seen = generation')
  BY <1>1 DEF TaskSound
<1>3. CASE SameRef(s)
  BY <1>1, <1>2, <1>3 DEF Reload, Current
<1>4. CASE ~SameRef(s)
  <2>1. tasks' = others \cup {Task("compare", s, generation')} /\ loading' = TRUE
    BY <1>4 DEF Reload
  <2>2. Current' = {Task("compare", s, generation')}
    BY <1>2, <2>1 DEF Current, Task
  <2> QED
    BY <1>1, <1>4, <2>1, <2>2
<1> QED
  BY <1>3, <1>4

\* The types of what it writes.
LEMMA ReloadTypes ==
  ASSUME Types, NEW s \in Selection, NEW others, Reload(s, others),
         others \subseteq tasks
  PROVE  /\ generation' \in Nat /\ result' \in Selection
         /\ error' \in BOOLEAN /\ loading' \in BOOLEAN
         /\ \A t \in tasks' : TaskSound(t)'
<1>1. generation' = generation + 1 /\ generation \in Nat
  BY DEF Reload, Types
<1>2. \A t \in others : TaskSound(t)'
  BY <1>1 DEF Types, TaskSound
<1>3. ASSUME NEW t, t = Task("compare", s, generation')  PROVE TaskSound(t)'
  BY <1>1, <1>3 DEF TaskSound, Task
<1>4. tasks' \subseteq others \cup {Task("compare", s, generation')}
  BY DEF Reload
<1>5. result' \in Selection /\ error' \in BOOLEAN /\ loading' \in BOOLEAN
  BY DEF Reload, Types, Selection
<1> QED
  BY <1>1, <1>2, <1>3, <1>4, <1>5

\* With nothing else to clear the flags: the new comparison, or nothing.
LEMMA ReloadKeeps ==
  ASSUME IInv, NEW others, Reload(Selected', others), others \subseteq tasks,
         \A t \in others : TaskSound(t), open' = open, submitting' = submitting,
         excused' = excused, sent' = sent,
         \A t \in Of("submit") : t \in others
  PROVE  Superseding' /\ ShownIsSelected' /\ Awaited' /\ Submitted'
<1>1. generation \in Nat
  BY DEF IInv, Types
<1> DEFINE s == Selected'
           new == Task("compare", s, generation')
<1>2. /\ Current' \subseteq {new}
      /\ ~SameRef(s) => Current' = {new} /\ loading' = TRUE
      /\ SameRef(s) => /\ Current' = {} /\ loading' = FALSE
                               /\ error' = TRUE /\ result' = Nowhere
  BY <1>1, ReloadSupersedes
<1>3. Superseding'
  <2>1. new.of = s
    BY DEF Task
  <2> QED
    BY <1>2, <2>1 DEF Superseding
<1>4. ShownIsSelected'
  BY <1>2 DEF ShownIsSelected
<1>5. Of("submit")' = Of("submit")
  BY DEF Of, Reload, Task
<1>6. Awaited'
  BY <1>2, <1>5 DEF IInv, Awaited
<1>7. Submitted'
  BY <1>5 DEF IInv, Submitted
<1> QED
  BY <1>3, <1>4, <1>6, <1>7

-----------------------------------------------------------------------------
(* Every step keeps the invariant *)

\* The form starts in the invariant.
LEMMA Start == Init => IInv
<1> SUFFICES ASSUME Init PROVE IInv
  OBVIOUS
<1> USE CompareAssumption DEF Init
<1>1. \A t \in tasks : t.kind = "folder" /\ t.of \in Folder
  BY DEF Task
<1>2. Types
  <2>1. \A t \in tasks : TaskSound(t)
    BY <1>1 DEF TaskSound
  <2>2. Nowhere \in Selection /\ ~Sourced
    BY DEF Selection, Sourced, WorkPath
  <2>3. /\ repoPath = None /\ fork = None /\ base = None /\ compare = None
        /\ result = Nowhere /\ generation = 0 /\ choices = 0 /\ sent = {}
        /\ error = FALSE /\ loading = FALSE /\ submitting = FALSE
        /\ open = TRUE /\ excused = FALSE
    OBVIOUS
  <2>4. 0 \in Nat /\ 0 \in 0 .. MaxChoices
    OBVIOUS
  <2> HIDE DEF Init
  <2> QED
    BY <2>1, <2>2, <2>3, <2>4 DEF Types
<1>3. Bounded
  <2>1. CASE tasks = {}
    BY <2>1, FS_EmptySet DEF Bounded
  <2>2. ASSUME NEW t, tasks = {t}  PROVE Bounded
    <3>1. IsFiniteSet({t}) /\ Cardinality({t}) = 1
      BY FS_Singleton
    <3>2. MaxTasks \in Nat \ {0}
      OBVIOUS
    <3> HIDE DEF Init
    <3> QED
      BY <2>2, <3>1, <3>2 DEF Bounded
  <2> QED
    BY <2>1, <2>2
<1>4. Current = {} /\ Of("submit") = {}
  BY <1>1 DEF Current, Of
<1>5. Superseding /\ ShownIsSelected /\ Awaited /\ Submitted
  BY <1>4 DEF Superseding, ShownIsSelected, Awaited, Submitted, Sourced, WorkPath
<1> QED
  BY <1>2, <1>3, <1>5 DEF IInv

\* A choice, or a submission, adds a task within the bound; a landing takes its
\* task away and may put a comparison in its place.
LEMMA AddsOne ==
  ASSUME Bounded, NEW u, Cardinality(tasks) < MaxTasks
  PROVE  /\ IsFiniteSet(tasks \cup {u}) /\ Cardinality(tasks \cup {u}) <= MaxTasks
<1>1. IsFiniteSet(tasks) /\ Cardinality(tasks) \in Nat
  BY FS_CardinalityType DEF Bounded
<1>2. /\ IsFiniteSet(tasks \cup {u})
      /\ \/ Cardinality(tasks \cup {u}) = Cardinality(tasks)
         \/ Cardinality(tasks \cup {u}) = Cardinality(tasks) + 1
  BY <1>1, FS_AddElement
<1>3. MaxTasks \in Nat
  BY CompareAssumption
<1> QED
  BY <1>1, <1>2, <1>3

\* A task that replaces another leaves as many as there were.
LEMMA Replaces ==
  ASSUME Bounded, NEW t \in tasks, NEW u
  PROVE  /\ IsFiniteSet(tasks \ {t}) /\ Cardinality(tasks \ {t}) <= MaxTasks
         /\ IsFiniteSet((tasks \ {t}) \cup {u})
         /\ Cardinality((tasks \ {t}) \cup {u}) <= MaxTasks
<1>1. /\ IsFiniteSet(tasks \ {t}) /\ Cardinality(tasks \ {t}) = Cardinality(tasks) - 1
      /\ Cardinality(tasks) \in Nat
  BY FS_RemoveElement, FS_CardinalityType DEF Bounded
<1>2. Cardinality(tasks \ {t}) \in Nat
  BY <1>1, FS_CardinalityType
<1>3. /\ IsFiniteSet((tasks \ {t}) \cup {u})
      /\ \/ Cardinality((tasks \ {t}) \cup {u}) = Cardinality(tasks \ {t})
         \/ Cardinality((tasks \ {t}) \cup {u}) = Cardinality(tasks \ {t}) + 1
  BY <1>1, FS_AddElement
<1>4. MaxTasks \in Nat /\ Cardinality(tasks) <= MaxTasks
  BY CompareAssumption DEF Bounded
<1> QED
  BY <1>1, <1>2, <1>3, <1>4

\* No more tasks are in flight than the bound says.
LEMMA KeepsBounded == IInv /\ [Next]_vars => Bounded'
<1> SUFFICES ASSUME IInv, [Next]_vars PROVE Bounded'
  OBVIOUS
<1>0. Bounded
  BY DEF IInv
<1>1. ASSUME NEW u, Cardinality(tasks) < MaxTasks, tasks' = tasks \cup {u} PROVE Bounded'
  BY <1>0, <1>1, AddsOne DEF Bounded
<1>2. ASSUME NEW t \in tasks, tasks' = tasks \ {t} PROVE Bounded'
  BY <1>0, <1>2, Replaces DEF Bounded
<1>3. ASSUME NEW t \in tasks, NEW u, tasks' = (tasks \ {t}) \cup {u} PROVE Bounded'
  BY <1>0, <1>3, Replaces DEF Bounded
<1>4. ASSUME tasks' = {} PROVE Bounded'
  BY <1>4, FS_EmptySet, CompareAssumption DEF Bounded
<1>5. ASSUME tasks' = tasks PROVE Bounded'
  BY <1>0, <1>5 DEF Bounded
<1>6. CASE \E d \in Folder : ChooseFolder(d)
  BY <1>1, <1>6 DEF ChooseFolder, Choice
<1>7. CASE \E f \in Fork : ChooseFork(f)
  BY <1>1, <1>7 DEF ChooseFork, Choice
<1>8. CASE \E b, c \in Branch : ChooseBranches(b, c)
  <2> SUFFICES ASSUME NEW b, NEW c, ChooseBranches(b, c) PROVE Bounded'
    BY <1>8
  <2>1. CASE tasks' = tasks
    BY <1>5, <2>1
  <2>2. CASE tasks' # tasks
    <3>1. \E s : tasks' = tasks \cup {Task("compare", s, generation')}
      BY <2>2 DEF ChooseBranches, Reload
    <3> QED
      BY <1>1, <3>1 DEF ChooseBranches, Choice
  <2> QED
    BY <2>1, <2>2
<1>9. CASE Submit
  BY <1>1, <1>9 DEF Submit
<1>10. CASE Close
  BY <1>4, <1>10 DEF Close
<1>11. CASE Landings
  <2> SUFFICES ASSUME NEW t \in tasks, Land(t) PROVE Bounded'
    BY <1>11 DEF Landings
  <2>1. ASSUME NEW s, Reload(s, tasks \ {t}) PROVE Bounded'
    <3>1. \/ tasks' = tasks \ {t}
          \/ tasks' = (tasks \ {t}) \cup {Task("compare", s, generation')}
      BY <2>1 DEF Reload
    <3> QED
      BY <3>1, <1>2, <1>3
  <2>2. CASE FolderLands(t)
    BY <2>1, <2>2 DEF FolderLands
  <2>3. CASE ForkLands(t)
    BY <2>1, <2>3 DEF ForkLands
  <2>4. CASE \E underway \in BOOLEAN : Handed(t, underway)
    BY <1>4, <2>4 DEF Handed
  <2>5. CASE FolderEmpty(t) \/ ForkFails(t) \/ ForkDiscarded(t) \/ CompareLands(t) \/ SubmitFails(t)
    BY <1>2, <2>5 DEF FolderEmpty, ForkFails, ForkDiscarded, CompareLands, SubmitFails
  <2> QED
    BY <2>2, <2>3, <2>4, <2>5 DEF Land
<1>12. CASE UNCHANGED vars
  BY <1>5, <1>12 DEF vars
<1> QED
  BY <1>6, <1>7, <1>8, <1>9, <1>10, <1>11, <1>12 DEF Next

\* The form keeps its types.
LEMMA KeepsTypes == IInv /\ [Next]_vars => Types'
<1> SUFFICES ASSUME IInv, [Next]_vars PROVE Types'
  OBVIOUS
<1>0. Types
  BY DEF IInv
<1>1. CASE \E d \in Folder : ChooseFolder(d)
  BY <1>0, <1>1, CompareAssumption
     DEF Types, ChooseFolder, Choice, source, flags, TaskSound, Task, Sourced
<1>2. CASE \E f \in Fork : ChooseFork(f)
  <2> SUFFICES ASSUME NEW f \in Fork, ChooseFork(f) PROVE Types'
    BY <1>2
  <2>1. \A t \in tasks' : TaskSound(t)'
    BY <1>0 DEF Types, ChooseFork, TaskSound, Task
  <2>2. choices' \in 0 .. MaxChoices
    BY <1>0, CompareAssumption DEF Types, ChooseFork, Choice
  <2>3. /\ UNCHANGED <<repoPath, fork, base, compare, result, submitting, open,
                       generation, sent, excused>>
        /\ loading' = TRUE /\ error' = FALSE /\ Sourced' = Sourced
    BY DEF ChooseFork, source, Sourced
  <2> QED
    BY <1>0, <2>1, <2>2, <2>3 DEF Types
<1>3. CASE \E b, c \in Branch : ChooseBranches(b, c)
  <2> SUFFICES ASSUME NEW b \in Branch, NEW c \in Branch, ChooseBranches(b, c) PROVE Types'
    BY <1>3
  <2> DEFINE s == [from |-> WorkPath(fork, repoPath), base |-> b, compare |-> c]
  <2>1. /\ generation' \in Nat /\ result' \in Selection
        /\ error' \in BOOLEAN /\ loading' \in BOOLEAN
        /\ \A t \in tasks' : TaskSound(t)'
    <3>1. CASE ~Sourced
      BY <1>0, <3>1 DEF ChooseBranches, Types, TaskSound, Sourced
    <3>2. CASE Sourced
      <4>2. s \in Selection
        BY <1>0, <3>2 DEF Types, Selection, Source, Sourced, WorkPath
      <4>3. Reload(s, tasks)
        BY <3>2 DEF ChooseBranches, Sourced
      <4> QED
        BY <1>0, <4>2, <4>3, ReloadTypes
    <3> QED
      BY <3>1, <3>2
  <2> QED
    BY <1>0, <2>1, CompareAssumption DEF Types, ChooseBranches, Choice, Sourced
<1>4. CASE Submit
  <2>1. Selected \in Selection
    BY <1>0, <1>4 DEF Submit, Types, Selected, Selection, Source, Sourced, WorkPath
  <2>2. \A t \in tasks' : TaskSound(t)'
    BY <1>0, <1>4, <2>1 DEF Types, Submit, TaskSound, Task
  <2> QED
    BY <1>0, <1>4, <2>2 DEF Types, Submit, source, Sourced
<1>5. CASE Close
  BY <1>0, <1>5 DEF Types, Close, source, Sourced
<1>6. CASE Landings
  <2> SUFFICES ASSUME NEW t \in tasks, Land(t) PROVE Types'
    BY <1>6 DEF Landings
  <2>0. TaskSound(t)
    BY <1>0 DEF Types
  <2>1. CASE FolderLands(t)
    <3> PICK b \in Branch, c \in Branch :
               /\ fork' = None /\ repoPath' = t.of /\ base' = b /\ compare' = c
               /\ Reload([from |-> t.of, base |-> b, compare |-> c], tasks \ {t})
      BY <2>1 DEF FolderLands
    <3>1. t.of \in Folder
      BY <2>0, <2>1 DEF TaskSound, FolderLands
    <3>2. [from |-> t.of, base |-> b, compare |-> c] \in Selection
      BY <3>1 DEF Selection, Source
    <3>3. /\ generation' \in Nat /\ result' \in Selection
          /\ error' \in BOOLEAN /\ loading' \in BOOLEAN
          /\ \A u \in tasks' : TaskSound(u)'
      BY <1>0, <3>2, ReloadTypes
    <3> QED
      BY <1>0, <2>1, <3>1, <3>3 DEF Types, FolderLands, Sourced
  <2>2. CASE ForkLands(t)
    <3> PICK b \in Branch, c \in Branch :
               /\ fork' = t.of /\ base' = b /\ compare' = c
               /\ Reload([from |-> t.of, base |-> b, compare |-> c], tasks \ {t})
      BY <2>2 DEF ForkLands
    <3>1. t.of \in Fork
      BY <2>0, <2>2 DEF TaskSound, ForkLands
    <3>2. [from |-> t.of, base |-> b, compare |-> c] \in Selection
      BY <3>1 DEF Selection, Source
    <3>3. /\ generation' \in Nat /\ result' \in Selection
          /\ error' \in BOOLEAN /\ loading' \in BOOLEAN
          /\ \A u \in tasks' : TaskSound(u)'
      BY <1>0, <3>2, ReloadTypes
    <3> QED
      BY <1>0, <2>2, <3>1, <3>3 DEF Types, ForkLands, Sourced
  <2>3. CASE FolderEmpty(t)
    BY <1>0, <2>3 DEF Types, FolderEmpty, flags, TaskSound, Sourced, WorkPath
  <2>4. CASE ForkFails(t) \/ ForkDiscarded(t)
    BY <1>0, <2>4 DEF Types, ForkFails, ForkDiscarded, source, TaskSound, Sourced
  <2>5. CASE CompareLands(t)
    <3>1. result' \in Selection /\ error' \in BOOLEAN /\ loading' \in BOOLEAN
      BY <1>0, <2>0, <2>5 DEF Types, CompareLands, TaskSound, Selection
    <3> QED
      BY <1>0, <2>5, <3>1 DEF Types, CompareLands, source, TaskSound, Sourced
  <2>6. CASE \E underway \in BOOLEAN : Handed(t, underway)
    <3>1. \A s \in sent' : s.of \in Selection /\ s.mergeBase \in Selection
      BY <1>0, <2>0, <2>6 DEF Types, Handed, TaskSound
    <3>2. tasks' = {}
      BY <2>6 DEF Handed
    <3> QED
      BY <1>0, <2>6, <3>1, <3>2 DEF Types, Handed, source, Sourced
  <2>7. CASE SubmitFails(t)
    BY <1>0, <2>7 DEF Types, SubmitFails, source, TaskSound, Sourced
  <2> QED
    BY <2>1, <2>2, <2>3, <2>4, <2>5, <2>6, <2>7 DEF Land
<1>7. CASE UNCHANGED vars
  BY <1>0, <1>7 DEF Types, vars, source, flags, TaskSound, Sourced
<1> QED
  BY <1>1, <1>2, <1>3, <1>4, <1>5, <1>6, <1>7 DEF Next

\* The relation between the comparisons in flight and the form.
Form == Superseding /\ ShownIsSelected /\ Awaited /\ Submitted

\* What the form shows, and who is going to clear its flags, is kept.
LEMMA KeepsForm == IInv /\ [Next]_vars => Form'
<1> SUFFICES ASSUME IInv, [Next]_vars PROVE Form'
  OBVIOUS
<1>0. Form /\ Types
  BY DEF IInv, Form
<1> USE DEF Form, Superseding, ShownIsSelected, Awaited, Submitted
<1>1. CASE \E d \in Folder : ChooseFolder(d)
  <2> SUFFICES ASSUME NEW d \in Folder, ChooseFolder(d) PROVE Form'
    BY <1>1
  <2>1. /\ Current' = Current /\ Of("fork")' = Of("fork")
        /\ Of("submit")' = Of("submit")
    BY DEF ChooseFolder, Current, Of, Task
  <2> QED
    BY <1>0, <2>1 DEF ChooseFolder, source, flags, Sourced, Selected, AsExpected
<1>2. CASE \E f \in Fork : ChooseFork(f)
  <2> SUFFICES ASSUME NEW f \in Fork, ChooseFork(f) PROVE Form'
    BY <1>2
  <2>1. /\ Current' = Current /\ Of("submit")' = Of("submit")
    BY DEF ChooseFork, Current, Of, Task
  <2>2. \E t \in Of("fork")' : AsExpected(t)'
    <3>1. Task("fork", f, fork) \in tasks' /\ fork' = fork
      BY DEF ChooseFork, source
    <3>2. Task("fork", f, fork).kind = "fork" /\ Task("fork", f, fork).seen = fork
      BY DEF Task
    <3> QED
      BY <3>1, <3>2 DEF Of, AsExpected
  <2> QED
    BY <1>0, <2>1, <2>2 DEF ChooseFork, source, Sourced, Selected
<1>3. CASE \E b, c \in Branch : ChooseBranches(b, c)
  <2> SUFFICES ASSUME NEW b \in Branch, NEW c \in Branch, ChooseBranches(b, c) PROVE Form'
    BY <1>3
  <2>1. CASE ~Sourced
    <3>1. Current' = Current /\ Of("submit")' = Of("submit") /\ Of("fork")' = Of("fork")
          /\ ~Sourced'
      BY <2>1 DEF ChooseBranches, Current, Of, Sourced
    <3> QED
      BY <1>0, <2>1, <3>1 DEF ChooseBranches, Sourced
  <2>2. CASE Sourced
    <3>1. Selected' = [from |-> WorkPath(fork, repoPath), base |-> b, compare |-> c]
      BY DEF ChooseBranches, Selected
    <3>2. Reload(Selected', tasks)
      BY <2>2, <3>1 DEF ChooseBranches, Sourced
    <3>3. /\ open' = open /\ submitting' = submitting /\ excused' = excused /\ sent' = sent
          /\ \A t \in Of("submit") : t \in tasks
      BY DEF ChooseBranches, Of
    <3> HIDE DEF Form, Superseding, ShownIsSelected, Awaited, Submitted
    <3> QED
      BY <1>0, <3>2, <3>3, ReloadKeeps DEF Types, Form
  <2> QED
    BY <2>1, <2>2
<1>4. CASE Submit
  <2>1. /\ Current' = Current /\ Of("fork")' = Of("fork")
        /\ Of("submit")' = Of("submit") \cup {Task("submit", Selected, result)}
    BY <1>4 DEF Submit, Current, Of, Task
  <2>2. Sourced /\ ~loading /\ result # Nowhere /\ open
    BY <1>4 DEF Submit, Ready, Sourced
  <2>3. Current = {} => result = Selected
    BY <1>0, <2>2
  <2>4. ~excused => Current = {}
    BY <1>0, <2>2
  <2>5. Superseding' /\ ShownIsSelected'
    BY <1>0, <1>4, <2>1, <2>3 DEF Submit, source, Sourced, Selected
  <2>6. Awaited'
    BY <1>0, <1>4, <2>1 DEF Submit
  <2>7. Submitted'
    BY <1>0, <1>4, <2>1, <2>3, <2>4 DEF Submit, Task
  <2> QED
    BY <2>5, <2>6, <2>7
<1>5. CASE Close
  <2>1. Current' = {} /\ Of("submit")' = {} /\ open' = FALSE
    BY <1>5 DEF Close, Current, Of
  <2> QED
    BY <1>0, <1>5, <2>1 DEF Close, source, Sourced, Selected
<1>6. CASE Landings
  <2> SUFFICES ASSUME NEW t \in tasks, Land(t) PROVE Form'
    BY <1>6 DEF Landings
  <2>0. TaskSound(t)
    BY <1>0 DEF Types
  <2>1. CASE FolderLands(t)
    <3> PICK b \in Branch, c \in Branch :
               /\ fork' = None /\ repoPath' = t.of /\ base' = b /\ compare' = c
               /\ Reload([from |-> t.of, base |-> b, compare |-> c], tasks \ {t})
      BY <2>1 DEF FolderLands
    <3>1. Selected' = [from |-> t.of, base |-> b, compare |-> c]
      BY DEF Selected, WorkPath
    <3>2. Reload(Selected', tasks \ {t})
      BY <3>1
    <3>3. /\ open' = open /\ submitting' = submitting /\ excused' = excused /\ sent' = sent
          /\ \A u \in Of("submit") : u \in tasks \ {t}
      BY <2>1 DEF FolderLands, Of
    <3> HIDE DEF Form, Superseding, ShownIsSelected, Awaited, Submitted
    <3> QED
      BY <1>0, <3>2, <3>3, ReloadKeeps DEF Types, Form
  <2>2. CASE ForkLands(t)
    <3> PICK b \in Branch, c \in Branch :
               /\ fork' = t.of /\ base' = b /\ compare' = c
               /\ Reload([from |-> t.of, base |-> b, compare |-> c], tasks \ {t})
      BY <2>2 DEF ForkLands
    <3>1. Selected' = [from |-> t.of, base |-> b, compare |-> c]
      BY <2>0, <2>2, CompareAssumption DEF Selected, WorkPath, TaskSound, ForkLands
    <3>2. Reload(Selected', tasks \ {t})
      BY <3>1
    <3>3. /\ open' = open /\ submitting' = submitting /\ excused' = excused /\ sent' = sent
          /\ \A u \in Of("submit") : u \in tasks \ {t}
      BY <2>2 DEF ForkLands, Of
    <3> HIDE DEF Form, Superseding, ShownIsSelected, Awaited, Submitted
    <3> QED
      BY <1>0, <3>2, <3>3, ReloadKeeps DEF Types, Form
  <2>3. CASE FolderEmpty(t)
    <3>1. Current' = Current /\ Of("submit")' = Of("submit") /\ Of("fork")' = Of("fork")
      BY <2>3 DEF FolderEmpty, Current, Of, flags
    <3>2. ~Sourced'
      BY <2>3 DEF FolderEmpty, Sourced, WorkPath
    <3> QED
      BY <1>0, <2>3, <3>1, <3>2 DEF FolderEmpty, flags
  <2>4. CASE ForkFails(t) \/ ForkDiscarded(t)
    <3>1. /\ Current' = Current /\ Of("submit")' = Of("submit")
          /\ Of("fork")' = Of("fork") \ {t}
      BY <2>4 DEF ForkFails, ForkDiscarded, Current, Of
    <3>2. ~excused' => ~excused /\ Current = {}
      BY <2>4 DEF ForkFails, ForkDiscarded, Current, Of
    <3>3. /\ loading' = FALSE /\ result' = result /\ Selected' = Selected
          /\ Sourced' = Sourced /\ open' = open /\ submitting' = submitting
          /\ sent' = sent /\ fork' = fork
      BY <2>4 DEF ForkFails, ForkDiscarded, source, Selected, Sourced
    <3>4. error' \/ (~AsExpected(t) /\ error' = error)
      BY <2>4 DEF ForkFails, ForkDiscarded
    <3>5. ShownIsSelected'
      BY <1>0, <3>1, <3>3, <3>4 DEF AsExpected
    <3> QED
      BY <1>0, <3>1, <3>2, <3>3, <3>5
  <2>5. CASE CompareLands(t)
    <3>1. /\ Of("submit")' = Of("submit") /\ Of("fork")' = Of("fork")
          /\ Selected' = Selected /\ Sourced' = Sourced /\ open' = open
          /\ submitting' = submitting /\ excused' = excused /\ sent' = sent
          /\ fork' = fork
      BY <2>5 DEF CompareLands, Of, source, Selected, Sourced
    <3>2. CASE UpToDate(t)
      <4>1. t \in Current
        BY <2>5, <3>2 DEF CompareLands, UpToDate, Current
      <4>2. Current' = {}
        BY <1>0, <2>5, <4>1 DEF CompareLands, Current
      <4>3. loading' = FALSE /\ (result' = t.of \/ (result' = Nowhere /\ error' = TRUE))
        BY <2>5, <3>2 DEF CompareLands
      <4> QED
        BY <1>0, <3>1, <4>1, <4>2, <4>3
    <3>3. CASE ~UpToDate(t)
      <4>1. Current' = Current
        BY <2>5, <3>3 DEF CompareLands, UpToDate, Current
      <4>2. result' = result /\ error' = error /\ loading' = loading
        BY <2>5, <3>3 DEF CompareLands
      <4> QED
        BY <1>0, <3>1, <4>1, <4>2 DEF AsExpected
    <3> QED
      BY <3>2, <3>3
  <2>6. CASE \E underway \in BOOLEAN : Handed(t, underway)
    <3>1. Current' = {} /\ Of("submit")' = {} /\ open' = FALSE
      BY <2>6 DEF Handed, Current, Of
    <3>2. t \in Of("submit") /\ excused' = excused
      BY <2>6 DEF Handed, Of
    <3>3. Submitted'
      BY <1>0, <2>6, <3>1, <3>2 DEF Handed
    <3> QED
      BY <3>1, <3>3
  <2>7. CASE SubmitFails(t)
    <3>1. /\ Current' = Current /\ Of("fork")' = Of("fork")
          /\ Of("submit")' \subseteq Of("submit")
      BY <2>7 DEF SubmitFails, Current, Of
    <3> QED
      BY <1>0, <2>7, <3>1 DEF SubmitFails, source, Selected, Sourced
  <2> QED
    BY <2>1, <2>2, <2>3, <2>4, <2>5, <2>6, <2>7 DEF Land
<1>7. CASE UNCHANGED vars
  BY <1>0, <1>7 DEF vars, source, flags, Sourced, Selected, Current, Of, AsExpected
<1> QED
  BY <1>1, <1>2, <1>3, <1>4, <1>5, <1>6, <1>7 DEF Next

-----------------------------------------------------------------------------
(* What is shown of it *)

\* The invariant of the form holds for ever.
LEMMA Invariance == Spec => []IInv
<1>1. IInv /\ [Next]_vars => IInv'
  BY KeepsBounded, KeepsTypes, KeepsForm DEF IInv, Form
<1> QED
  BY Start, <1>1, PTL DEF Spec

\* All state of the form is well typed, and no more tasks are in flight than
\* choices and submissions may start.
THEOREM TypeCorrect == Spec => []TypeOK
<1>1. IInv => TypeOK
  BY DEF IInv, Types, Bounded, TypeOK
<1> QED
  BY <1>1, Invariance, PTL

\* At rest the form shows the comparison of what is selected, or an error, and
\* is not left loading: whatever was chosen while imports and comparisons were
\* in flight (compare_generation, the check of the fork).
THEOREM FormSettles == Spec => []CompareSettles
<1>1. IInv => CompareSettles
  <2> SUFFICES ASSUME IInv, open, tasks = {}
               PROVE  /\ ~loading /\ ~submitting
                      /\ (Sourced /\ ~error) => result = Selected
    BY DEF CompareSettles, Sourced
  <2>1. Current = {} /\ Of("fork") = {} /\ Of("submit") = {}
    BY DEF Current, Of
  <2> QED
    BY <2>1 DEF IInv, Awaited, ShownIsSelected
<1> QED
  BY <1>1, Invariance, PTL

\* The patch that is published starts at the merge base of the branches it is
\* taken from (submit), unless an import ended beside a comparison.
THEOREM ComparedIsSent == Spec => []SubmitsWhatIsCompared
<1>1. IInv => SubmitsWhatIsCompared
  BY DEF IInv, Submitted, SubmitsWhatIsCompared
<1> QED
  BY <1>1, Invariance, PTL

-----------------------------------------------------------------------------
(* The panel of a pull request (Detail) *)

\* The load that will be shown when it lands.
IsNewest(l) == l.g = generationD

LoadSound(l) ==
  /\ l \in Dt!Load /\ l.g <= generationD
  /\ l.at # "parse" => (l.from = "series" <=> l.of \in Series)
  /\ l.at = "parse" => l.from = "series" /\ ~l.fails

DetailTypes ==
  /\ root \in Dt!Bindings /\ bound \in Dt!Bindings
  /\ paneD \in Dt!Bindings /\ commitsD \in Dt!Bindings
  /\ loaded \in BOOLEAN /\ loadingD \in BOOLEAN /\ worktree \in BOOLEAN
  /\ errorD \in {"none", "missing", "load"}
  /\ changes \in 0 .. MaxChanges
  /\ generationD \in Nat /\ generationD <= changes + 1
  /\ \A l \in loads : LoadSound(l)
  /\ opened \subseteq Dt!Commit

\* The newest load is one, and it is of what the panel is bound to unless the
\* pull request has gone missing since.
NewestLoad ==
  \A l \in loads : IsNewest(l) =>
    /\ \A m \in loads : IsNewest(m) => m = l
    /\ \/ bound = l.of /\ loadingD /\ errorD = "none"
       \/ bound = NoBinding /\ errorD = "missing"

\* Once it has synced, the panel is bound to the pull request of the store.
BoundToRoot ==
  IF generationD = 0 THEN bound = NoBinding /\ (loadingD \/ errorD # "none")
                     ELSE bound = root

\* What was loaded last is what is shown.
ShowsLoaded ==
  (~loadingD /\ errorD = "none") =>
    /\ bound # NoBinding /\ paneD = bound /\ commitsD = bound
    /\ worktree <=> bound \notin Series

DetailInv == DetailTypes /\ NewestLoad /\ BoundToRoot /\ ShowsLoaded

\* The panel starts in the invariant.
LEMMA DetailStarts == Dt!Init => DetailInv
<1> SUFFICES ASSUME Dt!Init  PROVE DetailInv
  OBVIOUS
<1>1. /\ loads = {} /\ opened = {} /\ loadingD = TRUE /\ generationD = 0
      /\ bound = NoBinding /\ errorD = "none" /\ changes = 0
      /\ paneD = NoBinding /\ commitsD = NoBinding /\ worktree = FALSE
  BY DEF Dt!Init
<1>2. root \in Dt!Bindings /\ loaded \in BOOLEAN
  BY DEF Dt!Init, Dt!Bindings
<1>3. MaxChanges \in Nat
  BY PanelsAssumption DEF Dt!DetailAssumption
<1>4. changes \in 0 .. MaxChanges /\ generationD \in Nat /\ generationD <= changes + 1
  BY <1>1, <1>3
<1>5. DetailTypes
  BY <1>1, <1>2, <1>4, Zenon DEF DetailTypes, Dt!Bindings
<1> QED
  BY <1>1, <1>5 DEF DetailInv, NewestLoad, BoundToRoot, ShowsLoaded

\* The three outcomes of a sync.
LEMMA DetailSyncs ==
  ASSUME NEW b, NEW isLoaded, Dt!Sync(b, isLoaded)
  PROVE  /\ UNCHANGED <<paneD, commitsD, worktree>>
         /\ b = NoBinding => Dt!SyncMissing(isLoaded)
         /\ b # NoBinding /\ b = bound =>
              UNCHANGED <<bound, loadingD, errorD, generationD, loads>>
         /\ b # NoBinding /\ b # bound => Dt!LoadDiff(b)
<1>1. CASE b = NoBinding
  BY <1>1 DEF Dt!Sync
<1>2. CASE b # NoBinding /\ b = bound
  BY <1>2 DEF Dt!Sync
<1>3. CASE b # NoBinding /\ b # bound
  BY <1>3 DEF Dt!Sync
<1> QED
  BY <1>1, <1>2, <1>3

\* It asks for one load at most.
LEMMA DetailGeneration ==
  ASSUME DetailTypes, NEW b, NEW isLoaded, Dt!Sync(b, isLoaded)
  PROVE  generationD' \in {generationD, generationD + 1}
  BY DetailSyncs DEF Dt!SyncMissing, Dt!LoadDiff

\* Binding the panel anew.
LEMMA DetailSync ==
  ASSUME DetailInv, NEW b \in Dt!Bindings, NEW isLoaded \in BOOLEAN,
         Dt!Sync(b, isLoaded), root' = b,
         NEW n \in 0 .. MaxChanges, changes' = n, generationD' <= n + 1,
         isLoaded \/ generationD = 0,
         loaded' \in BOOLEAN, opened' = opened
  PROVE  DetailInv'
<1> USE DEF Dt!Bindings
<1>0. generationD \in Nat /\ NoBinding \notin Binding /\ MaxChanges \in Nat
  BY PanelsAssumption DEF Dt!DetailAssumption, DetailInv, DetailTypes
<1>1. CASE b = NoBinding
  <2>1. Dt!SyncMissing(isLoaded) /\ UNCHANGED <<paneD, commitsD, worktree>>
    BY <1>1, DetailSyncs
  <2>2. /\ bound' = NoBinding /\ loads' = loads /\ generationD' = generationD
        /\ errorD' \in {"none", "missing"} /\ loadingD' \in BOOLEAN
        /\ errorD' = "none" => loadingD'
        /\ isLoaded => errorD' = "missing"
    BY <2>1 DEF Dt!SyncMissing, DetailInv, DetailTypes
  <2>3. DetailTypes'
    BY <2>1, <2>2 DEF DetailInv, DetailTypes, LoadSound
  <2>4. generationD = 0 => loads = {}
    BY <1>0 DEF DetailInv, DetailTypes, LoadSound, Dt!Load
  <2>5. NewestLoad'
    BY <2>2, <2>4 DEF DetailInv, NewestLoad, IsNewest
  <2> QED
    BY <1>1, <2>2, <2>3, <2>5 DEF DetailInv, BoundToRoot, ShowsLoaded
<1>2. CASE b # NoBinding /\ b = bound
  <2>1. UNCHANGED <<bound, loadingD, errorD, generationD, loads, paneD, commitsD, worktree>>
    BY <1>2, DetailSyncs
  <2>2. DetailTypes'
    BY <2>1 DEF DetailInv, DetailTypes, LoadSound
  <2> QED
    BY <1>2, <2>1, <2>2 DEF DetailInv, NewestLoad, IsNewest, BoundToRoot, ShowsLoaded
<1>3. CASE b # NoBinding /\ b # bound
  <2>1. Dt!LoadDiff(b) /\ UNCHANGED <<paneD, commitsD, worktree>>
    BY <1>3, DetailSyncs
  <2> DEFINE new == [g |-> generationD', of |-> b, at |-> "parse",
                     from |-> "series", fails |-> FALSE]
  <2>2. /\ bound' = b /\ loadingD' = TRUE /\ errorD' = "none"
        /\ generationD' = generationD + 1 /\ loads' = loads \cup {new}
    BY <2>1 DEF Dt!LoadDiff
  <2>3. \A l \in loads : LoadSound(l)' /\ ~IsNewest(l)'
    BY <1>0, <2>2 DEF DetailInv, DetailTypes, LoadSound, IsNewest, Dt!Load
  <2>4. ASSUME NEW l, l = new  PROVE LoadSound(l)' /\ IsNewest(l)' /\ l.of = b
    <3>1. b \in Binding
      BY <1>3
    <3>2. generationD' \in Nat /\ generationD' <= MaxChanges + 1 /\ generationD' # 0
      BY <1>0, <2>2
    <3>3. generationD' \in 1 .. MaxChanges + 1
      BY <1>0, <3>2
    <3> QED
      BY <1>0, <2>2, <2>4, <3>1, <3>3 DEF LoadSound, IsNewest, Dt!Load
  <2>5. DetailTypes'
    BY <2>1, <2>2, <2>3, <2>4 DEF DetailInv, DetailTypes
  <2>6. NewestLoad'
    BY <2>2, <2>3, <2>4 DEF NewestLoad
  <2> QED
    BY <1>0, <2>2, <2>5, <2>6 DEF DetailInv, BoundToRoot, ShowsLoaded
<1> QED
  BY <1>1, <1>2, <1>3

\* A load goes on, and stays what it was.
LEMMA DetailLoadMoves ==
  ASSUME DetailInv, NEW l \in loads, NEW m, Dt!Becomes(l, m), LoadSound(m),
         m.g = l.g, m.of = l.of,
         UNCHANGED <<root, loaded, Dt!view, opened, changes>>
  PROVE  DetailInv'
<1>1. DetailTypes'
  BY DEF DetailInv, DetailTypes, LoadSound, Dt!Becomes, Dt!view
<1>2. NewestLoad'
  BY DEF DetailInv, NewestLoad, IsNewest, Dt!Becomes, Dt!view
<1> QED
  BY <1>1, <1>2 DEF DetailInv, BoundToRoot, ShowsLoaded, Dt!view

\* A load that lands keeps the invariant, whether it is the newest or not.
LEMMA DetailLands ==
  ASSUME DetailInv, NEW l \in loads, Dt!Lands(l)  PROVE DetailInv'
<1>1. CASE Dt!Newest(l)
  <2>1. /\ loads' = loads \ {l} /\ loadingD' = FALSE
        /\ worktree' = (l.from = "mirror" /\ ~l.fails)
        /\ commitsD' = IF l.from = "mirror" /\ l.fails THEN NoBinding ELSE l.of
        /\ l.fails => errorD' = "load" /\ paneD' = paneD
        /\ ~l.fails => paneD' = l.of /\ errorD' = errorD
        /\ UNCHANGED <<bound, generationD, root, loaded, opened, changes>>
        /\ l.at = "land" /\ IsNewest(l)
    BY <1>1 DEF Dt!Lands, Dt!Newest, IsNewest
  <2>2. LoadSound(l) /\ l.of \in Binding /\ l.fails \in BOOLEAN
        /\ l.from \in {"series", "mirror"}
    BY DEF DetailInv, DetailTypes, LoadSound, Dt!Load
  <2>3. DetailTypes'
    BY <2>1, <2>2 DEF DetailInv, DetailTypes, LoadSound, Dt!Bindings
  <2>4. NewestLoad'
    BY <2>1 DEF DetailInv, NewestLoad, IsNewest
  <2>5. BoundToRoot'
    BY <2>1, <2>2 DEF DetailInv, DetailTypes, BoundToRoot, NewestLoad, LoadSound, IsNewest, Dt!Load
  <2>6. ShowsLoaded'
    BY <2>1, <2>2, PanelsAssumption
    DEF DetailInv, ShowsLoaded, NewestLoad, LoadSound, Dt!DetailAssumption
  <2> QED
    BY <2>3, <2>4, <2>5, <2>6 DEF DetailInv
<1>2. CASE ~Dt!Newest(l)
  <2>1. loads' = loads \ {l} /\ UNCHANGED <<root, loaded, Dt!view, opened, changes>>
    BY <1>2 DEF Dt!Lands
  <2>2. DetailTypes'
    BY <2>1 DEF DetailInv, DetailTypes, LoadSound, Dt!view
  <2> QED
    BY <2>1, <2>2 DEF DetailInv, NewestLoad, IsNewest, BoundToRoot, ShowsLoaded, Dt!view
<1> QED
  BY <1>1, <1>2

\* Every step of the panel keeps the invariant.
LEMMA DetailSteps == DetailInv /\ [Dt!Next]_dt => DetailInv'
<1> SUFFICES ASSUME DetailInv, [Dt!Next]_dt  PROVE DetailInv'
  OBVIOUS
<1>0. MaxChanges \in Nat /\ changes \in 0 .. MaxChanges
      /\ generationD \in Nat /\ generationD <= changes + 1 /\ loaded \in BOOLEAN
      /\ root \in Dt!Bindings
  BY PanelsAssumption DEF Dt!DetailAssumption, DetailInv, DetailTypes
<1>1. CASE Dt!FirstSync
  <2>1. Dt!Sync(root, loaded) /\ UNCHANGED <<root, loaded, opened, changes>>
        /\ generationD = 0
    BY <1>1 DEF Dt!FirstSync
  <2>2. generationD' <= changes' + 1
    BY <1>0, <2>1, DetailGeneration DEF DetailInv
  <2> QED
    BY <1>0, <2>1, <2>2, DetailSync
<1>2. CASE Dt!OpenCommit
  <2>1. UNCHANGED <<root, loaded, Dt!view, loads, changes>> /\ commitsD \in Binding
    BY <1>2 DEF Dt!OpenCommit, DetailInv, DetailTypes, Dt!Bindings
  <2>2. PICK n \in 1 .. MaxOpens : opened' = opened \cup
          {[n |-> n, of |-> commitsD, loading |-> TRUE, shows |-> FALSE]}
    BY <1>2 DEF Dt!OpenCommit
  <2>3. opened' \subseteq Dt!Commit
    <3>1. [n |-> n, of |-> commitsD, loading |-> TRUE, shows |-> FALSE] \in Dt!Commit
      BY <2>1 DEF Dt!Commit
    <3> QED
      BY <2>2, <3>1 DEF DetailInv, DetailTypes
  <2>4. DetailTypes'
    BY <2>1, <2>3 DEF DetailInv, DetailTypes, LoadSound, Dt!view
  <2> QED
    BY <2>1, <2>4 DEF DetailInv, NewestLoad, IsNewest, BoundToRoot, ShowsLoaded, Dt!view
<1>3. ASSUME NEW b \in Dt!Bindings, Dt!StoreChanges(b)  PROVE DetailInv'
  <2>1. /\ Dt!Sync(b, TRUE) /\ root' = b /\ loaded' = TRUE /\ opened' = opened
        /\ changes' = changes + 1 /\ changes < MaxChanges
    BY <1>3 DEF Dt!StoreChanges
  <2>2. generationD' \in {generationD, generationD + 1}
    BY <2>1, DetailGeneration DEF DetailInv
  <2>3. generationD' <= changes' + 1 /\ changes' \in 0 .. MaxChanges
    BY <1>0, <2>1, <2>2
  <2> QED
    BY <2>1, <2>3, DetailSync
<1>4. ASSUME NEW l \in loads, Dt!Parse(l)  PROVE DetailInv'
  <2>1. LoadSound(l) /\ l.at = "parse" /\ UNCHANGED <<root, loaded, Dt!view, opened, changes>>
    BY <1>4 DEF Dt!Parse, DetailInv, DetailTypes
  <2>2. \/ \E fails \in BOOLEAN : l.of \in Series
             /\ Dt!Becomes(l, [l EXCEPT !.at = "land", !.fails = fails])
        \/ l.of \notin Series
             /\ Dt!Becomes(l, [l EXCEPT !.at = "fetch", !.from = "mirror"])
    BY <1>4 DEF Dt!Parse
  <2>3. ASSUME NEW fails \in BOOLEAN, l.of \in Series
        PROVE  LoadSound([l EXCEPT !.at = "land", !.fails = fails])
    BY <2>1, <2>3 DEF LoadSound, Dt!Load
  <2>4. ASSUME l.of \notin Series
        PROVE  LoadSound([l EXCEPT !.at = "fetch", !.from = "mirror"])
    BY <2>1, <2>4 DEF LoadSound, Dt!Load
  <2>5. \A fails \in BOOLEAN : LET m == [l EXCEPT !.at = "land", !.fails = fails]
                              IN m.g = l.g /\ m.of = l.of
    BY <2>1 DEF LoadSound, Dt!Load
  <2>6. LET m == [l EXCEPT !.at = "fetch", !.from = "mirror"]
        IN m.g = l.g /\ m.of = l.of
    BY <2>1 DEF LoadSound, Dt!Load
  <2> QED
    BY <2>1, <2>2, <2>3, <2>4, <2>5, <2>6, DetailLoadMoves
<1>5. ASSUME NEW l \in loads, Dt!Fetch(l)  PROVE DetailInv'
  <2>1. LoadSound(l) /\ l.at = "fetch" /\ UNCHANGED <<root, loaded, Dt!view, opened, changes>>
    BY <1>5 DEF Dt!Fetch, DetailInv, DetailTypes
  <2>2. PICK fails \in BOOLEAN : Dt!Becomes(l, [l EXCEPT !.at = "land", !.fails = fails])
    BY <1>5 DEF Dt!Fetch
  <2> DEFINE m == [l EXCEPT !.at = "land", !.fails = fails]
  <2>3. LoadSound(m) /\ m.g = l.g /\ m.of = l.of
    BY <2>1 DEF LoadSound, Dt!Load
  <2> QED
    BY <2>1, <2>2, <2>3, DetailLoadMoves
<1>6. ASSUME NEW l \in loads, Dt!Lands(l)  PROVE DetailInv'
  BY <1>6, DetailLands
<1>7. ASSUME NEW c \in opened, Dt!CommitLands(c)  PROVE DetailInv'
  <2>1. UNCHANGED <<root, loaded, Dt!view, loads, changes>>
    BY <1>7 DEF Dt!CommitLands
  <2>2. opened' \subseteq Dt!Commit
    BY <1>7 DEF Dt!CommitLands, DetailInv, DetailTypes, Dt!Commit
  <2>3. DetailTypes'
    BY <2>1, <2>2 DEF DetailInv, DetailTypes, LoadSound, Dt!view
  <2> QED
    BY <2>1, <2>3 DEF DetailInv, NewestLoad, IsNewest, BoundToRoot, ShowsLoaded, Dt!view
<1>8. CASE UNCHANGED dt
  <2>1. DetailTypes'
    BY <1>8 DEF DetailInv, DetailTypes, LoadSound, dt
  <2> QED
    BY <1>8, <2>1 DEF DetailInv, NewestLoad, IsNewest, BoundToRoot, ShowsLoaded, dt
<1> QED
  BY <1>1, <1>2, <1>3, <1>4, <1>5, <1>6, <1>7, <1>8 DEF Dt!Next

\* The steps of the other panels leave it alone.
LEMMA DetailInvariance == PanelsSpec => []DetailInv
<1>1. PanelsInit => DetailInv
  BY DetailStarts DEF PanelsInit
<1>2. DetailInv /\ [PanelsNext]_<<panel, vars, wt, pv, dt, pf, rs>> => DetailInv'
  BY DetailSteps DEF PanelsNext, dt
<1> QED
  BY <1>1, <1>2, PTL DEF PanelsSpec

\* At rest the panel of a pull request shows the version it is bound to, whatever
\* loads of earlier bindings land after the newest one (DetailView::rebind).
THEOREM PanelShowsWhatItIsBoundTo == PanelsSpec => []PanelShowsBound
<1>1. DetailInv => PanelShowsBound
  BY DEF DetailInv, DetailTypes, BoundToRoot, ShowsLoaded, PanelShowsBound, Dt!PanelShowsBound
<1> QED
  BY <1>1, DetailInvariance, PTL

-----------------------------------------------------------------------------
(* What was read (ReadState) *)

\* A set of naturals has a least element.
LEMMA LeastNatural ==
  ASSUME NEW S \in SUBSET Nat, S # {}
  PROVE  \E m \in S : \A k \in S : m <= k
<1>1. PICK m \in S : \A k \in S : <<k, m>> \notin OpToRel(<, Nat)
  BY NatLessThanWellFounded, WFMin
<1>2. \A k \in S : ~ (k < m)
  BY <1>1 DEF OpToRel
<1> QED
  BY <1>2

MarksInv ==
  /\ now \in 1 .. MaxTime /\ all \in [Id -> 0 .. MaxTime]
  /\ \A e \in Id : all[e] <= now
  /\ marks \in [Rs!Sort -> [before : Nat, ids : SUBSET Id]]
  /\ \A s \in Rs!Sort : marks[s].before <= now

\* The cutoff an advance chooses is not in the future.
LEMMA CandidateIsPast ==
  ASSUME MarksInv, NEW m
  PROVE  Rs!Candidate(m) \in Nat /\ Rs!Candidate(m) <= now
<1> DEFINE fallback == Rs!Minus(now, AdvanceWindow)
           unmarked == {all[e] : e \in {x \in Rs!Arrived : ~Rs!Marked(m, x)}}
           at == CHOOSE i \in unmarked : \A b \in unmarked : i <= b
<1>1. now \in Nat /\ MaxTime \in Nat /\ AdvanceWindow \in Nat
  BY PanelsAssumption DEF Rs!ReadStateAssumption, MarksInv
<1>2. fallback \in Nat /\ fallback <= now
  BY <1>1 DEF Rs!Minus
<1>3. unmarked \in SUBSET Nat
  BY <1>1 DEF MarksInv, Rs!Arrived
<1>4. ASSUME NEW i \in unmarked, i < fallback
      PROVE  Rs!Minus(at, 1) \in Nat /\ Rs!Minus(at, 1) <= now
  <2>1. at \in unmarked /\ \A b \in unmarked : at <= b
    BY <1>3, <1>4, LeastNatural
  <2>2. at \in Nat /\ at <= i /\ i \in Nat
    BY <1>3, <2>1, <1>4
  <2> HIDE DEF at, fallback, unmarked
  <2> QED
    BY <1>1, <1>2, <1>4, <2>2 DEF Rs!Minus
<1>5. Rs!Candidate(m) = IF \E i \in unmarked : i < fallback
                          THEN Rs!Minus(at, 1) ELSE fallback
  BY DEF Rs!Candidate
<1> HIDE DEF at, fallback, unmarked
<1> QED
  BY <1>2, <1>4, <1>5

\* Advancing neither goes back nor into the future.
LEMMA CutoffAdvances ==
  ASSUME MarksInv, NEW s \in Rs!Sort
  PROVE  /\ Rs!Cutoff(marks[s]) \in Nat /\ Rs!Cutoff(marks[s]) <= now
         /\ marks[s].before <= Rs!Cutoff(marks[s])
<1>1. Rs!Candidate(marks[s]) \in Nat /\ Rs!Candidate(marks[s]) <= now
  BY CandidateIsPast
<1>2. marks[s].before \in Nat /\ marks[s].before <= now
  BY DEF MarksInv
<1> QED
  BY <1>1, <1>2 DEF Rs!Cutoff

\* The marks start in the invariant.
LEMMA MarksStart == Rs!Init => MarksInv
<1> SUFFICES ASSUME Rs!Init  PROVE MarksInv
  OBVIOUS
<1>1. MaxTime \in Nat \ {0}
  BY PanelsAssumption DEF Rs!ReadStateAssumption
<1> QED
  BY <1>1 DEF Rs!Init, MarksInv, Rs!Sort

\* Every step of the marks keeps the invariant.
LEMMA MarksSteps == MarksInv /\ [Rs!Next]_rs => MarksInv'
<1> SUFFICES ASSUME MarksInv, [Rs!Next]_rs  PROVE MarksInv'
  OBVIOUS
<1> USE DEF MarksInv
<1>0. MaxTime \in Nat /\ MarkAllWindow \in Nat /\ now \in Nat
  BY PanelsAssumption DEF Rs!ReadStateAssumption
<1>1. CASE Rs!MarkAllRead
  <2> DEFINE cutoff == Rs!Minus(now, MarkAllWindow)
             m == [before |-> cutoff, ids |-> {e \in Rs!Arrived : all[e] > cutoff}]
  <2>1. marks' = [marks EXCEPT !["read"] = m] /\ UNCHANGED <<now, all>>
    BY <1>1 DEF Rs!MarkAllRead
  <2>2. cutoff \in Nat /\ cutoff <= now
    BY <1>0 DEF Rs!Minus
  <2>3. m \in [before : Nat, ids : SUBSET Id] /\ m.before <= now
    BY <2>2 DEF Rs!Arrived
  <2> HIDE DEF m
  <2> QED
    BY <2>1, <2>3
<1>2. CASE Rs!Tick
  BY <1>0, <1>2 DEF Rs!Tick
<1>3. ASSUME NEW e \in Id, Rs!Arrive(e)  PROVE MarksInv'
  <2>1. PICK at \in 1 .. now : all' = [all EXCEPT ![e] = at]
    BY <1>3 DEF Rs!Arrive
  <2> QED
    BY <1>0, <1>3, <2>1 DEF Rs!Arrive
<1>4. ASSUME NEW s \in Rs!Sort, Rs!Advance(s)  PROVE MarksInv'
  <2> DEFINE m == Rs!Advanced(marks[s])
  <2>1. marks' = [marks EXCEPT ![s] = m] /\ UNCHANGED <<now, all>>
    BY <1>4 DEF Rs!Advance
  <2>2. m \in [before : Nat, ids : SUBSET Id] /\ m.before <= now
    BY CutoffAdvances DEF Rs!Advanced, Rs!Pruned, Rs!Arrived
  <2> HIDE DEF m
  <2> QED
    BY <2>1, <2>2
<1>5. ASSUME NEW s \in Rs!Sort, NEW e \in Id, Rs!Mark(s, e)  PROVE MarksInv'
  BY <1>5 DEF Rs!Mark
<1>6. CASE UNCHANGED rs
  BY <1>6 DEF rs
<1> QED
  BY <1>1, <1>2, <1>3, <1>4, <1>5, <1>6 DEF Rs!Next

\* An id leaves the set only for the cutoff.
LEMMA NothingUnmarked ==
  ASSUME MarksInv, [Rs!Next]_rs, NEW s \in Rs!Sort, NEW e \in Rs!Arrived,
         Rs!Marked(marks[s], e)
  PROVE  Rs!Marked(marks'[s], e)
<1>0. /\ all[e] \in Nat /\ e \in Id /\ marks[s].before \in Nat
      /\ marks \in [Rs!Sort -> [before : Nat, ids : SUBSET Id]]
      /\ all[e] <= marks[s].before \/ e \in marks[s].ids
      /\ now \in Nat /\ MarkAllWindow \in Nat
  BY PanelsAssumption DEF Rs!ReadStateAssumption, MarksInv, Rs!Arrived, Rs!Marked
<1>1. CASE Rs!MarkAllRead
  <2> DEFINE cutoff == Rs!Minus(now, MarkAllWindow)
             m == [before |-> cutoff, ids |-> {x \in Rs!Arrived : all[x] > cutoff}]
  <2>1. marks' = [marks EXCEPT !["read"] = m]
    BY <1>1 DEF Rs!MarkAllRead
  <2>2. cutoff \in Nat
    BY <1>0 DEF Rs!Minus
  <2>3. Rs!Marked(m, e)
    BY <1>0, <2>2 DEF Rs!Marked
  <2> HIDE DEF m
  <2> QED
    BY <1>0, <2>1, <2>3 DEF Rs!Marked
<1>2. ASSUME NEW r \in Rs!Sort, Rs!Advance(r)  PROVE Rs!Marked(marks'[s], e)
  <2> DEFINE m == Rs!Advanced(marks[s])
  <2>1. marks'[s] = m \/ marks'[s] = marks[s]
    BY <1>0, <1>2 DEF Rs!Advance
  <2>2. Rs!Cutoff(marks[s]) \in Nat /\ marks[s].before <= Rs!Cutoff(marks[s])
    BY CutoffAdvances
  <2>3. Rs!Marked(m, e)
    BY <1>0, <2>2 DEF Rs!Marked, Rs!Advanced, Rs!Pruned
  <2> QED
    BY <2>1, <2>3
<1>3. ASSUME NEW r \in Rs!Sort, NEW x \in Id, Rs!Mark(r, x)
      PROVE  Rs!Marked(marks'[s], e)
  BY <1>0, <1>3 DEF Rs!Mark, Rs!Marked
<1>4. CASE UNCHANGED marks
  BY <1>4
<1> QED
  BY <1>1, <1>2, <1>3, <1>4 DEF Rs!Next, Rs!Tick, Rs!Arrive, rs

\* The steps of the panels leave it alone.
LEMMA MarksInvariance == PanelsSpec => []MarksInv
<1>1. PanelsInit => MarksInv
  BY MarksStart DEF PanelsInit
<1>2. MarksInv /\ [PanelsNext]_<<panel, vars, wt, pv, dt, pf, rs>> => MarksInv'
  BY MarksSteps DEF PanelsNext, rs
<1> QED
  BY <1>1, <1>2, PTL DEF PanelsSpec

\* What was marked as read stays marked: an advance of the cutoff forgets only ids
\* that the new cutoff covers (ReadState::advance).
THEOREM WhatIsMarkedStays == PanelsSpec => Rs!MarksAreKept
<1>1. ASSUME MarksInv, [PanelsNext]_<<panel, vars, wt, pv, dt, pf, rs>>
      PROVE  [\A s \in Rs!Sort, e \in Rs!Arrived :
                Rs!Marked(marks[s], e) => Rs!Marked(marks'[s], e)]_(Rs!vars)
  <2>1. [Rs!Next]_rs
    BY <1>1 DEF PanelsNext, rs
  <2> QED
    BY <1>1, <2>1, NothingUnmarked DEF rs, Rs!vars
<1> QED
  BY <1>1, MarksInvariance, PTL DEF PanelsSpec, Rs!MarksAreKept

-----------------------------------------------------------------------------
(* The profiles (Profiles) *)

ProfileTypes ==
  /\ stored \in [Author -> 0 .. MaxVersion] /\ news \subseteq Author
  /\ inFlight \subseteq Author /\ queue \subseteq Author /\ batch \subseteq Author
  /\ syncing \in BOOLEAN
  /\ profiles \in [Directory -> [Author -> 0 .. MaxVersion]]
  /\ pendingF \in [Directory -> SUBSET Author]
  /\ loadsF \in [Directory -> SUBSET Pf!Load]

Named(d) == Pf!Known(d) \cup pendingF[d]

\* Neither a panel nor a load has what the database never had, and what a panel
\* loads it names.
NothingInvented ==
  \A d \in Directory :
    /\ \A a \in Author : profiles[d][a] <= stored[a]
    /\ \A l \in loadsF[d] : l.keys \subseteq Named(d)
                           /\ \A a \in Author : l.found[a] <= stored[a]

\* A load of a that will bring what is stored.
Brings(l, a) == a \in l.keys /\ (l.at = "query" \/ l.found[a] = stored[a])

\* A profile that a panel does not show as stored is on its way to it.
OnItsWay(d, a) ==
  \/ profiles[d][a] = stored[a]
  \/ a \in news \cup queue \cup batch
  \/ \E l \in loadsF[d] : Brings(l, a)

Delivered ==
  \A d \in Directory \ outrun, a \in Author :
    (a \in Named(d) /\ <<d, a>> \notin failed) => OnItsWay(d, a)

ProfilesInv == ProfileTypes /\ Pf!NobodyLockedOut /\ NothingInvented /\ Delivered

\* The profiles start in the invariant.
LEMMA ProfilesStart == Pf!Init => ProfilesInv
<1> SUFFICES ASSUME Pf!Init  PROVE ProfilesInv
  OBVIOUS
<1>1. MaxVersion \in Nat \ {0}
  BY PanelsAssumption DEF Pf!ProfilesAssumption
<1>2. /\ news = {} /\ inFlight = {} /\ queue = {} /\ batch = {} /\ syncing = FALSE
      /\ profiles = [d \in Directory |-> Pf!NoProfile]
      /\ pendingF = [d \in Directory |-> {}] /\ loadsF = [d \in Directory |-> {}]
  BY DEF Pf!Init
<1>3. stored \in [Author -> 0 .. MaxVersion]
  BY <1>1 DEF Pf!Init
<1>4. Pf!NoProfile \in [Author -> 0 .. MaxVersion] /\ \A a \in Author : Pf!NoProfile[a] = 0
  BY <1>1 DEF Pf!NoProfile
<1>5. ProfileTypes
  BY <1>2, <1>3, <1>4 DEF ProfileTypes
<1>6. \A d \in Directory : Named(d) = {}
  BY <1>2, <1>4 DEF Named, Pf!Known
<1>7. NothingInvented
  BY <1>2, <1>3, <1>4 DEF NothingInvented
<1> QED
  BY <1>2, <1>5, <1>6, <1>7 DEF ProfilesInv, Pf!NobodyLockedOut, Delivered

\* Loading adds one load, which asks the database anew.
LEMMA LoadingAdds ==
  ASSUME ProfileTypes, NEW d \in Directory, Pf!Room(d), NEW keys \in SUBSET Author,
         NEW queues \in BOOLEAN
  PROVE  \E l \in Pf!Load :
           /\ l.keys = keys /\ l.at = "query" /\ l.found = Pf!NoProfile
           /\ Pf!Loading(d, keys, queues) = [loadsF EXCEPT ![d] = @ \cup {l}]
<1> DEFINE used == {l.n : l \in loadsF[d]}
           n == CHOOSE i \in 1 .. MaxLoads : i \notin used
           l == [n |-> n, keys |-> keys, queues |-> queues, at |-> "query",
                 found |-> Pf!NoProfile]
<1>1. \E i \in 1 .. MaxLoads : i \notin used
  BY DEF Pf!Room
<1>2. n \in 1 .. MaxLoads
  BY <1>1
<1>3. Pf!NoProfile \in [Author -> 0 .. MaxVersion]
  BY PanelsAssumption DEF Pf!ProfilesAssumption, Pf!NoProfile
<1>4. Pf!Loading(d, keys, queues) = [loadsF EXCEPT ![d] = @ \cup {l}]
  BY DEF Pf!Loading
<1> HIDE DEF n
<1>5. l \in Pf!Load
  BY <1>2, <1>3 DEF Pf!Load
<1> QED
  BY <1>4, <1>5

\* A query answers with what is stored at that moment.
LEMMA QueryKeeps ==
  ASSUME ProfilesInv, NEW d \in Directory, NEW l \in loadsF[d], Pf!Query(d, l)
  PROVE  ProfilesInv'
<1> DEFINE m == [l EXCEPT !.at = "land",
                   !.found = [a \in Author |-> IF a \in l.keys THEN stored[a] ELSE 0]]
<1>1. /\ loadsF' = [loadsF EXCEPT ![d] = (@ \ {l}) \cup {m}]
      /\ UNCHANGED <<stored, news, inFlight, queue, batch, syncing, profiles, pendingF,
                     outrun, failed>>
      /\ l.at = "query"
  BY DEF Pf!Query, Pf!store, Pf!ghosts
<1>2. l \in Pf!Load /\ stored \in [Author -> 0 .. MaxVersion] /\ MaxVersion \in Nat
      /\ l.keys \in SUBSET Author
  BY PanelsAssumption DEF Pf!ProfilesAssumption, ProfilesInv, ProfileTypes, Pf!Load
<1>3. /\ m.keys = l.keys /\ m.at = "land"
      /\ m.found = [a \in Author |-> IF a \in l.keys THEN stored[a] ELSE 0]
      /\ m.n = l.n /\ m.queues = l.queues
  BY <1>2 DEF Pf!Load
<1>4. m \in Pf!Load
  <2>1. [a \in Author |-> IF a \in l.keys THEN stored[a] ELSE 0] \in [Author -> 0 .. MaxVersion]
    BY <1>2
  <2> QED
    BY <1>2, <2>1 DEF Pf!Load
<1>5. \A a \in Author : m.found[a] <= stored[a] /\ (a \in l.keys => m.found[a] = stored[a])
  BY <1>2, <1>3
<1> HIDE DEF m
<1>6. /\ loadsF \in [Directory -> SUBSET Pf!Load]
      /\ loadsF'[d] = (loadsF[d] \ {l}) \cup {m}
      /\ \A e \in Directory : e # d => loadsF'[e] = loadsF[e]
  BY <1>1 DEF ProfilesInv, ProfileTypes
<1>7. ProfileTypes'
  BY <1>1, <1>4 DEF ProfilesInv, ProfileTypes
<1>8. \A e \in Directory : Named(e)' = Named(e)
  BY <1>1 DEF Named, Pf!Known
<1>9. NothingInvented'
  BY <1>1, <1>3, <1>5, <1>6, <1>8 DEF ProfilesInv, NothingInvented
<1>10. ASSUME NEW e \in Directory, NEW a \in Author, OnItsWay(e, a)  PROVE OnItsWay(e, a)'
  <2>1. ASSUME NEW k \in loadsF[e], Brings(k, a)
        PROVE  \E j \in loadsF'[e] : Brings(j, a)'
    <3>1. CASE e # d \/ k # l
      BY <1>1, <1>6, <2>1, <3>1 DEF Brings
    <3>2. CASE e = d /\ k = l
      BY <1>1, <1>3, <1>5, <1>6, <2>1, <3>2 DEF Brings
    <3> QED
      BY <3>1, <3>2
  <2> QED
    BY <1>1, <1>10, <2>1 DEF OnItsWay
<1> QED
  BY <1>1, <1>7, <1>8, <1>9, <1>10 DEF ProfilesInv, Pf!NobodyLockedOut, Delivered

\* Loads are added, for keys the panels name from then on; the store frees none
\* of the keys it does not await.
LEMMA MoreLoads ==
  ASSUME ProfilesInv, ProfileTypes', Pf!NobodyLockedOut', profiles' = profiles,
         outrun' = outrun, failed' = failed,
         \A a \in Author : stored'[a] >= stored[a],
         NEW reloads \in SUBSET Author,
         \A a \in Author \ reloads :
           /\ stored'[a] = stored[a]
           /\ a \in news \cup queue \cup batch => a \in (news \cup queue \cup batch)',
         \A d \in Directory :
           /\ pendingF[d] \subseteq pendingF'[d] /\ loadsF[d] \subseteq loadsF'[d]
           /\ \A l \in loadsF'[d] \ loadsF[d] :
                /\ l.at = "query" /\ l.found = Pf!NoProfile
                /\ l.keys \subseteq Named(d)'
           /\ \A a \in Author : (a \in Named(d)' /\ (a \in reloads \/ a \notin Named(d)))
                => OnItsWay(d, a)'
  PROVE  ProfilesInv'
<1>1. \A d \in Directory : Named(d) \subseteq Named(d)'
  BY DEF Named, Pf!Known
<1>2. \A a \in Author : stored[a] \in Nat /\ stored'[a] \in Nat
  BY PanelsAssumption DEF Pf!ProfilesAssumption, ProfilesInv, ProfileTypes
<1>3. NothingInvented'
  <2>1. ASSUME NEW d \in Directory, NEW a \in Author  PROVE profiles'[d][a] <= stored'[a]
    <3>1. profiles[d][a] <= stored[a] /\ profiles[d][a] \in Nat
      BY PanelsAssumption DEF Pf!ProfilesAssumption, ProfilesInv, ProfileTypes, NothingInvented
    <3> QED
      BY <1>2, <3>1
  <2>2. ASSUME NEW d \in Directory, NEW l \in loadsF'[d]
        PROVE  l.keys \subseteq Named(d)' /\ \A a \in Author : l.found[a] <= stored'[a]
    <3>1. CASE l \in loadsF[d]
      <4>1. ASSUME NEW a \in Author  PROVE l.found[a] <= stored'[a]
        <5>1. l.found[a] <= stored[a] /\ l.found[a] \in Nat
          BY <3>1, PanelsAssumption
          DEF Pf!ProfilesAssumption, ProfilesInv, ProfileTypes, NothingInvented, Pf!Load
        <5> QED
          BY <1>2, <5>1
      <4> QED
        BY <1>1, <3>1, <4>1 DEF ProfilesInv, NothingInvented
    <3>2. CASE l \notin loadsF[d]
      BY <1>2, <3>2 DEF Pf!NoProfile
    <3> QED
      BY <3>1, <3>2
  <2> QED
    BY <2>1, <2>2 DEF NothingInvented
<1>4. ASSUME NEW d \in Directory, NEW a \in Author, a \notin reloads, OnItsWay(d, a)
      PROVE  OnItsWay(d, a)'
  BY <1>4 DEF OnItsWay, Brings
<1>5. Delivered'
  BY <1>4 DEF ProfilesInv, Delivered
<1> QED
  BY <1>3, <1>5 DEF ProfilesInv

\* A directory that names somebody asks the database, or already has.
LEMMA TrackKeeps ==
  ASSUME ProfilesInv, NEW d \in Directory, NEW keys \in SUBSET Author, Pf!Track(d, keys)
  PROVE  ProfilesInv'
<1> DEFINE missing == keys \ (Pf!Known(d) \cup pendingF[d])
<1>1. /\ missing \in SUBSET Author /\ Pf!Room(d)
      /\ pendingF' = [pendingF EXCEPT ![d] = pendingF[d] \cup missing]
      /\ loadsF' = Pf!Loading(d, missing, TRUE)
      /\ UNCHANGED <<stored, news, inFlight, queue, batch, syncing, profiles, outrun, failed>>
  BY DEF Pf!Track, Pf!Awaited, Pf!store, Pf!ghosts
<1> HIDE DEF missing
<1>0. ProfileTypes /\ TRUE \in BOOLEAN
  BY DEF ProfilesInv
<1>a. PICK l \in Pf!Load :
        /\ l.keys = missing /\ l.at = "query" /\ l.found = Pf!NoProfile
        /\ Pf!Loading(d, missing, TRUE) = [loadsF EXCEPT ![d] = @ \cup {l}]
  BY <1>0, <1>1, LoadingAdds
<1>2. /\ l.keys = missing /\ l.at = "query" /\ l.found = Pf!NoProfile
      /\ loadsF' = [loadsF EXCEPT ![d] = @ \cup {l}]
  BY <1>1, <1>a
<1>3. /\ loadsF \in [Directory -> SUBSET Pf!Load]
      /\ pendingF \in [Directory -> SUBSET Author]
  BY <1>0 DEF ProfileTypes
<1>4. ProfileTypes' /\ Pf!NobodyLockedOut'
  <2>1. loadsF' \in [Directory -> SUBSET Pf!Load]
    BY <1>2, <1>3
  <2>2. pendingF' \in [Directory -> SUBSET Author]
    BY <1>1, <1>3
  <2> QED
    BY <1>1, <2>1, <2>2 DEF ProfilesInv, ProfileTypes, Pf!NobodyLockedOut
<1>5. \A e \in Directory : e # d =>
        loadsF'[e] = loadsF[e] /\ pendingF'[e] = pendingF[e] /\ Named(e)' = Named(e)
  BY <1>1, <1>2, <1>3 DEF Named, Pf!Known
<1>6. /\ loadsF'[d] = loadsF[d] \cup {l} /\ pendingF'[d] = pendingF[d] \cup missing
      /\ Named(d)' = Named(d) \cup missing
  BY <1>1, <1>2, <1>3 DEF Named, Pf!Known
<1>7. \A a \in missing : OnItsWay(d, a)'
  BY <1>2, <1>6 DEF OnItsWay, Brings
<1>8. \A a \in Author : stored'[a] >= stored[a]
  BY <1>1, PanelsAssumption DEF Pf!ProfilesAssumption, ProfilesInv, ProfileTypes
<1>9. ASSUME NEW e \in Directory
      PROVE  /\ pendingF[e] \subseteq pendingF'[e] /\ loadsF[e] \subseteq loadsF'[e]
             /\ \A k \in loadsF'[e] \ loadsF[e] :
                  /\ k.at = "query" /\ k.found = Pf!NoProfile
                  /\ k.keys \subseteq Named(e)'
             /\ \A a \in Author : (a \in Named(e)' /\ (a \in {} \/ a \notin Named(e)))
                  => OnItsWay(e, a)'
  BY <1>2, <1>5, <1>6, <1>7
<1>10. \A x \in Author \ {} :
         /\ stored'[x] = stored[x]
         /\ x \in news \cup queue \cup batch => x \in (news \cup queue \cup batch)'
  BY <1>1
<1>11. {} \in SUBSET Author /\ UNCHANGED <<profiles, outrun, failed>>
  BY <1>1
<1> QED
  BY <1>4, <1>8, <1>9, <1>10, <1>11, MoreLoads

\* Fetching locks nobody out, and awaits everybody it is asked for.
LEMMA FetchAwaits ==
  ASSUME Pf!NobodyLockedOut, ProfileTypes, NEW keys \in SUBSET Author, Pf!Fetch(keys),
         batch' = batch
  PROVE  /\ Pf!NobodyLockedOut' /\ keys \subseteq (queue \cup batch)'
         /\ queue \subseteq queue' /\ queue' \subseteq Author /\ inFlight' \subseteq Author
  BY DEF Pf!NobodyLockedOut, Pf!Fetch, Pf!NewKeys, ProfileTypes

\* A panel that renders names whom it shows.
LEMMA RenderKeeps ==
  ASSUME ProfilesInv, NEW d \in Directory, NEW a \in Author, Pf!Render(d, a)
  PROVE  ProfilesInv'
<1>1. /\ pendingF' = [pendingF EXCEPT ![d] = @ \cup {a}] /\ Pf!Fetch({a})
      /\ UNCHANGED <<stored, news, batch, syncing, profiles, loadsF, outrun, failed>>
  BY DEF Pf!Render, Pf!ghosts
<1>2. /\ Pf!NobodyLockedOut' /\ a \in (queue \cup batch)'
      /\ queue \subseteq queue' /\ queue' \subseteq Author /\ inFlight' \subseteq Author
  BY <1>1, FetchAwaits DEF ProfilesInv
<1>3. ProfileTypes'
  BY <1>1, <1>2 DEF ProfilesInv, ProfileTypes
<1>4. \A x \in Author : stored'[x] >= stored[x]
  BY <1>1, PanelsAssumption DEF Pf!ProfilesAssumption, ProfilesInv, ProfileTypes
<1>5. ASSUME NEW e \in Directory
      PROVE  /\ pendingF[e] \subseteq pendingF'[e] /\ loadsF'[e] = loadsF[e]
             /\ \A x \in Author : (x \in Named(e)' /\ x \notin Named(e)) => x = a
  BY <1>1 DEF ProfilesInv, ProfileTypes, Named, Pf!Known
<1>6. \A e \in Directory : OnItsWay(e, a)'
  BY <1>2 DEF OnItsWay
<1>7. \A x \in Author \ {} :
        /\ stored'[x] = stored[x]
        /\ x \in news \cup queue \cup batch => x \in (news \cup queue \cup batch)'
  BY <1>1, <1>2
<1>8. ASSUME NEW e \in Directory
      PROVE  /\ pendingF[e] \subseteq pendingF'[e] /\ loadsF[e] \subseteq loadsF'[e]
             /\ \A k \in loadsF'[e] \ loadsF[e] :
                  /\ k.at = "query" /\ k.found = Pf!NoProfile
                  /\ k.keys \subseteq Named(e)'
             /\ \A x \in Author : (x \in Named(e)' /\ (x \in {} \/ x \notin Named(e)))
                  => OnItsWay(e, x)'
  BY <1>5, <1>6
<1>9. {} \in SUBSET Author /\ UNCHANGED <<profiles, outrun, failed>>
  BY <1>1
<1> QED
  BY <1>2, <1>3, <1>4, <1>7, <1>8, <1>9, MoreLoads

\* Telling the directories reloads whoever they name.
LEMMA UpdatedReloads ==
  ASSUME ProfilesInv, NEW keys \in SUBSET Author, Pf!Updated(keys), profiles' = profiles
  PROVE  /\ loadsF' \in [Directory -> SUBSET Pf!Load]
         /\ pendingF' \in [Directory -> SUBSET Author]
         /\ \A d \in Directory :
              /\ pendingF[d] \subseteq pendingF'[d] /\ loadsF[d] \subseteq loadsF'[d]
              /\ Named(d)' = Named(d)
              /\ \A l \in loadsF'[d] \ loadsF[d] :
                   /\ l.at = "query" /\ l.found = Pf!NoProfile
                   /\ l.keys \subseteq Named(d)'
              /\ \A a \in keys \cap Named(d) : \E l \in loadsF'[d] : Brings(l, a)'
<1> DEFINE tracked(d) == keys \cap (Pf!Known(d) \cup pendingF[d])
<1>0. /\ loadsF \in [Directory -> SUBSET Pf!Load] /\ pendingF \in [Directory -> SUBSET Author]
      /\ ProfileTypes /\ FALSE \in BOOLEAN
  BY DEF ProfilesInv, ProfileTypes
<1>1. /\ \A d \in Directory : Pf!Room(d)
      /\ pendingF' = [d \in Directory |-> pendingF[d] \cup tracked(d)]
      /\ loadsF' = [d \in Directory |->
           IF tracked(d) = {} THEN loadsF[d] ELSE Pf!Loading(d, tracked(d), FALSE)[d]]
  BY DEF Pf!Updated, Pf!Awaited
<1>2. ASSUME NEW d \in Directory
      PROVE  /\ pendingF'[d] = pendingF[d] \cup tracked(d) /\ tracked(d) \in SUBSET Author
             /\ Named(d)' = Named(d) /\ tracked(d) = keys \cap Named(d)
  BY <1>1 DEF Named, Pf!Known
<1>3. ASSUME NEW d \in Directory
      PROVE  \/ tracked(d) = {} /\ loadsF'[d] = loadsF[d]
             \/ \E l \in Pf!Load :
                  /\ l.keys = tracked(d) /\ l.at = "query" /\ l.found = Pf!NoProfile
                  /\ loadsF'[d] = loadsF[d] \cup {l}
  <2>1. CASE tracked(d) = {}
    BY <1>1, <2>1
  <2>2. CASE tracked(d) # {}
    <3>1. PICK l \in Pf!Load :
            /\ l.keys = tracked(d) /\ l.at = "query" /\ l.found = Pf!NoProfile
            /\ Pf!Loading(d, tracked(d), FALSE) = [loadsF EXCEPT ![d] = @ \cup {l}]
      BY <1>0, <1>1, <1>2, LoadingAdds
    <3>2. loadsF'[d] = Pf!Loading(d, tracked(d), FALSE)[d]
      BY <1>1, <2>2
    <3>3. loadsF'[d] = loadsF[d] \cup {l}
      BY <1>0, <3>1, <3>2
    <3> QED
      BY <3>1, <3>3
  <2> QED
    BY <2>1, <2>2
<1>4. loadsF' = [d \in Directory |-> loadsF'[d]] /\ pendingF' = [d \in Directory |-> pendingF'[d]]
  BY <1>1
<1> HIDE DEF tracked
<1>5. \A d \in Directory : loadsF'[d] \in SUBSET Pf!Load
  BY <1>0, <1>3
<1>6. \A d \in Directory : pendingF'[d] \in SUBSET Author
  BY <1>0, <1>2
<1>7. loadsF' \in [Directory -> SUBSET Pf!Load] /\ pendingF' \in [Directory -> SUBSET Author]
  BY <1>4, <1>5, <1>6
<1>8. ASSUME NEW d \in Directory
      PROVE  /\ pendingF[d] \subseteq pendingF'[d] /\ loadsF[d] \subseteq loadsF'[d]
             /\ Named(d)' = Named(d)
             /\ \A l \in loadsF'[d] \ loadsF[d] :
                  /\ l.at = "query" /\ l.found = Pf!NoProfile
                  /\ l.keys \subseteq Named(d)'
             /\ \A a \in keys \cap Named(d) : \E l \in loadsF'[d] : Brings(l, a)'
  BY <1>2, <1>3 DEF Brings
<1> QED
  BY <1>7, <1>8

\* What has changed is reloaded by every directory that names it.
LEMMA PumpKeeps == ASSUME ProfilesInv, Pf!Pump  PROVE ProfilesInv'
<1>1. /\ news' = {} /\ Pf!Updated(news) /\ inFlight' = inFlight \ news
      /\ UNCHANGED <<stored, queue, batch, syncing, profiles, outrun, failed>>
  BY DEF Pf!Pump, Pf!ghosts, Pf!Updated, Pf!Freed
<1>2. news \in SUBSET Author
  BY DEF ProfilesInv, ProfileTypes
<1>3. /\ loadsF' \in [Directory -> SUBSET Pf!Load]
      /\ pendingF' \in [Directory -> SUBSET Author]
      /\ \A d \in Directory :
           /\ pendingF[d] \subseteq pendingF'[d] /\ loadsF[d] \subseteq loadsF'[d]
           /\ Named(d)' = Named(d)
           /\ \A l \in loadsF'[d] \ loadsF[d] :
                /\ l.at = "query" /\ l.found = Pf!NoProfile
                /\ l.keys \subseteq Named(d)'
           /\ \A a \in news \cap Named(d) : \E l \in loadsF'[d] : Brings(l, a)'
  BY <1>1, <1>2, UpdatedReloads
<1>4. ProfileTypes' /\ Pf!NobodyLockedOut'
  BY <1>1, <1>3 DEF ProfilesInv, ProfileTypes, Pf!NobodyLockedOut
<1>5. \A x \in Author : stored'[x] >= stored[x]
  BY <1>1, PanelsAssumption DEF Pf!ProfilesAssumption, ProfilesInv, ProfileTypes
<1>6. ASSUME NEW d \in Directory, NEW a \in Author, a \in Named(d)',
             a \in news \/ a \notin Named(d)
      PROVE  OnItsWay(d, a)'
  BY <1>3, <1>6 DEF OnItsWay
<1>7. \A a \in Author \ news : a \in news \cup queue \cup batch => a \in (news \cup queue \cup batch)'
  BY <1>1
<1> QED
  BY <1>1, <1>2, <1>3, <1>4, <1>5, <1>6, <1>7, MoreLoads

\* The end of a synchronisation reloads everybody who was fetched.
LEMMA SyncedKeeps ==
  ASSUME ProfilesInv, NEW answer \in [Author -> 0 .. MaxVersion], Pf!Synced(answer)
  PROVE  ProfilesInv'
<1>1. /\ Pf!Updated(batch) /\ inFlight' = inFlight \ batch
      /\ stored' = answer /\ batch' = {} /\ syncing' = FALSE
      /\ news' = news \cup {a \in Author : answer[a] > stored[a]}
      /\ \A a \in Author : answer[a] >= stored[a] /\ (a \notin batch => answer[a] = stored[a])
      /\ UNCHANGED <<queue, profiles, outrun, failed>>
  BY DEF Pf!Synced, Pf!ghosts, Pf!Updated, Pf!Freed
<1>2. batch \in SUBSET Author
  BY DEF ProfilesInv, ProfileTypes
<1>3. /\ loadsF' \in [Directory -> SUBSET Pf!Load]
      /\ pendingF' \in [Directory -> SUBSET Author]
      /\ \A d \in Directory :
           /\ pendingF[d] \subseteq pendingF'[d] /\ loadsF[d] \subseteq loadsF'[d]
           /\ Named(d)' = Named(d)
           /\ \A l \in loadsF'[d] \ loadsF[d] :
                /\ l.at = "query" /\ l.found = Pf!NoProfile
                /\ l.keys \subseteq Named(d)'
           /\ \A a \in batch \cap Named(d) : \E l \in loadsF'[d] : Brings(l, a)'
  BY <1>1, <1>2, UpdatedReloads
<1>4. ProfileTypes' /\ Pf!NobodyLockedOut'
  BY <1>1, <1>3 DEF ProfilesInv, ProfileTypes, Pf!NobodyLockedOut
<1>5. \A x \in Author : stored'[x] >= stored[x]
  BY <1>1
<1>6. ASSUME NEW d \in Directory, NEW a \in Author, a \in Named(d)',
             a \in batch \/ a \notin Named(d)
      PROVE  OnItsWay(d, a)'
  BY <1>3, <1>6 DEF OnItsWay
<1>7. \A a \in Author \ batch :
        /\ stored'[a] = stored[a]
        /\ a \in news \cup queue \cup batch => a \in (news \cup queue \cup batch)'
  BY <1>1
<1> QED
  BY <1>1, <1>2, <1>3, <1>4, <1>5, <1>6, <1>7, MoreLoads

\* Nothing changes for the panels.
LEMMA StoreKeeps ==
  ASSUME ProfilesInv, UNCHANGED <<profiles, pendingF, loadsF, outrun, failed>>,
         ProfileTypes', Pf!NobodyLockedOut',
         NEW arrived \in SUBSET Author, arrived \subseteq news',
         \A a \in Author : stored'[a] >= stored[a] /\ (a \notin arrived => stored'[a] = stored[a]),
         news \cup queue \cup batch \subseteq (news \cup queue \cup batch)'
  PROVE  ProfilesInv'
<1>1. \A d \in Directory : Named(d)' = Named(d)
  BY DEF Named, Pf!Known
<1>2. \A d \in Directory, a \in arrived : OnItsWay(d, a)'
  BY DEF OnItsWay
<1>3. ASSUME NEW d \in Directory
      PROVE  /\ pendingF[d] \subseteq pendingF'[d] /\ loadsF[d] \subseteq loadsF'[d]
             /\ \A l \in loadsF'[d] \ loadsF[d] :
                  /\ l.at = "query" /\ l.found = Pf!NoProfile
                  /\ l.keys \subseteq Named(d)'
             /\ \A a \in Author : (a \in Named(d)' /\ (a \in arrived \/ a \notin Named(d)))
                  => OnItsWay(d, a)'
  BY <1>1, <1>2
<1>4. /\ \A a \in Author : stored'[a] >= stored[a]
      /\ \A a \in Author \ arrived :
           /\ stored'[a] = stored[a]
           /\ a \in news \cup queue \cup batch => a \in (news \cup queue \cup batch)'
  OBVIOUS
<1>5. UNCHANGED <<profiles, outrun, failed>>
  OBVIOUS
<1> QED
  BY <1>3, <1>4, <1>5, MoreLoads

\* A profile that arrives is announced.
LEMMA ArrivesKeeps ==
  ASSUME ProfilesInv, NEW a \in Author, Pf!Arrives(a)  PROVE ProfilesInv'
<1>1. /\ stored[a] < MaxVersion /\ stored' = [stored EXCEPT ![a] = @ + 1]
      /\ news' = news \cup {a}
      /\ UNCHANGED <<inFlight, queue, batch, syncing, profiles, pendingF, loadsF, outrun, failed>>
  BY DEF Pf!Arrives, Pf!store, Pf!panels, Pf!ghosts
<1>2. stored \in [Author -> 0 .. MaxVersion] /\ MaxVersion \in Nat
  BY PanelsAssumption DEF Pf!ProfilesAssumption, ProfilesInv, ProfileTypes
<1>3. /\ stored' \in [Author -> 0 .. MaxVersion]
      /\ \A x \in Author : stored'[x] >= stored[x] /\ (x \notin {a} => stored'[x] = stored[x])
  BY <1>1, <1>2
<1>4. ProfileTypes' /\ Pf!NobodyLockedOut'
  BY <1>1, <1>3 DEF ProfilesInv, ProfileTypes, Pf!NobodyLockedOut
<1>5. /\ {a} \in SUBSET Author /\ {a} \subseteq news'
      /\ news \cup queue \cup batch \subseteq (news \cup queue \cup batch)'
      /\ UNCHANGED <<profiles, pendingF, loadsF, outrun, failed>>
  BY <1>1
<1> QED
  BY <1>3, <1>4, <1>5, StoreKeeps

\* The batch takes a key from the queue; its deadline passes.
LEMMA BatchKeeps ==
  ASSUME ProfilesInv, \/ \E a \in Author : Pf!Collect(a)
                      \/ Pf!Deadline
  PROVE  ProfilesInv'
<1>1. /\ UNCHANGED <<profiles, pendingF, loadsF, outrun, failed, stored, news, inFlight>>
      /\ queue' \subseteq Author /\ batch' \subseteq Author /\ syncing' \in BOOLEAN
      /\ queue \cup batch \subseteq (queue \cup batch)'
  <2>1. ASSUME NEW a \in Author, Pf!Collect(a)
        PROVE  /\ UNCHANGED <<profiles, pendingF, loadsF, outrun, failed, stored, news, inFlight>>
               /\ queue' \subseteq Author /\ batch' \subseteq Author /\ syncing' \in BOOLEAN
               /\ queue \cup batch \subseteq (queue \cup batch)'
    BY <2>1 DEF Pf!Collect, Pf!panels, Pf!ghosts, ProfilesInv, ProfileTypes
  <2>2. CASE Pf!Deadline
    BY <2>2 DEF Pf!Deadline, Pf!panels, Pf!ghosts, ProfilesInv, ProfileTypes
  <2> QED
    BY <2>1, <2>2
<1>2. ProfileTypes' /\ Pf!NobodyLockedOut'
  BY <1>1 DEF ProfilesInv, ProfileTypes, Pf!NobodyLockedOut
<1>3. \A a \in Author : stored'[a] >= stored[a] /\ (a \notin {} => stored'[a] = stored[a])
  BY <1>1, PanelsAssumption DEF Pf!ProfilesAssumption, ProfilesInv, ProfileTypes
<1>4. /\ {} \in SUBSET Author /\ {} \subseteq news'
      /\ news \cup queue \cup batch \subseteq (news \cup queue \cup batch)'
      /\ UNCHANGED <<profiles, pendingF, loadsF, outrun, failed>>
  BY <1>1
<1> QED
  BY <1>2, <1>3, <1>4, StoreKeeps

\* A load lands: what it has found is shown, the rest may be asked of the relays.
LEMMA LandKeeps ==
  ASSUME ProfilesInv, NEW d \in Directory, NEW l \in loadsF[d], NEW fails \in BOOLEAN,
         Pf!Land(d, l, fails)
  PROVE  ProfilesInv'
<1> DEFINE found == {a \in l.keys : l.found[a] # 0 /\ ~fails}
           remaining == l.keys \ found
<1>1. /\ loadsF' = [loadsF EXCEPT ![d] = @ \ {l}] /\ l.at = "land"
      /\ profiles' = [profiles EXCEPT ![d] =
           [a \in Author |-> IF a \in found THEN l.found[a] ELSE @[a]]]
      /\ pendingF' = [pendingF EXCEPT ![d] = @ \ found]
      /\ IF l.queues /\ remaining # {} THEN Pf!Fetch(remaining)
                                       ELSE UNCHANGED <<inFlight, queue>>
      /\ outrun' = IF \E a \in found : l.found[a] < profiles[d][a]
                     THEN outrun \cup {d} ELSE outrun
      /\ failed' = IF fails THEN failed \cup ({d} \X l.keys) ELSE failed
      /\ UNCHANGED <<stored, news, batch, syncing>>
  BY DEF Pf!Land
<1>2. /\ l \in Pf!Load /\ l.keys \in SUBSET Author /\ l.found \in [Author -> 0 .. MaxVersion]
      /\ profiles \in [Directory -> [Author -> 0 .. MaxVersion]]
      /\ pendingF \in [Directory -> SUBSET Author]
      /\ loadsF \in [Directory -> SUBSET Pf!Load]
      /\ stored \in [Author -> 0 .. MaxVersion] /\ MaxVersion \in Nat
      /\ ProfileTypes /\ Pf!NobodyLockedOut
  BY PanelsAssumption DEF Pf!ProfilesAssumption, ProfilesInv, ProfileTypes, Pf!Load
<1>3. /\ found \in SUBSET Author /\ remaining \in SUBSET Author
      /\ \A a \in found : l.found[a] # 0 /\ ~fails /\ a \in l.keys
      /\ \A a \in l.keys \ found : l.found[a] = 0 \/ fails
  BY <1>2
<1>4. /\ Pf!NobodyLockedOut' /\ queue \subseteq queue' /\ queue' \subseteq Author
      /\ inFlight' \subseteq Author
  <2>1. CASE l.queues /\ remaining # {}
    BY <1>1, <1>2, <1>3, <2>1, FetchAwaits
  <2>2. CASE ~(l.queues /\ remaining # {})
    BY <1>1, <1>2, <2>2 DEF ProfileTypes, Pf!NobodyLockedOut
  <2> QED
    BY <2>1, <2>2
<1> HIDE DEF found, remaining
<1>5. /\ \A e \in Directory : e # d => /\ loadsF'[e] = loadsF[e] /\ pendingF'[e] = pendingF[e]
                                       /\ profiles'[e] = profiles[e]
      /\ loadsF'[d] = loadsF[d] \ {l} /\ pendingF'[d] = pendingF[d] \ found
      /\ \A a \in Author : profiles'[d][a] = IF a \in found THEN l.found[a] ELSE profiles[d][a]
  BY <1>1, <1>2
<1>6. ProfileTypes'
  <2>1. [a \in Author |-> IF a \in found THEN l.found[a] ELSE profiles[d][a]]
          \in [Author -> 0 .. MaxVersion]
    BY <1>2
  <2>2. profiles' \in [Directory -> [Author -> 0 .. MaxVersion]]
    BY <1>1, <1>2, <2>1
  <2>3. pendingF' \in [Directory -> SUBSET Author] /\ loadsF' \in [Directory -> SUBSET Pf!Load]
    BY <1>1, <1>2
  <2> QED
    BY <1>1, <1>2, <1>4, <2>2, <2>3 DEF ProfileTypes
<1>7. \A e \in Directory : Named(e)' = Named(e)
  <2>1. ASSUME NEW e \in Directory, e # d  PROVE Named(e)' = Named(e)
    BY <1>5, <2>1 DEF Named, Pf!Known
  <2>2. Named(d)' = Named(d)
    <3>1. found \subseteq Named(d)
      BY <1>3 DEF ProfilesInv, NothingInvented
    <3>2. \A a \in Author : a \in Named(d)' <=> a \in Named(d)
      BY <1>2, <1>3, <1>5, <3>1 DEF Named, Pf!Known
    <3>3. Named(d) \subseteq Author /\ Named(d)' \subseteq Author
      BY <1>2, <1>5 DEF Named, Pf!Known
    <3> QED
      BY <3>2, <3>3
  <2> QED
    BY <2>1, <2>2
<1>8. NothingInvented'
  BY <1>1, <1>2, <1>3, <1>5, <1>7 DEF ProfilesInv, NothingInvented
<1>9. ASSUME NEW e \in Directory \ outrun', NEW a \in Author, a \in Named(e),
             <<e, a>> \notin failed'
      PROVE  OnItsWay(e, a)'
  <2>1. OnItsWay(e, a) /\ (e = d /\ fails => a \notin l.keys)
    BY <1>1, <1>9 DEF ProfilesInv, Delivered
  <2>2. CASE e # d
    BY <1>1, <1>4, <1>5, <2>1, <2>2 DEF OnItsWay, Brings
  <2>3. CASE e = d /\ a \in news \cup queue \cup batch
    BY <1>1, <1>4, <2>3 DEF OnItsWay
  <2>4. CASE e = d /\ profiles[d][a] = stored[a]
    <3>1. a \in found => ~ (l.found[a] < profiles[d][a]) /\ l.found[a] <= stored[a]
      BY <1>1, <1>9, <2>4 DEF ProfilesInv, NothingInvented
    <3>2. a \in found => l.found[a] = stored[a]
      <4>1. l.found[a] \in Nat /\ stored[a] \in Nat /\ profiles[d][a] = stored[a]
        BY <1>2, <2>4
      <4> QED
        BY <3>1, <4>1
    <3>3. profiles'[d][a] = stored[a] /\ stored' = stored
      BY <1>1, <1>5, <2>4, <3>2
    <3> QED
      BY <2>4, <3>3 DEF OnItsWay
  <2>5. ASSUME e = d, NEW k \in loadsF[d], Brings(k, a)  PROVE OnItsWay(e, a)'
    <3>1. CASE k # l
      BY <1>1, <1>5, <2>5, <3>1 DEF OnItsWay, Brings
    <3>2. CASE k = l
      <4>1. a \in l.keys /\ l.found[a] = stored[a] /\ ~fails
        BY <1>1, <2>1, <2>5, <3>2 DEF Brings
      <4>2. CASE stored[a] # 0
        BY <1>1, <1>2, <1>3, <1>5, <2>5, <4>1, <4>2 DEF OnItsWay
      <4>3. CASE stored[a] = 0
        <5>1. a \notin found /\ profiles[d][a] = 0
          BY <1>2, <1>3, <4>1, <4>3 DEF ProfilesInv, NothingInvented
        <5> QED
          BY <1>1, <1>5, <2>5, <4>3, <5>1 DEF OnItsWay
      <4> QED
        BY <4>2, <4>3
    <3> QED
      BY <3>1, <3>2
  <2> QED
    BY <2>1, <2>2, <2>3, <2>4, <2>5 DEF OnItsWay
<1>10. Delivered'
  BY <1>7, <1>9 DEF Delivered
<1> QED
  BY <1>4, <1>6, <1>8, <1>10 DEF ProfilesInv

\* Every step of the profiles keeps the invariant.
LEMMA ProfilesSteps == ProfilesInv /\ [Pf!Next]_pf => ProfilesInv'
<1> SUFFICES ASSUME ProfilesInv, [Pf!Next]_pf  PROVE ProfilesInv'
  OBVIOUS
<1>1. CASE UNCHANGED pf
  <2>1. \A d \in Directory : Named(d)' = Named(d)
    BY <1>1 DEF pf, Named, Pf!Known
  <2> QED
    BY <1>1, <2>1 DEF pf, ProfilesInv, ProfileTypes, Pf!NobodyLockedOut, NothingInvented,
       Delivered, OnItsWay, Brings
<1>2. CASE Pf!Progress
  BY <1>2, QueryKeeps, LandKeeps, BatchKeeps, PumpKeeps, SyncedKeeps DEF Pf!Progress
<1> QED
  BY <1>1, <1>2, TrackKeeps, RenderKeeps, LandKeeps, ArrivesKeeps DEF Pf!Next

\* The steps of the other panels leave it alone.
LEMMA ProfilesInvariance == PanelsSpec => []ProfilesInv
<1>1. PanelsInit => ProfilesInv
  BY ProfilesStart DEF PanelsInit
<1>2. ProfilesInv /\ [PanelsNext]_<<panel, vars, wt, pv, dt, pf, rs>> => ProfilesInv'
  BY ProfilesSteps DEF PanelsNext, pf
<1> QED
  BY <1>1, <1>2, PTL DEF PanelsSpec

\* At rest every panel shows the profiles as they are stored, and nobody is in
\* flight for ever: whoever is being fetched is in the queue or in a batch
\* (ProfileStore::track, flush_profiles).
THEOREM StoredIsShown == PanelsSpec => []ShowsStored
<1>1. ProfilesInv => ShowsStored
  BY DEF ProfilesInv, Delivered, OnItsWay, Named, ShowsStored, Pf!ShowsStored, Pf!AtRest
<1> QED
  BY <1>1, ProfilesInvariance, PTL

-----------------------------------------------------------------------------
(* The worktree of the mirror (Worktree) *)

Commits == Wt!Commit \cup {Wt!NoCommit}
Views ==
  [head : Commits, files : Commits \cup {Wt!Torn}, history : Commits,
   branch : Trunk \cup {None}, tag : Tag \cup {None}]

Moving == {"write", "writing", "move"}

\* The stages a task passes; a fast-forward goes forward, and no further than
\* the servers.
Staged(t, top) ==
  /\ t.kind = "history" => t.at \in {"start", "land"}
  /\ t.kind = "load" => t.at \in {"start", "read", "land"}
  /\ t.kind = "switch" => t.at \in {"start", "write", "writing", "land"} /\ t.ref \in Wt!Ref
  /\ t.kind \in {"reload", "catchUp"} => t.at \in {"read", "land"}
  /\ (t.kind = "refresh" /\ t.at \in Moving) =>
       t.ref \in Trunk /\ t.was < t.n /\ t.n <= top[t.ref]

StagedTasks(S, top) ==
  /\ IsFiniteSet(S) /\ S \subseteq Wt!Task
  /\ \A t \in S : Staged(t, top)

Tips == [Trunk -> 0 .. MaxTip]
Below(refs, top) == \A b \in Trunk : refs[b] <= top[b]

MirrorTypes ==
  /\ server \in Tips /\ origin \in Tips /\ tip \in Tips
  /\ Below(tip, server) /\ Below(origin, server)
  /\ head \in Wt!Ref /\ tree \in Wt!Commit \cup {Wt!Torn}
  /\ mirrored \in BOOLEAN

PanelTypes ==
  /\ shown \in Views
  /\ known \in BOOLEAN /\ loadingW \in BOOLEAN /\ switching \in BOOLEAN
  /\ errorW \in BOOLEAN

WorktreeTypes ==
  /\ MirrorTypes /\ PanelTypes
  /\ overlapped \in BOOLEAN /\ broken \in BOOLEAN /\ raced \in BOOLEAN
  /\ StagedTasks(tasksW, server)

Histories == {t \in tasksW : t.kind = "history"}
Mains == tasksW \ Histories

HeadShown == shown.branch = Wt!CurrentBranch /\ shown.tag \in {None, head}
Idle == known /\ ~loadingW /\ ~switching

\* What the one task that is under way has left, and will leave, of the panel.
Loads(t) ==
  /\ loadingW /\ ~switching /\ Wt!Clean
  /\ shown.branch \in {None, Wt!CurrentBranch} /\ shown.tag \in {None, head}

Refreshes(t) ==
  /\ Idle /\ HeadShown
  /\ t.at # "start" => t.on = Wt!CurrentBranch
  /\ IF t.at \in Moving
       THEN /\ head = t.ref /\ t.was = tip[head]
            /\ t.at = "writing" => tree = Wt!Torn
            /\ t.at = "move" => tree = [on |-> t.ref, n |-> t.n]
       ELSE Wt!Clean /\ (~t.moved => shown.files = tree)
  /\ \/ shown.head = Wt!HeadCommit
     \/ t.moved /\ head \in Trunk /\ shown.head.n < tip[head]

Switches(t) ==
  /\ known /\ ~loadingW /\ switching
  /\ shown.branch = IF t.ref \in Trunk THEN t.ref ELSE None
  /\ shown.tag \in {None, t.ref}
  /\ t.at # "start" => head = t.ref
  /\ t.at \in Moving => t.n = Wt!HeadCommit.n
  /\ t.at = "writing" => tree = Wt!Torn
  /\ t.at = "land" => Wt!Clean

Reloads(t) == known /\ ~loadingW /\ switching /\ Wt!Clean /\ HeadShown

CatchesUp(t) == Idle /\ HeadShown /\ Wt!Clean /\ shown.head = Wt!HeadCommit

Goes(t) ==
  /\ t.kind = "load" => Loads(t)
  /\ t.kind = "refresh" => Refreshes(t)
  /\ t.kind = "switch" => Switches(t)
  /\ t.kind = "reload" => Reloads(t)
  /\ t.kind = "catchUp" => CatchesUp(t)
  /\ (t.kind # "switch" /\ t.at = "land") =>
       t.commit = Wt!HeadCommit /\ t.files = tree /\ t.on = Wt!CurrentBranch

AtEase ==
  /\ Idle /\ HeadShown /\ Wt!Clean
  /\ shown.head = Wt!HeadCommit /\ shown.files = tree

\* The history is, or is going to be, that of the commit that is shown, unless
\* the task that is under way will reload it.
HistoryFollows ==
  (~raced /\ shown.head = Wt!HeadCommit
     /\ \A t \in Mains : t.kind \in {"refresh", "catchUp"})
  => /\ \A h \in Histories : h.at = "land" => h.commit = Wt!HeadCommit
     /\ Histories = {} => shown.history = Wt!HeadCommit

Orderly ==
  /\ \A s, t \in Mains : s = t
  /\ ~raced => \A s, t \in Histories : s = t
  /\ \A t \in tasksW : t.ok
  /\ \A t \in Mains : Goes(t)
  /\ Mains = {} => AtEase
  /\ HistoryFollows

WorktreeInv == WorktreeTypes /\ (~overlapped /\ ~broken => Orderly)

-----------------------------------------------------------------------------
\* The forms in which a task moves on.
MovedTo(t, at) == [t EXCEPT !.at = at]
Marked(t, at, m) == [t EXCEPT !.at = at, !.moved = m]
Informed(t, c, f, b) == [t EXCEPT !.at = "land", !.commit = c, !.files = f, !.on = b]
Writing(t, d, b, n, was) ==
  [t EXCEPT !.at = "write", !.todo = d, !.ref = b, !.n = n, !.was = was]
Looked(t, d) == [t EXCEPT !.todo = d]
Fetched(t, b) == [t EXCEPT !.at = "forward", !.on = b, !.todo = Trunk]
Turned(t, n) == [t EXCEPT !.at = "write", !.n = n]
Walked(t, c) == [t EXCEPT !.at = "land", !.commit = c]
Failed(t) == [t EXCEPT !.at = "land", !.ok = FALSE]

\* A task that moves on to another stage keeps the rest.
LEMMA TaskMoves ==
  ASSUME NEW t \in Wt!Task,
         NEW at \in {"start", "forward", "write", "writing", "move", "read", "land"}
  PROVE  LET u == MovedTo(t, at)
         IN  /\ u \in Wt!Task /\ u.at = at /\ u.kind = t.kind /\ u.ref = t.ref
             /\ u.n = t.n /\ u.was = t.was /\ u.on = t.on /\ u.todo = t.todo
             /\ u.moved = t.moved /\ u.ok = t.ok /\ u.commit = t.commit
             /\ u.files = t.files /\ u.old = t.old
  BY DEF MovedTo, Wt!Task

\* A snapshot is taken of the head, the files and the current branch.
LEMMA TaskReads ==
  ASSUME NEW t \in Wt!Task, NEW c \in Commits, NEW f \in Commits \cup {Wt!Torn},
         NEW b \in Trunk \cup {None}
  PROVE  LET u == Informed(t, c, f, b)
         IN  /\ u \in Wt!Task /\ u.at = "land" /\ u.kind = t.kind /\ u.ref = t.ref
             /\ u.on = b /\ u.moved = t.moved /\ u.ok = t.ok /\ u.commit = c /\ u.files = f
<1> DEFINE u1 == [t EXCEPT !.at = "land", !.commit = c]
           u2 == [u1 EXCEPT !.files = f]
           u3 == [u2 EXCEPT !.on = b]
<1>1. /\ u1 \in Wt!Task /\ u1.at = "land" /\ u1.kind = t.kind /\ u1.ref = t.ref
      /\ u1.moved = t.moved /\ u1.ok = t.ok /\ u1.commit = c
  BY DEF Wt!Task, Commits
<1> HIDE DEF u1
<1>2. /\ u2 \in Wt!Task /\ u2.at = "land" /\ u2.kind = t.kind /\ u2.ref = t.ref
      /\ u2.moved = t.moved /\ u2.ok = t.ok /\ u2.commit = c /\ u2.files = f
  BY <1>1 DEF Wt!Task, Commits
<1> HIDE DEF u2
<1>3. /\ u3 \in Wt!Task /\ u3.at = "land" /\ u3.kind = t.kind /\ u3.ref = t.ref
      /\ u3.on = b /\ u3.moved = t.moved /\ u3.ok = t.ok /\ u3.commit = c /\ u3.files = f
  BY <1>2 DEF Wt!Task
<1>4. u3 = Informed(t, c, f, b)
  BY DEF u1, u2, Wt!Task, Informed
<1> QED
  BY <1>3, <1>4

\* A fast-forward of the current branch remembers where it is and where it goes.
LEMMA TaskWrites ==
  ASSUME NEW t \in Wt!Task, NEW d \in SUBSET Trunk, NEW b \in Trunk,
         NEW n \in 0 .. MaxTip, NEW was \in 0 .. MaxTip
  PROVE  LET u == Writing(t, d, b, n, was)
         IN  /\ u \in Wt!Task /\ u.at = "write" /\ u.kind = t.kind /\ u.ref = b
             /\ u.n = n /\ u.was = was /\ u.on = t.on /\ u.moved = t.moved /\ u.ok = t.ok
<1> DEFINE u1 == [t EXCEPT !.at = "write", !.todo = d]
           u2 == [u1 EXCEPT !.ref = b]
           u3 == [u2 EXCEPT !.n = n]
           u4 == [u3 EXCEPT !.was = was]
<1>1. /\ u1 \in Wt!Task /\ u1.at = "write" /\ u1.kind = t.kind
      /\ u1.on = t.on /\ u1.moved = t.moved /\ u1.ok = t.ok
  BY DEF Wt!Task
<1> HIDE DEF u1
<1>2. /\ u2 \in Wt!Task /\ u2.at = "write" /\ u2.kind = t.kind /\ u2.ref = b
      /\ u2.on = t.on /\ u2.moved = t.moved /\ u2.ok = t.ok
  BY <1>1, b \in Wt!Ref \cup {None} DEF Wt!Task, Wt!Ref
<1> HIDE DEF u2
<1>3. /\ u3 \in Wt!Task /\ u3.at = "write" /\ u3.kind = t.kind /\ u3.ref = b
      /\ u3.n = n /\ u3.on = t.on /\ u3.moved = t.moved /\ u3.ok = t.ok
  BY <1>2 DEF Wt!Task
<1> HIDE DEF u3
<1>4. /\ u4 \in Wt!Task /\ u4.at = "write" /\ u4.kind = t.kind /\ u4.ref = b
      /\ u4.n = n /\ u4.was = was
      /\ u4.on = t.on /\ u4.moved = t.moved /\ u4.ok = t.ok
  BY <1>3 DEF Wt!Task
<1>5. u4 = Writing(t, d, b, n, was)
  BY DEF u1, u2, u3, Wt!Task, Writing
<1> QED
  BY <1>4, <1>5

\* A task that is new gets a number no other has: there are enough of them.
LEMMA FreshNumber ==
  ASSUME NEW S, IsFiniteSet(S)
  PROVE  Wt!Fresh(S) \in Nat
<1> DEFINE k == Cardinality(S)
           I == 1 .. k + 1
<1>1. k \in Nat
  BY FS_CardinalityType
<1>2. IsFiniteSet(I) /\ Cardinality(I) = k + 1
  <2>1. k + 1 \in Int /\ 1 \in Int /\ ~ (1 > k + 1) /\ k + 1 - 1 + 1 = k + 1
    BY <1>1
  <2> QED
    BY <2>1, FS_Interval
<1>3. Cardinality(S) < Cardinality(I)
  BY <1>1, <1>2
<1> HIDE DEF I
<1>4. \E i \in I : \A t \in S : t.id # i
  <2> SUFFICES ASSUME \A i \in I : \E t \in S : t.id = i  PROVE FALSE
    OBVIOUS
  <2> DEFINE f == [i \in I |-> CHOOSE t \in S : t.id = i]
  <2>1. \A i \in I : f[i] \in S /\ f[i].id = i
    OBVIOUS
  <2>2. f \in [I -> S]
    BY <2>1
  <2> HIDE DEF f
  <2>3. \E x, y \in I : x # y /\ f[x] = f[y]
    BY <1>2, <1>3, <2>2, FS_PigeonHole
  <2> QED
    BY <2>1, <2>3
<1>5. Wt!Cardinality(S) = k
  BY DEF Wt!Cardinality, Cardinality
<1>6. Wt!Fresh(S) = CHOOSE i \in I : \A t \in S : t.id # i
  BY <1>5 DEF Wt!Fresh, I
<1>7. Wt!Fresh(S) \in I
  BY <1>4, <1>6
<1> QED
  BY <1>1, <1>7 DEF I

Kinds == {"load", "refresh", "switch", "reload", "catchUp", "history"}
Stages == {"start", "forward", "write", "writing", "move", "read", "land"}

\* A task that is new has a number of its own and nothing in it.
LEMMA NewTask ==
  ASSUME PanelsAssumption, NEW S, IsFiniteSet(S), NEW kind \in Kinds, NEW at \in Stages
  PROVE  LET u == Wt!New(kind, at, S)
         IN  /\ u \in Wt!Task /\ u.kind = kind /\ u.at = at /\ u.ref = None /\ u.ok
             /\ u.on = None /\ ~u.moved
<1>1. Wt!Fresh(S) \in Nat
  BY FreshNumber
<1>2. 0 \in 0 .. MaxTip
  BY DEF PanelsAssumption, Wt!WorktreeAssumption
<1> HIDE DEF Wt!Fresh
<1> DEFINE u == Wt!New(kind, at, S)
<1>3. u \in Wt!Task
  BY <1>1, <1>2 DEF Wt!New, Wt!Task, Kinds, Stages
<1>4. /\ u.kind = kind /\ u.at = at /\ u.ref = None /\ u.ok
      /\ u.on = None /\ ~u.moved
  BY DEF Wt!New
<1> QED
  BY <1>3, <1>4

\* How the tasks in flight change: one moves on, one ends, one is begun.
LEMMA OneMoves ==
  ASSUME NEW S, NEW top, StagedTasks(S, top), NEW t, NEW u \in Wt!Task, Staged(u, top)
  PROVE  StagedTasks((S \ {t}) \cup {u}, top)
<1>1. IsFiniteSet((S \ {t}) \cup {u})
  BY FS_RemoveElement, FS_AddElement DEF StagedTasks
<1> QED
  BY <1>1 DEF StagedTasks

\* One task ends, the others stay.
LEMMA OneEnds ==
  ASSUME NEW S, NEW top, StagedTasks(S, top), NEW t
  PROVE  StagedTasks(S \ {t}, top)
  BY FS_RemoveElement DEF StagedTasks

Beginnings ==
  {<<"load", "start">>, <<"refresh", "start">>, <<"history", "start">>,
   <<"reload", "read">>, <<"catchUp", "read">>}

\* One task begins, the others stay.
LEMMA OneBegins ==
  ASSUME PanelsAssumption, NEW S, NEW top, StagedTasks(S, top),
         NEW kind, NEW at, <<kind, at>> \in Beginnings
  PROVE  StagedTasks(Wt!With(kind, at, S), top)
<1>1. kind \in Kinds /\ at \in Stages
  BY DEF Beginnings, Kinds, Stages
<1>2. IsFiniteSet(S)
  BY DEF StagedTasks
<1> DEFINE u == Wt!New(kind, at, S)
<1>3. u \in Wt!Task /\ u.kind = kind /\ u.at = at
  BY <1>1, <1>2, NewTask
<1> HIDE DEF u
<1>4. Staged(u, top)
  BY <1>3 DEF Staged, Beginnings, Moving
<1>5. IsFiniteSet(S \cup {u})
  BY <1>2, FS_AddElement
<1>6. Wt!With(kind, at, S) = S \cup {u}
  BY DEF Wt!With, u
<1> QED
  BY <1>3, <1>4, <1>5, <1>6 DEF StagedTasks

\* No task at all is of the right form.
LEMMA NobodyWaits ==
  ASSUME NEW top
  PROVE  StagedTasks({}, top)
  BY FS_EmptySet DEF StagedTasks

\* The commit of a ref is one.
LEMMA CommitTyped ==
  ASSUME PanelsAssumption, NEW r \in Wt!Ref, NEW tips \in Tips
  PROVE  Wt!CommitOf(r, tips) \in Wt!Commit /\ Wt!CommitOf(r, tips).n \in 0 .. MaxTip
         /\ Wt!CommitOf(r, tips).on = r
<1>1. 0 \in 0 .. MaxTip
  BY DEF PanelsAssumption, Wt!WorktreeAssumption
<1> QED
  BY <1>1 DEF Wt!CommitOf, Wt!Commit, Tips

\* The panel starts well typed.
LEMMA TypesStart ==
  ASSUME PanelsAssumption, Wt!Init
  PROVE  WorktreeTypes
<1>1. 0 \in 0 .. MaxTip /\ 0 <= 0
  BY DEF PanelsAssumption, Wt!WorktreeAssumption
<1>2. server \in Tips /\ origin = server /\ tip = server
  BY <1>1 DEF Wt!Init, Tips
<1>3. Below(server, server)
  BY <1>1 DEF Below, Wt!Init
<1>4. head \in Wt!Ref
  BY DEF Wt!Init, Wt!Ref
<1>5. tree \in Wt!Commit
  BY <1>2, <1>4, CommitTyped DEF Wt!Init, Wt!HeadCommit
<1>6. MirrorTypes
  BY <1>2, <1>3, <1>4, <1>5 DEF MirrorTypes, Wt!Init
<1>7. PanelTypes
  BY DEF Wt!Init, Wt!Start, Wt!Nothing, PanelTypes, Views, Commits
<1>8. StagedTasks(tasksW, server)
  BY NobodyWaits, OneBegins DEF Beginnings, Wt!Init, Wt!Start
<1> QED
  BY <1>6, <1>7, <1>8 DEF WorktreeTypes, Wt!Init

\* What leaves the servers alone changes the tasks, the mirror and the panel.
LEMMA Typed ==
  ASSUME WorktreeTypes, MirrorTypes', PanelTypes',
         overlapped' \in BOOLEAN, broken' \in BOOLEAN, raced' \in BOOLEAN,
         NEW S, StagedTasks(S, server), server' = server, tasksW' = S
  PROVE  WorktreeTypes'
  BY DEF WorktreeTypes

\* A mirror that nobody touches keeps its types.
LEMMA MirrorStays ==
  ASSUME MirrorTypes, UNCHANGED Wt!mirror
  PROVE  MirrorTypes' /\ server' = server
  BY DEF MirrorTypes, Wt!mirror, Wt!Ref, Wt!Commit, Wt!Torn

\* So does a panel.
LEMMA PanelStays ==
  ASSUME PanelTypes, UNCHANGED Wt!panel
  PROVE  PanelTypes'
  BY DEF PanelTypes, Wt!panel

\* The other forms in which a task moves on.
LEMMA TaskMarks ==
  ASSUME NEW t \in Wt!Task, NEW at \in Stages, NEW m \in BOOLEAN
  PROVE  LET u == Marked(t, at, m)
         IN  /\ u \in Wt!Task /\ u.at = at /\ u.kind = t.kind /\ u.ref = t.ref
             /\ u.n = t.n /\ u.was = t.was /\ u.on = t.on /\ u.moved = m /\ u.ok = t.ok
<1> DEFINE u1 == [t EXCEPT !.at = at]
           u2 == [u1 EXCEPT !.moved = m]
<1>1. /\ u1 \in Wt!Task /\ u1.at = at /\ u1.kind = t.kind /\ u1.ref = t.ref
      /\ u1.n = t.n /\ u1.was = t.was /\ u1.on = t.on /\ u1.ok = t.ok
  BY DEF Wt!Task, Stages
<1> HIDE DEF u1
<1>2. /\ u2 \in Wt!Task /\ u2.at = at /\ u2.kind = t.kind /\ u2.ref = t.ref
      /\ u2.n = t.n /\ u2.was = t.was /\ u2.on = t.on /\ u2.moved = m /\ u2.ok = t.ok
  BY <1>1 DEF Wt!Task
<1>3. u2 = Marked(t, at, m)
  BY DEF u1, Wt!Task, Marked
<1> QED
  BY <1>2, <1>3

\* A branch is looked at once.
LEMMA TaskLooks ==
  ASSUME NEW t \in Wt!Task, NEW d \in SUBSET Trunk
  PROVE  LET u == Looked(t, d)
         IN  /\ u \in Wt!Task /\ u.at = t.at /\ u.kind = t.kind /\ u.ref = t.ref
             /\ u.n = t.n /\ u.was = t.was /\ u.on = t.on /\ u.moved = t.moved /\ u.ok = t.ok
  BY DEF Looked, Wt!Task

\* A fetch is followed by a look at every branch.
LEMMA TaskFetches ==
  ASSUME NEW t \in Wt!Task, NEW b \in Trunk \cup {None}
  PROVE  LET u == Fetched(t, b)
         IN  /\ u \in Wt!Task /\ u.at = "forward" /\ u.kind = t.kind
             /\ u.on = b /\ u.moved = t.moved /\ u.ok = t.ok
  BY DEF Fetched, Wt!Task

\* A switch has moved HEAD and knows the commit it writes.
LEMMA TaskTurns ==
  ASSUME NEW t \in Wt!Task, NEW n \in 0 .. MaxTip
  PROVE  LET u == Turned(t, n)
         IN  /\ u \in Wt!Task /\ u.at = "write" /\ u.kind = t.kind /\ u.ref = t.ref
             /\ u.n = n /\ u.on = t.on /\ u.moved = t.moved /\ u.ok = t.ok
  BY DEF Turned, Wt!Task

\* A walk of the history is of the head of that moment.
LEMMA TaskWalks ==
  ASSUME NEW t \in Wt!Task, NEW c \in Commits
  PROVE  LET u == Walked(t, c)
         IN  /\ u \in Wt!Task /\ u.at = "land" /\ u.kind = t.kind /\ u.ref = t.ref
             /\ u.commit = c /\ u.ok = t.ok
  BY DEF Walked, Wt!Task, Commits

\* A command that fails ends its task.
LEMMA TaskFails ==
  ASSUME NEW t \in Wt!Task
  PROVE  LET u == Failed(t)
         IN  u \in Wt!Task /\ u.at = "land" /\ u.kind = t.kind /\ u.ref = t.ref
  BY DEF Failed, Wt!Task

\* The fields of a task have their types.
LEMMA TaskFields ==
  ASSUME NEW t \in Wt!Task
  PROVE  /\ t.kind \in Kinds /\ t.at \in Stages /\ t.ref \in Wt!Ref \cup {None}
         /\ t.n \in 0 .. MaxTip /\ t.was \in 0 .. MaxTip /\ t.on \in Trunk \cup {None}
         /\ t.todo \in SUBSET Trunk /\ t.moved \in BOOLEAN /\ t.ok \in BOOLEAN
         /\ t.commit \in Commits /\ t.files \in Commits \cup {Wt!Torn}
         /\ t.old \in Wt!Ref \cup {None}
  BY DEF Wt!Task, Kinds, Stages, Commits

-----------------------------------------------------------------------------
(* The types are kept *)

\* A push to the servers keeps the types; no task gets ahead of the servers.
LEMMA AdvanceTyped ==
  ASSUME PanelsAssumption, WorktreeTypes, NEW b \in Trunk, Wt!Advance(b)
  PROVE  WorktreeTypes'
<1>1. /\ server \in Tips /\ origin \in Tips /\ tip \in Tips /\ MaxTip \in Nat
      /\ Below(tip, server) /\ Below(origin, server) /\ StagedTasks(tasksW, server)
  BY DEF WorktreeTypes, MirrorTypes, PanelsAssumption, Wt!WorktreeAssumption
<1>2. PICK top : top = server'
  OBVIOUS
<1>3. top = [server EXCEPT ![b] = @ + 1] /\ server[b] < MaxTip
  BY <1>2 DEF Wt!Advance
<1>4. top \in Tips /\ \A x \in Trunk : server[x] <= top[x]
  BY <1>1, <1>3 DEF Tips
<1>5. Below(tip, top) /\ Below(origin, top)
  BY <1>1, <1>4 DEF Below, Tips
<1>6. StagedTasks(tasksW, top)
  <2>1. \A t \in tasksW : t.n \in 0 .. MaxTip
    BY <1>1, TaskFields DEF StagedTasks
  <2> QED
    BY <1>1, <1>4, <2>1 DEF StagedTasks, Staged, Tips
<1>7. UNCHANGED <<origin, tip, head, tree, mirrored, Wt!panel, tasksW, Wt!ghosts>>
  BY DEF Wt!Advance
<1>8. MirrorTypes'
  BY <1>2, <1>4, <1>5, <1>7 DEF WorktreeTypes, MirrorTypes, Wt!Ref, Wt!Commit, Wt!Torn
<1>9. PanelTypes'
  BY <1>7, PanelStays DEF WorktreeTypes
<1> QED
  BY <1>2, <1>6, <1>7, <1>8, <1>9 DEF WorktreeTypes, Wt!ghosts

\* A task that moves on keeps the types.
LEMMA MoveTyped ==
  ASSUME WorktreeTypes, NEW t \in tasksW, NEW u \in Wt!Task, Staged(u, server),
         Wt!Becomes(t, u), MirrorTypes', server' = server,
         UNCHANGED <<Wt!panel, Wt!ghosts>>
  PROVE  WorktreeTypes'
<1>1. StagedTasks((tasksW \ {t}) \cup {u}, server)
  BY OneMoves DEF WorktreeTypes
<1>2. PanelTypes'
  BY PanelStays DEF WorktreeTypes
<1> QED
  BY <1>1, <1>2, Typed DEF Wt!ghosts, Wt!Becomes, WorktreeTypes

\* What HEAD says is a commit, and its branch is one or none.
LEMMA HeadTyped ==
  ASSUME PanelsAssumption, MirrorTypes
  PROVE  /\ Wt!HeadCommit \in Commits /\ Wt!HeadCommit.n \in 0 .. MaxTip
         /\ Wt!HeadCommit.on = head
         /\ Wt!CurrentBranch \in Trunk \cup {None} /\ tree \in Commits \cup {Wt!Torn}
         /\ Wt!HeadCommit \in Wt!Commit
  BY CommitTyped DEF MirrorTypes, Wt!HeadCommit, Wt!CurrentBranch, Wt!Ref, Commits

\* Every git command keeps the types.
LEMMA GitTyped ==
  ASSUME PanelsAssumption, WorktreeTypes, NEW t \in tasksW, Wt!Git(t)
  PROVE  WorktreeTypes'
<1>1. /\ MirrorTypes /\ t \in Wt!Task /\ Staged(t, server)
  BY DEF WorktreeTypes, StagedTasks
<1>2. /\ t.kind \in Kinds /\ t.at \in Stages /\ t.ref \in Wt!Ref \cup {None}
      /\ t.n \in 0 .. MaxTip /\ t.was \in 0 .. MaxTip /\ t.on \in Trunk \cup {None}
      /\ t.todo \in SUBSET Trunk /\ t.moved \in BOOLEAN /\ t.ok \in BOOLEAN
  BY <1>1, TaskFields
<1>3. /\ server \in Tips /\ origin \in Tips /\ tip \in Tips /\ MaxTip \in Nat
      /\ Below(tip, server) /\ Below(origin, server)
  BY <1>1 DEF MirrorTypes, PanelsAssumption, Wt!WorktreeAssumption
<1>4. Below(server, server)
  BY <1>3 DEF Below, Tips
<1>5. CASE Wt!Open(t)
  <2>0. PICK m \in BOOLEAN : m = ~mirrored
    BY Zenon
  <2> DEFINE u == Marked(t, "read", m)
  <2>1. u \in Wt!Task /\ u.kind = t.kind /\ u.at = "read"
    BY <1>1, TaskMarks DEF Stages
  <2>2. Wt!Becomes(t, u) /\ UNCHANGED <<Wt!panel, Wt!ghosts>> /\ server' = server /\ head' = head
    BY <1>5, <2>0 DEF Wt!Open, Marked
  <2>3. t.kind = "load"
    BY <1>5 DEF Wt!Open, Marked
  <2> HIDE DEF u
  <2>4. Staged(u, server)
    BY <2>1, <2>3 DEF Staged
  <2>5. MirrorTypes'
    <3>1. CASE mirrored
      BY <1>1, <1>5, <3>1, MirrorStays DEF Wt!Open, Wt!mirror
    <3>2. CASE ~mirrored
      <4>1. Wt!CommitOf(head, server) \in Wt!Commit
        BY <1>1, <1>3, CommitTyped DEF MirrorTypes
      <4>2. /\ mirrored' = TRUE /\ origin' = server /\ tip' = server
            /\ tree' = Wt!CommitOf(head, server)
        BY <1>5, <3>2 DEF Wt!Open, Marked
      <4> QED
        BY <1>1, <1>3, <1>4, <2>2, <4>1, <4>2 DEF MirrorTypes, Wt!Ref, Wt!Commit, Wt!Torn
    <3> QED
      BY <3>1, <3>2
  <2> QED
    BY <2>1, <2>2, <2>4, <2>5, MoveTyped
<1>6. CASE Wt!Read(t)
  <2>0. PICK c \in Commits, f \in Commits \cup {Wt!Torn}, b \in Trunk \cup {None} :
          c = Wt!HeadCommit /\ f = tree /\ b = Wt!CurrentBranch
    BY <1>1, HeadTyped
  <2> DEFINE u == Informed(t, c, f, b)
  <2>1. u \in Wt!Task /\ u.kind = t.kind /\ u.at = "land" /\ u.ref = t.ref
    BY <1>1, TaskReads
  <2>2. Wt!Becomes(t, u) /\ UNCHANGED <<Wt!mirror, Wt!panel, Wt!ghosts>>
    BY <1>6, <2>0 DEF Wt!Read, Informed
  <2> HIDE DEF u
  <2>3. Staged(u, server)
    BY <1>1, <2>1 DEF Staged, Moving
  <2> QED
    BY <1>1, <2>1, <2>2, <2>3, MoveTyped, MirrorStays
<1>7. CASE Wt!Walk(t)
  <2> DEFINE u == Walked(t, Wt!HeadCommit)
  <2>1. u \in Wt!Task /\ u.kind = t.kind /\ u.at = "land"
    BY <1>1, TaskWalks, HeadTyped
  <2>2. Wt!Becomes(t, u) /\ UNCHANGED <<Wt!mirror, Wt!panel, Wt!ghosts>> /\ t.kind = "history"
    BY <1>7 DEF Wt!Walk, Walked
  <2> HIDE DEF u
  <2>3. Staged(u, server)
    BY <2>1, <2>2 DEF Staged, Moving
  <2> QED
    BY <1>1, <2>1, <2>2, <2>3, MoveTyped, MirrorStays
<1>8. CASE Wt!MoveHead(t)
  <2> DEFINE u == Turned(t, Wt!CommitOf(t.ref, tip).n)
  <2>1. t.kind = "switch" /\ t.ref \in Wt!Ref /\ head' = t.ref
    BY <1>1, <1>8 DEF Wt!MoveHead, Staged
  <2>2. u \in Wt!Task /\ u.kind = t.kind /\ u.at = "write" /\ u.ref = t.ref
    BY <1>1, <1>3, <2>1, TaskTurns, CommitTyped
  <2>3. /\ Wt!Becomes(t, u) /\ UNCHANGED <<Wt!panel, Wt!ghosts>>
        /\ UNCHANGED <<server, origin, tip, tree, mirrored>>
    BY <1>8 DEF Wt!MoveHead, Turned
  <2> HIDE DEF u
  <2>4. Staged(u, server)
    BY <2>1, <2>2 DEF Staged, Moving
  <2>5. MirrorTypes'
    BY <1>1, <2>1, <2>3 DEF MirrorTypes, Wt!Ref, Wt!Commit, Wt!Torn
  <2> QED
    BY <2>2, <2>3, <2>4, <2>5, MoveTyped
<1>9. CASE Wt!Fetch(t)
  <2> DEFINE u == Fetched(t, Wt!CurrentBranch)
  <2>1. u \in Wt!Task /\ u.kind = t.kind /\ u.at = "forward"
    BY <1>1, TaskFetches, HeadTyped
  <2>2. /\ Wt!Becomes(t, u) /\ UNCHANGED <<Wt!panel, Wt!ghosts>> /\ t.kind = "refresh"
        /\ UNCHANGED <<server, tip, head, tree, mirrored>> /\ origin' \in {server, origin}
    BY <1>9 DEF Wt!Fetch, Fetched
  <2> HIDE DEF u
  <2>3. Staged(u, server)
    BY <2>1, <2>2 DEF Staged, Moving
  <2>4. MirrorTypes'
    BY <1>1, <1>4, <2>2 DEF MirrorTypes, Wt!Ref, Wt!Commit, Wt!Torn
  <2> QED
    BY <2>1, <2>2, <2>3, <2>4, MoveTyped
<1>10. CASE Wt!WriteStarts(t)
  <2> DEFINE u == MovedTo(t, "writing")
  <2>1. /\ u \in Wt!Task /\ u.kind = t.kind /\ u.at = "writing" /\ u.ref = t.ref
        /\ u.n = t.n /\ u.was = t.was
    BY <1>1, TaskMoves
  <2>2. /\ Wt!Becomes(t, u) /\ UNCHANGED <<Wt!panel, Wt!ghosts>> /\ t.at = "write"
        /\ UNCHANGED <<server, origin, tip, head, mirrored>> /\ tree' = Wt!Torn
    BY <1>10 DEF Wt!WriteStarts, MovedTo
  <2> HIDE DEF u
  <2>3. Staged(u, server)
    BY <1>1, <2>1, <2>2 DEF Staged, Moving
  <2>4. MirrorTypes'
    BY <1>1, <2>2 DEF MirrorTypes, Wt!Ref, Wt!Commit, Wt!Torn
  <2> QED
    BY <2>1, <2>2, <2>3, <2>4, MoveTyped
<1>11. CASE Wt!WriteEnds(t)
  <2>0. PICK at \in Stages : at = IF t.kind = "switch" THEN "land" ELSE "move"
    BY DEF Stages
  <2> DEFINE u == MovedTo(t, at)
  <2>1. /\ u \in Wt!Task /\ u.kind = t.kind /\ u.at = at /\ u.ref = t.ref
        /\ u.n = t.n /\ u.was = t.was
    BY <1>1, TaskMoves DEF Stages
  <2>2. /\ Wt!Becomes(t, u) /\ UNCHANGED <<Wt!panel, Wt!ghosts>> /\ t.at = "writing"
        /\ UNCHANGED <<server, origin, tip, head, mirrored>>
        /\ tree' \in {[on |-> t.ref, n |-> t.n], Wt!Torn}
    BY <1>11, <2>0 DEF Wt!WriteEnds, MovedTo
  <2>3. t.ref \in Wt!Ref
    BY <1>1, <1>2, <2>2 DEF Staged, Moving, Kinds, Wt!Ref
  <2> HIDE DEF u
  <2>4. Staged(u, server)
    BY <1>1, <2>0, <2>1, <2>2 DEF Staged, Moving
  <2>5. [on |-> t.ref, n |-> t.n] \in Wt!Commit
    BY <1>2, <2>3 DEF Wt!Commit
  <2>6. MirrorTypes'
    BY <1>1, <2>2, <2>5 DEF MirrorTypes, Wt!Ref, Wt!Commit, Wt!Torn
  <2> QED
    BY <2>1, <2>2, <2>4, <2>6, MoveTyped
<1>12. CASE Wt!MoveBranch(t)
  <2>1. /\ t.at = "move" /\ UNCHANGED <<Wt!panel, Wt!ghosts>>
        /\ UNCHANGED <<server, origin, head, tree, mirrored>>
    BY <1>12 DEF Wt!MoveBranch
  <2>2. t.kind = "refresh" /\ t.ref \in Trunk /\ t.n <= server[t.ref]
    BY <1>1, <1>2, <2>1 DEF Staged, Moving, Kinds
  <2>3. CASE Wt!AsRead(t)
    <3> DEFINE u == Marked(t, "forward", TRUE)
               tips == [tip EXCEPT ![t.ref] = t.n]
    <3>1. u \in Wt!Task /\ u.kind = t.kind /\ u.at = "forward"
      BY <1>1, TaskMarks DEF Stages
    <3>2. Wt!Becomes(t, u) /\ tip' = tips
      BY <1>12, <2>3 DEF Wt!MoveBranch, Marked
    <3> HIDE DEF u
    <3>3. Staged(u, server)
      BY <2>2, <3>1 DEF Staged, Moving
    <3>4. tips \in Tips /\ Below(tips, server)
      BY <1>2, <1>3, <2>2 DEF Tips, Below
    <3>5. MirrorTypes'
      BY <1>1, <2>1, <3>2, <3>4 DEF MirrorTypes, Wt!Ref, Wt!Commit, Wt!Torn
    <3> QED
      BY <2>1, <3>1, <3>2, <3>3, <3>5, MoveTyped
  <2>4. CASE ~Wt!AsRead(t)
    <3> DEFINE u == Marked(t, "read", FALSE)
    <3>1. u \in Wt!Task /\ u.kind = t.kind /\ u.at = "read"
      BY <1>1, TaskMarks DEF Stages
    <3>2. Wt!Becomes(t, u) /\ tip' = tip
      BY <1>12, <2>4 DEF Wt!MoveBranch, Marked
    <3> HIDE DEF u
    <3>3. Staged(u, server)
      BY <2>2, <3>1 DEF Staged, Moving
    <3>4. UNCHANGED Wt!mirror
      BY <2>1, <3>2 DEF Wt!mirror
    <3> QED
      BY <1>1, <2>1, <3>1, <3>2, <3>3, <3>4, MoveTyped, MirrorStays
  <2> QED
    BY <2>3, <2>4
<1>13. CASE Wt!Forwarded(t)
  <2> DEFINE u == MovedTo(t, "read")
  <2>1. u \in Wt!Task /\ u.kind = t.kind /\ u.at = "read"
    BY <1>1, TaskMoves
  <2>2. Wt!Becomes(t, u) /\ UNCHANGED <<Wt!mirror, Wt!panel, Wt!ghosts>> /\ t.at = "forward"
    BY <1>13 DEF Wt!Forwarded, MovedTo
  <2>3. t.kind = "refresh"
    BY <1>1, <1>2, <2>2 DEF Staged, Kinds
  <2> HIDE DEF u
  <2>4. Staged(u, server)
    BY <2>1, <2>3 DEF Staged, Moving
  <2> QED
    BY <1>1, <2>1, <2>2, <2>4, MoveTyped, MirrorStays
<1>14. ASSUME NEW b \in Trunk, Wt!Skip(t, b)
       PROVE  WorktreeTypes'
  <2>0. PICK d \in SUBSET Trunk : d = t.todo \ {b}
    BY <1>2
  <2> DEFINE u == Looked(t, d)
  <2>1. u \in Wt!Task /\ u.kind = t.kind /\ u.at = t.at
    BY <1>1, TaskLooks
  <2>2. /\ Wt!Becomes(t, u) /\ UNCHANGED <<Wt!mirror, Wt!panel, Wt!ghosts>>
        /\ t.at = "forward"
    BY <1>1, <1>14, <2>0 DEF Wt!Skip, Wt!Task, Looked
  <2> HIDE DEF u
  <2>3. Staged(u, server)
    BY <1>1, <2>1, <2>2 DEF Staged, Moving
  <2> QED
    BY <1>1, <2>1, <2>2, <2>3, MoveTyped, MirrorStays
<1>15. ASSUME NEW b \in Trunk, Wt!ForwardCurrent(t, b)
       PROVE  WorktreeTypes'
  <2>0. PICK d \in SUBSET Trunk : d = t.todo \ {b}
    BY <1>2
  <2> DEFINE u == Writing(t, d, b, origin[b], tip[b])
  <2>1. origin[b] \in 0 .. MaxTip /\ tip[b] \in 0 .. MaxTip /\ origin[b] <= server[b]
    BY <1>3 DEF Tips, Below
  <2>2. /\ u \in Wt!Task /\ u.kind = t.kind /\ u.at = "write" /\ u.ref = b
        /\ u.n = origin[b] /\ u.was = tip[b]
    BY <1>1, <2>1, TaskWrites
  <2>3. /\ Wt!Becomes(t, u) /\ UNCHANGED <<Wt!mirror, Wt!panel, Wt!ghosts>>
        /\ t.at = "forward" /\ tip[b] < origin[b]
    BY <1>1, <1>15, <2>0 DEF Wt!ForwardCurrent, Wt!Task, Writing
  <2>4. t.kind = "refresh"
    BY <1>1, <1>2, <2>3 DEF Staged, Kinds
  <2> HIDE DEF u
  <2>5. Staged(u, server)
    BY <2>1, <2>2, <2>3, <2>4 DEF Staged, Moving
  <2> QED
    BY <1>1, <2>2, <2>3, <2>5, MoveTyped, MirrorStays
<1>16. ASSUME NEW b \in Trunk, Wt!ForwardOther(t, b)
       PROVE  WorktreeTypes'
  <2>0. PICK d \in SUBSET Trunk : d = t.todo \ {b}
    BY <1>2
  <2> DEFINE u == Marked(Looked(t, d), t.at, TRUE)
             tips == [tip EXCEPT ![b] = origin[b]]
  <2>1. u \in Wt!Task /\ u.kind = t.kind /\ u.at = t.at
    <3> DEFINE v == Looked(t, d)
    <3>1. v \in Wt!Task /\ v.kind = t.kind
      BY <1>1, TaskLooks
    <3> HIDE DEF v
    <3>2. Marked(v, t.at, TRUE) \in Wt!Task
          /\ Marked(v, t.at, TRUE).kind = v.kind /\ Marked(v, t.at, TRUE).at = t.at
      BY <1>2, <3>1, TaskMarks
    <3> QED
      BY <3>1, <3>2 DEF v
  <2>2. /\ Wt!Becomes(t, u) /\ UNCHANGED <<Wt!panel, Wt!ghosts>>
        /\ UNCHANGED <<server, origin, head, tree, mirrored>>
        /\ t.at = "forward" /\ tip' = tips
    BY <1>1, <1>16, <2>0 DEF Wt!ForwardOther, Wt!Task, Looked, Marked
  <2> HIDE DEF u
  <2>3. Staged(u, server)
    BY <1>1, <2>1, <2>2 DEF Staged, Moving
  <2>4. tips \in Tips /\ Below(tips, server)
    BY <1>3 DEF Tips, Below
  <2>5. MirrorTypes'
    BY <1>1, <2>2, <2>4 DEF MirrorTypes, Wt!Ref, Wt!Commit, Wt!Torn
  <2> QED
    BY <2>1, <2>2, <2>3, <2>5, MoveTyped
<1>17. CASE t.todo # {} /\ LET b == Wt!Turn(t)
                          IN  Wt!Skip(t, b) \/ Wt!ForwardCurrent(t, b) \/ Wt!ForwardOther(t, b)
  <2>1. Wt!Turn(t) \in Trunk
    BY <1>2, <1>17 DEF Wt!Turn
  <2> QED
    BY <1>14, <1>15, <1>16, <1>17, <2>1
<1> QED
  BY <1>5, <1>6, <1>7, <1>8, <1>9, <1>10, <1>11, <1>12, <1>13, <1>17 DEF Wt!Git

-----------------------------------------------------------------------------
(* The panel *)

Holding(p, c, f) == [p EXCEPT !.head = c, !.files = f]
Headed(p, c) == [p EXCEPT !.head = c]
Naming(p, b, g) == [p EXCEPT !.branch = b, !.tag = g]

\* The panel shows another commit and its files.
LEMMA ViewHolds ==
  ASSUME NEW p \in Views, NEW c \in Commits, NEW f \in Commits \cup {Wt!Torn}
  PROVE  LET q == Holding(p, c, f)
         IN  /\ q \in Views /\ q.head = c /\ q.files = f /\ q.history = p.history
             /\ q.branch = p.branch /\ q.tag = p.tag
  BY DEF Views, Holding

\* The panel shows another commit.
LEMMA ViewHeads ==
  ASSUME NEW p \in Views, NEW c \in Commits
  PROVE  LET q == Headed(p, c)
         IN  /\ q \in Views /\ q.head = c /\ q.files = p.files /\ q.history = p.history
             /\ q.branch = p.branch /\ q.tag = p.tag
  BY DEF Views, Headed

\* The selectors say another branch and tag.
LEMMA ViewNames ==
  ASSUME NEW p \in Views, NEW b \in Trunk \cup {None}, NEW g \in Tag \cup {None}
  PROVE  LET q == Naming(p, b, g)
         IN  /\ q \in Views /\ q.head = p.head /\ q.files = p.files
             /\ q.history = p.history /\ q.branch = b /\ q.tag = g
  BY DEF Views, Naming

\* The selector of branches says the current branch, or what it said.
LEMMA ViewSelects ==
  ASSUME NEW p \in Views, NEW b \in Trunk \cup {None}
  PROVE  LET q == Wt!Selecting(p, b)
         IN  /\ q \in Views /\ q.head = p.head /\ q.files = p.files
             /\ q.history = p.history /\ q.tag = p.tag
             /\ q.branch = IF b = None THEN p.branch ELSE b
  BY DEF Views, Wt!Selecting

\* The panel shows another history.
LEMMA ViewWalks ==
  ASSUME NEW p \in Views, NEW c \in Commits
  PROVE  LET q == [p EXCEPT !.history = c]
         IN  /\ q \in Views /\ q.head = p.head /\ q.files = p.files
             /\ q.history = c /\ q.branch = p.branch /\ q.tag = p.tag
  BY DEF Views

\* Reloading the history begins the only walk, or races with another.
LEMMA ReloadShows ==
  ASSUME PanelsAssumption, NEW p \in Views, NEW S, StagedTasks(S, server),
         raced \in BOOLEAN, Wt!Reload(p, S)
  PROVE  /\ shown' \in Views /\ shown'.head = p.head /\ shown'.files = p.files
         /\ shown'.branch = p.branch /\ shown'.tag = p.tag
         /\ raced' \in BOOLEAN
         /\ tasksW' = Wt!With("history", "start", S)
         /\ StagedTasks(Wt!With("history", "start", S), server)
         /\ ~raced' => ~raced /\ \A t \in S : t.kind # "history"
<1>1. Wt!NoCommit \in Commits
  BY DEF Commits
<1>2. shown' = [p EXCEPT !.history = Wt!NoCommit]
      /\ tasksW' = Wt!With("history", "start", S)
      /\ raced' = (raced \/ \E t \in S : t.kind = "history")
  BY DEF Wt!Reload
<1>3. StagedTasks(Wt!With("history", "start", S), server)
  BY OneBegins DEF Beginnings
<1>4. raced' \in BOOLEAN /\ (~raced' => ~raced /\ \A t \in S : t.kind # "history")
  BY <1>2
<1>5. /\ shown' \in Views /\ shown'.head = p.head /\ shown'.files = p.files
      /\ shown'.branch = p.branch /\ shown'.tag = p.tag
  BY <1>1, <1>2, ViewWalks
<1> QED
  BY <1>2, <1>3, <1>4, <1>5

\* Every landing keeps the types.
LEMMA LandTyped ==
  ASSUME PanelsAssumption, WorktreeTypes, NEW t \in tasksW, Wt!Land(t)
  PROVE  WorktreeTypes'
<1>1. /\ MirrorTypes /\ PanelTypes /\ t \in Wt!Task /\ Staged(t, server)
      /\ shown \in Views /\ raced \in BOOLEAN /\ StagedTasks(tasksW, server)
  BY DEF WorktreeTypes, StagedTasks, PanelTypes
<1>2. /\ t.kind \in Kinds /\ t.on \in Trunk \cup {None} /\ t.moved \in BOOLEAN
      /\ t.commit \in Commits /\ t.files \in Commits \cup {Wt!Torn}
      /\ t.old \in Wt!Ref \cup {None}
  BY <1>1, TaskFields
<1>3. StagedTasks(Wt!Rest(t), server)
  BY <1>1, OneEnds DEF Wt!Rest
<1>4. UNCHANGED <<Wt!mirror, overlapped, broken>>
  BY DEF Wt!Land, Wt!HistoryLands, Wt!LoadLands, Wt!RefreshLands, Wt!CatchUpLands,
         Wt!SwitchLands, Wt!ReloadLands, Wt!ghosts
<1>5. MirrorTypes' /\ server' = server
  BY <1>1, <1>4, MirrorStays
<1>6. SUFFICES /\ shown' \in Views /\ raced' \in BOOLEAN
               /\ StagedTasks(tasksW', server)
               /\ known' \in BOOLEAN /\ loadingW' \in BOOLEAN /\ switching' \in BOOLEAN
               /\ errorW' \in BOOLEAN
  BY <1>4, <1>5, Typed DEF PanelTypes, WorktreeTypes
<1>7. CASE Wt!HistoryLands(t)
  <2>1. shown' = shown \/ shown' = [shown EXCEPT !.history = t.commit]
    BY <1>7 DEF Wt!HistoryLands
  <2>2. shown' \in Views
    BY <1>1, <1>2, <2>1, ViewWalks
  <2> QED
    BY <1>1, <1>3, <1>7, <2>2 DEF Wt!HistoryLands, PanelTypes, Wt!ghosts
<1>8. ASSUME NEW pushing \in BOOLEAN, Wt!LoadLands(t, pushing)
      PROVE  /\ shown' \in Views /\ raced' \in BOOLEAN
             /\ StagedTasks(tasksW', server)
             /\ known' \in BOOLEAN /\ loadingW' \in BOOLEAN /\ switching' \in BOOLEAN
             /\ errorW' \in BOOLEAN
  <2>1. /\ known' \in BOOLEAN /\ loadingW' \in BOOLEAN /\ switching' \in BOOLEAN
        /\ errorW' \in BOOLEAN
    BY <1>1, <1>8 DEF Wt!LoadLands, PanelTypes
  <2>2. CASE t.ok
    <3> DEFINE p == Wt!Selecting(Holding(shown, t.commit, t.files), t.on)
               S == IF t.moved \/ pushing THEN Wt!Rest(t)
                    ELSE Wt!With("refresh", "start", Wt!Rest(t))
    <3>1. p \in Views
      BY <1>1, <1>2, ViewHolds, ViewSelects
    <3>2. StagedTasks(S, server)
      BY <1>3, OneBegins DEF Beginnings
    <3>3. Wt!Reload(p, S)
      BY <1>8, <2>2 DEF Wt!LoadLands, Holding
    <3> HIDE DEF p, S
    <3> QED
      BY <1>1, <2>1, <3>1, <3>2, <3>3, ReloadShows
  <2>3. CASE ~t.ok
    BY <1>1, <1>3, <1>8, <2>1, <2>3 DEF Wt!LoadLands, Wt!Show
  <2> QED
    BY <2>2, <2>3
<1>9. CASE Wt!RefreshLands(t)
  <2>1. /\ known' \in BOOLEAN /\ loadingW' \in BOOLEAN /\ switching' \in BOOLEAN
        /\ errorW' \in BOOLEAN
    BY <1>1, <1>9 DEF Wt!RefreshLands, PanelTypes
  <2> DEFINE p == Wt!Selecting(Headed(shown, t.commit), t.on)
             S == IF t.moved THEN Wt!With("catchUp", "read", Wt!Rest(t)) ELSE Wt!Rest(t)
  <2>2. p \in Views
    BY <1>1, <1>2, ViewHeads, ViewSelects
  <2>3. StagedTasks(S, server)
    BY <1>3, OneBegins DEF Beginnings
  <2>4. Wt!Reload(p, S) \/ Wt!Show(p, S)
    BY <1>9 DEF Wt!RefreshLands, Headed
  <2> HIDE DEF p, S
  <2> QED
    BY <1>1, <2>1, <2>2, <2>3, <2>4, ReloadShows DEF Wt!Show
<1>10. CASE Wt!CatchUpLands(t)
  <2>1. /\ known' \in BOOLEAN /\ loadingW' \in BOOLEAN /\ switching' \in BOOLEAN
        /\ errorW' \in BOOLEAN
    BY <1>1, <1>10 DEF Wt!CatchUpLands, PanelTypes
  <2> DEFINE p == Holding(shown, t.commit, t.files)
  <2>2. p \in Views
    BY <1>1, <1>2, ViewHolds
  <2>3. Wt!Reload(p, Wt!Rest(t)) \/ Wt!Show(p, Wt!Rest(t)) \/ Wt!Show(shown, Wt!Rest(t))
    BY <1>10 DEF Wt!CatchUpLands, Holding
  <2> HIDE DEF p
  <2> QED
    BY <1>1, <1>3, <2>1, <2>2, <2>3, ReloadShows DEF Wt!Show
<1>11. CASE Wt!SwitchLands(t)
  <2>1. /\ known' \in BOOLEAN /\ loadingW' \in BOOLEAN /\ switching' \in BOOLEAN
        /\ errorW' \in BOOLEAN /\ raced' \in BOOLEAN
    BY <1>1, <1>11 DEF Wt!SwitchLands, PanelTypes, Wt!ghosts
  <2>2. PICK b \in Trunk \cup {None}, g \in Tag \cup {None} :
          /\ b = IF t.old \in Trunk THEN t.old ELSE None
          /\ g = IF t.old \in Tag THEN t.old ELSE None
    BY <1>2 DEF Wt!Ref
  <2>3. \/ shown' = shown /\ tasksW' = Wt!With("reload", "read", Wt!Rest(t))
        \/ shown' = Naming(shown, b, g) /\ tasksW' = Wt!Rest(t)
    BY <1>11, <2>2 DEF Wt!SwitchLands, Naming
  <2>4. StagedTasks(Wt!With("reload", "read", Wt!Rest(t)), server)
    BY <1>3, OneBegins DEF Beginnings
  <2> QED
    BY <1>1, <1>3, <2>1, <2>3, <2>4, ViewNames
<1>12. CASE Wt!ReloadLands(t)
  <2>1. /\ known' \in BOOLEAN /\ loadingW' \in BOOLEAN /\ switching' \in BOOLEAN
        /\ errorW' \in BOOLEAN
    BY <1>1, <1>12 DEF Wt!ReloadLands, PanelTypes
  <2> DEFINE p == Holding(shown, t.commit, t.files)
             q == Holding(shown, Wt!NoCommit, Wt!NoCommit)
  <2>2. p \in Views /\ q \in Views
    BY <1>1, <1>2, ViewHolds DEF Commits
  <2>3. Wt!Reload(p, Wt!Rest(t)) \/ Wt!Show(q, Wt!Rest(t))
    BY <1>12 DEF Wt!ReloadLands, Holding
  <2> HIDE DEF p, q
  <2> QED
    BY <1>1, <1>3, <2>1, <2>2, <2>3, ReloadShows DEF Wt!Show
<1> QED
  BY <1>7, <1>8, <1>9, <1>10, <1>11, <1>12 DEF Wt!Land

Switching(r) ==
  [Wt!New("switch", "start", tasksW) EXCEPT
     !.ref = r, !.old = IF shown.tag # None THEN shown.tag ELSE shown.branch]

\* A switch begins with the ref that was asked for.
LEMMA SwitchBegins ==
  ASSUME PanelsAssumption, WorktreeTypes, NEW r \in Wt!Ref
  PROVE  LET s == Switching(r)
         IN  /\ s \in Wt!Task /\ s.kind = "switch" /\ s.at = "start" /\ s.ref = r /\ s.ok
             /\ Staged(s, server)
<1> DEFINE n == Wt!New("switch", "start", tasksW)
           old == IF shown.tag # None THEN shown.tag ELSE shown.branch
           u == [n EXCEPT !.ref = r]
           v == [u EXCEPT !.old = old]
<1>1. IsFiniteSet(tasksW) /\ shown \in Views
  BY DEF WorktreeTypes, StagedTasks, PanelTypes
<1>2. n \in Wt!Task /\ n.kind = "switch" /\ n.at = "start" /\ n.ok
  BY <1>1, NewTask DEF Kinds, Stages
<1>3. old \in Wt!Ref \cup {None}
  BY <1>1 DEF Views, Wt!Ref
<1> HIDE DEF n, old
<1>4. u \in Wt!Task /\ u.kind = "switch" /\ u.at = "start" /\ u.ref = r /\ u.ok
  BY <1>2 DEF Wt!Task, Wt!Ref
<1> HIDE DEF u
<1>5. v \in Wt!Task /\ v.kind = "switch" /\ v.at = "start" /\ v.ref = r /\ v.ok
  BY <1>3, <1>4 DEF Wt!Task
<1> HIDE DEF v
<1>6. Staged(v, server)
  BY <1>5 DEF Staged, Moving
<1>7. v = [n EXCEPT !.ref = r, !.old = old]
  BY <1>2 DEF u, v, Wt!Task
<1>8. v = Switching(r)
  BY <1>7 DEF n, old, Switching
<1> QED
  BY <1>5, <1>6, <1>8

\* Asking for a switch keeps the types.
LEMMA SwitchTyped ==
  ASSUME PanelsAssumption, WorktreeTypes, NEW r \in Wt!Ref, Wt!Switch(r)
  PROVE  WorktreeTypes'
<1>1. MirrorTypes /\ PanelTypes /\ shown \in Views /\ StagedTasks(tasksW, server)
  BY DEF WorktreeTypes, PanelTypes
<1>2. Switching(r) \in Wt!Task /\ Staged(Switching(r), server)
  BY SwitchBegins
<1>3. tasksW' = tasksW \cup {Switching(r)}
  BY DEF Wt!Switch, Switching
<1>4. StagedTasks(tasksW \cup {Switching(r)}, server)
  BY <1>1, <1>2, FS_AddElement DEF StagedTasks
<1>5. PICK b \in Trunk \cup {None}, g \in Tag \cup {None} :
        /\ b = IF r \in Trunk THEN r ELSE None
        /\ g = IF r \in Tag THEN r ELSE None
  OBVIOUS
<1>6. shown' = Naming(shown, b, g)
  BY <1>5 DEF Wt!Switch, Naming
<1>7. shown' \in Views
  BY <1>1, <1>6, ViewNames
<1>8. /\ switching' = TRUE /\ UNCHANGED <<Wt!mirror, known, loadingW, errorW, broken, raced>>
      /\ overlapped' \in BOOLEAN
  BY DEF Wt!Switch
<1>9. MirrorTypes' /\ server' = server
  BY <1>1, <1>8, MirrorStays
<1>10. PanelTypes'
  BY <1>1, <1>7, <1>8 DEF PanelTypes
<1> QED
  BY <1>3, <1>4, <1>8, <1>9, <1>10, Typed DEF WorktreeTypes

\* Loading the repository again keeps the types.
LEMMA PushTyped ==
  ASSUME PanelsAssumption, WorktreeTypes, Wt!PushedFromPanel
  PROVE  WorktreeTypes'
<1>1. MirrorTypes /\ PanelTypes /\ StagedTasks(tasksW, server)
  BY DEF WorktreeTypes
<1>2. /\ tasksW' = Wt!With("load", "start", tasksW)
      /\ loadingW' = TRUE /\ errorW' = FALSE /\ overlapped' \in BOOLEAN
      /\ UNCHANGED <<Wt!mirror, shown, known, switching, broken, raced>>
  BY DEF Wt!PushedFromPanel
<1>3. StagedTasks(Wt!With("load", "start", tasksW), server)
  BY <1>1, OneBegins DEF Beginnings
<1>4. MirrorTypes' /\ server' = server
  BY <1>1, <1>2, MirrorStays
<1>5. PanelTypes'
  BY <1>1, <1>2 DEF PanelTypes
<1> QED
  BY <1>2, <1>3, <1>4, <1>5, Typed DEF WorktreeTypes

\* An empty panel is one.
LEMMA NothingIsView == Wt!Nothing \in Views
  BY DEF Wt!Nothing, Views, Commits

\* Stopping the process keeps the types.
LEMMA StopTyped ==
  ASSUME PanelsAssumption, WorktreeTypes, Wt!Stop
  PROVE  WorktreeTypes'
<1>1. MirrorTypes
  BY DEF WorktreeTypes
<1>2. /\ tasksW' = Wt!With("load", "start", {})
      /\ shown' = Wt!Nothing /\ known' = FALSE /\ loadingW' = TRUE /\ switching' = FALSE
      /\ errorW' = FALSE /\ raced' = FALSE
      /\ UNCHANGED <<Wt!mirror, overlapped>>
  BY DEF Wt!Stop
<1>3. broken' \in BOOLEAN
  BY DEF Wt!Stop
<1>4. StagedTasks(Wt!With("load", "start", {}), server)
  BY NobodyWaits, OneBegins DEF Beginnings
<1>5. MirrorTypes' /\ server' = server
  BY <1>1, <1>2, MirrorStays
<1>6. PanelTypes'
  BY <1>2, NothingIsView DEF PanelTypes
<1> QED
  BY <1>2, <1>3, <1>4, <1>5, <1>6, Typed DEF WorktreeTypes

\* A failing command keeps the types.
LEMMA FailTyped ==
  ASSUME PanelsAssumption, WorktreeTypes, NEW t \in tasksW, Wt!Fail(t)
  PROVE  WorktreeTypes'
<1>1. MirrorTypes /\ PanelTypes /\ StagedTasks(tasksW, server) /\ t \in Wt!Task
      /\ Staged(t, server)
  BY DEF WorktreeTypes, StagedTasks
<1> DEFINE u == Failed(t)
<1>2. u \in Wt!Task /\ u.kind = t.kind /\ u.at = "land" /\ u.ref = t.ref
  BY <1>1, TaskFails
<1>3. /\ Wt!Becomes(t, u) /\ broken' = TRUE /\ t.kind # "refresh"
      /\ UNCHANGED <<Wt!mirror, Wt!panel, overlapped, raced>>
  BY DEF Wt!Fail, Failed
<1> HIDE DEF u
<1>4. Staged(u, server)
  BY <1>1, <1>2, <1>3 DEF Staged
<1>5. StagedTasks((tasksW \ {t}) \cup {u}, server)
  BY <1>1, <1>2, <1>4, OneMoves
<1>6. MirrorTypes' /\ server' = server /\ PanelTypes'
  BY <1>1, <1>3, MirrorStays, PanelStays
<1> QED
  BY <1>3, <1>5, <1>6, Typed DEF WorktreeTypes, Wt!Becomes

\* Every step of the worktree keeps the types.
LEMMA WorktreeTyped ==
  ASSUME PanelsAssumption, WorktreeTypes, [Wt!Next]_Wt!vars
  PROVE  WorktreeTypes'
<1>1. CASE UNCHANGED Wt!vars
  <2>1. UNCHANGED <<Wt!mirror, Wt!panel, tasksW, Wt!ghosts>>
    BY <1>1 DEF Wt!vars
  <2>2. MirrorTypes' /\ server' = server /\ PanelTypes'
    BY <2>1, MirrorStays, PanelStays DEF WorktreeTypes
  <2> QED
    BY <2>1, <2>2, Typed DEF WorktreeTypes, Wt!ghosts
<1>2. CASE Wt!Next
  BY <1>2, AdvanceTyped, SwitchTyped, PushTyped, StopTyped, GitTyped, LandTyped, FailTyped
     DEF Wt!Next
<1> QED
  BY <1>1, <1>2

-----------------------------------------------------------------------------
(* The order of the tasks is kept *)

\* What Goes speaks of.
Seen == <<tip, head, tree, known, loadingW, switching, shown.head, shown.files,
          shown.branch, shown.tag>>

\* HEAD stays where the refs stay.
LEMMA HeadStays ==
  ASSUME UNCHANGED <<tip, head>>
  PROVE  Wt!HeadCommit' = Wt!HeadCommit /\ Wt!CurrentBranch' = Wt!CurrentBranch
  BY DEF Wt!HeadCommit, Wt!CommitOf, Wt!CurrentBranch

\* What a task leaves does not change when nothing it speaks of does.
LEMMA GoesStays ==
  ASSUME NEW s, Goes(s), UNCHANGED Seen
  PROVE  Goes(s)'
<1>1. Wt!HeadCommit' = Wt!HeadCommit /\ Wt!CurrentBranch' = Wt!CurrentBranch
  BY HeadStays DEF Seen
<1>2. Wt!Clean' = Wt!Clean /\ Idle' = Idle /\ HeadShown' = HeadShown
  BY <1>1 DEF Wt!Clean, Idle, HeadShown, Seen
<1>3. Loads(s)' = Loads(s) /\ Reloads(s)' = Reloads(s) /\ CatchesUp(s)' = CatchesUp(s)
  BY <1>1, <1>2 DEF Loads, Reloads, CatchesUp, Seen
<1>4. Switches(s)' = Switches(s)
  BY <1>1, <1>2 DEF Switches, Seen
<1>5. Refreshes(s)' = Refreshes(s)
  BY <1>1, <1>2 DEF Refreshes, Seen
<1> QED
  BY <1>1, <1>2, <1>3, <1>4, <1>5 DEF Goes, Seen

\* Nor does a panel that is at ease.
LEMMA EaseStays ==
  ASSUME AtEase, UNCHANGED Seen
  PROVE  AtEase'
<1>1. Wt!HeadCommit' = Wt!HeadCommit /\ Wt!CurrentBranch' = Wt!CurrentBranch
  BY HeadStays DEF Seen
<1> QED
  BY <1>1 DEF AtEase, Wt!Clean, Idle, HeadShown, Seen

\* A task that is no walk is the only one.
LEMMA Alone ==
  ASSUME Orderly, NEW t \in tasksW, t.kind # "history"
  PROVE  /\ Mains = {t} /\ Goes(t) /\ t.ok
         /\ tasksW = Histories \cup {t}
         /\ \A s \in Wt!Rest(t) : s.kind = "history"
  BY DEF Orderly, Mains, Histories, Wt!Rest

\* When the one task that is no walk moves on, the order is kept if its next stage
\* is sound, and if the panel does not follow a head it has not been shown.
LEMMA OneGoesOn ==
  ASSUME Orderly, NEW t \in tasksW, t.kind # "history",
         NEW u, u.kind = t.kind, u.ok, Wt!Becomes(t, u), raced' = raced, Goes(u)',
         t.kind \in {"refresh", "catchUp"} =>
           /\ shown' = shown
           /\ Wt!HeadCommit' = Wt!HeadCommit \/ shown.head # Wt!HeadCommit'
  PROVE  Orderly'
<1>1. /\ Mains = {t} /\ tasksW = Histories \cup {t} /\ t \notin Histories
  BY Alone DEF Histories
<1>2. tasksW' = Histories \cup {u}
  BY <1>1 DEF Wt!Becomes
<1>3. Histories' = Histories /\ Mains' = {u}
  BY <1>2 DEF Histories, Mains
<1>4. HistoryFollows'
  <2>1. CASE t.kind \notin {"refresh", "catchUp"}
    BY <1>3, <2>1 DEF HistoryFollows
  <2>2. CASE t.kind \in {"refresh", "catchUp"} /\ Wt!HeadCommit' = Wt!HeadCommit
    <3>1. HistoryFollows
      BY DEF Orderly
    <3> QED
      BY <1>1, <1>3, <2>2, <3>1 DEF HistoryFollows
  <2>3. CASE t.kind \in {"refresh", "catchUp"} /\ shown.head # Wt!HeadCommit'
    BY <2>3 DEF HistoryFollows
  <2> QED
    BY <2>1, <2>2, <2>3
<1>5. \A s, r \in Histories : ~raced' => s = r
  BY DEF Orderly
<1>6. \A s \in tasksW' : s.ok
  BY <1>1, <1>2 DEF Orderly
<1> QED
  BY <1>2, <1>3, <1>4, <1>5, <1>6 DEF Orderly

\* Only walks are left, and the panel is at ease.
LEMMA OneIsDone ==
  ASSUME \A s \in tasksW' : s.kind = "history" /\ s.ok,
         ~raced' => \A s, r \in tasksW' : s = r,
         AtEase', HistoryFollows'
  PROVE  Orderly'
<1>1. Mains' = {} /\ Histories' = tasksW'
  BY DEF Mains, Histories
<1> QED
  BY <1>1 DEF Orderly

\* One task goes on from another, and walks are left.
LEMMA OneFollows ==
  ASSUME NEW u, u.kind # "history", u.ok, Goes(u)',
         NEW S, tasksW' = S \cup {u}, \A s \in S : s.kind = "history" /\ s.ok,
         ~raced' => \A s, r \in S : s = r,
         HistoryFollows'
  PROVE  Orderly'
<1>1. Mains' = {u} /\ Histories' = S
  BY DEF Mains, Histories
<1> QED
  BY <1>1 DEF Orderly

\* Every git command keeps the order: what it changes of the mirror is what the
\* stage of its task says.
LEMMA GitOrderly ==
  ASSUME PanelsAssumption, WorktreeTypes, Orderly, NEW t \in tasksW, Wt!Git(t)
  PROVE  Orderly'
<1>1. /\ MirrorTypes /\ PanelTypes /\ t \in Wt!Task /\ Staged(t, server)
  BY DEF WorktreeTypes, StagedTasks
<1>2. /\ t.kind \in Kinds /\ t.at \in Stages /\ t.ref \in Wt!Ref \cup {None}
      /\ t.n \in 0 .. MaxTip /\ t.was \in 0 .. MaxTip /\ t.on \in Trunk \cup {None}
      /\ t.todo \in SUBSET Trunk /\ t.moved \in BOOLEAN /\ t.ok \in BOOLEAN
  BY <1>1, TaskFields
<1>3. /\ server \in Tips /\ origin \in Tips /\ tip \in Tips /\ MaxTip \in Nat
      /\ head \in Wt!Ref /\ shown \in Views
      /\ Trunk \cap Tag = {} /\ None \notin Trunk \cup Tag
  BY <1>1 DEF MirrorTypes, PanelTypes, PanelsAssumption, Wt!WorktreeAssumption
<1>4. /\ Wt!HeadCommit \in Commits /\ Wt!HeadCommit.n \in 0 .. MaxTip
      /\ Wt!HeadCommit.on = head
      /\ Wt!CurrentBranch \in Trunk \cup {None} /\ tree \in Commits \cup {Wt!Torn}
  BY <1>1, HeadTyped
<1>5. t.kind # "history" => Goes(t) /\ t.ok /\ Mains = {t} /\ tasksW = Histories \cup {t}
  BY Alone
<1>6. UNCHANGED Wt!panel /\ UNCHANGED Wt!ghosts
  BY DEF Wt!Git, Wt!Open, Wt!Read, Wt!Walk, Wt!MoveHead, Wt!Fetch, Wt!WriteStarts, Wt!WriteEnds,
         Wt!MoveBranch, Wt!Forwarded, Wt!Skip, Wt!ForwardCurrent, Wt!ForwardOther
<1>7. /\ UNCHANGED <<shown, known, loadingW, switching, raced>>
  BY <1>6 DEF Wt!panel, Wt!ghosts
<1>8. CASE Wt!Open(t)
  <2>0. PICK m \in BOOLEAN : m = ~mirrored
    BY Zenon
  <2> DEFINE u == Marked(t, "read", m)
  <2>1. u.kind = t.kind /\ u.at = "read" /\ u.ok = t.ok
    BY <1>1, TaskMarks DEF Stages
  <2>2. Wt!Becomes(t, u) /\ t.kind = "load" /\ head' = head
    BY <1>8, <2>0 DEF Wt!Open, Marked
  <2> HIDE DEF u
  <2>3. Wt!Clean' /\ Wt!CurrentBranch' = Wt!CurrentBranch
    <3>1. CASE mirrored
      BY <1>5, <1>8, <2>2, <3>1 DEF Wt!Open, Wt!Clean, Wt!HeadCommit, Wt!CommitOf, Goes, Loads,
                                    Wt!CurrentBranch
    <3>2. CASE ~mirrored
      BY <1>8, <2>2, <3>2 DEF Wt!Open, Wt!Clean, Wt!HeadCommit, Wt!CommitOf, Wt!CurrentBranch
    <3> QED
      BY <3>1, <3>2
  <2>4. Goes(u)'
    BY <1>5, <1>7, <2>1, <2>2, <2>3 DEF Goes, Loads
  <2> QED
    BY <1>5, <1>7, <2>1, <2>2, <2>4, OneGoesOn
<1>9. CASE Wt!Read(t)
  <2>0. PICK c \in Commits, f \in Commits \cup {Wt!Torn}, b \in Trunk \cup {None} :
          c = Wt!HeadCommit /\ f = tree /\ b = Wt!CurrentBranch
    BY <1>4
  <2> DEFINE u == Informed(t, c, f, b)
  <2>1. /\ u.kind = t.kind /\ u.at = "land" /\ u.ok = t.ok /\ u.moved = t.moved
        /\ u.commit = Wt!HeadCommit /\ u.files = tree /\ u.on = Wt!CurrentBranch
    BY <1>1, <2>0, TaskReads
  <2>2. Wt!Becomes(t, u) /\ UNCHANGED Wt!mirror /\ t.at = "read"
    BY <1>9, <2>0 DEF Wt!Read, Informed
  <2>3. t.kind \in {"load", "refresh", "reload", "catchUp"}
    BY <1>1, <1>2, <2>2 DEF Staged, Kinds
  <2> HIDE DEF u
  <2>4. Goes(u)
    BY <1>5, <2>1, <2>2, <2>3 DEF Goes, Loads, Refreshes, Reloads, CatchesUp, Moving
  <2>5. Goes(u)'
    BY <1>7, <2>2, <2>4, GoesStays DEF Seen, Wt!mirror
  <2>6. Wt!HeadCommit' = Wt!HeadCommit
    BY <2>2, HeadStays DEF Wt!mirror
  <2> QED
    BY <1>5, <1>7, <2>1, <2>2, <2>3, <2>5, <2>6, OneGoesOn
<1>10. CASE Wt!Walk(t)
  <2> DEFINE u == Walked(t, Wt!HeadCommit)
  <2>1. u.kind = t.kind /\ u.at = "land" /\ u.commit = Wt!HeadCommit /\ u.ok = t.ok
    BY <1>1, <1>4, TaskWalks
  <2>2. /\ tasksW' = (tasksW \ {t}) \cup {u} /\ UNCHANGED Wt!mirror /\ t.kind = "history"
    BY <1>10 DEF Wt!Walk, Walked, Wt!Becomes
  <2> HIDE DEF u
  <2>3. UNCHANGED Seen /\ Wt!HeadCommit' = Wt!HeadCommit
    BY <1>7, <2>2, HeadStays DEF Seen, Wt!mirror
  <2>4. Mains' = Mains /\ Histories' = (Histories \ {t}) \cup {u} /\ t \in Histories
    BY <2>1, <2>2 DEF Mains, Histories
  <2>5. /\ \A s, r \in Mains : s = r
        /\ ~raced => \A s, r \in Histories : s = r
        /\ \A s \in tasksW : s.ok
        /\ \A s \in Mains : Goes(s)
        /\ Mains = {} => AtEase
        /\ HistoryFollows
    BY DEF Orderly
  <2>6. \A s \in Mains' : Goes(s)'
    BY <2>3, <2>4, <2>5, GoesStays
  <2>7. Mains' = {} => AtEase'
    BY <2>3, <2>4, <2>5, EaseStays
  <2>8. HistoryFollows'
    BY <1>7, <2>1, <2>3, <2>4, <2>5 DEF HistoryFollows
  <2>9. \A s \in tasksW' : s.ok
    BY <2>1, <2>2, <2>5
  <2>10. ~raced' => \A s, r \in Histories' : s = r
    BY <1>7, <2>4, <2>5
  <2> QED
    BY <2>4, <2>5, <2>6, <2>7, <2>8, <2>9, <2>10 DEF Orderly
<1>11. CASE Wt!MoveHead(t)
  <2>1. t.kind = "switch" /\ t.ref \in Wt!Ref /\ head' = t.ref /\ tip' = tip
    BY <1>1, <1>11 DEF Wt!MoveHead, Staged
  <2>0. PICK n \in 0 .. MaxTip : n = Wt!CommitOf(t.ref, tip).n
    BY <1>3, <2>1, CommitTyped
  <2> DEFINE u == Turned(t, n)
  <2>2. u.kind = t.kind /\ u.at = "write" /\ u.ref = t.ref /\ u.n = n /\ u.ok = t.ok
    BY <1>1, TaskTurns
  <2>3. /\ Wt!Becomes(t, u)
    BY <1>11, <2>0 DEF Wt!MoveHead, Turned
  <2>4. Wt!HeadCommit'.n = n
    BY <2>0, <2>1 DEF Wt!HeadCommit, Wt!CommitOf
  <2> HIDE DEF u
  <2>5. Goes(u)'
    BY <1>5, <1>7, <2>1, <2>2, <2>4 DEF Goes, Switches
  <2> QED
    BY <1>5, <1>7, <2>1, <2>2, <2>3, <2>5, OneGoesOn
<1>12. CASE Wt!Fetch(t)
  <2>0. PICK b \in Trunk \cup {None} : b = Wt!CurrentBranch
    BY <1>4
  <2> DEFINE u == Fetched(t, b)
  <2>1. /\ u.kind = t.kind /\ u.at = "forward" /\ u.on = Wt!CurrentBranch
        /\ u.moved = t.moved /\ u.ok = t.ok
    BY <1>1, <2>0, TaskFetches
  <2>2. /\ Wt!Becomes(t, u) /\ t.kind = "refresh" /\ UNCHANGED <<tip, head, tree>>
        /\ t.at = "start"
    BY <1>12, <2>0 DEF Wt!Fetch, Fetched
  <2> HIDE DEF u
  <2>3. Goes(u)
    BY <1>5, <2>1, <2>2 DEF Goes, Refreshes, Moving
  <2>4. Goes(u)'
    BY <1>7, <2>2, <2>3, GoesStays DEF Seen
  <2>5. Wt!HeadCommit' = Wt!HeadCommit
    BY <2>2, HeadStays
  <2> QED
    BY <1>5, <1>7, <2>1, <2>2, <2>4, <2>5, OneGoesOn
<1>13. CASE Wt!WriteStarts(t)
  <2> DEFINE u == MovedTo(t, "writing")
  <2>1. /\ u.kind = t.kind /\ u.at = "writing" /\ u.ref = t.ref
        /\ u.n = t.n /\ u.was = t.was /\ u.on = t.on /\ u.moved = t.moved /\ u.ok = t.ok
    BY <1>1, TaskMoves
  <2>2. /\ Wt!Becomes(t, u) /\ UNCHANGED <<tip, head>> /\ tree' = Wt!Torn /\ t.at = "write"
    BY <1>13 DEF Wt!WriteStarts, MovedTo
  <2>3. t.kind \in {"refresh", "switch"}
    BY <1>1, <1>2, <2>2 DEF Staged, Kinds
  <2> HIDE DEF u
  <2>4. Wt!HeadCommit' = Wt!HeadCommit /\ Wt!CurrentBranch' = Wt!CurrentBranch
    BY <2>2, HeadStays
  <2>5. Idle' = Idle /\ HeadShown' = HeadShown
    BY <1>7, <2>2, <2>4 DEF Idle, HeadShown
  <2>6. CASE t.kind = "refresh"
    <3>1. Refreshes(t)
      BY <1>5, <2>6 DEF Goes
    <3>2. Refreshes(u)'
      BY <1>7, <2>1, <2>2, <2>4, <2>5, <3>1 DEF Refreshes, Moving
    <3>3. Goes(u)'
      BY <2>1, <2>6, <3>2 DEF Goes
    <3> QED
      BY <1>5, <1>7, <2>1, <2>2, <2>4, <2>6, <3>3, OneGoesOn
  <2>7. CASE t.kind = "switch"
    <3>1. Switches(t)
      BY <1>5, <2>7 DEF Goes
    <3>2. Switches(u)'
      BY <1>7, <2>1, <2>2, <2>4, <3>1 DEF Switches, Moving
    <3>3. Goes(u)'
      BY <2>1, <2>7, <3>2 DEF Goes
    <3> QED
      BY <1>5, <1>7, <2>1, <2>2, <2>7, <3>3, OneGoesOn
  <2> QED
    BY <2>3, <2>6, <2>7
<1>14. CASE Wt!WriteEnds(t)
  <2>0. PICK at \in Stages : at = IF t.kind = "switch" THEN "land" ELSE "move"
    BY DEF Stages
  <2> DEFINE u == MovedTo(t, at)
  <2>1. /\ u.kind = t.kind /\ u.at = at /\ u.ref = t.ref
        /\ u.n = t.n /\ u.was = t.was /\ u.on = t.on /\ u.moved = t.moved /\ u.ok = t.ok
    BY <1>1, TaskMoves DEF Stages
  <2>2. /\ Wt!Becomes(t, u) /\ UNCHANGED <<tip, head>> /\ t.at = "writing"
        /\ tree' \in {[on |-> t.ref, n |-> t.n]} \cup
             (IF Wt!Writers # {t} \/ tree # Wt!Torn THEN {Wt!Torn} ELSE {})
    BY <1>14, <2>0 DEF Wt!WriteEnds, MovedTo
  <2>3. t.kind \in {"refresh", "switch"}
    BY <1>1, <1>2, <2>2 DEF Staged, Kinds
  <2> HIDE DEF u
  <2>4. Wt!HeadCommit' = Wt!HeadCommit /\ Wt!CurrentBranch' = Wt!CurrentBranch
    BY <2>2, HeadStays
  <2>5. Idle' = Idle /\ HeadShown' = HeadShown
    BY <1>7, <2>2, <2>4 DEF Idle, HeadShown
  <2>6. tree = Wt!Torn
    BY <1>5, <2>2, <2>3 DEF Goes, Refreshes, Switches, Moving
  <2>7. Wt!Writers = {t}
    <3>1. \A h \in Histories : h.at # "writing"
      BY DEF WorktreeTypes, StagedTasks, Staged, Histories
    <3> QED
      BY <1>5, <2>2, <2>3, <3>1 DEF Wt!Writers
  <2>8. tree' = [on |-> t.ref, n |-> t.n]
    BY <2>2, <2>6, <2>7
  <2>9. CASE t.kind = "refresh"
    <3>1. Refreshes(t)
      BY <1>5, <2>9 DEF Goes
    <3>2. Refreshes(u)'
      BY <1>7, <2>0, <2>1, <2>2, <2>4, <2>5, <2>8, <2>9, <3>1 DEF Refreshes, Moving
    <3>3. Goes(u)'
      BY <2>0, <2>1, <2>9, <3>2 DEF Goes
    <3> QED
      BY <1>5, <1>7, <2>1, <2>2, <2>4, <2>9, <3>3, OneGoesOn
  <2>10. CASE t.kind = "switch"
    <3>1. Switches(t)
      BY <1>5, <2>10 DEF Goes
    <3>2. Wt!HeadCommit = [on |-> t.ref, n |-> t.n]
      BY <2>2, <3>1 DEF Switches, Moving, Wt!HeadCommit, Wt!CommitOf
    <3>3. Switches(u)'
      BY <1>7, <2>0, <2>1, <2>2, <2>4, <2>8, <2>10, <3>1, <3>2 DEF Switches, Moving, Wt!Clean
    <3>4. Goes(u)'
      BY <2>1, <2>10, <3>3 DEF Goes
    <3> QED
      BY <1>5, <1>7, <2>1, <2>2, <2>10, <3>4, OneGoesOn
  <2> QED
    BY <2>3, <2>9, <2>10
<1>15. CASE Wt!MoveBranch(t)
  <2>1. t.at = "move" /\ head' = head /\ tree' = tree
    BY <1>15 DEF Wt!MoveBranch
  <2>2. t.kind = "refresh" /\ t.ref \in Trunk /\ t.was < t.n
    BY <1>1, <1>2, <2>1 DEF Staged, Moving, Kinds
  <2>3. Refreshes(t)
    BY <1>5, <2>2 DEF Goes
  <2>4. /\ head = t.ref /\ t.was = tip[head] /\ tree = [on |-> t.ref, n |-> t.n]
        /\ Idle /\ HeadShown /\ t.on = Wt!CurrentBranch
    BY <2>1, <2>3 DEF Refreshes, Moving
  <2>5. Wt!AsRead(t)
    BY <2>4 DEF Wt!AsRead
  <2> DEFINE u == Marked(t, "forward", TRUE)
             tips == [tip EXCEPT ![t.ref] = t.n]
  <2>6. /\ u.kind = t.kind /\ u.at = "forward" /\ u.on = t.on /\ u.moved /\ u.ok = t.ok
    BY <1>1, TaskMarks DEF Stages
  <2>7. Wt!Becomes(t, u) /\ tip' = tips
    BY <1>15, <2>5 DEF Wt!MoveBranch, Marked
  <2> HIDE DEF u
  <2>8. Wt!HeadCommit' = [on |-> head, n |-> t.n]
    BY <1>3, <2>1, <2>2, <2>4, <2>7 DEF Wt!HeadCommit, Wt!CommitOf, Tips
  <2>9. Wt!CurrentBranch' = Wt!CurrentBranch
    BY <2>1 DEF Wt!CurrentBranch
  <2>10. Wt!Clean' /\ Idle' /\ HeadShown'
    BY <1>7, <2>1, <2>4, <2>8, <2>9 DEF Wt!Clean, Idle, HeadShown
  <2>11. shown.head.n < t.n
    <3>1. CASE shown.head = Wt!HeadCommit
      BY <2>2, <2>4, <3>1 DEF Wt!HeadCommit, Wt!CommitOf
    <3>2. CASE head \in Trunk /\ shown.head.n < tip[head]
      <4>1. shown.head.n \in Nat
        BY <1>3 DEF Views, Commits, Wt!Commit, Wt!NoCommit
      <4> QED
        BY <1>2, <1>3, <2>2, <2>4, <3>2, <4>1 DEF Tips
    <3> QED
      BY <2>3, <3>1, <3>2 DEF Refreshes
  <2>12. tips[head] = t.n
    BY <1>3, <2>2, <2>4 DEF Tips
  <2>13. head' \in Trunk /\ shown'.head.n < tip'[head']
    BY <1>7, <2>1, <2>2, <2>4, <2>7, <2>11, <2>12
  <2>14. Refreshes(u)'
    BY <2>4, <2>6, <2>9, <2>10, <2>13 DEF Refreshes, Moving
  <2>15. Goes(u)'
    BY <2>2, <2>6, <2>14 DEF Goes
  <2>16. shown.head # Wt!HeadCommit'
    <3>1. shown.head.n # t.n
      BY <1>2, <2>11
    <3> QED
      BY <2>8, <3>1
  <2> QED
    BY <1>5, <1>7, <2>2, <2>6, <2>7, <2>15, <2>16, OneGoesOn
<1>16. CASE Wt!Forwarded(t)
  <2> DEFINE u == MovedTo(t, "read")
  <2>1. /\ u.kind = t.kind /\ u.at = "read" /\ u.on = t.on /\ u.moved = t.moved /\ u.ok = t.ok
    BY <1>1, TaskMoves
  <2>2. Wt!Becomes(t, u) /\ UNCHANGED Wt!mirror /\ t.at = "forward"
    BY <1>16 DEF Wt!Forwarded, MovedTo
  <2>3. t.kind = "refresh"
    BY <1>1, <1>2, <2>2 DEF Staged, Kinds
  <2> HIDE DEF u
  <2>4. Goes(u)
    BY <1>5, <2>1, <2>2, <2>3 DEF Goes, Refreshes, Moving
  <2>5. Goes(u)' /\ Wt!HeadCommit' = Wt!HeadCommit
    BY <1>7, <2>2, <2>4, GoesStays, HeadStays DEF Seen, Wt!mirror
  <2> QED
    BY <1>5, <1>7, <2>1, <2>2, <2>3, <2>5, OneGoesOn
<1>17. ASSUME NEW b \in Trunk, Wt!Skip(t, b)
       PROVE  Orderly'
  <2>0. PICK d \in SUBSET Trunk : d = t.todo \ {b}
    BY <1>2
  <2> DEFINE u == Looked(t, d)
  <2>1. u.kind = t.kind /\ u.at = t.at /\ u.on = t.on /\ u.moved = t.moved /\ u.ok = t.ok
    BY <1>1, TaskLooks
  <2>2. Wt!Becomes(t, u) /\ UNCHANGED Wt!mirror /\ t.at = "forward"
    BY <1>1, <1>17, <2>0 DEF Wt!Skip, Wt!Task, Looked
  <2>3. t.kind = "refresh"
    BY <1>1, <1>2, <2>2 DEF Staged, Kinds
  <2> HIDE DEF u
  <2>4. Goes(u)
    BY <1>5, <2>1, <2>2, <2>3 DEF Goes, Refreshes, Moving
  <2>5. Goes(u)' /\ Wt!HeadCommit' = Wt!HeadCommit
    BY <1>7, <2>2, <2>4, GoesStays, HeadStays DEF Seen, Wt!mirror
  <2> QED
    BY <1>5, <1>7, <2>1, <2>2, <2>3, <2>5, OneGoesOn
<1>18. ASSUME NEW b \in Trunk, Wt!ForwardCurrent(t, b)
       PROVE  Orderly'
  <2>0. PICK d \in SUBSET Trunk : d = t.todo \ {b}
    BY <1>2
  <2>1. PICK n \in 0 .. MaxTip, was \in 0 .. MaxTip : n = origin[b] /\ was = tip[b]
    BY <1>3 DEF Tips
  <2> DEFINE u == Writing(t, d, b, n, was)
  <2>2. /\ u.kind = t.kind /\ u.at = "write" /\ u.ref = b /\ u.n = origin[b]
        /\ u.was = tip[b] /\ u.on = t.on /\ u.moved = t.moved /\ u.ok = t.ok
    BY <1>1, <2>1, TaskWrites
  <2>3. /\ Wt!Becomes(t, u) /\ UNCHANGED Wt!mirror /\ t.at = "forward" /\ b = t.on
    BY <1>1, <1>18, <2>0, <2>1 DEF Wt!ForwardCurrent, Wt!Task, Writing
  <2>4. t.kind = "refresh"
    BY <1>1, <1>2, <2>3 DEF Staged, Kinds
  <2>5. Refreshes(t)
    BY <1>5, <2>4 DEF Goes
  <2> HIDE DEF u
  <2>6. head = b
    <3>1. b = Wt!CurrentBranch
      BY <2>3, <2>5 DEF Refreshes
    <3> QED
      BY <1>3, <3>1 DEF Wt!CurrentBranch
  <2>7. Refreshes(u)
    BY <2>2, <2>3, <2>5, <2>6 DEF Refreshes, Moving
  <2>8. Goes(u)
    BY <2>2, <2>4, <2>7 DEF Goes
  <2>9. Goes(u)' /\ Wt!HeadCommit' = Wt!HeadCommit
    BY <1>7, <2>3, <2>8, GoesStays, HeadStays DEF Seen, Wt!mirror
  <2> QED
    BY <1>5, <1>7, <2>2, <2>3, <2>4, <2>9, OneGoesOn
<1>19. ASSUME NEW b \in Trunk, Wt!ForwardOther(t, b)
       PROVE  Orderly'
  <2>0. PICK d \in SUBSET Trunk : d = t.todo \ {b}
    BY <1>2
  <2> DEFINE v == Looked(t, d)
             u == Marked(v, t.at, TRUE)
             tips == [tip EXCEPT ![b] = origin[b]]
  <2>1. /\ v \in Wt!Task /\ v.kind = t.kind /\ v.at = t.at /\ v.on = t.on /\ v.ok = t.ok
    BY <1>1, TaskLooks
  <2>2. /\ Wt!Becomes(t, u) /\ UNCHANGED <<head, tree>> /\ t.at = "forward" /\ b # t.on
        /\ tip' = tips
    BY <1>1, <1>19, <2>0 DEF Wt!ForwardOther, Wt!Task, Looked, Marked
  <2> HIDE DEF v
  <2>3. u.kind = t.kind /\ u.at = t.at /\ u.on = t.on /\ u.moved /\ u.ok = t.ok
    BY <1>2, <2>1, TaskMarks
  <2>4. t.kind = "refresh"
    BY <1>1, <1>2, <2>2 DEF Staged, Kinds
  <2>5. Refreshes(t)
    BY <1>5, <2>4 DEF Goes
  <2> HIDE DEF u
  <2>6. b # head
    <3>1. b # Wt!CurrentBranch
      BY <2>2, <2>5 DEF Refreshes
    <3> QED
      BY <3>1 DEF Wt!CurrentBranch
  <2>7. \A x \in Trunk : x # b => tips[x] = tip[x]
    BY <1>3 DEF Tips
  <2>8. head \in Trunk => tip'[head'] = tip[head]
    BY <2>2, <2>6, <2>7
  <2>9. Wt!HeadCommit' = Wt!HeadCommit /\ Wt!CurrentBranch' = Wt!CurrentBranch
    BY <2>2, <2>8 DEF Wt!HeadCommit, Wt!CommitOf, Wt!CurrentBranch
  <2>10. Idle' = Idle /\ HeadShown' = HeadShown /\ Wt!Clean' = Wt!Clean
    BY <1>7, <2>2, <2>9 DEF Idle, HeadShown, Wt!Clean
  <2>11. \/ shown'.head = Wt!HeadCommit'
         \/ head' \in Trunk /\ shown'.head.n < tip'[head']
    BY <1>7, <2>2, <2>5, <2>8, <2>9 DEF Refreshes
  <2>12. Refreshes(u)'
    BY <2>2, <2>3, <2>5, <2>9, <2>10, <2>11 DEF Refreshes, Moving
  <2>13. Goes(u)'
    BY <2>2, <2>3, <2>4, <2>12 DEF Goes
  <2> QED
    BY <1>5, <1>7, <2>2, <2>3, <2>4, <2>9, <2>13, OneGoesOn
<1>20. CASE t.todo # {} /\ LET b == Wt!Turn(t)
                          IN  Wt!Skip(t, b) \/ Wt!ForwardCurrent(t, b) \/ Wt!ForwardOther(t, b)
  <2>1. Wt!Turn(t) \in Trunk
    BY <1>2, <1>20 DEF Wt!Turn
  <2> QED
    BY <1>17, <1>18, <1>19, <1>20, <2>1
<1> QED
  BY <1>8, <1>9, <1>10, <1>11, <1>12, <1>13, <1>14, <1>15, <1>16, <1>20 DEF Wt!Git

\* A reload begins a walk, and it is the only one unless walks have raced.
LEMMA ReloadWalks ==
  ASSUME PanelsAssumption, NEW p \in Views, NEW S, StagedTasks(S, server),
         raced \in BOOLEAN, Wt!Reload(p, S)
  PROVE  /\ ~raced' => \A s \in S : s.kind # "history"
         /\ \E w : /\ w.kind = "history" /\ w.at = "start" /\ w.ok
                   /\ tasksW' = S \cup {w}
<1> DEFINE w == Wt!New("history", "start", S)
<1>1. w.kind = "history" /\ w.at = "start" /\ w.ok
  BY NewTask DEF Kinds, Stages, StagedTasks
<1>2. tasksW' = S \cup {w}
  BY ReloadShows DEF Wt!With
<1>3. ~raced' => \A s \in S : s.kind # "history"
  BY ReloadShows
<1> QED
  BY <1>1, <1>2, <1>3

\* A landing that reloads the history and leaves no other task.
LEMMA ReloadIsDone ==
  ASSUME PanelsAssumption, NEW p \in Views, NEW S, StagedTasks(S, server),
         raced \in BOOLEAN, Wt!Reload(p, S),
         \A s \in S : s.kind = "history" /\ s.ok, AtEase'
  PROVE  Orderly'
<1>1. PICK w : /\ w.kind = "history" /\ w.at = "start" /\ w.ok
               /\ tasksW' = S \cup {w}
  BY ReloadWalks
<1>2. ~raced' => S = {}
  BY ReloadWalks
<1>3. HistoryFollows'
  BY <1>1, <1>2 DEF HistoryFollows, Histories, Mains
<1> QED
  BY <1>1, <1>2, <1>3, OneIsDone

\* A landing that reloads the history and is followed by another task.
LEMMA ReloadFollows ==
  ASSUME PanelsAssumption, NEW p \in Views, NEW R, NEW u, StagedTasks(R \cup {u}, server),
         raced \in BOOLEAN, Wt!Reload(p, R \cup {u}),
         \A s \in R : s.kind = "history" /\ s.ok,
         u.kind # "history", u.ok, Goes(u)'
  PROVE  Orderly'
<1>1. PICK w : /\ w.kind = "history" /\ w.at = "start" /\ w.ok
               /\ tasksW' = (R \cup {u}) \cup {w}
  BY ReloadWalks
<1>2. ~raced' => R = {}
  BY ReloadWalks
<1>3. HistoryFollows'
  BY <1>1, <1>2 DEF HistoryFollows, Histories, Mains
<1> DEFINE Q == R \cup {w}
<1>4. /\ tasksW' = Q \cup {u}
      /\ \A s \in Q : s.kind = "history" /\ s.ok
      /\ ~raced' => \A s, r \in Q : s = r
  BY <1>1, <1>2
<1> HIDE DEF Q
<1> QED
  BY <1>3, <1>4, OneFollows

\* Every landing keeps the order: it shows what its task has read, and nothing has
\* moved since.
LEMMA LandOrderly ==
  ASSUME PanelsAssumption, WorktreeTypes, Orderly, NEW t \in tasksW, Wt!Land(t)
  PROVE  Orderly'
<1>1. /\ MirrorTypes /\ PanelTypes /\ t \in Wt!Task /\ Staged(t, server)
      /\ shown \in Views /\ raced \in BOOLEAN /\ StagedTasks(tasksW, server)
  BY DEF WorktreeTypes, StagedTasks, PanelTypes
<1>2. /\ t.on \in Trunk \cup {None} /\ t.moved \in BOOLEAN
      /\ t.commit \in Commits /\ t.files \in Commits \cup {Wt!Torn}
  BY <1>1, TaskFields
<1>3. StagedTasks(Wt!Rest(t), server)
  BY <1>1, OneEnds DEF Wt!Rest
<1>4. UNCHANGED Wt!mirror /\ t.at = "land"
  BY DEF Wt!Land, Wt!Landing, Wt!HistoryLands, Wt!LoadLands, Wt!RefreshLands, Wt!CatchUpLands,
         Wt!SwitchLands, Wt!ReloadLands
<1>5. /\ UNCHANGED <<tip, head, tree>>
      /\ Wt!HeadCommit' = Wt!HeadCommit /\ Wt!CurrentBranch' = Wt!CurrentBranch
      /\ Wt!Clean' = Wt!Clean
  BY <1>4, HeadStays DEF Wt!mirror, Wt!Clean
<1>6. /\ Trunk \cap Tag = {} /\ None \notin Trunk \cup Tag
      /\ Wt!HeadCommit \in Commits /\ head \in Wt!Ref
  BY <1>1, HeadTyped DEF PanelsAssumption, Wt!WorktreeAssumption, MirrorTypes
<1>7. /\ t.ok /\ HistoryFollows
      /\ \A s \in tasksW : s.ok
      /\ ~raced => \A s, r \in Histories : s = r
  BY DEF Orderly
<1>8. t.kind # "history" =>
        /\ Mains = {t} /\ Goes(t) /\ tasksW = Histories \cup {t}
        /\ \A s \in Wt!Rest(t) : s.kind = "history" /\ s.ok
  <2> SUFFICES ASSUME t.kind # "history"
               PROVE  /\ Mains = {t} /\ Goes(t) /\ tasksW = Histories \cup {t}
                      /\ \A s \in Wt!Rest(t) : s.kind = "history" /\ s.ok
    OBVIOUS
  <2>1. /\ Mains = {t} /\ Goes(t) /\ tasksW = Histories \cup {t}
        /\ \A s \in Wt!Rest(t) : s.kind = "history"
    BY Alone
  <2>2. \A s \in Wt!Rest(t) : s.ok
    BY <1>7 DEF Wt!Rest
  <2> QED
    BY <2>1, <2>2
<1>9. t.kind \notin {"history", "switch"} =>
        t.commit = Wt!HeadCommit /\ t.files = tree /\ t.on = Wt!CurrentBranch
  BY <1>4, <1>8 DEF Goes
<1>10. CASE Wt!HistoryLands(t)
  <2>1. /\ t.kind = "history" /\ tasksW' = tasksW \ {t}
        /\ shown' = [shown EXCEPT !.history = t.commit]
        /\ UNCHANGED <<known, loadingW, switching, raced>>
    BY <1>7, <1>10 DEF Wt!HistoryLands, Wt!Landing, Wt!Rest, Wt!ghosts
  <2>2. UNCHANGED Seen /\ shown'.history = t.commit
    BY <1>1, <1>2, <1>5, <2>1, ViewWalks DEF Seen
  <2>3. Mains' = Mains /\ Histories' = Histories \ {t} /\ t \in Histories
    BY <2>1 DEF Mains, Histories
  <2>4. /\ \A s, r \in Mains : s = r
        /\ \A s \in Mains : Goes(s)
        /\ Mains = {} => AtEase
    BY DEF Orderly
  <2>5. \A s \in Mains' : Goes(s)'
    BY <2>2, <2>3, <2>4, GoesStays
  <2>6. Mains' = {} => AtEase'
    BY <2>2, <2>3, <2>4, EaseStays
  <2>7. HistoryFollows'
    <3>1. shown'.head = shown.head
      BY <2>2 DEF Seen
    <3> QED
      BY <1>4, <1>5, <1>7, <2>1, <2>2, <2>3, <3>1 DEF HistoryFollows
  <2> QED
    BY <1>7, <2>1, <2>3, <2>4, <2>5, <2>6, <2>7 DEF Orderly
<1>11. ASSUME NEW pushing \in BOOLEAN, Wt!LoadLands(t, pushing)
       PROVE  Orderly'
  <2>1. /\ t.kind = "load" /\ loadingW' = FALSE /\ known' = TRUE /\ switching' = switching
    BY <1>7, <1>11 DEF Wt!LoadLands, Wt!Landing
  <2>2. Loads(t)
    BY <1>8, <2>1 DEF Goes
  <2> DEFINE p == Wt!Selecting(Holding(shown, t.commit, t.files), t.on)
             S == IF t.moved \/ pushing THEN Wt!Rest(t)
                  ELSE Wt!With("refresh", "start", Wt!Rest(t))
  <2>3. Wt!Reload(p, S)
    BY <1>7, <1>11 DEF Wt!LoadLands, Holding
  <2>4. /\ p \in Views /\ p.head = t.commit /\ p.files = t.files
        /\ p.branch = (IF t.on = None THEN shown.branch ELSE t.on) /\ p.tag = shown.tag
    <3> DEFINE q == Holding(shown, t.commit, t.files)
    <3>1. /\ q \in Views /\ q.head = t.commit /\ q.files = t.files
          /\ q.branch = shown.branch /\ q.tag = shown.tag
      BY <1>1, <1>2, ViewHolds
    <3> HIDE DEF q
    <3>2. /\ Wt!Selecting(q, t.on) \in Views
          /\ Wt!Selecting(q, t.on).head = q.head /\ Wt!Selecting(q, t.on).files = q.files
          /\ Wt!Selecting(q, t.on).branch = (IF t.on = None THEN q.branch ELSE t.on)
          /\ Wt!Selecting(q, t.on).tag = q.tag
      BY <1>2, <3>1, ViewSelects
    <3>3. p = Wt!Selecting(q, t.on)
      BY DEF q
    <3> HIDE DEF p
    <3> QED
      BY <3>1, <3>2, <3>3
  <2> HIDE DEF p
  <2>5. StagedTasks(S, server)
    BY <1>3, OneBegins DEF Beginnings
  <2>6. p.branch = Wt!CurrentBranch /\ p.tag \in {None, head}
    BY <1>9, <2>1, <2>2, <2>4 DEF Loads
  <2>7. /\ shown'.head = p.head /\ shown'.files = p.files
        /\ shown'.branch = p.branch /\ shown'.tag = p.tag
    BY <1>1, <2>3, <2>4, <2>5, ReloadShows
  <2>8. AtEase'
    BY <1>5, <1>9, <2>1, <2>2, <2>4, <2>6, <2>7 DEF AtEase, Idle, HeadShown, Loads
  <2>9. CASE t.moved \/ pushing
    <3>1. S = Wt!Rest(t)
      BY <2>9
    <3> HIDE DEF S
    <3> QED
      BY <1>1, <1>3, <1>8, <2>1, <2>3, <2>4, <2>8, <3>1, ReloadIsDone
  <2>10. CASE ~(t.moved \/ pushing)
    <3>1. PICK u : u = Wt!New("refresh", "start", Wt!Rest(t))
      OBVIOUS
    <3>2. u.kind = "refresh" /\ u.at = "start" /\ u.ok /\ ~u.moved
      BY <1>3, <3>1, NewTask DEF StagedTasks, Kinds, Stages
    <3>3. S = Wt!Rest(t) \cup {u}
      BY <2>10, <3>1 DEF Wt!With
    <3> HIDE DEF S
    <3>4. Refreshes(u)'
      BY <2>8, <3>2 DEF Refreshes, AtEase, Moving
    <3>5. Goes(u)'
      BY <3>2, <3>4 DEF Goes
    <3> QED
      BY <1>1, <1>8, <2>1, <2>3, <2>4, <2>5, <3>2, <3>3, <3>5, ReloadFollows
  <2> QED
    BY <2>9, <2>10
<1>12. CASE Wt!RefreshLands(t)
  <2>1. /\ t.kind = "refresh" /\ UNCHANGED <<known, loadingW, switching>>
    BY <1>12 DEF Wt!RefreshLands, Wt!Landing
  <2>2. Refreshes(t) /\ Wt!Clean /\ (~t.moved => shown.files = tree) /\ Idle /\ HeadShown
    BY <1>4, <1>8, <2>1 DEF Goes, Refreshes, Moving
  <2> DEFINE p == Wt!Selecting(Headed(shown, t.commit), t.on)
             S == IF t.moved THEN Wt!With("catchUp", "read", Wt!Rest(t)) ELSE Wt!Rest(t)
  <2>3. IF t.commit # shown.head THEN Wt!Reload(p, S) ELSE Wt!Show(p, S)
    BY <1>12 DEF Wt!RefreshLands, Headed
  <2>4. /\ p \in Views /\ p.head = t.commit /\ p.files = shown.files
        /\ p.branch = (IF t.on = None THEN shown.branch ELSE t.on) /\ p.tag = shown.tag
        /\ p.history = shown.history
    BY <1>1, <1>2, ViewHeads, ViewSelects
  <2> HIDE DEF p
  <2>5. StagedTasks(S, server)
    BY <1>3, OneBegins DEF Beginnings
  <2>6. p.branch = shown.branch
    BY <1>9, <2>1, <2>2, <2>4 DEF HeadShown
  <2>7. /\ shown'.head = p.head /\ shown'.files = p.files
        /\ shown'.branch = p.branch /\ shown'.tag = p.tag
    BY <1>1, <2>3, <2>4, <2>5, ReloadShows DEF Wt!Show
  <2>8. /\ Idle' /\ HeadShown' /\ Wt!Clean' /\ shown'.head = Wt!HeadCommit'
        /\ ~t.moved => AtEase'
    BY <1>5, <1>9, <2>1, <2>2, <2>4, <2>6, <2>7 DEF AtEase, Idle, HeadShown
  <2>9. PICK u : u = Wt!New("catchUp", "read", Wt!Rest(t))
    OBVIOUS
  <2>10. u.kind = "catchUp" /\ u.at = "read" /\ u.ok
    BY <1>3, <2>9, NewTask DEF StagedTasks, Kinds, Stages
  <2>11. S = IF t.moved THEN Wt!Rest(t) \cup {u} ELSE Wt!Rest(t)
    BY <2>9 DEF Wt!With
  <2> HIDE DEF S
  <2>12. Goes(u)'
    BY <2>8, <2>10 DEF Goes, CatchesUp
  <2>13. CASE t.commit # shown.head
    <3>1. Wt!Reload(p, S)
      BY <2>3, <2>13
    <3>2. CASE t.moved
      <4>1. S = Wt!Rest(t) \cup {u}
        BY <2>11, <3>2
      <4> QED
        BY <1>1, <1>8, <2>1, <2>4, <2>5, <2>10, <2>12, <3>1, <4>1, ReloadFollows
    <3>3. CASE ~t.moved
      <4>1. S = Wt!Rest(t)
        BY <2>11, <3>3
      <4> QED
        BY <1>1, <1>3, <1>8, <2>1, <2>4, <2>8, <3>1, <3>3, <4>1, ReloadIsDone
    <3> QED
      BY <3>2, <3>3
  <2>14. CASE t.commit = shown.head
    <3>1. shown' = p /\ tasksW' = S /\ raced' = raced
      BY <2>3, <2>14 DEF Wt!Show
    <3>2. Wt!Rest(t) = Histories
      BY <1>8, <2>1 DEF Wt!Rest, Histories
    <3>3. Histories' = Histories /\ Mains' = IF t.moved THEN {u} ELSE {}
      BY <2>10, <2>11, <3>1, <3>2 DEF Histories, Mains
    <3>4. HistoryFollows'
      <4>1. shown.head = Wt!HeadCommit
        BY <1>9, <2>1, <2>14
      <4> QED
        BY <1>5, <1>7, <1>8, <2>1, <2>4, <3>1, <3>3, <4>1 DEF HistoryFollows
    <3>5. ~raced' => \A s, r \in Wt!Rest(t) : s = r
      BY <1>7, <3>1, <3>2
    <3>6. CASE t.moved
      <4>1. tasksW' = Wt!Rest(t) \cup {u}
        BY <2>11, <3>1, <3>6
      <4> QED
        BY <1>8, <2>1, <2>10, <2>12, <3>4, <3>5, <4>1, OneFollows
    <3>7. CASE ~t.moved
      <4>1. tasksW' = Wt!Rest(t)
        BY <2>11, <3>1, <3>7
      <4> QED
        BY <1>8, <2>1, <2>8, <3>4, <3>5, <3>7, <4>1, OneIsDone
    <3> QED
      BY <3>6, <3>7
  <2> QED
    BY <2>13, <2>14
<1>13. CASE Wt!CatchUpLands(t)
  <2>1. /\ t.kind = "catchUp" /\ UNCHANGED <<known, loadingW, switching>>
    BY <1>13 DEF Wt!CatchUpLands, Wt!Landing
  <2>2. CatchesUp(t)
    BY <1>8, <2>1 DEF Goes
  <2>3. t.commit = shown.head /\ shown.head = Wt!HeadCommit
    BY <1>9, <2>1, <2>2 DEF CatchesUp
  <2> DEFINE p == Holding(shown, t.commit, t.files)
  <2>4. shown' = p /\ tasksW' = Wt!Rest(t) /\ raced' = raced
    BY <1>7, <1>13, <2>3 DEF Wt!CatchUpLands, Holding, Wt!Show
  <2>5. /\ p.head = t.commit /\ p.files = t.files /\ p.branch = shown.branch /\ p.tag = shown.tag
        /\ p.history = shown.history
    BY <1>1, <1>2, ViewHolds
  <2> HIDE DEF p
  <2>6. AtEase'
    BY <1>5, <1>9, <2>1, <2>2, <2>4, <2>5 DEF AtEase, CatchesUp, Idle, HeadShown
  <2>7. Wt!Rest(t) = Histories
    BY <1>8, <2>1 DEF Wt!Rest, Histories
  <2>8. Histories' = Histories /\ Mains' = {}
    BY <2>4, <2>7 DEF Histories, Mains
  <2>9. HistoryFollows'
    BY <1>5, <1>7, <1>8, <2>1, <2>3, <2>4, <2>5, <2>8 DEF HistoryFollows
  <2>10. ~raced' => \A s, r \in Wt!Rest(t) : s = r
    BY <1>7, <2>4, <2>7
  <2> QED
    BY <1>8, <2>1, <2>4, <2>6, <2>9, <2>10, OneIsDone
<1>14. CASE Wt!SwitchLands(t)
  <2>1. /\ t.kind = "switch" /\ UNCHANGED <<shown, known, loadingW, switching, raced>>
        /\ tasksW' = Wt!With("reload", "read", Wt!Rest(t))
    BY <1>7, <1>14 DEF Wt!SwitchLands, Wt!Landing, Wt!ghosts
  <2>2. Switches(t) /\ head = t.ref /\ Wt!Clean
    BY <1>4, <1>8, <2>1 DEF Goes, Switches
  <2>3. PICK u : u = Wt!New("reload", "read", Wt!Rest(t))
    OBVIOUS
  <2>4. u.kind = "reload" /\ u.at = "read" /\ u.ok
    BY <1>3, <2>3, NewTask DEF StagedTasks, Kinds, Stages
  <2>5. tasksW' = Wt!Rest(t) \cup {u}
    BY <2>1, <2>3 DEF Wt!With
  <2>6. HeadShown
    BY <2>2 DEF HeadShown, Switches, Wt!CurrentBranch
  <2>7. Reloads(u)'
    BY <1>5, <2>1, <2>2, <2>6 DEF Reloads, Switches, HeadShown
  <2>8. Goes(u)'
    BY <2>4, <2>7 DEF Goes
  <2>9. Wt!Rest(t) = Histories
    BY <1>8, <2>1 DEF Wt!Rest, Histories
  <2>10. ~raced' => \A s, r \in Wt!Rest(t) : s = r
    BY <1>7, <2>1, <2>9
  <2>11. HistoryFollows'
    <3>1. u \in Mains'
      BY <2>4, <2>5 DEF Mains, Histories
    <3> QED
      BY <2>4, <3>1 DEF HistoryFollows
  <2> QED
    BY <1>8, <2>1, <2>4, <2>5, <2>8, <2>10, <2>11, OneFollows
<1>15. CASE Wt!ReloadLands(t)
  <2>1. /\ t.kind = "reload" /\ UNCHANGED <<known, loadingW>> /\ switching' = FALSE
    BY <1>15 DEF Wt!ReloadLands, Wt!Landing
  <2>2. Reloads(t)
    BY <1>8, <2>1 DEF Goes
  <2> DEFINE p == Holding(shown, t.commit, t.files)
  <2>3. Wt!Reload(p, Wt!Rest(t))
    BY <1>7, <1>15 DEF Wt!ReloadLands, Holding
  <2>4. /\ p \in Views /\ p.head = t.commit /\ p.files = t.files
        /\ p.branch = shown.branch /\ p.tag = shown.tag
    BY <1>1, <1>2, ViewHolds
  <2> HIDE DEF p
  <2>5. /\ shown'.head = p.head /\ shown'.files = p.files
        /\ shown'.branch = p.branch /\ shown'.tag = p.tag
    BY <1>1, <1>3, <2>3, <2>4, ReloadShows
  <2>6. AtEase'
    BY <1>5, <1>9, <2>1, <2>2, <2>4, <2>5 DEF AtEase, Reloads, Idle, HeadShown
  <2> QED
    BY <1>1, <1>3, <1>8, <2>1, <2>3, <2>4, <2>6, ReloadIsDone
<1> QED
  BY <1>10, <1>11, <1>12, <1>13, <1>14, <1>15 DEF Wt!Land

\* A task begins while none is in flight.
LEMMA OneBeginsAlone ==
  ASSUME NEW u, u.kind \notin {"history", "refresh", "catchUp"}, u.ok, Goes(u)', tasksW' = {u}
  PROVE  Orderly'
<1>1. Mains' = {u} /\ Histories' = {}
  BY DEF Mains, Histories
<1>2. HistoryFollows'
  BY <1>1 DEF HistoryFollows
<1> QED
  BY <1>1, <1>2 DEF Orderly

\* A switch that overlaps with nothing begins at ease.
LEMMA SwitchOrderly ==
  ASSUME PanelsAssumption, WorktreeTypes, Orderly, NEW r \in Wt!Ref, Wt!Switch(r), ~overlapped'
  PROVE  Orderly'
<1>1. tasksW = {} /\ shown \in Views /\ Trunk \cap Tag = {}
  BY DEF Wt!Switch, WorktreeTypes, PanelTypes, PanelsAssumption, Wt!WorktreeAssumption
<1>2. AtEase
  BY <1>1 DEF Orderly, Mains, Histories
<1>3. PICK u : u = Switching(r)
  OBVIOUS
<1>4. u.kind = "switch" /\ u.at = "start" /\ u.ref = r /\ u.ok
  BY <1>3, SwitchBegins
<1>5. PICK b \in Trunk \cup {None}, g \in Tag \cup {None} :
        /\ b = IF r \in Trunk THEN r ELSE None
        /\ g = IF r \in Tag THEN r ELSE None
  OBVIOUS
<1>6. /\ tasksW' = {u} /\ shown' = Naming(shown, b, g)
      /\ switching' = TRUE /\ UNCHANGED <<known, loadingW>>
  BY <1>1, <1>3, <1>5 DEF Wt!Switch, Switching, Naming
<1>7. shown'.branch = b /\ shown'.tag = g
  BY <1>1, <1>6, ViewNames
<1>8. Switches(u)'
  BY <1>2, <1>4, <1>5, <1>6, <1>7 DEF Switches, AtEase, Idle, Moving
<1>9. Goes(u)'
  BY <1>4, <1>8 DEF Goes
<1> QED
  BY <1>4, <1>6, <1>9, OneBeginsAlone

\* A load begins with an empty panel, or one at ease.
LEMMA LoadBegins ==
  ASSUME PanelsAssumption, tasksW' = Wt!With("load", "start", {}), Loads(0)'
  PROVE  Orderly'
<1>1. PICK u : u = Wt!New("load", "start", {})
  OBVIOUS
<1>2. u.kind = "load" /\ u.at = "start" /\ u.ok
  BY <1>1, NewTask, FS_EmptySet DEF Kinds, Stages
<1>3. tasksW' = {u}
  BY <1>1 DEF Wt!With
<1>4. Goes(u)'
  BY <1>2 DEF Goes, Loads
<1> QED
  BY <1>2, <1>3, <1>4, OneBeginsAlone

\* So does a load after a push that overlaps with nothing.
LEMMA PushOrderly ==
  ASSUME PanelsAssumption, WorktreeTypes, Orderly, Wt!PushedFromPanel, ~overlapped'
  PROVE  Orderly'
<1>1. tasksW = {}
  BY DEF Wt!PushedFromPanel
<1>2. AtEase
  BY <1>1 DEF Orderly, Mains, Histories
<1>3. /\ tasksW' = Wt!With("load", "start", {}) /\ loadingW' = TRUE
      /\ UNCHANGED <<Wt!mirror, shown, known, switching>>
  BY <1>1 DEF Wt!PushedFromPanel
<1>4. UNCHANGED <<tip, head, tree>>
  BY <1>3 DEF Wt!mirror
<1>5. /\ Wt!HeadCommit' = Wt!HeadCommit /\ Wt!CurrentBranch' = Wt!CurrentBranch
      /\ Wt!Clean' = Wt!Clean
  BY <1>4, HeadStays DEF Wt!Clean
<1>6. Loads(0)'
  BY <1>2, <1>3, <1>4, <1>5 DEF Loads, AtEase, Idle, HeadShown
<1> QED
  BY <1>3, <1>6, LoadBegins

\* So does the panel after a restart that interrupted no writing.
LEMMA StopOrderly ==
  ASSUME PanelsAssumption, Wt!Stop, ~broken'
  PROVE  Orderly'
<1>1. /\ tasksW' = Wt!With("load", "start", {}) /\ loadingW' = TRUE /\ switching' = FALSE
      /\ shown' = Wt!Nothing /\ Wt!Clean /\ UNCHANGED Wt!mirror
  BY DEF Wt!Stop
<1>2. UNCHANGED <<tip, head, tree>>
  BY <1>1 DEF Wt!mirror
<1>3. /\ Wt!HeadCommit' = Wt!HeadCommit /\ Wt!CurrentBranch' = Wt!CurrentBranch
      /\ Wt!Clean' = Wt!Clean
  BY <1>2, HeadStays DEF Wt!Clean
<1>4. shown'.branch = None /\ shown'.tag = None
  BY <1>1 DEF Wt!Nothing
<1>5. Loads(0)'
  BY <1>1, <1>3, <1>4 DEF Loads
<1> QED
  BY <1>1, <1>5, LoadBegins

\* The order is kept when nothing moves.
LEMMA OrderStays ==
  ASSUME Orderly, UNCHANGED <<Seen, shown, raced, tasksW>>
  PROVE  Orderly'
<1>1. Mains' = Mains /\ Histories' = Histories
  BY DEF Mains, Histories
<1>2. Wt!HeadCommit' = Wt!HeadCommit
  BY HeadStays DEF Seen
<1>3. /\ \A s \in Mains : Goes(s)
      /\ Mains = {} => AtEase
      /\ HistoryFollows
  BY DEF Orderly
<1>4. \A s \in Mains : Goes(s)'
  BY <1>3, GoesStays
<1>5. Mains = {} => AtEase'
  BY <1>3, EaseStays
<1>6. HistoryFollows'
  BY <1>1, <1>2, <1>3 DEF HistoryFollows
<1> QED
  BY <1>1, <1>4, <1>5, <1>6 DEF Orderly

\* The worktree and its panel start in the invariant.
LEMMA WorktreeStart ==
  ASSUME PanelsAssumption, Wt!Init
  PROVE  WorktreeInv
<1>1. WorktreeTypes
  BY TypesStart
<1>2. PICK u : u = Wt!New("load", "start", {})
  OBVIOUS
<1>3. u.kind = "load" /\ u.at = "start" /\ u.ok
  BY <1>2, NewTask, FS_EmptySet DEF Kinds, Stages
<1>4. tasksW = {u}
  BY <1>2 DEF Wt!Init, Wt!Start, Wt!With
<1>5. Loads(u)
  BY DEF Loads, Wt!Init, Wt!Start, Wt!Clean, Wt!Nothing
<1>6. Goes(u)
  BY <1>3, <1>5 DEF Goes
<1>7. Mains = {u} /\ Histories = {}
  BY <1>3, <1>4 DEF Mains, Histories
<1>8. HistoryFollows
  BY <1>3, <1>7 DEF HistoryFollows
<1>9. Orderly
  BY <1>3, <1>4, <1>6, <1>7, <1>8 DEF Orderly
<1> QED
  BY <1>1, <1>9 DEF WorktreeInv

\* Every step of the worktree and its panel keeps the invariant.
LEMMA WorktreeSteps ==
  ASSUME PanelsAssumption, WorktreeInv, [Wt!Next]_Wt!vars
  PROVE  WorktreeInv'
<1>1. WorktreeTypes /\ WorktreeTypes'
  BY WorktreeTyped DEF WorktreeInv
<1>2. SUFFICES ASSUME ~overlapped', ~broken'
               PROVE  Orderly'
  BY <1>1 DEF WorktreeInv
<1>3. CASE UNCHANGED Wt!vars
  <2>1. /\ UNCHANGED <<Seen, shown, raced, tasksW>> /\ UNCHANGED <<overlapped, broken>>
    BY <1>3 DEF Wt!vars, Wt!mirror, Wt!panel, Wt!ghosts, Seen
  <2> QED
    BY <1>2, <2>1, OrderStays DEF WorktreeInv
<1>4. CASE \E b \in Trunk : Wt!Advance(b)
  <2>1. /\ UNCHANGED <<Seen, shown, raced, tasksW>> /\ UNCHANGED <<overlapped, broken>>
    BY <1>4 DEF Wt!Advance, Wt!panel, Wt!ghosts, Seen
  <2> QED
    BY <1>2, <2>1, OrderStays DEF WorktreeInv
<1>5. ASSUME NEW r \in Wt!Ref, Wt!Switch(r)
      PROVE  Orderly'
  <2>1. ~overlapped /\ ~broken
    BY <1>2, <1>5 DEF Wt!Switch
  <2> QED
    BY <1>1, <1>2, <1>5, <2>1, SwitchOrderly DEF WorktreeInv
<1>6. CASE Wt!PushedFromPanel
  <2>1. ~overlapped /\ ~broken
    BY <1>2, <1>6 DEF Wt!PushedFromPanel
  <2> QED
    BY <1>1, <1>2, <1>6, <2>1, PushOrderly DEF WorktreeInv
<1>7. CASE Wt!Stop
  BY <1>2, <1>7, StopOrderly
<1>8. ASSUME NEW t \in tasksW, Wt!Git(t)
      PROVE  Orderly'
  <2>1. UNCHANGED Wt!ghosts
    BY <1>8 DEF Wt!Git, Wt!Open, Wt!Read, Wt!Walk, Wt!MoveHead, Wt!Fetch, Wt!WriteStarts,
       Wt!WriteEnds, Wt!MoveBranch, Wt!Forwarded, Wt!Skip, Wt!ForwardCurrent, Wt!ForwardOther
  <2>2. ~overlapped /\ ~broken
    BY <1>2, <2>1 DEF Wt!ghosts
  <2> QED
    BY <1>1, <1>8, <2>2, GitOrderly DEF WorktreeInv
<1>9. ASSUME NEW t \in tasksW, Wt!Land(t)
      PROVE  Orderly'
  <2>1. UNCHANGED <<overlapped, broken>>
    BY <1>9 DEF Wt!Land, Wt!HistoryLands, Wt!LoadLands, Wt!RefreshLands, Wt!CatchUpLands,
       Wt!SwitchLands, Wt!ReloadLands, Wt!ghosts
  <2>2. ~overlapped /\ ~broken
    BY <1>2, <2>1
  <2> QED
    BY <1>1, <1>9, <2>2, LandOrderly DEF WorktreeInv
<1>10. ASSUME NEW t \in tasksW, Wt!Fail(t)
       PROVE  Orderly'
  BY <1>2, <1>10 DEF Wt!Fail
<1> QED
  BY <1>3, <1>4, <1>5, <1>6, <1>7, <1>8, <1>9, <1>10 DEF Wt!Next

\* The invariant says what the panel shows at rest.
LEMMA WorktreeShows ==
  ASSUME WorktreeInv
  PROVE  Wt!ShowsTheWorktree
<1> SUFFICES ASSUME tasksW = {}, ~overlapped, ~broken
             PROVE  /\ Wt!Clean
                    /\ shown.head = Wt!HeadCommit /\ shown.files = tree
                    /\ shown.branch = Wt!CurrentBranch /\ shown.tag \in {None, head}
                    /\ ~raced => shown.history = Wt!HeadCommit
                    /\ known /\ ~loadingW /\ ~switching
  BY DEF Wt!ShowsTheWorktree, Wt!AtRest
<1>1. Mains = {} /\ Histories = {}
  BY DEF Mains, Histories
<1>2. AtEase /\ HistoryFollows
  BY <1>1 DEF WorktreeInv, Orderly
<1> QED
  BY <1>1, <1>2 DEF AtEase, HistoryFollows, Idle, HeadShown

\* The invariant has the types of the run.
LEMMA WorktreeIsTyped ==
  ASSUME WorktreeInv
  PROVE  Wt!TypeOK
  BY DEF WorktreeInv, WorktreeTypes, MirrorTypes, PanelTypes, StagedTasks, Tips, Wt!TypeOK

\* The steps of the other panels leave the worktree alone.
LEMMA WorktreeInvariance ==
  PanelsSpec => []WorktreeInv
<1>1. PanelsInit => WorktreeInv
  BY PanelsAssumption, WorktreeStart DEF PanelsInit
<1>2. WorktreeInv /\ [PanelsNext]_<<panel, vars, wt, pv, dt, pf, rs>> => WorktreeInv'
  <2> SUFFICES ASSUME WorktreeInv, [PanelsNext]_<<panel, vars, wt, pv, dt, pf, rs>>
               PROVE  WorktreeInv'
    OBVIOUS
  <2>1. Wt!Next \/ UNCHANGED wt
    BY DEF PanelsNext
  <2>2. UNCHANGED wt => UNCHANGED Wt!vars
    BY DEF wt, Wt!vars, Wt!mirror, Wt!panel, Wt!ghosts, Wt!bounds
  <2> QED
    BY <2>1, <2>2, PanelsAssumption, WorktreeSteps
<1> QED
  BY <1>1, <1>2, PTL DEF PanelsSpec

\* At rest the files on disk are those of HEAD, and the panel shows them, their
\* commit, their history and the name of HEAD, in every history in which requests
\* do not overlap, nothing fails and no writing is interrupted: through loads that
\* clone, refreshes that fast-forward, catch-ups and switches of the branch.
THEOREM ThePanelShowsTheWorktree ==
  PanelsSpec => []ShowsTheWorktree
<1>1. WorktreeInv => ShowsTheWorktree
  BY WorktreeShows DEF ShowsTheWorktree
<1> QED
  BY <1>1, WorktreeInvariance, PTL

\* Only a fast-forward, the other branches' or the current one's, and a clone move
\* a branch, and each of them forward.
LEMMA TipsGoForward ==
  ASSUME PanelsAssumption, WorktreeTypes, [Wt!Next]_Wt!vars, NEW b \in Trunk
  PROVE  tip'[b] >= tip[b]
<1>1. /\ server \in Tips /\ origin \in Tips /\ tip \in Tips /\ Below(tip, server)
      /\ StagedTasks(tasksW, server)
  BY DEF WorktreeTypes, MirrorTypes
<1>2. CASE tip' = tip
  BY <1>1, <1>2 DEF Tips
<1>3. CASE tip' = server
  BY <1>1, <1>3 DEF Tips, Below
<1>4. ASSUME NEW t \in tasksW, NEW x \in Trunk, Wt!ForwardOther(t, x)
      PROVE  tip'[b] >= tip[b]
  <2>1. tip[x] < origin[x] /\ tip' = [tip EXCEPT ![x] = origin[x]]
    BY <1>4 DEF Wt!ForwardOther
  <2> QED
    BY <1>1, <2>1 DEF Tips
<1>5. ASSUME NEW t \in tasksW, Wt!MoveBranch(t), Wt!AsRead(t)
      PROVE  tip'[b] >= tip[b]
  <2>1. t \in Wt!Task /\ Staged(t, server)
    BY <1>1 DEF StagedTasks
  <2>2. t.kind \in Kinds /\ t.n \in 0 .. MaxTip /\ t.was \in 0 .. MaxTip
    BY <2>1, TaskFields
  <2>3. t.at = "move" /\ tip' = [tip EXCEPT ![t.ref] = t.n] /\ tip[t.ref] = t.was
    BY <1>5 DEF Wt!MoveBranch, Wt!AsRead
  <2>4. t.was < t.n
    BY <2>1, <2>2, <2>3 DEF Staged, Moving, Kinds
  <2> QED
    BY <1>1, <2>2, <2>3, <2>4 DEF Tips
<1>6. ASSUME NEW t \in tasksW, Wt!Git(t)
      PROVE  tip'[b] >= tip[b]
  <2>1. t \in Wt!Task
    BY <1>1 DEF StagedTasks
  <2>2. t.todo # {} => Wt!Turn(t) \in Trunk
    BY <2>1, TaskFields DEF Wt!Turn
  <2>3. CASE Wt!MoveBranch(t)
    BY <1>2, <1>5, <2>3 DEF Wt!MoveBranch
  <2>4. CASE Wt!Open(t)
    BY <1>2, <1>3, <2>4 DEF Wt!Open
  <2>5. CASE Wt!Read(t) \/ Wt!Walk(t) \/ Wt!MoveHead(t) \/ Wt!Fetch(t)
             \/ Wt!WriteStarts(t) \/ Wt!WriteEnds(t) \/ Wt!Forwarded(t)
    BY <1>2, <2>5 DEF Wt!Read, Wt!Walk, Wt!MoveHead, Wt!Fetch, Wt!WriteStarts, Wt!WriteEnds,
                      Wt!Forwarded, Wt!mirror
  <2>6. CASE t.todo # {} /\ LET x == Wt!Turn(t)
                            IN  Wt!Skip(t, x) \/ Wt!ForwardCurrent(t, x) \/ Wt!ForwardOther(t, x)
    BY <1>2, <1>4, <2>2, <2>6 DEF Wt!Skip, Wt!ForwardCurrent, Wt!mirror
  <2> QED
    BY <1>6, <2>3, <2>4, <2>5, <2>6 DEF Wt!Git
<1>7. ASSUME NEW t \in tasksW, Wt!Land(t) \/ Wt!Fail(t)
      PROVE  tip'[b] >= tip[b]
  BY <1>2, <1>7 DEF Wt!Land, Wt!HistoryLands, Wt!LoadLands, Wt!RefreshLands, Wt!CatchUpLands,
       Wt!SwitchLands, Wt!ReloadLands, Wt!Fail, Wt!mirror
<1>8. CASE UNCHANGED Wt!vars
  BY <1>2, <1>8 DEF Wt!vars, Wt!mirror
<1>9. CASE (\E x \in Trunk : Wt!Advance(x)) \/ (\E r \in Wt!Ref : Wt!Switch(r))
           \/ Wt!PushedFromPanel \/ Wt!Stop
  BY <1>2, <1>9 DEF Wt!Advance, Wt!Switch, Wt!PushedFromPanel, Wt!Stop, Wt!mirror
<1> QED
  BY <1>6, <1>7, <1>8, <1>9 DEF Wt!Next

\* No branch of the mirror loses a commit, whatever tasks overlap and fail: a
\* fast-forward that was overtaken finds that its branch is not where it was.
THEOREM NoCommitIsTakenBack ==
  PanelsSpec => Wt!TipsAdvance
<1>1. WorktreeInv /\ [PanelsNext]_<<panel, vars, wt, pv, dt, pf, rs>>
        => [\A b \in Trunk : tip'[b] >= tip[b]]_Wt!vars
  <2> SUFFICES ASSUME WorktreeInv, [PanelsNext]_<<panel, vars, wt, pv, dt, pf, rs>>
               PROVE  [\A b \in Trunk : tip'[b] >= tip[b]]_Wt!vars
    OBVIOUS
  <2>1. Wt!Next \/ UNCHANGED wt
    BY DEF PanelsNext
  <2>2. UNCHANGED wt => UNCHANGED Wt!vars
    BY DEF wt, Wt!vars, Wt!mirror, Wt!panel, Wt!ghosts, Wt!bounds
  <2> QED
    BY <2>1, <2>2, PanelsAssumption, TipsGoForward DEF WorktreeInv
<1> QED
  BY <1>1, WorktreeInvariance, PTL DEF PanelsSpec, Wt!TipsAdvance

-----------------------------------------------------------------------------
(* The Files tab (Previews) *)

\* The previews that are texts, and the sum that the cache keeps of them: never
\* too small, and exact as long as no file was stored twice.
TextsOf(fs) == {f \in File : fs[f].kind = "text"}

CacheRecord ==
  [files : [File -> Pv!Preview], order : Seq(File), bytes : Nat,
   pane : File \cup {None, Pv!Overview}, dropped : SUBSET File]

Caches ==
  {c \in CacheRecord : /\ IsFiniteSet(TextsOf(c.files))
                       /\ Cardinality(TextsOf(c.files)) <= c.bytes}

Distinct(s) == \A i, j \in 1 .. Len(s) : s[i] = s[j] => i = j

Exact(c) == Distinct(c.order) /\ c.bytes = Cardinality(TextsOf(c.files))

Trimmed(c) == ~(Pv!TooMuch(c) /\ Pv!MoreThanOne(c.order))

TheCache ==
  [files |-> files, order |-> order, bytes |-> bytes, pane |-> pane, dropped |-> {}]

ReadSound(r) == r.of \in File /\ r.got \in Pv!Preview
WalkSound(w) == w \in [paths : SUBSET File, seen : 0 .. MaxVersions]

PreviewTypes ==
  /\ disk.version \in 1 .. MaxVersions /\ disk.present \subseteq File
  /\ TheCache \in Caches
  /\ loadingP \subseteq File /\ selected \in File \cup {None}
  /\ commits \in [File -> 0 .. MaxVersions] /\ pending \subseteq File
  /\ walking \in BOOLEAN /\ hung \in BOOLEAN /\ crossed \in BOOLEAN
  /\ twice \in BOOLEAN /\ overtaken \in BOOLEAN
  /\ \A r \in reads : ReadSound(r)
  /\ \A w \in walks : WalkSound(w)
  /\ cleared \in Nat /\ cleared <= disk.version

\* Without a file stored twice, every path is in the order once and the sum is right.
CacheIsExact ==
  ~twice => /\ ~hung /\ Exact(TheCache)
            /\ Len(order) <= 1 \/ bytes <= MaxTexts

\* Nothing is of a version before the last switch, in the cache or on its way.
NothingIsStale ==
  ~crossed =>
    /\ \A f \in File : files[f] # Pv!Absent => files[f].of >= cleared
    /\ \A f \in File : commits[f] # 0 => commits[f] >= cleared
    /\ \A r \in reads : r.got # Pv!Absent => r.got.of >= cleared
    /\ \A w \in walks : w.seen # 0 => w.seen >= cleared

\* The one read in flight is of the file that is selected; without one it is shown.
SelectedIsRead ==
  (~crossed /\ ~overtaken) =>
    /\ \A r, q \in reads : r = q
    /\ loadingP = {r.of : r \in reads}
    /\ selected # None =>
         /\ \A r \in reads : r.of = selected
         /\ reads = {} => /\ files[selected] # Pv!Absent
                          /\ files[selected].kind = "text" => pane = selected

\* Paths wait only while a batch is under way that will take them along.
BatchesRun ==
  /\ walking => walks # {}
  /\ ~walking => pending = {}

PreviewsInv ==
  PreviewTypes /\ CacheIsExact /\ NothingIsStale /\ SelectedIsRead /\ BatchesRun

\* The cardinality that Previews counts with is the usual one.
LEMMA TextsCounted ==
  ASSUME NEW S  PROVE  Pv!Cardinality(S) = Cardinality(S)
BY DEF Pv!Cardinality, Cardinality

\* What every round leads from one set to the next, all rounds lead from the first
\* set to the last: the function of Rounds exists, and has no least round at which it
\* leaves the sets.
LEMMA RoundsReach ==
  ASSUME NEW c, NEW last \in Nat, last = 2 * Len(c.order) + 1,
         NEW S, c \in S[0],
         \A i \in 0 .. last - 1 : \A d \in S[i] : Pv!Round(d) \in S[i + 1]
  PROVE  Pv!Rounds(c) \in S[last]
<1> DEFINE Is(h, n) == h = [i \in 0 .. n |-> IF i = 0 THEN c ELSE Pv!Round(h[i - 1])]
           Missing == {n \in Nat : ~ \E h : Is(h, n)}
<1>1. \E h : Is(h, last)
  <2>1. SUFFICES ASSUME Missing # {}  PROVE FALSE
    OBVIOUS
  <2>2. PICK n \in Missing : \A k \in Missing : n <= k
    BY <2>1, LeastNatural
  <2>3. CASE n = 0
    <3>1. Is([i \in 0 .. 0 |-> c], 0)
      OBVIOUS
    <3> QED BY <3>1, <2>2, <2>3
  <2>4. CASE n # 0
    <3>1. PICK h : Is(h, n - 1)
      BY <2>2, <2>4
    <3> DEFINE g == [i \in 0 .. n |-> IF i = 0 THEN c ELSE Pv!Round(h[i - 1])]
    <3>2. \A i \in 0 .. n : i # 0 => g[i - 1] = h[i - 1]
      <4>1. \A j \in 0 .. n - 1 : h[j] = IF j = 0 THEN c ELSE Pv!Round(h[j - 1])
        BY <3>1
      <4>2. \A j \in 0 .. n : g[j] = IF j = 0 THEN c ELSE Pv!Round(h[j - 1])
        OBVIOUS
      <4>3. n \in Nat /\ \A i \in 0 .. n : i # 0 => i - 1 \in 0 .. n - 1 /\ i - 1 \in 0 .. n
        BY <2>2
      <4> HIDE DEF g
      <4>4. \A j \in 0 .. n - 1 : j \in 0 .. n
        BY <4>3
      <4> QED BY <4>1, <4>2, <4>3, <4>4
    <3>3. Is(g, n)
      <4>1. \A i \in 0 .. n : g[i] = IF i = 0 THEN c ELSE Pv!Round(g[i - 1])
        BY <3>2
      <4> QED BY <4>1
    <3> QED BY <3>3, <2>2
  <2> QED BY <2>3, <2>4
<1> DEFINE f == CHOOSE h : Is(h, last)
<1>2. Is(f, last)
  BY <1>1
<1>3. Pv!Rounds(c) = f[last]
  BY DEF Pv!Rounds
<1> DEFINE Lost == {i \in Nat : i \in 0 .. last /\ f[i] \notin S[i]}
<1> HIDE DEF f
<1>4. f[0] = c /\ \A i \in 1 .. last : f[i] = Pv!Round(f[i - 1])
  BY <1>2
<1>5. Lost = {}
  <2>1. SUFFICES ASSUME Lost # {}  PROVE FALSE
    OBVIOUS
  <2>2. PICK i \in Lost : \A k \in Lost : i <= k
    BY <2>1, LeastNatural
  <2>3. i # 0
    BY <2>2, <1>4
  <2>4. i - 1 \in 0 .. last - 1 /\ i - 1 \notin Lost
    BY <2>2, <2>3
  <2>5. f[i - 1] \in S[i - 1]
    BY <2>4
  <2>6. Pv!Round(f[i - 1]) \in S[(i - 1) + 1]
    BY <2>4, <2>5
  <2> QED BY <2>2, <2>3, <2>6, <1>4
<1> QED BY <1>3, <1>5

\* What is where in an order with one path more.
LEMMA AppendAt ==
  ASSUME NEW s \in Seq(File), NEW f \in File
  PROVE  \A i \in 1 .. Len(s) + 1 :
           Append(s, f)[i] = IF i = Len(s) + 1 THEN f ELSE s[i]
OBVIOUS

\* The order after its first path has been put at the end.
LEMMA Rotates ==
  ASSUME NEW s \in Seq(File), Len(s) > 1
  PROVE  /\ Append(Tail(s), Head(s)) \in Seq(File)
         /\ Len(Append(Tail(s), Head(s))) = Len(s)
         /\ Distinct(s) => /\ Distinct(Append(Tail(s), Head(s)))
                           /\ Head(Append(Tail(s), Head(s))) # Head(s)
<1>1. Head(s) \in File /\ Tail(s) \in Seq(File) /\ Len(Tail(s)) = Len(s) - 1
  OBVIOUS
<1> DEFINE t == Append(Tail(s), Head(s))
<1>2. t \in Seq(File) /\ Len(t) = Len(s)
  BY <1>1
<1>3. \A i \in 1 .. Len(s) : t[i] = IF i = Len(s) THEN s[1] ELSE s[i + 1]
  <2>1. \A i \in 1 .. Len(Tail(s)) : Tail(s)[i] = s[i + 1]
    OBVIOUS
  <2>2. Head(s) = s[1]
    OBVIOUS
  <2>3. \A i \in 1 .. Len(Tail(s)) + 1 :
          t[i] = IF i = Len(Tail(s)) + 1 THEN Head(s) ELSE Tail(s)[i]
    BY <1>1, AppendAt
  <2>4. Len(s) \in Nat
    OBVIOUS
  <2> DEFINE rest == Tail(s)  n == Len(s)  m == Len(Tail(s))
  <2>5. n \in Nat /\ m = n - 1
    BY <2>4, <1>1
  <2>6. \A i \in 1 .. n : i \in 1 .. m + 1 /\ (i = n <=> i = m + 1) /\ (i # n => i \in 1 .. m)
    BY <2>5
  <2> HIDE DEF t, n, m, rest
  <2>7. \A i \in 1 .. m : rest[i] = s[i + 1]
    BY <2>1 DEF rest, m
  <2>8. \A i \in 1 .. m + 1 : t[i] = IF i = m + 1 THEN s[1] ELSE rest[i]
    BY <2>2, <2>3 DEF rest, m
  <2>9. \A i \in 1 .. n : t[i] = IF i = n THEN s[1] ELSE s[i + 1]
    BY <2>6, <2>7, <2>8
  <2> QED BY <2>9 DEF n
<1>4. ASSUME Distinct(s)  PROVE Distinct(t)
  <2> DEFINE at(i) == IF i = Len(s) THEN 1 ELSE i + 1
  <2>1. \A i \in 1 .. Len(s) : at(i) \in 1 .. Len(s) /\ t[i] = s[at(i)]
    BY <1>3
  <2>2. \A i, j \in 1 .. Len(s) : at(i) = at(j) => i = j
    OBVIOUS
  <2> HIDE DEF at, t
  <2>3. \A i, j \in 1 .. Len(s) : s[at(i)] = s[at(j)] => at(i) = at(j)
    BY <2>1, <1>4 DEF Distinct
  <2>4. \A i, j \in 1 .. Len(s) : t[i] = t[j] => i = j
    BY <2>1, <2>2, <2>3
  <2> QED BY <2>4, <1>2 DEF Distinct
<1>5. ASSUME Distinct(s)  PROVE Head(t) # Head(s)
  <2> HIDE DEF t
  <2>1. Head(t) = s[2] /\ Head(s) = s[1]
    <3>1. Head(t) = t[1] /\ t[1] = s[2]
      BY <1>2, <1>3
    <3>2. Head(s) = s[1]
      OBVIOUS
    <3> QED BY <3>1, <3>2
  <2> QED BY <2>1, <1>5 DEF Distinct
<1> QED BY <1>2, <1>4, <1>5

\* The order without its first path.
LEMMA Shortens ==
  ASSUME NEW s \in Seq(File), Len(s) > 1
  PROVE  /\ Tail(s) \in Seq(File) /\ Len(Tail(s)) = Len(s) - 1
         /\ Head(s) \in File
         /\ Distinct(s) => Distinct(Tail(s))
<1>1. \A i \in 1 .. Len(Tail(s)) : Tail(s)[i] = s[i + 1]
  OBVIOUS
<1> QED BY <1>1 DEF Distinct

\* The order with one path more.
LEMMA Extends ==
  ASSUME NEW s \in Seq(File), NEW f \in File
  PROVE  /\ Append(s, f) \in Seq(File)
         /\ Distinct(s) /\ ~Pv!Contains(s, f) => Distinct(Append(s, f))
<1>1. \A i \in 1 .. Len(s) + 1 : Append(s, f)[i] = IF i = Len(s) + 1 THEN f ELSE s[i]
  OBVIOUS
<1> QED BY <1>1 DEF Distinct, Pv!Contains

\* The fields of a cache have their types.
LEMMA CacheFields ==
  ASSUME NEW c \in Caches
  PROVE  /\ c.files \in [File -> Pv!Preview] /\ c.order \in Seq(File) /\ c.bytes \in Nat
         /\ c.pane \in File \cup {None, Pv!Overview} /\ c.dropped \in SUBSET File
         /\ IsFiniteSet(TextsOf(c.files)) /\ Cardinality(TextsOf(c.files)) \in Nat
         /\ Cardinality(TextsOf(c.files)) <= c.bytes
<1>1. c \in CacheRecord
  BY DEF Caches
<1>2. IsFiniteSet(TextsOf(c.files)) /\ Cardinality(TextsOf(c.files)) <= c.bytes
  BY DEF Caches
<1> QED BY <1>1, <1>2, FS_CardinalityType DEF CacheRecord

\* One preview less.
LEMMA TextGoes ==
  ASSUME NEW fs \in [File -> Pv!Preview], NEW f \in File, NEW gs,
         gs = [fs EXCEPT ![f] = Pv!Absent]
  PROVE  /\ gs \in [File -> Pv!Preview] /\ TextsOf(gs) = TextsOf(fs) \ {f}
         /\ gs[f] = Pv!Absent /\ \A g \in File \ {f} : gs[g] = fs[g]
<1>1. Pv!Absent \in Pv!Preview /\ Pv!Absent.kind # "text"
  BY DEF Pv!Preview, Pv!Absent
<1>2. gs \in [File -> Pv!Preview] /\ gs[f] = Pv!Absent /\ \A g \in File \ {f} : gs[g] = fs[g]
  BY <1>1
<1> QED BY <1>1, <1>2 DEF TextsOf

\* How far a cache is from being trimmed: every round takes its first path
\* away, or puts the selected one behind the others, once.
AtFront(c) == IF c.order # <<>> /\ Head(c.order) = selected THEN 1 ELSE 0
Measure(c) == 2 * Len(c.order) + AtFront(c)

\* What a round of the eviction keeps.
Descends(c, d) ==
  /\ Exact(c) => Exact(d)
  /\ \A f \in File : d.files[f] = c.files[f] \/ d.files[f] = Pv!Absent
  /\ selected \in File => /\ d.files[selected] = c.files[selected]
                          /\ c.pane = selected => d.pane = selected

\* The measure is a natural number, and zero only of an empty order.
LEMMA MeasureType ==
  ASSUME NEW c \in Caches
  PROVE  Measure(c) \in Nat /\ Measure(c) <= 2 * Len(c.order) + 1
                            /\ (Measure(c) = 0 => Len(c.order) = 0)
<1>1. c.order \in Seq(File)
  BY CacheFields
<1>2. Len(c.order) \in Nat
  BY <1>1
<1>3. AtFront(c) \in {0, 1}
  BY DEF AtFront
<1> QED BY <1>2, <1>3 DEF Measure

\* An eviction keeps the sum right and the selected preview in place, and comes
\* closer to its end.
LEMMA EvictsOne ==
  ASSUME NEW c \in Caches, Len(c.order) > 1
  PROVE  /\ Pv!Evicted(c) \in Caches
         /\ Descends(c, Pv!Evicted(c))
         /\ Exact(c) => Measure(Pv!Evicted(c)) < Measure(c)
<1> DEFINE f == Head(c.order)
           fs == c.files  s == c.order  b == c.bytes
<1>1. /\ fs \in [File -> Pv!Preview] /\ s \in Seq(File) /\ b \in Nat
      /\ c.pane \in File \cup {None, Pv!Overview} /\ c.dropped \in SUBSET File
      /\ IsFiniteSet(TextsOf(fs)) /\ Cardinality(TextsOf(fs)) \in Nat
      /\ Cardinality(TextsOf(fs)) <= b
  BY CacheFields
<1>2. c = [files |-> fs, order |-> s, bytes |-> b, pane |-> c.pane, dropped |-> c.dropped]
  BY DEF Caches, CacheRecord
<1>3. f \in File /\ Len(s) \in Nat /\ s # <<>>
  BY <1>1
<1>4. CASE f = selected
  <2> DEFINE t == Append(Tail(s), f)
             d == Pv!Evicted(c)
  <2>1. t \in Seq(File) /\ Len(t) = Len(s) /\ (Distinct(s) => Distinct(t) /\ Head(t) # f)
    BY <1>1, Rotates
  <2>2. d = [c EXCEPT !.order = t]
    BY <1>4 DEF Pv!Evicted
  <2> HIDE DEF d
  <2>3. d = [files |-> fs, order |-> t, bytes |-> b, pane |-> c.pane, dropped |-> c.dropped]
    <3> HIDE DEF t
    <3> QED BY <2>2, <1>2
  <2> HIDE DEF t, fs, s, b
  <2>4. /\ d \in Caches /\ d.files = fs /\ d.order = t /\ d.bytes = b
        /\ d.pane = c.pane /\ d.dropped = c.dropped
    BY <1>1, <2>1, <2>3 DEF Caches, CacheRecord
  <2>5. Exact(c) => Distinct(s) /\ b = Cardinality(TextsOf(fs))
    BY DEF Exact, s, b, fs
  <2>6. Exact(c) => Exact(d)
    BY <2>1, <2>4, <2>5 DEF Exact
  <2>7. Descends(c, d)
    BY <2>4, <2>6 DEF Descends, fs
  <2>8. ASSUME Exact(c)  PROVE Measure(d) < Measure(c)
    <3>1. Measure(d) = 2 * Len(s)
      BY <2>1, <2>4, <2>5, <2>8, <1>4, <1>3 DEF Measure, AtFront
    <3>2. Measure(c) = 2 * Len(s) + 1
      BY <1>3, <1>4 DEF Measure, AtFront, s
    <3> QED BY <3>1, <3>2, <1>3
  <2> QED BY <2>4, <2>7, <2>8 DEF d
<1>5. CASE f # selected
  <2> DEFINE d == Pv!Evicted(c)
             gs == [fs EXCEPT ![f] = Pv!Absent]
             t == Tail(s)
             n == IF fs[f].kind = "text" THEN b - 1 ELSE b
             p == IF c.pane = f THEN None ELSE c.pane
             D == c.dropped \cup {f}
  <2>1. /\ t \in Seq(File) /\ Len(t) = Len(s) - 1 /\ (Distinct(s) => Distinct(t))
    BY <1>1, Shortens
  <2>2. d = [files |-> gs, order |-> t, bytes |-> n, pane |-> p, dropped |-> D]
    BY <1>5 DEF Pv!Evicted
  <2> HIDE DEF d, t, s, b, gs, f
  <2>3. /\ gs \in [File -> Pv!Preview] /\ TextsOf(gs) = TextsOf(fs) \ {f}
        /\ \A g \in File \ {f} : gs[g] = fs[g]
        /\ gs[f] = Pv!Absent
    <3>1. \A g : g = [fs EXCEPT ![f] = Pv!Absent] =>
            /\ g \in [File -> Pv!Preview] /\ TextsOf(g) = TextsOf(fs) \ {f}
            /\ g[f] = Pv!Absent /\ \A h \in File \ {f} : g[h] = fs[h]
      BY <1>1, <1>3, TextGoes
    <3> QED BY <3>1 DEF gs
  <2> HIDE DEF fs
  <2>4. f \in TextsOf(fs) <=> fs[f].kind = "text"
    BY <1>3 DEF TextsOf
  <2>5. /\ IsFiniteSet(TextsOf(gs))
        /\ Cardinality(TextsOf(gs)) =
             IF f \in TextsOf(fs) THEN Cardinality(TextsOf(fs)) - 1 ELSE Cardinality(TextsOf(fs))
        /\ Cardinality(TextsOf(gs)) \in Nat
    BY <1>1, <2>3, FS_RemoveElement, FS_CardinalityType
  <2>6. n \in Nat /\ Cardinality(TextsOf(gs)) <= n
    BY <1>1, <2>4, <2>5
  <2>7. p \in File \cup {None, Pv!Overview} /\ D \in SUBSET File
    BY <1>1, <1>3
  <2>8. b = Cardinality(TextsOf(fs)) => n = Cardinality(TextsOf(gs))
    BY <2>4, <2>5
  <2> HIDE DEF n, D
  <2>9. p = c.pane \/ (c.pane = f /\ p = None)
    OBVIOUS
  <2> HIDE DEF p
  <2>10. /\ d \in Caches /\ d.files = gs /\ d.order = t /\ d.bytes = n
         /\ d.pane = p /\ d.dropped = D
    BY <2>1, <2>2, <2>3, <2>5, <2>6, <2>7 DEF Caches, CacheRecord
  <2>11. Exact(c) => Distinct(s) /\ b = Cardinality(TextsOf(fs))
    BY DEF Exact, s, b, fs
  <2>12. Exact(c) => Exact(d)
    BY <2>1, <2>8, <2>10, <2>11 DEF Exact
  <2>13. \A g \in File : gs[g] = fs[g] \/ gs[g] = Pv!Absent
    BY <2>3
  <2>14. Descends(c, d)
    BY <2>3, <2>9, <2>10, <2>12, <2>13, <1>5 DEF Descends, fs
  <2>15. Measure(d) < Measure(c)
    <3>1. Measure(d) <= 2 * Len(t) + 1
      BY <2>10, MeasureType
    <3>2. Measure(c) >= 2 * Len(s)
      <4>1. AtFront(c) \in {0, 1}
        BY DEF AtFront
      <4> QED BY <4>1, <1>3 DEF Measure, s
    <3>3. Measure(d) \in Nat /\ Measure(c) \in Nat
      BY <2>10, MeasureType
    <3> QED BY <3>1, <3>2, <3>3, <2>1, <1>3
  <2> QED BY <2>10, <2>14, <2>15 DEF d
<1> QED BY <1>4, <1>5

\* What rounds keep, two of them keep.
LEMMA DescendsBack ==
  ASSUME NEW c, NEW d, NEW e, Descends(c, d), Descends(d, e)
  PROVE  Descends(c, e)
BY DEF Descends

\* And none of them.
LEMMA DescendsFrom ==
  ASSUME NEW c
  PROVE  Descends(c, c)
BY DEF Descends

\* So does a round, which changes nothing once the cache is trimmed.
LEMMA RoundKeeps ==
  ASSUME NEW c \in Caches
  PROVE  /\ Pv!Round(c) \in Caches
         /\ Descends(c, Pv!Round(c))
         /\ Trimmed(c) => Pv!Round(c) = c
         /\ ~Trimmed(c) /\ Exact(c) => Measure(Pv!Round(c)) < Measure(c)
<1>1. CASE Trimmed(c)
  <2>1. Pv!Round(c) = c
    BY <1>1 DEF Trimmed, Pv!Round
  <2> QED BY <2>1, <1>1, DescendsFrom
<1>2. CASE ~Trimmed(c)
  <2>1. Pv!Round(c) = Pv!Evicted(c) /\ Len(c.order) > 1
    BY <1>2 DEF Trimmed, Pv!Round, Pv!MoreThanOne
  <2> QED BY <2>1, <1>2, EvictsOne
<1> QED BY <1>1, <1>2

\* As many rounds as Rounds has end with a trimmed cache, if it was exact.
LEMMA RoundsKeep ==
  ASSUME NEW c \in Caches
  PROVE  /\ Pv!Rounds(c) \in Caches
         /\ Descends(c, Pv!Rounds(c))
         /\ Exact(c) => Trimmed(Pv!Rounds(c))
<1>1. c.order \in Seq(File)
  BY CacheFields
<1>2. Len(c.order) \in Nat
  BY <1>1
<1>3. PICK last \in Nat : last = 2 * Len(c.order) + 1
  BY <1>2
<1> DEFINE S == [i \in 0 .. last |-> {d \in Caches :
                   /\ Descends(c, d)
                   /\ Exact(c) => Trimmed(d) \/ Measure(d) + i <= last}]
<1>4. c \in S[0]
  <2>1. Measure(c) <= last /\ Measure(c) \in Nat
    BY <1>3, MeasureType
  <2> QED BY <2>1, DescendsFrom
<1>5. ASSUME NEW i \in 0 .. last - 1, NEW d \in S[i]
      PROVE  Pv!Round(d) \in S[i + 1]
  <2>0. i \in 0 .. last /\ i + 1 \in 0 .. last /\ i \in Nat
    BY <1>3
  <2>1. /\ d \in Caches /\ Descends(c, d)
        /\ Exact(c) => Trimmed(d) \/ Measure(d) + i <= last
    BY <2>0
  <2>2. PICK e : e = Pv!Round(d)
    OBVIOUS
  <2>3. /\ e \in Caches /\ Descends(d, e) /\ (Trimmed(d) => e = d)
        /\ ~Trimmed(d) /\ Exact(d) => Measure(e) < Measure(d)
    BY <2>1, <2>2, RoundKeeps
  <2>4. Descends(c, e)
    BY <2>1, <2>3, DescendsBack
  <2>5. Exact(c) => Exact(d)
    BY <2>1 DEF Descends
  <2>6. Measure(d) \in Nat /\ Measure(e) \in Nat
    BY <2>1, <2>3, MeasureType
  <2>7. Exact(c) => Trimmed(e) \/ Measure(e) + (i + 1) <= last
    BY <2>0, <2>1, <2>3, <2>5, <2>6
  <2>8. e \in S[i + 1]
    BY <2>0, <2>3, <2>4, <2>7
  <2> QED BY <2>2, <2>8
<1> HIDE DEF S
<1>6. Pv!Rounds(c) \in S[last]
  BY <1>3, <1>4, <1>5, RoundsReach
<1>7. PICK e : e = Pv!Rounds(c)
  OBVIOUS
<1>8. /\ e \in Caches /\ Descends(c, e)
      /\ Exact(c) => Trimmed(e) \/ Measure(e) + last <= last
  BY <1>6, <1>7 DEF S
<1>9. Measure(e) + last <= last => Trimmed(e)
  <2>1. Measure(e) \in Nat /\ (Measure(e) = 0 => Len(e.order) = 0)
    BY <1>8, MeasureType
  <2>2. Measure(e) + last <= last => Len(e.order) = 0
    BY <2>1
  <2> QED BY <2>2 DEF Trimmed, Pv!MoreThanOne
<1> QED BY <1>7, <1>8, <1>9

\* What the types say of the cache.
LEMMA PreviewsFacts ==
  ASSUME PreviewTypes
  PROVE  /\ files \in [File -> Pv!Preview] /\ order \in Seq(File) /\ bytes \in Nat
         /\ pane \in File \cup {None, Pv!Overview}
         /\ IsFiniteSet(TextsOf(files)) /\ Cardinality(TextsOf(files)) \in Nat
         /\ Cardinality(TextsOf(files)) <= bytes
<1>1. TheCache \in Caches
  BY DEF PreviewTypes
<1>2. /\ TheCache.files = files /\ TheCache.order = order /\ TheCache.bytes = bytes
      /\ TheCache.pane = pane
  BY DEF TheCache
<1> QED BY <1>1, <1>2, CacheFields

\* What it is for the cache to be exact.
LEMMA ExactFields ==
  Exact(TheCache) <=> Distinct(order) /\ bytes = Cardinality(TextsOf(files))
BY DEF Exact, TheCache

\* When the cache is one.
LEMMA CacheIsMade ==
  ASSUME files \in [File -> Pv!Preview], order \in Seq(File), bytes \in Nat,
         pane \in File \cup {None, Pv!Overview},
         IsFiniteSet(TextsOf(files)), Cardinality(TextsOf(files)) <= bytes
  PROVE  TheCache \in Caches
BY DEF TheCache, Caches, CacheRecord

\* The tab starts in the invariant.
LEMMA PreviewsStart ==
  PanelsInit => PreviewsInv
<1> SUFFICES ASSUME PanelsInit  PROVE PreviewsInv
  OBVIOUS
<1> USE DEF Pv!Init
<1>0. Pv!Init /\ MaxVersions \in Nat \ {0} /\ Readme \in File
  BY PanelsAssumption DEF PanelsInit, Pv!PreviewsAssumption
<1>1. Pv!Absent \in Pv!Preview /\ Pv!Absent.kind # "text"
  BY DEF Pv!Preview, Pv!Absent
<1>2. TextsOf(files) = {}
  BY <1>0, <1>1 DEF TextsOf
<1>3. TheCache \in Caches
  <2>1. files \in [File -> Pv!Preview] /\ order \in Seq(File) /\ bytes = 0 /\ bytes \in Nat
    BY <1>0, <1>1
  <2>2. pane \in File \cup {None, Pv!Overview}
    BY <1>0
  <2>3. IsFiniteSet(TextsOf(files)) /\ Cardinality(TextsOf(files)) = 0
    BY <1>2, FS_EmptySet
  <2> QED BY <2>1, <2>2, <2>3, CacheIsMade
<1>4. PreviewTypes
  <2>1. disk.version = 1 /\ disk.present = File /\ cleared = 1 /\ reads = {} /\ walks = {}
    BY <1>0
  <2>2. commits \in [File -> 0 .. MaxVersions]
    BY <1>0
  <2>3. /\ loadingP = {} /\ selected = None /\ pending = {} /\ walking = FALSE
        /\ hung = FALSE /\ crossed = FALSE /\ twice = FALSE /\ overtaken = FALSE
    BY <1>0
  <2>4. disk.version \in 1 .. MaxVersions /\ cleared \in Nat /\ cleared <= disk.version
    BY <1>0, <2>1
  <2> QED BY <1>3, <2>1, <2>2, <2>3, <2>4 DEF PreviewTypes
<1>5. CacheIsExact
  <2>1. ~hung /\ order = <<>> /\ bytes = 0
    BY <1>0
  <2>2. Len(order) = 0 /\ Distinct(order)
    BY <2>1 DEF Distinct
  <2>3. Cardinality(TextsOf(files)) = 0
    BY <1>2, FS_EmptySet
  <2>4. Exact(TheCache)
    BY <2>1, <2>2, <2>3, ExactFields
  <2> QED BY <2>1, <2>2, <2>4 DEF CacheIsExact
<1>6. NothingIsStale
  BY <1>0 DEF NothingIsStale
<1>7. SelectedIsRead
  BY <1>0 DEF SelectedIsRead
<1>8. BatchesRun
  BY <1>0 DEF BatchesRun
<1> QED BY <1>4, <1>5, <1>6, <1>7, <1>8 DEF PreviewsInv

\* Whoever asks for a commit starts a batch, or joins one that is under way
\* (load_commit).
LEMMA CommitsLoaded ==
  ASSUME NEW f \in File, NEW dated, NEW wanted \in SUBSET File, NEW running \in BOOLEAN,
         Pv!LoadCommit(f, dated, wanted, running),
         running => walks # {}, ~running => wanted = {},
         \A w \in walks : WalkSound(w)
  PROVE  /\ pending' \in SUBSET File /\ walking' \in BOOLEAN
         /\ \A w \in walks' : WalkSound(w) /\ (w.seen # 0 => w \in walks)
         /\ BatchesRun'
<1> DEFINE new == IF dated[f] = 0 THEN {f} ELSE {}
           every == wanted \cup new
<1>1. every \in SUBSET File
  OBVIOUS
<1>2. CASE new \subseteq wanted \/ running
  BY <1>1, <1>2 DEF Pv!LoadCommit, BatchesRun
<1>3. CASE ~(new \subseteq wanted \/ running)
  <2>1. pending' = {} /\ walking' = TRUE /\ walks' = walks \cup {Pv!Walk(every)}
    BY <1>3 DEF Pv!LoadCommit
  <2>2. WalkSound(Pv!Walk(every)) /\ Pv!Walk(every).seen = 0
    BY <1>1, PanelsAssumption DEF WalkSound, Pv!Walk, Pv!PreviewsAssumption
  <2> HIDE DEF every, new
  <2> QED BY <2>1, <2>2 DEF BatchesRun
<1> QED BY <1>2, <1>3

\* A cache nobody touches stays as it is.
LEMMA CacheStays ==
  ASSUME TheCache \in Caches,
         UNCHANGED <<files, order, bytes, pane>>
  PROVE  (TheCache \in Caches)' /\ (Exact(TheCache) => Exact(TheCache)')
BY DEF TheCache

\* Opening a file selects it, and reads it unless it is cached or being read.
LEMMA OpenKeeps ==
  ASSUME PreviewsInv, NEW f \in File, Pv!Open(f)
  PROVE  PreviewsInv'
<1> USE DEF PreviewsInv
<1>0. /\ UNCHANGED <<disk, files, order, bytes, commits, hung, cleared, crossed, twice>>
      /\ selected' = f /\ overtaken' = (overtaken \/ reads # {})
  BY DEF Pv!Open
<1>1. /\ pending' \in SUBSET File /\ walking' \in BOOLEAN
      /\ \A w \in walks' : WalkSound(w) /\ (w.seen # 0 => w \in walks)
      /\ BatchesRun'
  <2>1. CASE Pv!LoadCommit(f, commits, pending, walking)
    BY <2>1, CommitsLoaded DEF PreviewTypes, BatchesRun
  <2>2. CASE UNCHANGED <<pending, walking, walks>>
    BY <2>2 DEF PreviewTypes, BatchesRun
  <2> QED BY <2>1, <2>2 DEF Pv!Open
<1> DEFINE r == [of |-> f, n |-> opens, got |-> Pv!Absent]
<1>2. /\ pane' \in {f, pane} /\ loadingP' \subseteq loadingP \cup {f}
      /\ \A q \in reads' : q \in reads \/ (q.of = f /\ q.got = Pv!Absent)
  BY DEF Pv!Open
<1>3. PreviewTypes'
  <2>1. pane' \in File \cup {None, Pv!Overview}
    BY <1>2, PreviewsFacts
  <2>2. (TheCache \in Caches)'
    BY <1>0, <2>1, PreviewsFacts, CacheIsMade DEF TheCache, Caches, CacheRecord
  <2>3. Pv!Absent \in Pv!Preview
    BY DEF Pv!Preview
  <2>4. \A q \in reads' : ReadSound(q)
    BY <1>2, <2>3 DEF PreviewTypes, ReadSound
  <2>5. overtaken' \in BOOLEAN
    BY <1>0 DEF PreviewTypes
  <2> QED BY <1>0, <1>1, <1>2, <2>2, <2>4, <2>5 DEF PreviewTypes
<1>4. CacheIsExact'
  BY <1>0, ExactFields DEF CacheIsExact, Exact, TheCache
<1>5. NothingIsStale'
  <2>1. ASSUME ~crossed
        PROVE  /\ \A q \in reads' : q.got # Pv!Absent => q.got.of >= cleared
               /\ \A w \in walks' : w.seen # 0 => w.seen >= cleared
    BY <1>1, <1>2, <2>1 DEF NothingIsStale
  <2> QED BY <1>0, <2>1 DEF NothingIsStale
<1>6. SelectedIsRead'
  <2> SUFFICES ASSUME ~crossed', ~overtaken'  PROVE SelectedIsRead'
    BY DEF SelectedIsRead
  <2>1. ~crossed /\ ~overtaken /\ reads = {} /\ loadingP = {}
    BY <1>0 DEF SelectedIsRead
  <2>2. CASE files[f] # Pv!Absent
    <3>1. reads' = {} /\ loadingP' = {} /\ (files[f].kind = "text" => pane' = f)
      BY <2>1, <2>2 DEF Pv!Open
    <3> QED BY <3>1, <2>2, <1>0 DEF SelectedIsRead
  <2>3. CASE files[f] = Pv!Absent
    <3>1. loadingP' = {f} /\ reads' = {r}
      BY <2>1, <2>3 DEF Pv!Open
    <3> QED BY <3>1, <1>0 DEF SelectedIsRead
  <2> QED BY <2>2, <2>3
<1> QED BY <1>1, <1>3, <1>4, <1>5, <1>6

\* A read is of the version the worktree has at that moment.
LEMMA ReadKeeps ==
  ASSUME PreviewsInv, NEW r \in reads, NEW kind \in {"text", "other", "failed"},
         Pv!Read(r, kind)
  PROVE  PreviewsInv'
<1> USE DEF PreviewsInv
<1> DEFINE p == [kind |-> kind, of |-> disk.version]
           q == [r EXCEPT !.got = p]
<1>0. /\ UNCHANGED <<disk, files, order, bytes, loadingP, selected, pane, commits,
                     pending, walking, walks, hung, cleared, crossed, twice, overtaken>>
      /\ reads' = (reads \ {r}) \cup {q} /\ r.got = Pv!Absent
  BY DEF Pv!Read, Pv!cache, Pv!labels, Pv!ghosts
<1>1. p \in Pv!Preview /\ p.of = disk.version
  BY DEF PreviewTypes, Pv!Preview
<1>2. q.of = r.of
  OBVIOUS
<1>3. q.got = p
  BY DEF PreviewTypes
<1> HIDE DEF q, p
<1>4. PreviewTypes'
  <2>1. \A o \in reads' : ReadSound(o)
    BY <1>0, <1>1, <1>2, <1>3 DEF PreviewTypes, ReadSound
  <2>2. (TheCache \in Caches)'
    BY <1>0, CacheStays DEF PreviewTypes
  <2> QED BY <1>0, <2>1, <2>2 DEF PreviewTypes
<1>5. CacheIsExact'
  BY <1>0 DEF CacheIsExact, Exact, TheCache
<1>6. NothingIsStale'
  BY <1>0, <1>1, <1>3 DEF NothingIsStale, PreviewTypes
<1>7. SelectedIsRead'
  <2> SUFFICES ASSUME ~crossed', ~overtaken'  PROVE SelectedIsRead'
    BY DEF SelectedIsRead
  <2>1. reads = {r} /\ loadingP = {r.of} /\ (selected # None => r.of = selected)
    BY <1>0 DEF SelectedIsRead
  <2>2. reads' = {q} /\ loadingP' = {q.of}
    BY <1>0, <1>2, <2>1
  <2> QED BY <1>0, <1>2, <2>1, <2>2 DEF SelectedIsRead
<1>8. BatchesRun'
  BY <1>0 DEF BatchesRun
<1> QED BY <1>4, <1>5, <1>6, <1>7, <1>8

\* A failed read is in no order and in no sum.
LEMMA FailedLands ==
  ASSUME PreviewsInv, NEW r \in reads, Pv!ReadLands(r), r.got.kind = "failed"
  PROVE  /\ (TheCache \in Caches)'
         /\ CacheIsExact'
         /\ commits' = commits /\ hung' = hung
         /\ \A f \in File : files'[f] = files[f] \/ files'[f] = r.got
         /\ files'[r.of] = r.got
<1> USE DEF PreviewsInv
<1>1. r.of \in File /\ r.got \in Pv!Preview
  BY DEF PreviewTypes, ReadSound
<1>2. /\ files' = [files EXCEPT ![r.of] = r.got]
      /\ UNCHANGED <<order, bytes, pane, commits, hung>>
      /\ twice' = (twice \/ Pv!Contains(order, r.of) \/ files[r.of] # Pv!Absent)
  BY DEF Pv!ReadLands
<1>3. /\ files' \in [File -> Pv!Preview] /\ files'[r.of] = r.got
      /\ \A g \in File \ {r.of} : files'[g] = files[g]
      /\ TextsOf(files') = TextsOf(files) \ {r.of}
  <2>1. files \in [File -> Pv!Preview] /\ r.got.kind # "text"
    BY PreviewsFacts
  <2>2. files' \in [File -> Pv!Preview] /\ files'[r.of] = r.got
        /\ \A g \in File \ {r.of} : files'[g] = files[g]
    BY <1>1, <1>2, <2>1
  <2> QED BY <1>1, <2>1, <2>2 DEF TextsOf
<1>4. /\ IsFiniteSet(TextsOf(files'))
      /\ Cardinality(TextsOf(files')) =
           IF r.of \in TextsOf(files) THEN Cardinality(TextsOf(files)) - 1
                                      ELSE Cardinality(TextsOf(files))
      /\ Cardinality(TextsOf(files')) \in Nat
  BY <1>3, PreviewsFacts, FS_RemoveElement, FS_CardinalityType
<1>5. Cardinality(TextsOf(files')) <= bytes
  BY <1>4, PreviewsFacts
<1>6. (TheCache \in Caches)'
  <2>1. /\ order' \in Seq(File) /\ bytes' \in Nat /\ pane' \in File \cup {None, Pv!Overview}
        /\ bytes' = bytes
    BY <1>2, PreviewsFacts
  <2> QED BY <1>3, <1>4, <1>5, <2>1 DEF TheCache, Caches, CacheRecord
<1>7. CacheIsExact'
  <2> SUFFICES ASSUME ~twice'
               PROVE  /\ ~hung /\ Distinct(order) /\ bytes = Cardinality(TextsOf(files'))
                      /\ Len(order) <= 1 \/ bytes <= MaxTexts
    BY <1>2 DEF CacheIsExact, Exact, TheCache
  <2>1. ~twice /\ files[r.of] = Pv!Absent
    BY <1>2
  <2>2. r.of \notin TextsOf(files)
    BY <2>1 DEF TextsOf, Pv!Absent
  <2> QED BY <1>4, <2>1, <2>2, ExactFields DEF CacheIsExact
<1> QED BY <1>2, <1>3, <1>6, <1>7

\* A preview stored is in the sum and at the end of the order.
LEMMA StoredIsCache ==
  ASSUME PreviewTypes, NEW f \in File, NEW p \in Pv!Preview
  PROVE  /\ Pv!Store(f, p) \in Caches
         /\ Pv!Store(f, p).files = [files EXCEPT ![f] = p]
         /\ Pv!Store(f, p).pane = IF p.kind = "text" THEN f ELSE pane
         /\ (/\ Exact(TheCache) /\ ~Pv!Contains(order, f) /\ files[f] = Pv!Absent)
              => Exact(Pv!Store(f, p))
<1> DEFINE fs == [files EXCEPT ![f] = p]
           s == Append(order, f)
           b == IF p.kind = "text" THEN bytes + 1 ELSE bytes
           q == IF p.kind = "text" THEN f ELSE pane
           c == Pv!Store(f, p)
<1>1. c = [files |-> fs, order |-> s, bytes |-> b, pane |-> q, dropped |-> {}]
  BY DEF Pv!Store
<1> HIDE DEF c
<1>2. /\ c.files = fs /\ c.order = s /\ c.bytes = b /\ c.pane = q /\ c.dropped = {}
  <2> HIDE DEF fs, s, b, q
  <2> QED BY <1>1
<1>3. /\ fs \in [File -> Pv!Preview]
      /\ TextsOf(fs) = IF p.kind = "text" THEN TextsOf(files) \cup {f} ELSE TextsOf(files) \ {f}
  <2>1. /\ fs \in [File -> Pv!Preview] /\ fs[f] = p
        /\ \A g \in File \ {f} : fs[g] = files[g]
    BY PreviewsFacts
  <2> HIDE DEF fs
  <2> QED BY <2>1 DEF TextsOf
<1>4. /\ order \in Seq(File) /\ bytes \in Nat /\ pane \in File \cup {None, Pv!Overview}
      /\ IsFiniteSet(TextsOf(files)) /\ Cardinality(TextsOf(files)) \in Nat
      /\ Cardinality(TextsOf(files)) <= bytes
  BY PreviewsFacts
<1>5. s \in Seq(File) /\ (Distinct(order) /\ ~Pv!Contains(order, f) => Distinct(s))
  BY <1>4, Extends
<1>6. b \in Nat /\ q \in File \cup {None, Pv!Overview}
  BY <1>4
<1> HIDE DEF fs, s
<1>7. CASE p.kind = "text"
  <2>1. /\ IsFiniteSet(TextsOf(fs))
        /\ Cardinality(TextsOf(fs)) = IF f \in TextsOf(files) THEN Cardinality(TextsOf(files))
                                                  ELSE Cardinality(TextsOf(files)) + 1
    BY <1>3, <1>4, <1>7, FS_AddElement
  <2>2. Cardinality(TextsOf(fs)) <= b
    BY <1>4, <1>7, <2>1
  <2>3. files[f] = Pv!Absent => f \notin TextsOf(files)
    BY DEF TextsOf, Pv!Absent
  <2>4. bytes = Cardinality(TextsOf(files)) /\ files[f] = Pv!Absent => b = Cardinality(TextsOf(fs))
    BY <1>7, <2>1, <2>3
  <2> HIDE DEF b, q
  <2>5. c \in Caches
    BY <1>1, <1>3, <1>5, <1>6, <2>1, <2>2 DEF Caches, CacheRecord
  <2>6. /\ Exact(TheCache) /\ ~Pv!Contains(order, f) /\ files[f] = Pv!Absent => Exact(c)
    BY <1>2, <1>5, <2>4, ExactFields DEF Exact
  <2> QED BY <1>2, <2>5, <2>6 DEF c, fs, q
<1>8. CASE p.kind # "text"
  <2>1. /\ IsFiniteSet(TextsOf(fs))
        /\ Cardinality(TextsOf(fs)) = IF f \in TextsOf(files) THEN Cardinality(TextsOf(files)) - 1
                                                  ELSE Cardinality(TextsOf(files))
    BY <1>3, <1>4, <1>8, FS_RemoveElement
  <2>2. Cardinality(TextsOf(fs)) <= b
    BY <1>4, <1>8, <2>1
  <2>3. files[f] = Pv!Absent => f \notin TextsOf(files)
    BY DEF TextsOf, Pv!Absent
  <2>4. bytes = Cardinality(TextsOf(files)) /\ files[f] = Pv!Absent => b = Cardinality(TextsOf(fs))
    BY <1>8, <2>1, <2>3
  <2> HIDE DEF b, q
  <2>5. c \in Caches
    BY <1>1, <1>3, <1>5, <1>6, <2>1, <2>2 DEF Caches, CacheRecord
  <2>6. /\ Exact(TheCache) /\ ~Pv!Contains(order, f) /\ files[f] = Pv!Absent => Exact(c)
    BY <1>2, <1>5, <2>4, ExactFields DEF Exact
  <2> QED BY <1>2, <2>5, <2>6 DEF c, fs, q
<1> QED BY <1>7, <1>8

\* A read that lands is stored, and the cache trimmed around the selected file.
LEMMA StoreLands ==
  ASSUME PreviewsInv, NEW r \in reads, Pv!ReadLands(r), r.got.kind # "failed"
  PROVE  /\ (TheCache \in Caches)'
         /\ CacheIsExact'
         /\ hung' \in BOOLEAN
         /\ \A f \in File : commits'[f] = commits[f] \/ commits'[f] = 0
         /\ commits' \in [File -> 0 .. MaxVersions]
         /\ \A f \in File : \/ files'[f] = files[f] \/ files'[f] = r.got
                            \/ files'[f] = Pv!Absent
         /\ selected = r.of => /\ files'[selected] = r.got
                               /\ r.got.kind = "text" => pane' = selected
<1> USE DEF PreviewsInv
<1>1. r.of \in File /\ r.got \in Pv!Preview
  BY DEF PreviewTypes, ReadSound
<1>2. PICK c : c = Pv!Store(r.of, r.got)
  OBVIOUS
<1>3. /\ c \in Caches /\ c.files = [files EXCEPT ![r.of] = r.got]
      /\ c.pane = IF r.got.kind = "text" THEN r.of ELSE pane
      /\ (Exact(TheCache) /\ ~Pv!Contains(order, r.of) /\ files[r.of] = Pv!Absent => Exact(c))
  BY <1>1, <1>2, StoredIsCache
<1>4. PICK d : d = Pv!Rounds(c)
  OBVIOUS
<1>5. d \in Caches /\ Descends(c, d) /\ (Exact(c) => Trimmed(d))
  BY <1>3, <1>4, RoundsKeep
<1>6. /\ files' = d.files /\ order' = d.order /\ bytes' = d.bytes /\ pane' = d.pane
      /\ hung' = (Pv!TooMuch(d) /\ Pv!MoreThanOne(d.order))
      /\ commits' = [f \in File |-> IF f \in d.dropped THEN 0 ELSE commits[f]]
      /\ twice' = (twice \/ Pv!Contains(order, r.of) \/ files[r.of] # Pv!Absent)
  BY <1>2, <1>4 DEF Pv!ReadLands
<1>7. /\ d.files \in [File -> Pv!Preview] /\ d.order \in Seq(File) /\ d.bytes \in Nat
      /\ d.pane \in File \cup {None, Pv!Overview}
      /\ IsFiniteSet(TextsOf(d.files)) /\ Cardinality(TextsOf(d.files)) <= d.bytes
  BY <1>5, CacheFields
<1>8. (TheCache \in Caches)'
  BY <1>6, <1>7 DEF TheCache, Caches, CacheRecord
<1>9. CacheIsExact'
  <2> SUFFICES ASSUME ~twice'
               PROVE  /\ ~hung' /\ Distinct(d.order) /\ d.bytes = Cardinality(TextsOf(d.files))
                      /\ Len(d.order) <= 1 \/ d.bytes <= MaxTexts
    BY <1>6 DEF CacheIsExact, Exact, TheCache
  <2>1. Exact(c)
    BY <1>3, <1>6 DEF CacheIsExact
  <2>2. Exact(d) /\ Trimmed(d)
    BY <1>5, <2>1 DEF Descends
  <2>3. ~hung'
    BY <1>6, <2>2 DEF Trimmed
  <2>4. Len(d.order) > 1 => ~(d.bytes > MaxTexts)
    BY <2>2 DEF Trimmed, Pv!TooMuch, Pv!MoreThanOne
  <2>5. MaxTexts \in Nat /\ Len(d.order) \in Nat
    BY <1>7, PanelsAssumption DEF Pv!PreviewsAssumption
  <2>6. Len(d.order) <= 1 \/ d.bytes <= MaxTexts
    BY <1>7, <2>4, <2>5
  <2> QED BY <2>2, <2>3, <2>6 DEF Exact
<1>10. /\ \A f \in File : commits'[f] = commits[f] \/ commits'[f] = 0
       /\ commits' \in [File -> 0 .. MaxVersions]
  <2>1. commits \in [File -> 0 .. MaxVersions] /\ 0 \in 0 .. MaxVersions
    BY PanelsAssumption DEF PreviewTypes, Pv!PreviewsAssumption
  <2> QED BY <1>6, <2>1
<1>11. \A f \in File : \/ files'[f] = files[f] \/ files'[f] = r.got
                       \/ files'[f] = Pv!Absent
  <2>1. \A f \in File : c.files[f] = files[f] \/ c.files[f] = r.got
    BY <1>1, <1>3, PreviewsFacts
  <2> QED BY <1>5, <1>6, <2>1 DEF Descends
<1>12. ASSUME selected = r.of
       PROVE  /\ files'[selected] = r.got
              /\ r.got.kind = "text" => pane' = selected
  <2>1. c.files[selected] = r.got /\ (r.got.kind = "text" => c.pane = selected)
    BY <1>1, <1>3, <1>12, PreviewsFacts
  <2> QED BY <1>1, <1>5, <1>6, <1>12, <2>1 DEF Descends
<1>13. hung' \in BOOLEAN
  BY <1>6
<1> QED BY <1>8, <1>9, <1>10, <1>11, <1>12, <1>13

\* Either way the one read in flight was of the selected file, if nothing overlapped.
LEMMA ReadLandsKeeps ==
  ASSUME PreviewsInv, NEW r \in reads, Pv!ReadLands(r)
  PROVE  PreviewsInv'
<1> USE DEF PreviewsInv
<1>0. /\ UNCHANGED <<disk, selected, pending, walking, walks, cleared, crossed, overtaken>>
      /\ reads' = reads \ {r} /\ loadingP' = loadingP \ {r.of} /\ r.got # Pv!Absent
      /\ twice' = (twice \/ Pv!Contains(order, r.of) \/ files[r.of] # Pv!Absent)
  BY DEF Pv!ReadLands
<1>1. r.of \in File /\ r.got \in Pv!Preview
  BY DEF PreviewTypes, ReadSound
<1>2. /\ (TheCache \in Caches)'
      /\ CacheIsExact'
      /\ hung' \in BOOLEAN
      /\ \A f \in File : commits'[f] = commits[f] \/ commits'[f] = 0
      /\ commits' \in [File -> 0 .. MaxVersions]
      /\ \A f \in File : \/ files'[f] = files[f] \/ files'[f] = r.got
                         \/ files'[f] = Pv!Absent
      /\ selected = r.of => /\ files'[selected] = r.got
                            /\ r.got.kind = "text" => pane' = selected
  BY FailedLands, StoreLands DEF PreviewTypes
<1>3. PreviewTypes'
  <2>1. twice' \in BOOLEAN
    BY <1>0 DEF PreviewTypes
  <2> QED BY <1>0, <1>2, <2>1 DEF PreviewTypes
<1>4. NothingIsStale'
  BY <1>0, <1>2 DEF NothingIsStale
<1>5. SelectedIsRead'
  <2> SUFFICES ASSUME ~crossed', ~overtaken'  PROVE SelectedIsRead'
    BY DEF SelectedIsRead
  <2>1. reads = {r} /\ loadingP = {r.of} /\ (selected # None => r.of = selected)
    BY <1>0 DEF SelectedIsRead
  <2>2. reads' = {} /\ loadingP' = {}
    BY <1>0, <2>1
  <2>3. selected # None => /\ files'[selected] # Pv!Absent
                           /\ files'[selected].kind = "text" => pane' = selected
    BY <1>0, <1>2, <2>1
  <2> QED BY <1>0, <2>2, <2>3 DEF SelectedIsRead
<1>6. BatchesRun'
  BY <1>0 DEF BatchesRun
<1> QED BY <1>2, <1>3, <1>4, <1>5, <1>6

\* A batch is of the version the worktree has at that moment.
LEMMA WalkReadsKeeps ==
  ASSUME PreviewsInv, NEW w \in walks, Pv!WalkReads(w)
  PROVE  PreviewsInv'
<1> USE DEF PreviewsInv
<1> DEFINE v == [w EXCEPT !.seen = disk.version]
<1>0. /\ UNCHANGED <<disk, files, order, bytes, loadingP, selected, pane, commits,
                     pending, walking, reads, hung, cleared, crossed, twice, overtaken>>
      /\ walks' = (walks \ {w}) \cup {v}
  BY DEF Pv!WalkReads, Pv!cache, Pv!labels, Pv!ghosts
<1>1. \E P \in SUBSET File : v = [paths |-> P, seen |-> disk.version]
  <2>1. WalkSound(w)
    BY DEF PreviewTypes
  <2>2. w \in [paths : SUBSET File, seen : 0 .. MaxVersions]
    BY <2>1 DEF PreviewTypes, WalkSound
  <2> QED BY <2>2
<1>2. WalkSound(v) /\ v.seen = disk.version
  BY <1>1, PanelsAssumption DEF WalkSound, PreviewTypes, Pv!PreviewsAssumption
<1> HIDE DEF v
<1>3. PreviewTypes'
  <2>1. \A o \in walks' : WalkSound(o)
    BY <1>0, <1>2 DEF PreviewTypes
  <2>2. (TheCache \in Caches)'
    BY <1>0, CacheStays DEF PreviewTypes
  <2> QED BY <1>0, <2>1, <2>2 DEF PreviewTypes
<1>4. CacheIsExact'
  BY <1>0 DEF CacheIsExact, Exact, TheCache
<1>5. NothingIsStale'
  BY <1>0, <1>2 DEF NothingIsStale, PreviewTypes
<1>6. SelectedIsRead'
  BY <1>0 DEF SelectedIsRead
<1>7. BatchesRun'
  BY <1>0 DEF BatchesRun
<1> QED BY <1>3, <1>4, <1>5, <1>6, <1>7

\* A batch that lands takes what waited along into the next.
LEMMA WalkLandsKeeps ==
  ASSUME PreviewsInv, NEW w \in walks, NEW found \in BOOLEAN, Pv!WalkLands(w, found)
  PROVE  PreviewsInv'
<1> USE DEF PreviewsInv
<1>0. /\ UNCHANGED <<disk, files, order, bytes, loadingP, selected, pane, reads, hung,
                     cleared, crossed, twice, overtaken>>
      /\ w.seen # 0
      /\ commits' = IF found THEN [f \in File |-> IF f \in w.paths THEN w.seen ELSE commits[f]]
                             ELSE commits
  BY DEF Pv!WalkLands, Pv!cache, Pv!ghosts
<1>1. /\ pending' \in SUBSET File /\ walking' \in BOOLEAN /\ BatchesRun'
      /\ \A o \in walks' : WalkSound(o) /\ (o.seen # 0 => o \in walks)
  <2>1. CASE pending # {}
    <3>1. walks' = (walks \ {w}) \cup {Pv!Walk(pending)} /\ pending' = {} /\ walking' = TRUE
      BY <2>1 DEF Pv!WalkLands, Pv!Waiting
    <3>2. WalkSound(Pv!Walk(pending)) /\ Pv!Walk(pending).seen = 0
      BY PanelsAssumption DEF WalkSound, Pv!Walk, Pv!PreviewsAssumption, PreviewTypes
    <3> QED BY <3>1, <3>2 DEF PreviewTypes, BatchesRun
  <2>2. CASE pending = {}
    <3>1. walks' = walks \ {w} /\ walking' = FALSE /\ pending' = pending
      BY <2>2 DEF Pv!WalkLands, Pv!Waiting
    <3> QED BY <2>2, <3>1 DEF PreviewTypes, BatchesRun
  <2> QED BY <2>1, <2>2
<1>2. /\ commits' \in [File -> 0 .. MaxVersions]
      /\ \A f \in File : commits'[f] = commits[f] \/ commits'[f] = w.seen
  <2>1. commits \in [File -> 0 .. MaxVersions] /\ w.seen \in 0 .. MaxVersions
    BY DEF PreviewTypes, WalkSound
  <2> QED BY <1>0, <2>1
<1>3. PreviewTypes'
  <2>1. (TheCache \in Caches)'
    BY <1>0, CacheStays DEF PreviewTypes
  <2> QED BY <1>0, <1>1, <1>2, <2>1 DEF PreviewTypes
<1>4. CacheIsExact'
  BY <1>0 DEF CacheIsExact, Exact, TheCache
<1>5. NothingIsStale'
  BY <1>0, <1>1, <1>2 DEF NothingIsStale
<1>6. SelectedIsRead'
  BY <1>0 DEF SelectedIsRead
<1> QED BY <1>1, <1>3, <1>4, <1>5, <1>6

\* A switch leaves an empty cache, and nothing in flight unless it crossed something.
LEMMA SwitchedKeeps ==
  ASSUME PreviewsInv, NEW present \in SUBSET File, Pv!Switched(present)
  PROVE  PreviewsInv'
<1> USE DEF PreviewsInv
<1>0. /\ disk.version < MaxVersions
      /\ disk' = [version |-> disk.version + 1, present |-> present]
      /\ files' = [f \in File |-> Pv!Absent] /\ order' = <<>> /\ bytes' = 0
      /\ loadingP' = {} /\ selected' = None /\ pane' = Pv!Overview
      /\ commits' = [f \in File |-> 0]
      /\ Pv!LoadCommit(Readme, commits', {}, FALSE)
      /\ cleared' = disk.version + 1
      /\ crossed' = (crossed \/ reads # {} \/ walks # {})
      /\ UNCHANGED <<reads, hung, twice, overtaken>>
  BY DEF Pv!Switched, Pv!NewContent, Pv!Forgotten
<1>1. Readme \in File /\ MaxVersions \in Nat
  BY PanelsAssumption DEF Pv!PreviewsAssumption
<1>2. /\ pending' \in SUBSET File /\ walking' \in BOOLEAN /\ BatchesRun'
      /\ \A o \in walks' : WalkSound(o) /\ (o.seen # 0 => o \in walks)
  <2>1. /\ FALSE => walks # {}
        /\ ~FALSE => {} = {}
        /\ \A o \in walks : WalkSound(o)
    BY DEF PreviewTypes
  <2>2. PICK dated : dated = commits'
    OBVIOUS
  <2>3. Pv!LoadCommit(Readme, dated, {}, FALSE)
    BY <1>0, <2>2
  <2>4. {} \in SUBSET File /\ FALSE \in BOOLEAN
    OBVIOUS
  <2> QED BY <1>1, <2>1, <2>3, <2>4, CommitsLoaded
<1>3. Pv!Absent \in Pv!Preview /\ Pv!Absent.kind # "text"
  BY DEF Pv!Preview, Pv!Absent
<1>4. TextsOf(files') = {} /\ files' \in [File -> Pv!Preview]
  BY <1>0, <1>3 DEF TextsOf
<1>5. IsFiniteSet(TextsOf(files')) /\ Cardinality(TextsOf(files')) = 0
  BY <1>4, FS_EmptySet
<1>6. (TheCache \in Caches)'
  <2>1. order' \in Seq(File) /\ bytes' \in Nat /\ pane' \in File \cup {None, Pv!Overview}
    BY <1>0
  <2>2. Cardinality(TextsOf(files')) <= bytes'
    BY <1>0, <1>5
  <2> QED BY <1>4, <1>5, <2>1, <2>2 DEF TheCache, Caches, CacheRecord
<1>7. PreviewTypes'
  <2>1. disk'.version \in 1 .. MaxVersions /\ disk'.present \subseteq File
        /\ cleared' \in Nat /\ cleared' <= disk'.version
    <3>1. PICK n \in Nat : n = disk.version
      BY DEF PreviewTypes
    <3>2. n \in 1 .. MaxVersions /\ n < MaxVersions
      BY <1>0, <3>1 DEF PreviewTypes
    <3>3. PICK m \in Nat : m = n + 1
      BY <3>1
    <3>4. disk'.version = m /\ cleared' = m /\ disk'.present = present
      BY <1>0, <3>1, <3>3
    <3>5. m \in 1 .. MaxVersions /\ m <= m
      BY <1>1, <3>1, <3>2, <3>3
    <3> QED BY <3>3, <3>4, <3>5
  <2>2. commits' \in [File -> 0 .. MaxVersions]
    BY <1>0, <1>1
  <2>3. crossed' \in BOOLEAN
    BY <1>0 DEF PreviewTypes
  <2> QED BY <1>0, <1>2, <1>6, <2>1, <2>2, <2>3 DEF PreviewTypes
<1>8. CacheIsExact'
  <2>1. Distinct(order') /\ Len(order') <= 1
    BY <1>0 DEF Distinct
  <2>2. bytes' = Cardinality(TextsOf(files'))
    BY <1>0, <1>5
  <2> QED BY <1>0, <2>1, <2>2 DEF CacheIsExact, Exact, TheCache
<1>9. NothingIsStale'
  <2> SUFFICES ASSUME ~crossed'  PROVE NothingIsStale'
    BY DEF NothingIsStale
  <2>1. reads = {} /\ walks = {}
    BY <1>0
  <2>2. reads' = {} /\ \A o \in walks' : o.seen = 0
    BY <1>0, <1>2, <2>1
  <2> QED BY <1>0, <2>2 DEF NothingIsStale
<1>10. SelectedIsRead'
  <2> SUFFICES ASSUME ~crossed', ~overtaken'  PROVE SelectedIsRead'
    BY DEF SelectedIsRead
  <2>1. reads' = {} /\ loadingP' = {} /\ selected' = None
    BY <1>0
  <2> QED BY <2>1 DEF SelectedIsRead
<1> QED BY <1>2, <1>7, <1>8, <1>9, <1>10

\* What is gone leaves the cache and the sum; the order keeps its path.
LEMMA CaughtUpKeeps ==
  ASSUME PreviewsInv, NEW present \in SUBSET File, Pv!CaughtUp(present)
  PROVE  PreviewsInv'
<1> USE DEF PreviewsInv
<1> DEFINE gone == File \ present
           lost == selected \in gone
           less == {f \in gone : files[f].kind = "text"}
<1>0. /\ disk.version < MaxVersions
      /\ disk' = [version |-> disk.version + 1, present |-> present]
      /\ files' = [f \in File |-> IF f \in gone THEN Pv!Absent ELSE files[f]]
      /\ bytes' = bytes - Cardinality(less)
      /\ commits' = [f \in File |-> IF f \in gone THEN 0 ELSE commits[f]]
      /\ selected' = IF lost THEN None ELSE selected
      /\ pane' = IF lost \/ selected = None THEN Pv!Overview
                 ELSE IF pane \in gone THEN None ELSE pane
      /\ IF selected' = None THEN Pv!LoadCommit(Readme, commits', pending, walking)
                             ELSE UNCHANGED <<pending, walking, walks>>
      /\ UNCHANGED <<order, loadingP, reads, hung, cleared, crossed, twice, overtaken>>
  BY TextsCounted DEF Pv!CaughtUp, Pv!NewContent, Pv!ghosts
<1>1. Readme \in File /\ MaxVersions \in Nat
  BY PanelsAssumption DEF Pv!PreviewsAssumption
<1>2. /\ pending' \in SUBSET File /\ walking' \in BOOLEAN /\ BatchesRun'
      /\ \A o \in walks' : WalkSound(o) /\ (o.seen # 0 => o \in walks)
  <2>1. CASE selected' = None
    <3>1. PICK dated : dated = commits'
      OBVIOUS
    <3>2. Pv!LoadCommit(Readme, dated, pending, walking)
      BY <1>0, <2>1, <3>1
    <3> QED BY <1>1, <3>2, CommitsLoaded DEF PreviewTypes, BatchesRun
  <2>2. CASE selected' # None
    BY <1>0, <2>2 DEF PreviewTypes, BatchesRun
  <2> QED BY <2>1, <2>2
<1>3. Pv!Absent \in Pv!Preview /\ Pv!Absent.kind # "text"
  BY DEF Pv!Preview, Pv!Absent
<1>4. /\ files \in [File -> Pv!Preview] /\ order \in Seq(File) /\ bytes \in Nat
      /\ pane \in File \cup {None, Pv!Overview}
      /\ IsFiniteSet(TextsOf(files)) /\ Cardinality(TextsOf(files)) \in Nat
      /\ Cardinality(TextsOf(files)) <= bytes
  BY PreviewsFacts
<1>5. /\ files' \in [File -> Pv!Preview]
      /\ TextsOf(files') = TextsOf(files) \ less
      /\ less \in SUBSET TextsOf(files)
  BY <1>0, <1>3, <1>4 DEF TextsOf
<1>6. /\ IsFiniteSet(TextsOf(files')) /\ Cardinality(TextsOf(files')) \in Nat
      /\ Cardinality(less) \in Nat
      /\ Cardinality(TextsOf(files')) = Cardinality(TextsOf(files)) - Cardinality(less)
  <2> HIDE DEF less
  <2>1. IsFiniteSet(less) /\ Cardinality(less) \in Nat
    BY <1>4, <1>5, FS_Subset, FS_CardinalityType
  <2>2. /\ IsFiniteSet(TextsOf(files) \ less)
        /\ Cardinality(TextsOf(files) \ less)
             = Cardinality(TextsOf(files)) - Cardinality(TextsOf(files) \cap less)
    BY <1>4, <2>1, FS_Difference
  <2>3. TextsOf(files) \cap less = less
    BY <1>5
  <2> QED BY <1>5, <2>1, <2>2, <2>3, FS_CardinalityType
<1> HIDE DEF less
<1>7. PICK n \in Nat : n = bytes - Cardinality(less)
  BY <1>4, <1>6
<1>8. Cardinality(TextsOf(files')) <= n /\ bytes' = n
      /\ (bytes = Cardinality(TextsOf(files)) => n = Cardinality(TextsOf(files')))
      /\ n <= bytes
  BY <1>0, <1>4, <1>6, <1>7
<1>9. (TheCache \in Caches)'
  <2>1. order' \in Seq(File) /\ bytes' \in Nat /\ pane' \in File \cup {None, Pv!Overview}
    BY <1>0, <1>4, <1>7, <1>8
  <2>2. Cardinality(TextsOf(files')) <= bytes'
    BY <1>8
  <2> QED BY <1>5, <1>6, <2>1, <2>2 DEF TheCache, Caches, CacheRecord
<1>10. PreviewTypes'
  <2>1. disk'.version \in 1 .. MaxVersions /\ disk'.present \subseteq File
        /\ cleared' \in Nat /\ cleared' <= disk'.version
    <3>1. PICK k \in Nat : k = disk.version
      BY DEF PreviewTypes
    <3>2. k \in 1 .. MaxVersions /\ k < MaxVersions /\ cleared \in Nat /\ cleared <= k
      BY <1>0, <3>1 DEF PreviewTypes
    <3>3. PICK m \in Nat : m = k + 1
      BY <3>1
    <3>4. disk'.version = m /\ cleared' = cleared /\ disk'.present = present
      BY <1>0, <3>1, <3>3
    <3>5. m \in 1 .. MaxVersions /\ cleared <= m
      BY <1>1, <3>1, <3>2, <3>3
    <3> QED BY <3>2, <3>3, <3>4, <3>5
  <2>2. commits' \in [File -> 0 .. MaxVersions]
    BY <1>0, <1>1 DEF PreviewTypes
  <2>3. selected' \in File \cup {None}
    BY <1>0 DEF PreviewTypes
  <2> QED BY <1>0, <1>2, <1>9, <2>1, <2>2, <2>3 DEF PreviewTypes
<1>11. CacheIsExact'
  <2> SUFFICES ASSUME ~twice
               PROVE  /\ ~hung /\ Distinct(order) /\ n = Cardinality(TextsOf(files'))
                      /\ Len(order) <= 1 \/ n <= MaxTexts
    BY <1>0, <1>8 DEF CacheIsExact, Exact, TheCache
  <2>1. /\ ~hung /\ Distinct(order) /\ bytes = Cardinality(TextsOf(files))
        /\ Len(order) <= 1 \/ bytes <= MaxTexts
    BY ExactFields DEF CacheIsExact
  <2>2. MaxTexts \in Nat
    BY PanelsAssumption DEF Pv!PreviewsAssumption
  <2> QED BY <1>4, <1>7, <1>8, <2>1, <2>2
<1>12. NothingIsStale'
  BY <1>0, <1>2, <1>4 DEF NothingIsStale, PreviewTypes
<1>13. SelectedIsRead'
  <2> SUFFICES ASSUME ~crossed', ~overtaken'  PROVE SelectedIsRead'
    BY DEF SelectedIsRead
  <2>1. selected' # None => /\ selected' = selected /\ selected \notin gone /\ selected \in File
                            /\ files'[selected] = files[selected]
                            /\ pane = selected => pane' = selected
    BY <1>0 DEF PreviewTypes
  <2>2. reads' = reads /\ loadingP' = loadingP /\ ~crossed /\ ~overtaken
    BY <1>0
  <2> QED BY <2>1, <2>2 DEF SelectedIsRead
<1> QED BY <1>2, <1>10, <1>11, <1>12, <1>13

\* Every step of the tab keeps the invariant.
LEMMA PreviewsSteps ==
  ASSUME PreviewsInv, Pv!Next
  PROVE  PreviewsInv'
<1>1. CASE \E f \in File : Pv!Open(f)
  BY <1>1, OpenKeeps
<1>2. CASE \E r \in reads : Pv!ReadLands(r)
  BY <1>2, ReadLandsKeeps
<1>3. CASE \E r \in reads : \E kind \in {"text", "other", "failed"} : Pv!Read(r, kind)
  BY <1>3, ReadKeeps
<1>4. CASE \E w \in walks : Pv!WalkReads(w)
  BY <1>4, WalkReadsKeeps
<1>5. CASE \E w \in walks : \E found \in BOOLEAN : Pv!WalkLands(w, found)
  BY <1>5, WalkLandsKeeps
<1>6. CASE \E present \in SUBSET File : Pv!Switched(present)
  BY <1>6, SwitchedKeeps
<1>7. CASE \E present \in SUBSET File : Pv!CaughtUp(present)
  BY <1>7, CaughtUpKeeps
<1>8. \A present \in {File} \cup {File \ {f} : f \in File \ {Readme}} : present \in SUBSET File
  OBVIOUS
<1> QED BY <1>1, <1>2, <1>3, <1>4, <1>5, <1>6, <1>7, <1>8 DEF Pv!Next

\* The steps of the other panels leave it alone.
LEMMA PreviewsInvariance ==
  PanelsSpec => []PreviewsInv
<1>1. PanelsInit => PreviewsInv
  BY PreviewsStart
<1>2. PreviewsInv /\ [PanelsNext]_<<panel, vars, wt, pv, dt, pf, rs>> => PreviewsInv'
  <2> SUFFICES ASSUME PreviewsInv, [PanelsNext]_<<panel, vars, wt, pv, dt, pf, rs>>
               PROVE  PreviewsInv'
    OBVIOUS
  <2>1. Pv!Next \/ UNCHANGED pv
    BY DEF PanelsNext
  <2>2. CASE Pv!Next
    BY <2>2, PreviewsSteps
  <2>3. CASE UNCHANGED pv
    <3>1. (TheCache \in Caches)'
      BY <2>3, CacheStays DEF pv, PreviewsInv, PreviewTypes
    <3>2. PreviewTypes'
      BY <2>3, <3>1 DEF pv, PreviewsInv, PreviewTypes
    <3>3. CacheIsExact'
      BY <2>3 DEF pv, PreviewsInv, CacheIsExact, Exact, TheCache
    <3>4. NothingIsStale' /\ SelectedIsRead' /\ BatchesRun'
      BY <2>3 DEF pv, PreviewsInv, NothingIsStale, SelectedIsRead, BatchesRun
    <3> QED BY <3>2, <3>3, <3>4 DEF PreviewsInv
  <2> QED BY <2>1, <2>2, <2>3
<1> QED BY <1>1, <1>2, PTL DEF PanelsSpec

\* Trimming the previews ends, within the limits as far as there is something to
\* evict, unless a file was stored twice (evict_previews).
THEOREM TrimmingEnds ==
  PanelsSpec => []EvictionEnds
<1>1. PreviewsInv => EvictionEnds
  <2> SUFFICES ASSUME PreviewsInv, ~twice
               PROVE  /\ ~hung
                      /\ bytes = Pv!Cardinality({f \in File : files[f].kind = "text"})
                      /\ Len(order) <= 1 \/ bytes <= MaxTexts
    BY DEF EvictionEnds, Pv!EvictionEnds
  <2>1. /\ ~hung /\ bytes = Cardinality(TextsOf(files))
        /\ Len(order) <= 1 \/ bytes <= MaxTexts
    BY ExactFields DEF PreviewsInv, CacheIsExact
  <2> QED BY <2>1, TextsCounted DEF TextsOf
<1> QED BY <1>1, PreviewsInvariance, PTL

\* At rest a preview is of the branch that is checked out, the pane shows the
\* selected file, and no commit that is wanted is forgotten, unless a read crossed a
\* switch or a selection (open_file, clear_previews, load_commit).
THEOREM PreviewsAreCurrent ==
  PanelsSpec => []PreviewIsCurrent
<1>1. PreviewsInv => Pv!PreviewIsCurrent
  <2> SUFFICES ASSUME PreviewsInv, reads = {}, ~crossed
               PROVE  /\ \A f \in Pv!Cached : files[f].of >= cleared
                      /\ \A f \in File : commits[f] # 0 => commits[f] >= cleared
                      /\ (selected # None /\ ~overtaken) =>
                           (files[selected] # Pv!Absent
                              /\ (files[selected].kind = "text" => pane = selected))
    BY DEF Pv!PreviewIsCurrent, Pv!AtRest
  <2>1. /\ \A f \in File : files[f] # Pv!Absent => files[f].of >= cleared
        /\ \A f \in File : commits[f] # 0 => commits[f] >= cleared
    BY DEF PreviewsInv, NothingIsStale
  <2> QED BY <2>1 DEF PreviewsInv, SelectedIsRead, Pv!Cached
<1>2. PreviewsInv => Pv!BatchesGoOn
  BY DEF PreviewsInv, BatchesRun, PreviewTypes, Pv!BatchesGoOn
<1> QED BY <1>1, <1>2, PreviewsInvariance, PTL DEF PreviewIsCurrent

-----------------------------------------------------------------------------
(* All panels *)

\* The invariant of the form holds for ever beside the other panels.
LEMMA FormInvariance == PanelsSpec => []IInv
<1>1. PanelsInit => IInv
  BY Start DEF PanelsInit
<1>2. IInv /\ [PanelsNext]_<<panel, vars, wt, pv, dt, pf, rs>> => IInv'
  <2>1. [PanelsNext]_<<panel, vars, wt, pv, dt, pf, rs>> => [Next]_vars
    BY DEF PanelsNext
  <2> QED BY <2>1, KeepsBounded, KeepsTypes, KeepsForm DEF IInv, Form
<1> QED BY <1>1, <1>2, PTL DEF PanelsSpec

\* All state of every panel is well typed.
THEOREM PanelsAreTyped == PanelsSpec => []WellTyped
<1>1. IInv => TypeOK
  BY DEF IInv, Types, Bounded, TypeOK
<1>2. WorktreeInv => Wt!TypeOK
  BY WorktreeIsTyped
<1>3. PreviewsInv => Pv!TypeOK
  BY PreviewsFacts DEF PreviewsInv, PreviewTypes, Pv!TypeOK
<1>4. DetailInv => Dt!TypeOK
  <2> SUFFICES ASSUME DetailInv  PROVE Dt!TypeOK
    OBVIOUS
  <2>1. MaxChanges \in Nat
    BY PanelsAssumption DEF Dt!DetailAssumption
  <2>2. generationD \in 0 .. MaxChanges + 1
    <3>1. PICK n \in 0 .. MaxChanges : n = changes
      BY DEF DetailInv, DetailTypes
    <3>2. generationD \in Nat /\ generationD <= n + 1
      BY <3>1 DEF DetailInv, DetailTypes
    <3> QED BY <2>1, <3>2
  <2>3. loads \subseteq Dt!Load
    BY DEF DetailInv, DetailTypes, LoadSound
  <2>4. paneD \in Dt!Bindings /\ commitsD \in Dt!Bindings
    BY DEF DetailInv, DetailTypes
  <2> QED BY <2>2, <2>3, <2>4 DEF DetailInv, DetailTypes, Dt!TypeOK
<1>5. ProfilesInv => Pf!TypeOK
  BY DEF ProfilesInv, ProfileTypes, Pf!TypeOK
<1>6. MarksInv => Rs!TypeOK
  <2> SUFFICES ASSUME MarksInv
               PROVE  marks \in [Rs!Sort -> [before : 0 .. MaxTime, ids : SUBSET Id]]
    BY DEF MarksInv, Rs!TypeOK
  <2>1. \A s \in Rs!Sort : marks[s] \in [before : 0 .. MaxTime, ids : SUBSET Id]
    <3> TAKE s \in Rs!Sort
    <3>1. PICK m \in [before : Nat, ids : SUBSET Id] : m = marks[s]
      BY DEF MarksInv
    <3>2. m.before \in 0 .. MaxTime
      BY <3>1, PanelsAssumption DEF MarksInv, Rs!ReadStateAssumption
    <3>3. m \in [before : 0 .. MaxTime, ids : SUBSET Id]
      BY <3>1, <3>2
    <3> QED BY <3>1, <3>3
  <2> QED BY <2>1 DEF MarksInv
<1> QED
  BY <1>1, <1>2, <1>3, <1>4, <1>5, <1>6, FormInvariance, WorktreeInvariance,
     PreviewsInvariance, DetailInvariance, ProfilesInvariance, MarksInvariance, PTL
     DEF WellTyped

\* Nothing is taken back: the cutoff and the marks of the inbox only grow, and a
\* branch of the mirror is moved only forward, also by a fast-forward that has
\* read it before its files were written (MoveBranch) and by a clone.
THEOREM NothingIsTakenBack == PanelsSpec => NothingTakenBack
  BY WhatIsMarkedStays, NoCommitIsTakenBack DEF NothingTakenBack
=============================================================================
