----------------------------- MODULE ReadState -----------------------------
(***************************************************************************)
(* The read and archived marks of the inbox                                *)
(* (signed_core/src/inbox/read_state.rs).                                  *)
(*                                                                         *)
(* A mark is a cutoff, up to which everything counts as marked, and a set  *)
(* of ids past it.  Marking everything and advancing the cutoff move it    *)
(* along with the clock and prune the ids.  Both kinds of marks work alike *)
(* but for marking everything, which there is of the read marks only.      *)
(***************************************************************************)
EXTENDS Naturals, FiniteSets

CONSTANTS
  Id,
  AdvanceWindow, MarkAllWindow,   \* ADVANCE_WINDOW and MARK_ALL_WINDOW, scaled
  MaxTime                         \* bound: the clock

ReadStateAssumption ==
  /\ {AdvanceWindow, MarkAllWindow, MaxTime} \subseteq Nat /\ MaxTime # 0
  /\ AdvanceWindow <= MarkAllWindow

VARIABLES
  now,
  all,     \* the events of others that have arrived: Id -> created_at, 0: not yet
  marks    \* Sort -> the cutoff and the ids

vars == <<now, all, marks>>

Sort == {"read", "archived"}
Arrived == {e \in Id : all[e] # 0}

\* Mutant: timestamps do not saturate.
Unsaturated(t, d) == t - d

\* Timestamps are unsigned and saturate.
Minus(t, d) == IF t > d THEN t - d ELSE 0

Init ==
  /\ now = 1
  /\ all = [e \in Id |-> 0]
  /\ marks = [s \in Sort |-> [before |-> 0, ids |-> {}]]

\* is_read, is_archived
Marked(m, e) == all[e] <= m.before \/ e \in m.ids

\* mark_read, mark_archived
Mark(s, e) ==
  /\ e \in Arrived /\ all[e] > marks[s].before
  /\ marks' = [marks EXCEPT ![s].ids = @ \cup {e}]
  /\ UNCHANGED <<now, all>>

MarkAllRead ==
  /\ LET cutoff == Minus(now, MarkAllWindow)
     IN  marks' = [marks EXCEPT !["read"] =
                    [before |-> cutoff, ids |-> {e \in Arrived : all[e] > cutoff}]]
  /\ UNCHANGED <<now, all>>

\* The newest cutoff that leaves unmarked events uncovered.
Candidate(m) ==
  LET fallback == Minus(now, AdvanceWindow)
      unmarked == {all[e] : e \in {x \in Arrived : ~Marked(m, x)}}
  IN  IF \E at \in unmarked : at < fallback
        THEN Minus(CHOOSE at \in unmarked : \A b \in unmarked : at <= b, 1)
        ELSE fallback

\* advance_cutoff
Cutoff(m) == IF Candidate(m) > m.before THEN Candidate(m) ELSE m.before

\* Mutant: ids are pruned by the age that the cutoff could have had.
PrunedByAge(m, cutoff) ==
  {e \in m.ids \cap Arrived : all[e] >= Minus(now, AdvanceWindow)}

\* prune_ids keeps what has arrived and is not past.
Pruned(m, cutoff) == {e \in m.ids \cap Arrived : all[e] >= cutoff}

Advanced(m) == [before |-> Cutoff(m), ids |-> Pruned(m, Cutoff(m))]

\* advance_read, advance_archived
Advance(s) ==
  /\ marks' = [marks EXCEPT ![s] = Advanced(@)]
  /\ UNCHANGED <<now, all>>

\* Events arrive late and in any order.
Arrive(e) ==
  /\ all[e] = 0
  /\ \E at \in 1 .. now : all' = [all EXCEPT ![e] = at]
  /\ UNCHANGED <<now, marks>>

Tick ==
  /\ now < MaxTime /\ now' = now + 1
  /\ UNCHANGED <<all, marks>>

Next ==
  \/ MarkAllRead \/ Tick
  \/ \E e \in Id : Arrive(e)
  \/ \E s \in Sort : Advance(s)
  \/ \E s \in Sort, e \in Id : Mark(s, e)

Spec == Init /\ [][Next]_vars

-----------------------------------------------------------------------------
(* Properties *)

TypeOK ==
  /\ now \in 1 .. MaxTime /\ all \in [Id -> 0 .. MaxTime]
  /\ marks \in [Sort -> [before : 0 .. MaxTime, ids : SUBSET Id]]

\* Whatever was marked stays marked: ids are pruned only when the cutoff
\* covers them, and the cutoff never goes back behind ids that were pruned
\* (advance_cutoff, prune_ids, mark_all_read over the events that are shown).
MarksAreKept ==
  [][\A s \in Sort, e \in Arrived : Marked(marks[s], e) => Marked(marks'[s], e)]_vars

\* "Computes the newest cutoff that leaves unmarked events uncovered."
\* (advance_cutoff in read_state.rs): advancing marks nothing.
LeavesUnmarked ==
  [][ \A s \in Sort :
       Advance(s) => \A e \in Arrived : Marked(marks'[s], e) => Marked(marks[s], e)]_vars
=============================================================================
