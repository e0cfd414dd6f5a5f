---------------------------- MODULE RefreshGate ----------------------------
(***************************************************************************)
(* The gate that coalesces refreshes (signed_state/src/refresh.rs): at     *)
(* most one run at a time, and a request made during a run is folded into  *)
(* one follow-up.  The gate is plain data owned by a store, so it is a     *)
(* record here and its methods are operators on it.                        *)
(***************************************************************************)

Gate == [running : BOOLEAN, dirty : BOOLEAN]

\* RefreshGate::default()
IdleGate == [running |-> FALSE, dirty |-> FALSE]

\* Mutant: every request schedules a run.
NeverFolds(g) == FALSE

\* request(): the caller schedules a run exactly when it is not folded.
Folds(g) == g.running

\* Mutant: a folded request leaves no trace.
RequestDropped(g) == g

Requested(g) == IF Folds(g) THEN [g EXCEPT !.dirty = TRUE] ELSE g

Begun(g) == [g EXCEPT !.running = TRUE]

\* finish() returns the dirty flag it takes.
NeedsFollowUp(g) == g.dirty
Finished(g) == [g EXCEPT !.running = FALSE, !.dirty = FALSE]

\* abort() keeps the dirty flag.
Aborted(g) == [g EXCEPT !.running = FALSE]
=============================================================================
