----------------------------- MODULE MCGraspPush -----------------------------
EXTENDS GraspPush, TLC

\* Commits, and names, are interchangeable: nothing orders them.
Symmetry == Permutations(Commit) \cup Permutations(Name)
=============================================================================
