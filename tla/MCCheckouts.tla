---------------------------- MODULE MCCheckouts ----------------------------
(* Checkouts for TLC; the configurations give the constants. *)
EXTENDS Checkouts
=============================================================================
