---------------------------- MODULE MCMirrorCache ----------------------------
(* MirrorCache for TLC; the configurations give the constants. *)
EXTENDS MirrorCache
=============================================================================
