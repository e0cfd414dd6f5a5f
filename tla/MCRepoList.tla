---------------------------- MODULE MCRepoList ----------------------------
(* RepoList on two repositories of two owners, one without relays. *)
EXTENDS RepoList, TLC

CONSTANTS r1, r2, alice, bob

MCRepo == {r1, r2}
MCUser == {alice, bob}
MCOwner == (r1 :> alice) @@ (r2 :> bob)
=============================================================================
