---------------------------- MODULE Coalescing ----------------------------
(***************************************************************************)
(* What a coalesced refresh promises to the code that asks for it, with    *)
(* the gate, the debounce and the background work abstracted away.         *)
(*                                                                         *)
(* Requests are numbered in the order they are made.  Published data       *)
(* "serves" request n when the work that produced it began at or after     *)
(* request n: whatever the requester had just stored is in it.             *)
(***************************************************************************)
EXTENDS Naturals

VARIABLES
  asked,    \* the number of requests made so far
  served    \* the newest request the published data serves

vars == <<asked, served>>

Init ==
  /\ asked \in {0, 1}    \* a store may ask for its first refresh on creation
  /\ served = 0

Ask ==
  /\ asked' = asked + 1
  /\ UNCHANGED served

\* Any number of requests may be folded into one publication, but the
\* published data never goes back to an older run.
Serve ==
  /\ served' \in (served + 1) .. asked
  /\ UNCHANGED asked

Next == Ask \/ Serve

\* The safety half of the contract: what a fallible store implements.
SafeSpec == Init /\ [][Next]_vars

\* The whole contract: a request is not left unserved forever.
Spec == SafeSpec /\ WF_vars(Serve)
=============================================================================
