----------------------------- MODULE Identity -----------------------------
(***************************************************************************)
(* Who is signed in, as the stores and views that follow SignerChanged see *)
(* it: a register.  A sign-in is asked for first and granted later, in any *)
(* order, or never.  Nobody is ever signed in who was not asked for, and   *)
(* one request signs in once.                                              *)
(***************************************************************************)
EXTENDS Naturals

CONSTANTS
  Person,   \* the public keys
  Nobody    \* no current user

NobodyIsNoPerson == Nobody \notin Person

VARIABLES
  user,     \* Backend::current_user
  asked     \* asked[p]: the requests to sign p in that are still open

vars == <<user, asked>>

Init ==
  /\ user = Nobody
  /\ asked = [p \in Person |-> 0]

Ask(p) ==
  /\ asked' = [asked EXCEPT ![p] = @ + 1]
  /\ UNCHANGED user

Grant(p) ==
  /\ asked[p] > 0
  /\ asked' = [asked EXCEPT ![p] = @ - 1]
  /\ user' = p

Refuse(p) ==
  /\ asked[p] > 0
  /\ asked' = [asked EXCEPT ![p] = @ - 1]
  /\ UNCHANGED user

SignOut ==
  /\ user' = Nobody
  /\ UNCHANGED asked

\* The process ends: whoever was signed in or asked for is forgotten.
Forget ==
  /\ user' = Nobody
  /\ asked' = [p \in Person |-> 0]

Next ==
  \/ \E p \in Person : Ask(p) \/ Grant(p) \/ Refuse(p)
  \/ SignOut
  \/ Forget

Spec == Init /\ [][Next]_vars
=============================================================================
