---------------------------- MODULE MCPublishing ----------------------------
(***************************************************************************)
(* Publishing for TLC.                                                     *)
(*                                                                         *)
(* What a scan does and what becomes of an address depend on each other    *)
(* through the folders alone.  A behavior has scans and panels at any      *)
(* time, or changes of identity and deletions after one scan at most and   *)
(* with the panels opened at first, or relays that disagree on what they   *)
(* take, without scans; and two of its steps change the identity or delete *)
(* a repository.  All of it at once multiplies the states by thirty or     *)
(* more.  PublishingProofs is about all of it at once.                     *)
(***************************************************************************)
EXTENDS Publishing

VARIABLE part   \* "scan", "address" or "relays"

\* Nothing orders people or folders: which of them is the first does not matter.
Somebody == CHOOSE a \in Person : TRUE
Somewhere == CHOOSE p \in Path : TRUE

PublishingInit ==
  /\ Init /\ part \in {"scan", "address", "relays"}
  /\ user = Somebody
  /\ disk[Somewhere] = Absent => disk = Nothing

\* What one relay takes or serves, all of them do.
RelaysAgree ==
  /\ \A t \in tasks : t.took \in {{}, Relay}
  /\ \A a \in Person, r, s \in Relay : live[a][r] = live[a][s]

PublishingNext ==
  /\ Next /\ UNCHANGED part
  /\ part = "scan" => UNCHANGED <<user, deletions>>
  /\ part = "address" =>
       /\ asked' # asked => asked = 0 /\ started + switches + deletions = 0
       /\ scanning => Local
       /\ panels' # panels => started = 0 /\ panels \subseteq panels'
  /\ IF part = "relays" THEN UNCHANGED asked ELSE RelaysAgree'
  /\ switches' + deletions' <= 2

PublishingSpec ==
  PublishingInit /\ [][PublishingNext]_<<vars, part>> /\ WF_vars(Local)
=============================================================================
