---------------------------- MODULE MCRepository ----------------------------
(***************************************************************************)
(* What a repository's store finds, publishes and lists, one at a time.    *)
(*                                                                         *)
(* RepoStore has the passes and subscriptions, Publish the actions of the  *)
(* user, Listing the rules and lists over what the store has read.  Each   *)
(* stands for the rest of the store by itself: a behavior picks one, and   *)
(* the others stay in an initial state.                                    *)
(***************************************************************************)
EXTENDS Naturals, FiniteSets, TLC

CONSTANTS
  Person, Nobody, Parts, MaxTasks, MaxActions, MaxSwitches,
  Relay, Bootstrap, Gossip, Root, MaxVersion, Listed, Maintainers, Uncensored,
  World, MaxPasses, MaxFailures,
  Trusted, Status, OpenStatus, All, MaxPosts, MaxStatuses, MaxTime,
  r1, r2, bootstrap, gossip, i1, i2   \* the world below

VARIABLES
  part,   \* the component that moves
  announced, user, signer, lastError, lastWarning, tasks, accepted, begun,
  unseen, switched, actions, switches,
  addr, announcement, loaded, shown, repoRelays, rootFetches, synced, passes,
  db, news, held, asks, current, asked, refetched, unreached, failures,
  posts, statuses, store, read, filter, list

\* Two versions of an announcement: the second one lists a second relay and
\* names a second maintainer.  The relays agree on little.
MCListed == [v \in 0 .. 2 |-> IF v = 0 THEN {} ELSE IF v = 1 THEN {r1} ELSE {r1, r2}]
MCMaintainers == [v \in 0 .. 2 |-> 1 .. v]

Holds(ann, state, roots, gone, topics) ==
  [ann |-> ann, state |-> state, roots |-> roots, gone |-> gone,
   topics |-> topics]

Nothing == Holds(0, FALSE, {}, {}, {})

\* The newest announcement, the deletion and the other root are known to
\* relays that one has to be told about.
Scattered ==
  bootstrap :> Holds(1, FALSE, {i1}, {}, {}) @@ gossip :> Nothing
    @@ r1 :> Holds(2, TRUE, {}, {}, {i1}) @@ r2 :> Holds(0, FALSE, {i2}, {}, {i1})
ByMaintainers ==
  bootstrap :> Holds(0, FALSE, {i1}, {}, {})
    @@ gossip :> Holds(1, TRUE, {i2}, {i1}, {i2})
    @@ r1 :> Holds(1, FALSE, {}, {}, {i1}) @@ r2 :> Nothing

MCWorld == {Scattered, ByMaintainers}

Pb == INSTANCE Publish
St == INSTANCE RepoStore
Ls == INSTANCE Listing WITH Maintainers <- Trusted

ASSUME RepositoryAssumption ==
  Pb!PublishAssumption /\ St!RepoStoreAssumption /\ Ls!ListingAssumption

pb == <<announced, user, signer, lastError, lastWarning, tasks, accepted, begun,
        unseen, switched, actions, switches>>
st == <<addr, announcement, loaded, shown, repoRelays, rootFetches, synced,
        passes, db, news, held, asks, current, asked, refetched, unreached,
        failures>>
ls == <<posts, statuses, store, read, filter, list>>

\* The parts that rest hold what they are given at first.
RepositoryInit ==
  /\ part \in {"store", "publish", "lists"}
  /\ Pb!Init /\ (part = "publish" \/ (~announced /\ user = Nobody))
  /\ St!Init /\ (part = "store" \/ (~addr /\ held = CHOOSE w \in World : TRUE))
  /\ Ls!Init

\* The two lists share the store alone: one of them is filtered at a time.
OneFiltered == \E k \in Ls!Side : filter[k] = OpenStatus

RepositoryNext ==
  \/ part = "publish" /\ Pb!Next /\ UNCHANGED <<part, st, ls>>
  \/ part = "store" /\ St!Next /\ UNCHANGED <<part, pb, ls>>
  \/ part = "lists" /\ Ls!Next /\ OneFiltered' /\ UNCHANGED <<part, pb, st>>

RepositorySpec == RepositoryInit /\ [][RepositoryNext]_<<part, pb, st, ls>>

-----------------------------------------------------------------------------
(* Properties, as their modules state them *)

\* Every part of the store is well typed.
WellTyped == Pb!TypeOK /\ St!TypeOK /\ Ls!TypeOK

\* At rest the store has found all there is to find, and asked nobody for the
\* same thing twice (RepoStore).
FindsEverything == St!FindsEverything /\ St!NeverRefetched

\* Nothing published is half there, nothing that failed goes unsaid (Publish).
PullIsWhole == Pb!PullIsWhole
FailuresAreShown == Pb!FailuresAreShown

\* A warning that a pull request lacks commits is about one that is published
\* (Publish); the code does not keep it, and no run checks it.
WarnsOnlyPublished == Pb!WarnsOnlyPublished

\* The lists show what the trusted people said last, and count what the badge
\* of the repository counts (Listing).
ListsAreRight == Ls!IssuesAreThoseSaid /\ Ls!BadgesAgree
=============================================================================
