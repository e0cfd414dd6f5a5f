----------------------------- MODULE RepoStore -----------------------------
(***************************************************************************)
(* RepoStore (signed_state/src/repo.rs): one open repository, read from    *)
(* the local event database by refresh passes, and the relays it is looked *)
(* for on.                                                                 *)
(*                                                                         *)
(* A pass reads the database in the background and lands on the main       *)
(* thread.  Passes are not gated: every relevant update starts one, and    *)
(* they land in any order.  What a pass finds decides whom to ask next:    *)
(* the relays of the announcement, the relays of the maintainers, and for  *)
(* every new issue, patch or pull request its comments and statuses, which *)
(* need not name the repository.  Each answer is an update again.          *)
(***************************************************************************)
EXTENDS Naturals, FiniteSets

CONSTANTS
  Relay,             \* relays an announcement can list
  Bootstrap, Gossip, \* the bootstrap relays, and those of the maintainers
  Root,              \* issues, patches and pull requests
  MaxVersion,        \* versions of the announcement are 1 .. MaxVersion
  Listed,            \* Listed[v]: the relays of version v
  Maintainers,       \* Maintainers[v]: the effective maintainers of version v
  Uncensored,        \* the strategy that asks the relays of the maintainers
  World,             \* what the relays may hold
  MaxPasses,         \* bound: refresh passes in flight
  MaxFailures        \* bound: queries that fail and requests given up

Versions == 0 .. MaxVersion   \* 0: no announcement
Where == Relay \cup {Bootstrap, Gossip}

\* What a relay or the database holds: the newest announcement, the state
\* event, the roots, the roots that have been deleted, and the roots that have
\* a comment which does not name the repository.
Content == [ann : Versions, state : BOOLEAN, roots : SUBSET Root,
            gone : SUBSET Root, topics : SUBSET Root]
Empty == [ann |-> 0, state |-> FALSE, roots |-> {}, gone |-> {}, topics |-> {}]

\* The filters of a repository, and those of its maintainers.
Repository == <<"repository">>
OfMaintainers(v) == <<"repository", Maintainers[v]>>

RepoStoreAssumption ==
  /\ MaxVersion \in Nat /\ MaxPasses \in Nat \ {0} /\ MaxFailures \in Nat
  /\ Listed \in [Versions -> SUBSET Relay] /\ Listed[0] = {}
  /\ Maintainers[0] = {}
  /\ Bootstrap \notin Relay /\ Gossip \notin Relay \cup {Bootstrap}
  /\ Repository \notin Root
  /\ \A v \in Versions : OfMaintainers(v) \notin Root
  /\ World \subseteq [Where -> Content]
  /\ Uncensored \in BOOLEAN

VARIABLES
  addr,          \* RepoStore::addr is set
  announcement,  \* the version shown, the hint at first
  loaded,
  shown,         \* head and state_refs, the lists, and comments by root
  repoRelays, rootFetches, synced,   \* whom the store has asked already
  passes,        \* refresh passes in flight
  db,            \* the local database
  news,          \* the pump has updates it has not emitted
  held,          \* what the relays hold
  asks,          \* requests to relays that are not answered
  current,       \* ghost: the pass that started last is the one shown
  asked,         \* ghost: <<relay, what>> asked so far
  refetched,     \* ghost: something was asked twice
  unreached,     \* ghost: a request was given up
  failures       \* bounded

store == <<addr, announcement, loaded, shown, repoRelays, rootFetches, synced>>
network == <<held, asks, unreached, failures>>
ghosts == <<current, asked, refetched>>
vars == <<store, passes, db, news, network, ghosts>>

\* What is asked for: the filters above, or the comments and statuses of roots.
Ask(to, what) == [to |-> to, what |-> what]

\* The requests of one update; requests to nobody or for nothing are not made.
Made(requests) == {a \in requests : a.to # {} /\ a.what # {}}
Each(requests) ==
  UNION {{<<r, x>> : r \in a.to, x \in a.what} : a \in requests}

Send(requests) ==
  /\ asks' = asks \cup Made(requests)
  /\ asked' = asked \cup Each(requests)
  /\ refetched' = (refetched \/ Each(requests) \cap asked # {})

NewPass ==
  [latest |-> TRUE, at |-> "query", ann |-> 0, state |-> FALSE, roots |-> {},
   topics |-> {}]

\* refresh: nothing while the repository is local only.
Refresh ==
  /\ Cardinality(passes) < MaxPasses
  /\ current' = FALSE
  /\ passes' = {[p EXCEPT !.latest = FALSE] : p \in passes} \cup {NewPass}

Unloaded == [state |-> FALSE, roots |-> {}, topics |-> {}]

-----------------------------------------------------------------------------
(* Opening and announcing *)

\* new() with its hint, and from_worktree(); what new() defers has run.
Opened(hint) ==
  /\ addr = TRUE /\ announcement = hint /\ loaded = FALSE
  /\ repoRelays = Listed[hint]
  /\ current = FALSE /\ passes = {NewPass}
  /\ asks = Made({Ask({Bootstrap}, {Repository}),
                  Ask(Listed[hint], {Repository})})
  /\ asked = Each(asks)

\* new_local()
OpenedLocal ==
  /\ addr = FALSE /\ announcement = 0 /\ loaded = TRUE
  /\ repoRelays = {}
  /\ current = TRUE /\ passes = {}
  /\ asks = {} /\ asked = {}

Init ==
  /\ (\E hint \in Versions : Opened(hint)) \/ OpenedLocal
  /\ shown = Unloaded
  /\ rootFetches = {} /\ synced = {}
  /\ db = Empty /\ news = FALSE
  /\ held \in World
  /\ refetched = FALSE /\ unreached = FALSE
  /\ failures = 0

\* announce(): a local repository has been published; its announcement may
\* already be in the database.
Announce(v) ==
  /\ ~addr
  /\ addr' = TRUE /\ announcement' = v /\ loaded' = FALSE
  /\ repoRelays' = repoRelays \cup Listed[v]
  /\ Send({Ask({Bootstrap}, {Repository}),
           Ask(Listed[v] \ repoRelays, {Repository})})
  /\ Refresh
  /\ db' \in {db, [db EXCEPT !.ann = v]}
  /\ UNCHANGED <<shown, rootFetches, synced, news, held, unreached, failures>>

-----------------------------------------------------------------------------
(* A refresh pass *)

\* Mutant: deletion requests are not looked for.
Undeleted(c) == c.roots

\* Deletion requests are read after what they delete.
Visible(c) == c.roots \ c.gone

ReadRepository(p) ==
  /\ p.at = "query"
  /\ passes' = (passes \ {p}) \cup
       {[p EXCEPT !.at = "roots", !.ann = db.ann, !.state = db.state,
                  !.roots = Visible(db)]}
  /\ UNCHANGED <<store, db, news, network, ghosts>>

\* The comments and statuses of the roots found, root by root.
ReadTopics(p) ==
  /\ p.at = "roots"
  /\ passes' = (passes \ {p}) \cup
       {[p EXCEPT !.at = "land", !.topics = db.topics \cap p.roots]}
  /\ UNCHANGED <<store, db, news, network, ghosts>>

\* A query failed: last_error, and nothing else.
PassFails(p) ==
  /\ failures < MaxFailures /\ failures' = failures + 1
  /\ passes' = passes \ {p}
  /\ UNCHANGED <<store, db, news, held, asks, unreached, ghosts>>

\* The hint stays when the first pass finds no announcement.
KeepHint(p) == p.ann = 0 /\ ~loaded

\* Mutant: every relay of the announcement is asked by every pass.
AllRelays(v) == Listed[v]

\* connect_announced_relays: only the relays that were not asked before.
NewRelays(v) == Listed[v] \ repoRelays

\* sync_maintainer_relays: all of them, when one of them is new.
MaintainerRelays(v) ==
  IF Uncensored /\ Maintainers[v] \ synced # {} THEN {Gossip} ELSE {}

\* The lists are replaced by what the pass has read, whichever pass it is; a
\* state event that was shown stays when the pass has found none.
Land(p) ==
  /\ p.at = "land"
  /\ passes' = passes \ {p}
  /\ announcement' = IF KeepHint(p) THEN announcement ELSE p.ann
  /\ repoRelays' = repoRelays \cup Listed[announcement']
  /\ synced' = IF MaintainerRelays(announcement') = {} THEN synced
               ELSE synced \cup Maintainers[announcement']
  /\ shown' = [state |-> p.state \/ shown.state, roots |-> p.roots,
               topics |-> p.topics]
  /\ loaded' = TRUE
  /\ rootFetches' = rootFetches \cup p.roots
  /\ LET new == p.roots \ rootFetches
     IN  Send({Ask(NewRelays(announcement'), {Repository}),
               Ask(MaintainerRelays(announcement'), {OfMaintainers(announcement')}),
               Ask({Bootstrap}, new), Ask(repoRelays', new)})
  /\ current' = p.latest
  /\ UNCHANGED <<addr, db, news, held, unreached, failures>>

-----------------------------------------------------------------------------
(* The relays and the pump *)

\* The database keeps the newest announcement and everything else.
Merged(c, d) ==
  [ann |-> IF c.ann > d.ann THEN c.ann ELSE d.ann, state |-> c.state \/ d.state,
   roots |-> c.roots \cup d.roots, gone |-> c.gone \cup d.gone,
   topics |-> c.topics \cup d.topics]

\* A request for roots brings their comments, the others everything that names
\* the repository.
Answer(r, what) ==
  IF what \subseteq Root THEN [Empty EXCEPT !.topics = held[r].topics \cap what]
                         ELSE [held[r] EXCEPT !.topics = {}]

\* One of the relays of a request answers and its events are stored.
Deliver(a, r) ==
  /\ r \in a.to
  /\ asks' = (asks \ {a}) \cup Made({Ask(a.to \ {r}, a.what)})
  /\ db' = Merged(db, Answer(r, a.what))
  /\ news' = (news \/ db' # db)
  /\ UNCHANGED <<store, passes, held, unreached, failures, ghosts>>

\* A relay that cannot be connected to, or does not answer: connect_repo_relays
\* gives up the whole request, and what was marked as asked stays marked.
GiveUp(a) ==
  /\ failures < MaxFailures /\ failures' = failures + 1
  /\ asks' = asks \ {a}
  /\ unreached' = TRUE
  /\ UNCHANGED <<store, passes, db, news, held, ghosts>>

\* RepoUpdates: everything that arrives here concerns the repository.
Updated ==
  /\ news /\ news' = FALSE
  /\ IF addr THEN Refresh ELSE UNCHANGED <<passes, current>>
  /\ UNCHANGED <<store, db, network, asked, refetched>>

Advance ==
  \/ \E p \in passes : ReadRepository(p) \/ ReadTopics(p) \/ Land(p)
  \/ \E a \in asks : \E r \in a.to : Deliver(a, r)
  \/ Updated

Next ==
  \/ \E v \in Versions \ {0} : Announce(v)
  \/ Advance
  \/ \E p \in passes : PassFails(p)
  \/ \E a \in asks : GiveUp(a)

Spec == Init /\ [][Next]_vars

-----------------------------------------------------------------------------
(* Properties *)

Pass == [latest : BOOLEAN, at : {"query", "roots", "land"}, ann : Versions,
         state : BOOLEAN, roots : SUBSET Root, topics : SUBSET Root]

TypeOK ==
  /\ addr \in BOOLEAN /\ announcement \in Versions /\ loaded \in BOOLEAN
  /\ shown.roots \subseteq Root /\ shown.topics \subseteq shown.roots
  /\ repoRelays \subseteq Relay /\ rootFetches \subseteq Root
  /\ passes \subseteq Pass /\ db \in Content /\ news \in BOOLEAN

AtRest == passes = {} /\ asks = {} /\ ~news

Reached == {r \in Where : \E x \in asked : x[1] = r /\ x[2] \notin Root}

\* When nothing is in flight, the store has found all there is to find: the
\* newest announcement of the relays that the hint, the announcements and the
\* maintainers lead to, every root that is not deleted, and the comments of
\* the relays that were known when the root was found.  Excused are requests
\* given up, and a pass that was overtaken or failed.
FindsEverything ==
  (AtRest /\ addr /\ current /\ ~unreached) =>
    /\ \A r \in Reached :
         /\ held[r].ann <= announcement
         /\ held[r].roots \subseteq shown.roots \cup UNION {held[q].gone : q \in Reached}
         /\ held[r].gone \cap shown.roots = {}
    /\ Listed[announcement] \subseteq Reached
    /\ \A x \in asked :
         x[2] \in shown.roots \cap held[x[1]].topics => x[2] \in shown.topics

\* repo.rs:53: the sets of what was asked avoid "re-subscribing and
\* re-fetching on every refresh".
NeverRefetched == ~refetched
=============================================================================
