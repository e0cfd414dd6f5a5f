----------------------------- MODULE Profiles -----------------------------
(***************************************************************************)
(* The profiles of the people a panel names (metadata/src/profile.rs).     *)
(*                                                                         *)
(* A panel's directory loads a profile from the database and, when there   *)
(* is none, has the store ask the relays.  The store collects such keys    *)
(* for half a second, synchronizes them, and tells every directory; so     *)
(* does the pump for profiles that arrive on their own.                    *)
(***************************************************************************)
EXTENDS Naturals

CONSTANTS
  Author,
  Directory,     \* the panels
  MaxVersion,    \* bound: the versions of a profile on the relays
  MaxLoads,      \* bound: loads in flight in a directory
  MaxFailures,   \* bound: queries and synchronizations that fail
  MaxRenders     \* bound: tracking and rendering by the panels

ProfilesAssumption ==
  {MaxVersion, MaxLoads, MaxFailures, MaxRenders} \subseteq Nat /\ MaxVersion # 0

VARIABLES
  stored,     \* Author -> the version in the database, 0: none
  news,       \* authors whose update the pump has not told yet
  inFlight,   \* ProfileStore::in_flight
  queue,      \* keys sent into the channel and not yet taken
  batch,      \* the keys being collected or synchronized
  syncing,    \* the store awaits the relays
  profiles,   \* Directory -> Author -> the version shown, 0: a placeholder
  pending,    \* Directory -> ProfileDirectory::pending
  loads,      \* Directory -> loads in flight
  outrun,     \* ghost: directories where an older load may have landed last
  failed,     \* ghost: <<directory, author>> of which a load has failed
  failures, renders

store == <<inFlight, queue, batch, syncing>>
panels == <<profiles, pending, loads>>
ghosts == <<outrun, failed>>
bounds == <<failures, renders>>
vars == <<stored, news, store, panels, ghosts, bounds>>

\* n keeps the loads of a directory apart.
Load == [n : 1 .. MaxLoads, keys : SUBSET Author, queues : BOOLEAN,
         at : {"query", "land"}, found : [Author -> 0 .. MaxVersion]]
NoProfile == [a \in Author |-> 0]
Known(d) == {a \in Author : profiles[d][a] # 0}

Init ==
  /\ stored \in [Author -> 0 .. 1] /\ news = {}
  /\ inFlight = {} /\ queue = {} /\ batch = {} /\ syncing = FALSE
  /\ profiles = [d \in Directory |-> NoProfile]
  /\ pending = [d \in Directory |-> {}]
  /\ loads = [d \in Directory |-> {}]
  /\ outrun = {} /\ failed = {}
  /\ failures = 0 /\ renders = 0

-----------------------------------------------------------------------------
(* The directory of a panel *)

\* Mutant: only keys that were asked of the relays are awaited.
NotAwaited(d, keys) == pending[d]

\* Updates that arrive while the query runs concern these keys as well.
Awaited(d, keys) == pending[d] \cup keys

\* load, for keys; a key of its own for each load in flight.
Loading(d, keys, queues) ==
  LET used == {l.n : l \in loads[d]}
      n == CHOOSE i \in 1 .. MaxLoads : i \notin used
  IN  [loads EXCEPT ![d] = @ \cup
        {[n |-> n, keys |-> keys, queues |-> queues, at |-> "query", found |-> NoProfile]}]

Room(d) == \E i \in 1 .. MaxLoads : \A l \in loads[d] : l.n # i

\* track
Track(d, keys) ==
  LET missing == keys \ (Known(d) \cup pending[d])
  IN  /\ missing # {} /\ Room(d)
      /\ renders < MaxRenders /\ renders' = renders + 1
      /\ pending' = [pending EXCEPT ![d] = Awaited(d, missing)]
      /\ loads' = Loading(d, missing, TRUE)
      /\ UNCHANGED <<stored, news, store, profiles, ghosts, failures>>

\* fetch: keys that are being fetched are not queued twice.
NewKeys(keys) == keys \ inFlight

Fetch(keys) ==
  /\ inFlight' = inFlight \cup keys
  /\ queue' = queue \cup NewKeys(keys)

\* profile: a placeholder that asks the relays once.
Render(d, a) ==
  /\ profiles[d][a] = 0 /\ a \notin pending[d]
  /\ renders < MaxRenders /\ renders' = renders + 1
  /\ pending' = [pending EXCEPT ![d] = @ \cup {a}]
  /\ Fetch({a})
  /\ UNCHANGED <<stored, news, batch, syncing, profiles, loads, ghosts, failures>>

Query(d, l) ==
  /\ l.at = "query"
  /\ loads' = [loads EXCEPT ![d] = (@ \ {l}) \cup {[l EXCEPT !.at = "land",
                 !.found = [a \in Author |-> IF a \in l.keys THEN stored[a] ELSE 0]]}]
  /\ UNCHANGED <<stored, news, store, profiles, pending, ghosts, bounds>>

\* insert_loaded replaces whatever was there; the rest may go to the relays.
Land(d, l, fails) ==
  LET found == {a \in l.keys : l.found[a] # 0 /\ ~fails}
      remaining == l.keys \ found
  IN  /\ l.at = "land"
      /\ fails => failures < MaxFailures
      /\ failures' = IF fails THEN failures + 1 ELSE failures
      /\ loads' = [loads EXCEPT ![d] = @ \ {l}]
      /\ profiles' = [profiles EXCEPT ![d] =
           [a \in Author |-> IF a \in found THEN l.found[a] ELSE @[a]]]
      /\ pending' = [pending EXCEPT ![d] = @ \ found]
      /\ IF l.queues /\ remaining # {} THEN Fetch(remaining)
                                       ELSE UNCHANGED <<inFlight, queue>>
      /\ outrun' = IF \E a \in found : l.found[a] < profiles[d][a]
                     THEN outrun \cup {d} ELSE outrun
      /\ failed' = IF fails THEN failed \cup ({d} \X l.keys) ELSE failed
      /\ UNCHANGED <<stored, news, batch, syncing, renders>>

-----------------------------------------------------------------------------
(* The store *)

\* Mutant: only keys of whom a profile was found are freed.
FreedFound(keys) == {a \in keys : stored[a] # 0}

\* Whatever the relays had, or did not have, of a key.
Freed(keys) == keys

\* emit_updated: the keys are free to be asked for again, and every directory
\* reloads those it shows or awaits.
Updated(keys) ==
  /\ inFlight' = inFlight \ Freed(keys)
  /\ \A d \in Directory : Room(d)
  /\ LET tracked(d) == keys \cap (Known(d) \cup pending[d])
     IN  /\ pending' = [d \in Directory |-> Awaited(d, tracked(d))]
         /\ loads' = [d \in Directory |->
              IF tracked(d) = {} THEN loads[d] ELSE Loading(d, tracked(d), FALSE)[d]]

\* The batching task: the first key starts a batch, a timer ends it.
Collect(a) ==
  /\ a \in queue /\ ~syncing
  /\ queue' = queue \ {a} /\ batch' = batch \cup {a}
  /\ UNCHANGED <<stored, news, inFlight, syncing, panels, ghosts, bounds>>

Deadline ==
  /\ batch # {} /\ ~syncing
  /\ syncing' = TRUE
  /\ UNCHANGED <<stored, news, inFlight, queue, batch, panels, ghosts, bounds>>

\* The relays have answered, or not; the directories are told all the same.
Synced(answer) ==
  /\ syncing
  /\ \A a \in Author : answer[a] >= stored[a] /\ (a \notin batch => answer[a] = stored[a])
  /\ stored' = answer
  /\ news' = news \cup {a \in Author : answer[a] > stored[a]}
  /\ Updated(batch)
  /\ batch' = {} /\ syncing' = FALSE
  /\ UNCHANGED <<queue, profiles, ghosts, bounds>>

-----------------------------------------------------------------------------
(* The pump *)

\* A newer profile arrives by some subscription.
Arrives(a) ==
  /\ stored[a] < MaxVersion
  /\ stored' = [stored EXCEPT ![a] = @ + 1]
  /\ news' = news \cup {a}
  /\ UNCHANGED <<store, panels, ghosts, bounds>>

\* ProfileUpdates
Pump ==
  /\ news # {}
  /\ news' = {}
  /\ Updated(news)
  /\ UNCHANGED <<stored, queue, batch, syncing, profiles, ghosts, bounds>>

Progress ==
  \/ \E d \in Directory : \E l \in loads[d] : Query(d, l) \/ Land(d, l, FALSE)
  \/ \E a \in Author : Collect(a)
  \/ Deadline \/ Pump
  \/ \E answer \in [Author -> 0 .. MaxVersion] : Synced(answer)

Next ==
  \/ Progress
  \/ \E d \in Directory, keys \in SUBSET Author : Track(d, keys)
  \/ \E d \in Directory, a \in Author : Render(d, a)
  \/ \E d \in Directory : \E l \in loads[d] : Land(d, l, TRUE)
  \/ \E a \in Author : Arrives(a)

Spec == Init /\ [][Next]_vars

-----------------------------------------------------------------------------
(* Properties *)

TypeOK ==
  /\ stored \in [Author -> 0 .. MaxVersion] /\ news \subseteq Author
  /\ inFlight \subseteq Author /\ queue \subseteq Author /\ batch \subseteq Author
  /\ syncing \in BOOLEAN
  /\ profiles \in [Directory -> [Author -> 0 .. MaxVersion]]
  /\ pending \in [Directory -> SUBSET Author]
  /\ \A d \in Directory : loads[d] \subseteq Load

AtRest ==
  /\ news = {} /\ queue = {} /\ batch = {}
  /\ \A d \in Directory : loads[d] = {}

\* When nothing is in flight, every panel shows the profile the database has
\* of everybody it names, whenever the profile arrived: during the panel's own
\* query, during a batch, or on its own.  Excused are a load that landed after
\* a newer one, and one that failed.
ShowsStored ==
  AtRest =>
    \A d \in Directory \ outrun, a \in Author :
      (a \in Known(d) \cup pending[d] /\ <<d, a>> \notin failed)
        => profiles[d][a] = stored[a]

\* The key of somebody who is being fetched is either on its way to the relays
\* or was freed for the next request: nobody is locked out of the store.
NobodyLockedOut == inFlight \subseteq queue \cup batch
=============================================================================
