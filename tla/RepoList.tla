------------------------------ MODULE RepoList ------------------------------
(***************************************************************************)
(* RepoListStore (signed_state/src/repos.rs): the list of every announced  *)
(* repository, recomputed from the local event database.                   *)
(*                                                                         *)
(* Relays fill the database at any moment; the backend's pump batches what *)
(* arrived and emits one RepoUpdates event, which asks the store for a     *)
(* refresh.  A refresh is a background task that queries the database      *)
(* several times and lands on the main thread.  Any of its queries may     *)
(* fail, and then the run is abandoned.                                    *)
(*                                                                         *)
(* An announcement is its created_at stamp (0: none).  A deletion request  *)
(* for a repository is its cutoff: it deletes every announcement stamped   *)
(* at or before it.                                                        *)
(***************************************************************************)
EXTENDS Naturals, RefreshGate

CONSTANTS
  Repo,       \* repository addresses
  User,       \* identities that may sign in
  NoUser,     \* nobody is signed in
  Owner,      \* Owner[r]: the identity in the address of r
  Relayed,    \* the repositories whose announcement lists relays
  MaxStamp,   \* bound: created_at stamps are 1 .. MaxStamp
  MaxEvents   \* bound: SignerChanged and Synced events stop at this many requests

ASSUME RepoListAssumption ==
  /\ Owner \in [Repo -> User]
  /\ NoUser \notin User
  /\ Relayed \subseteq Repo
  /\ MaxStamp \in Nat
  /\ MaxEvents \in Nat

VARIABLES
  announced,    \* database: the newest announcement stored for a repository
  deleted,      \* database: the latest deletion cutoff stored for a repository
  batch,        \* the pump holds updates it has not emitted yet
  user,         \* Backend.current_user
  gate,         \* RepoListStore.refresh
  runs,         \* refresh tasks in flight
  shown,        \* RepoListStore.announcements
  stateSynced,  \* RepoListStore.state_synced_repos
  asked,        \* history: requests made, as in Coalescing
  served,       \* history: the request the shown list serves, as in Coalescing
  abandoned     \* history: the latest run ended in an error

dbVars == <<announced, deleted>>
storeVars == <<gate, runs, shown, stateSynced, served, abandoned>>
vars == <<announced, deleted, batch, user, gate, runs, shown, stateSynced,
          asked, served, abandoned>>

Stamp == 0 .. MaxStamp
Snapshot == [Repo -> Stamp]

\* A run remembers the request it serves and, query by query, what it read.
Run == [covers : Nat, stage : {"begun", "announcements", "deletions"},
        ann : Snapshot, del : Snapshot]

Nothing == [r \in Repo |-> 0]
NewRun(n) == [covers |-> n, stage |-> "begun", ann |-> Nothing, del |-> Nothing]

\* The announcements a run keeps: those no known deletion covers.
Visible(ann, del) == [r \in Repo |-> IF ann[r] > del[r] THEN ann[r] ELSE 0]

\* Mutant: the list about to be replaced is searched.
OwnRelayedBefore(list, me) == {r \in Relayed : shown[r] > 0 /\ Owner[r] = me}

\* Mutant: owners are collected instead of addresses.
OwnersRelayed(list, me) == {Owner[r] : r \in {q \in Relayed : list[q] > 0}}

\* The signed-in user's announcements that list relays (sync_own_repo_states).
OwnRelayed(list, me) == {r \in Relayed : list[r] > 0 /\ Owner[r] = me}

TypeOK ==
  /\ announced \in Snapshot
  /\ deleted \in Snapshot
  /\ batch \in BOOLEAN
  /\ user \in User \cup {NoUser}
  /\ gate \in Gate
  /\ runs \in SUBSET Run
  /\ shown \in Snapshot
  /\ stateSynced \in SUBSET Repo
  /\ asked \in Nat
  /\ served \in Nat
  /\ abandoned \in BOOLEAN

\* A database kept from an earlier session, and the store's first refresh,
\* which new() defers to the end of the update that creates it.
Init ==
  /\ announced \in Snapshot
  /\ deleted \in Snapshot
  /\ batch = FALSE
  /\ user \in User \cup {NoUser}
  /\ gate = Begun(IdleGate)
  /\ runs = {NewRun(1)}
  /\ shown = Nothing
  /\ stateSynced = {}
  /\ asked = 1
  /\ served = 0
  /\ abandoned = FALSE

-----------------------------------------------------------------------------
(* The database and the pump *)

\* A relay delivers an announcement newer than the one stored: the database
\* keeps it, and the pump's current batch will mention it.
StoreAnnouncement(r, s) ==
  /\ announced[r] < s
  /\ announced' = [announced EXCEPT ![r] = s]
  /\ batch' = TRUE
  /\ UNCHANGED <<deleted, user, asked, storeVars>>

StoreDeletion(r, s) ==
  /\ deleted[r] < s
  /\ deleted' = [deleted EXCEPT ![r] = s]
  /\ batch' = TRUE
  /\ UNCHANGED <<announced, user, asked, storeVars>>

\* RepoListStore::refresh: run at once, or fold into the run in flight.
Refresh ==
  /\ asked' = asked + 1
  /\ IF Folds(gate)
       THEN /\ gate' = Requested(gate)
            /\ UNCHANGED runs
       ELSE /\ gate' = Begun(gate)
            /\ runs' = runs \cup {NewRun(asked')}

\* The batch window closes: RepoUpdates reaches the store.
PumpEmit ==
  /\ batch
  /\ batch' = FALSE
  /\ Refresh
  /\ UNCHANGED <<dbVars, user, shown, stateSynced, served, abandoned>>

\* A bootstrap synchronisation completes: Synced reaches the store.
BackendSynced ==
  /\ asked < MaxEvents
  /\ Refresh
  /\ UNCHANGED <<dbVars, batch, user, shown, stateSynced, served, abandoned>>

\* Sign-in, sign-out or a change of identity: SignerChanged reaches the store.
SignerChanged(u) ==
  /\ asked < MaxEvents
  /\ user' = u
  /\ stateSynced' = {}
  /\ Refresh
  /\ UNCHANGED <<dbVars, batch, shown, served, abandoned>>

-----------------------------------------------------------------------------
(* A refresh run *)

Advance(x, y) ==
  /\ runs' = (runs \ {x}) \cup {y}
  /\ UNCHANGED <<dbVars, batch, user, gate, shown, stateSynced, asked, served,
                 abandoned>>

\* The announcements are queried first, the deletions after them.
ReadAnnouncements(x) ==
  /\ x.stage = "begun"
  /\ Advance(x, [x EXCEPT !.stage = "announcements", !.ann = announced])

ReadDeletions(x) ==
  /\ x.stage = "announcements"
  /\ Advance(x, [x EXCEPT !.stage = "deletions", !.del = deleted])

\* The run lands: it replaces the list, asks for the states of the user's own
\* repositories, and starts the follow-up a folded request left behind.
Land(x) ==
  /\ x.stage = "deletions"
  /\ shown' = Visible(x.ann, x.del)
  /\ stateSynced' = IF user = NoUser THEN stateSynced
                    ELSE stateSynced \cup OwnRelayed(shown', user)
  /\ served' = x.covers
  /\ abandoned' = FALSE
  /\ IF NeedsFollowUp(gate)
       THEN /\ gate' = Begun(Finished(gate))
            /\ runs' = (runs \ {x}) \cup {NewRun(asked)}
       ELSE /\ gate' = Finished(gate)
            /\ runs' = runs \ {x}
  /\ UNCHANGED <<dbVars, batch, user, asked>>

\* Some query failed: the gate is released and nothing else is done.
Abandon(x) ==
  /\ gate' = Aborted(gate)
  /\ runs' = runs \ {x}
  /\ abandoned' = TRUE
  /\ UNCHANGED <<dbVars, batch, user, shown, stateSynced, asked, served>>

Next ==
  \/ \E r \in Repo, s \in Stamp : StoreAnnouncement(r, s)
  \/ \E r \in Repo, s \in Stamp : StoreDeletion(r, s)
  \/ PumpEmit
  \/ BackendSynced
  \/ \E u \in User \cup {NoUser} : SignerChanged(u)
  \/ \E x \in runs : ReadAnnouncements(x)
  \/ \E x \in runs : ReadDeletions(x)
  \/ \E x \in runs : Land(x)
  \/ \E x \in runs : Abandon(x)

\* The pump's timer fires and a spawned task is polled until it lands; nothing
\* obliges relays, users or the database to do anything.
RunStep == \E x \in runs : ReadAnnouncements(x) \/ ReadDeletions(x) \/ Land(x)

Fairness == WF_vars(PumpEmit) /\ WF_vars(RunStep)

Spec == Init /\ [][Next]_vars /\ Fairness

-----------------------------------------------------------------------------
(* Properties *)

\* Two refresh tasks are never in flight together, and the gate says running
\* exactly while one is: a gate left closed would stop every later refresh.
OneRun ==
  /\ \A x, y \in runs : x = y
  /\ gate.running <=> (runs # {})

\* Once nothing is in flight and the pump has emitted its batch, the list is
\* exactly what the database holds, unless the latest run failed: an update
\* that arrives while a run is between its queries is not lost.
Converged ==
  (~gate.running /\ ~batch /\ ~abandoned)
    => shown = Visible(announced, deleted)

\* Whenever the store is at rest after a successful run, the state of each
\* repository of the signed-in user was asked for under this identity, even
\* if the user signed in while a run was in flight.
OwnStatesAsked ==
  (~gate.running /\ ~abandoned /\ user # NoUser)
    => OwnRelayed(shown, user) \subseteq stateSynced

\* The list never goes back in time: an entry gives way to an older one, or
\* disappears, only because a deletion request covers it.
NeverOlder ==
  [][\A r \in Repo : shown'[r] < shown[r] => deleted[r] >= shown[r]]_vars

\* The contract of a coalesced refresh, safety half.
Contract == INSTANCE Coalescing WITH asked <- asked, served <- served
ImplementsSafeContract == Contract!SafeSpec

\* Every request is served unless the run that should have served it failed.
ServedOrAbandoned ==
  \A n \in 1 .. MaxEvents : (asked >= n) ~> (served >= n \/ abandoned)
=============================================================================
