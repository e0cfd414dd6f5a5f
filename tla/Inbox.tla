------------------------------- MODULE Inbox -------------------------------
(***************************************************************************)
(* The inbox: the store of what the user has read (signed_state/inbox.rs)  *)
(* and the view that groups the mentions of the user into threads          *)
(* (workspace/src/views/inbox.rs), over the identity register.             *)
(*                                                                         *)
(* The store is activated when the grasp list of the user arrives, loads   *)
(* the saved read state in the background and saves it in a detached task  *)
(* after every change.  The view observes the store; an observer runs in   *)
(* the same flush as the update that notified it, so both are one action.  *)
(* A mention is recent: none falls under the high-water mark.              *)
(***************************************************************************)
EXTENDS Naturals, FiniteSets, RefreshGate

CONSTANTS
  Person, Nobody,  \* public keys, and none
  Mention,         \* events of other authors that mention whoever signs in
  MaxSignIns,      \* bound: sign-ins asked for
  MaxLists,        \* bound: arrivals of the user's grasp list
  MaxMarks,        \* bound: uses of "mark all as read"
  MaxRuns          \* bound: refreshes of the view in flight

InboxBounds ==
  /\ MaxSignIns \in Nat /\ MaxLists \in Nat /\ MaxMarks \in Nat
  /\ MaxRuns \in Nat \ {0}

VARIABLES
  user, asked,   \* the identity register
  stored,        \* database: the mentions
  news,          \* the pump has not announced all of them
  kept,          \* database: kept[p], the newest saved read state
  connecting,    \* tasks of connect_grasp_relays
  state,         \* Inbox::state: the mentions read
  loaded,        \* Inbox::loaded
  loads, saves,  \* background tasks of the store
  view,          \* InboxView: threads, their unread ids, state, state_loaded
  gate, run,     \* InboxView::refresh and its tasks
  activated,     \* ghost: for whom the store was activated last, unless
                 \*   somebody else has signed in since
  excused,       \* ghost: marks, loads, saves or runs have overlapped
  signIns, lists, marks   \* bounded

Users == INSTANCE Identity

identity == <<user, asked, signIns>>
database == <<stored, news>>
store == <<state, loaded, activated>>
tasks == <<loads, saves, kept>>
panel == <<view, gate, run>>
counters == <<lists, marks>>
vars == <<identity, database, connecting, store, tasks, panel, excused,
          counters>>

Slots == 1 .. MaxRuns

\* seen: what the query of the run has found, once it has read.
Idle == [of |-> Nobody, with |-> {}, seen |-> {}, at |-> "idle"]
Begin(p, s) == [of |-> p, with |-> s, seen |-> {}, at |-> "query"]
Run == [of : Person \cup {Nobody}, with : SUBSET Mention,
        seen : SUBSET Mention, at : {"idle", "query", "land"}]

\* clear(): the gate is replaced, the tasks in flight go on.
Cleared == [of |-> Nobody, mentions |-> {}, unread |-> {}, state |-> {},
            loaded |-> FALSE]
View == [of : Person \cup {Nobody}, mentions : SUBSET Mention,
         unread : SUBSET Mention, state : SUBSET Mention, loaded : BOOLEAN]

Live == {i \in Slots : run[i] # Idle}
Free == Slots \ Live

\* Inbox::load_state, before and after the query.
Load(p) == [of |-> p, at |-> "query", found |-> {}, n |-> lists]

Init ==
  /\ Users!Init /\ signIns = 0
  /\ stored = {} /\ news = FALSE
  /\ kept \in [Person -> {{}, Mention}]
  /\ connecting = 0
  /\ state = {} /\ loaded = FALSE /\ activated = Nobody
  /\ loads = {} /\ saves = {}
  /\ view = Cleared /\ gate = IdleGate /\ run = [i \in Slots |-> Idle]
  /\ excused = FALSE
  /\ lists = 0 /\ marks = 0

-----------------------------------------------------------------------------
(* The view *)

\* run_refresh: without a user the gate is given back at once.
RunRefresh(g, with) ==
  IF user = Nobody
    THEN gate' = Aborted(Begun(g)) /\ UNCHANGED run
    ELSE /\ Free # {}
         /\ gate' = Begun(g)
         /\ LET i == CHOOSE i \in Free : \A k \in Free : i <= k
            IN  run' = [run EXCEPT ![i] = Begin(user, with)]

\* refresh
Refresh ==
  IF ~view.loaded THEN UNCHANGED <<gate, run>>
  ELSE IF Folds(gate) THEN gate' = Requested(gate) /\ UNCHANGED run
  ELSE RunRefresh(gate, view.state)

\* refresh_initial
RefreshInitial(with) ==
  IF gate.running THEN gate' = Requested(gate) /\ UNCHANGED run
                  ELSE RunRefresh(gate, with)

\* Mutant: the copy of the state is replaced, the threads keep their flags.
StateReplaced(v, s) == [v EXCEPT !.state = s]

\* regroup: the threads stay, what is unread follows the state.
Regrouped(v, s) == [v EXCEPT !.state = s, !.unread = v.mentions \ s]

\* sync_state, as the observer of the store.
SyncState(isLoaded, s) ==
  IF ~isLoaded
    THEN view' = Cleared /\ gate' = IdleGate /\ UNCHANGED run
  ELSE IF ~view.loaded
    THEN /\ view' = [view EXCEPT !.loaded = TRUE, !.state = s]
         /\ RefreshInitial(s)
  ELSE view' = (IF view.state = s THEN view ELSE Regrouped(view, s))
       /\ UNCHANGED <<gate, run>>

\* The queries of a run, between the update that starts and the one that ends it.
Query(i) ==
  /\ run[i].at = "query"
  /\ run' = [run EXCEPT ![i].at = "land", ![i].seen = stored]
  /\ UNCHANGED <<identity, database, connecting, store, tasks, view, gate,
                 excused, counters>>

Ended(i) == [run EXCEPT ![i] = Idle]

\* The run abandons itself when it fails or when the user has changed, and
\* the request folded into it stays in the gate.
Abandon(i) ==
  /\ run[i].at = "land"
  /\ gate' = Aborted(gate)
  /\ run' = Ended(i)
  /\ excused' = (excused \/ user = run[i].of \/ gate.running)
  /\ UNCHANGED <<identity, database, connecting, store, tasks, view, counters>>

\* Mutant: the user is compared only where the run is started.
LandForAnyone(i) ==
  /\ run[i].at = "land"
  /\ view' = [view EXCEPT !.of = run[i].of, !.mentions = run[i].seen,
                          !.unread = run[i].seen \ run[i].with]
  /\ excused' = (excused \/ run[i].with # view.state)
  /\ gate' = Finished(gate) /\ run' = Ended(i)
  /\ UNCHANGED <<identity, database, connecting, store, tasks, counters>>

\* The threads are those of the query, their flags those of the state the run
\* was started with.  The follow-up is a refresh, so it starts only when the
\* state is loaded.
Land(i) ==
  /\ run[i].at = "land" /\ user = run[i].of
  /\ view' = [view EXCEPT !.of = user, !.mentions = run[i].seen,
                          !.unread = run[i].seen \ run[i].with]
  /\ excused' = (excused \/ run[i].with # view.state)
  /\ IF NeedsFollowUp(gate) /\ view.loaded
       THEN /\ gate' = Begun(Finished(gate))
            /\ run' = [run EXCEPT ![i] = Begin(user, view.state)]
       ELSE gate' = Finished(gate) /\ run' = Ended(i)
  /\ UNCHANGED <<identity, database, connecting, store, tasks, counters>>

-----------------------------------------------------------------------------
(* The identity, the relays and the pump *)

AskSignIn(p) ==
  /\ signIns < MaxSignIns /\ signIns' = signIns + 1
  /\ Users!Ask(p)
  /\ UNCHANGED <<database, connecting, store, tasks, panel, excused, counters>>

\* SignerChanged: neither the store nor the view listens to it.
SignIn(p) ==
  /\ Users!Grant(p)
  /\ activated' = IF p = user THEN activated ELSE Nobody
  /\ UNCHANGED <<signIns, database, connecting, state, loaded, tasks, panel,
                 excused, counters>>

\* activate and reset end in a notification; the view clears itself.
Unload ==
  /\ state' = {} /\ loaded' = FALSE
  /\ SyncState(FALSE, {})
  /\ excused' = (excused \/ Live # {} \/ saves # {})

SignOut ==
  /\ user # Nobody
  /\ Users!SignOut
  /\ Unload /\ activated' = Nobody
  /\ UNCHANGED <<signIns, database, connecting, tasks, counters>>

MentionArrives(m) ==
  /\ m \notin stored
  /\ stored' = stored \cup {m} /\ news' = TRUE
  /\ UNCHANGED <<identity, kept, connecting, store, loads, saves, panel,
                 excused, counters>>

\* RepoUpdates, or Synced.
Announce ==
  /\ news /\ news' = FALSE
  /\ Refresh
  /\ UNCHANGED <<identity, stored, connecting, store, tasks, view, excused,
                 counters>>

\* The pump sees the grasp list of the user of that moment.
ListArrives ==
  /\ user # Nobody /\ lists < MaxLists
  /\ lists' = lists + 1
  /\ connecting' = connecting + 1
  /\ UNCHANGED <<identity, database, store, tasks, panel, excused, marks>>

\* connect_grasp_relays cannot read the list.
ConnectFails ==
  /\ connecting > 0
  /\ connecting' = connecting - 1
  /\ UNCHANGED <<identity, database, store, tasks, panel, excused, counters>>

\* sync_inbox, for the user of this moment.
Connected ==
  /\ connecting > 0
  /\ connecting' = connecting - 1
  /\ Unload
  /\ activated' = user
  /\ loads' = IF user = Nobody THEN loads ELSE loads \cup {Load(user)}
  /\ UNCHANGED <<identity, database, saves, kept, counters>>

-----------------------------------------------------------------------------
(* The store *)

LoadReads(l) ==
  /\ l.at = "query"
  /\ loads' = (loads \ {l}) \cup {[l EXCEPT !.at = "land", !.found = kept[l.of]]}
  /\ UNCHANGED <<identity, database, connecting, store, saves, kept, panel,
                 excused, counters>>

\* Mutant: a load that fails ends without a word.
LoadLost(l, fails) ==
  /\ l.at = "land"
  /\ loads' = loads \ {l}
  /\ IF user # l.of \/ fails THEN UNCHANGED <<store, panel, excused>>
     ELSE /\ state' = l.found
          /\ loaded' = TRUE
          /\ SyncState(TRUE, state')
          /\ excused' = (excused \/ saves # {} \/ state' # kept[user])
          /\ UNCHANGED activated
  /\ UNCHANGED <<identity, database, connecting, saves, kept, counters>>

\* activate, when the load resumes; a failure leaves the state as it is.
LoadLands(l, fails) ==
  /\ l.at = "land"
  /\ loads' = loads \ {l}
  /\ IF user # l.of THEN UNCHANGED <<store, panel, excused>>
     ELSE /\ state' = IF fails THEN state ELSE l.found
          /\ loaded' = TRUE
          /\ SyncState(TRUE, state')
          /\ excused' = (excused \/ fails \/ saves # {} \/ state' # kept[user])
          /\ UNCHANGED activated
  /\ UNCHANGED <<identity, database, connecting, saves, kept, counters>>

\* mark_all_read of the view and of the store, and persist.  What is read is
\* what is shown; nothing asks whether the state has been loaded.
MarkAllRead ==
  /\ user # Nobody /\ marks < MaxMarks
  /\ marks' = marks + 1
  /\ state' = view.mentions
  /\ saves' = saves \cup {[of |-> user, state |-> state', n |-> marks]}
  /\ SyncState(loaded, state')
  /\ excused' = (excused \/ ~loaded \/ loads # {} \/ saves # {} \/ Live # {}
                 \/ user # activated)
  /\ UNCHANGED <<identity, database, connecting, loaded, activated, loads, kept,
                 lists>>

\* The stamp of a save is taken when it runs, so the last one to run counts.
SaveRuns(s, fails) ==
  /\ saves' = saves \ {s}
  /\ kept' = IF fails THEN kept ELSE [kept EXCEPT ![s.of] = s.state]
  /\ excused' = (excused \/ fails)
  /\ UNCHANGED <<identity, database, connecting, store, loads, panel, counters>>

RunSteps == \E i \in Slots : Query(i) \/ Abandon(i) \/ Land(i)
LoadSteps ==
  \E l \in loads : LoadReads(l) \/ \E fails \in BOOLEAN : LoadLands(l, fails)

Next ==
  \/ \E p \in Person : AskSignIn(p) \/ SignIn(p)
  \/ SignOut
  \/ \E m \in Mention : MentionArrives(m)
  \/ Announce \/ ListArrives \/ ConnectFails \/ Connected
  \/ LoadSteps
  \/ MarkAllRead
  \/ \E s \in saves, fails \in BOOLEAN : SaveRuns(s, fails)
  \/ RunSteps

\* Background tasks and connections come to an end; people and relays need not act.
Fairness ==
  /\ WF_vars(LoadSteps) /\ WF_vars(RunSteps)
  /\ WF_vars(ConnectFails \/ Connected) /\ WF_vars(Announce)

Spec == Init /\ [][Next]_vars /\ Fairness

-----------------------------------------------------------------------------
(* Properties *)

TypeOK ==
  /\ user \in Person \cup {Nobody} /\ asked \in [Person -> 0 .. MaxSignIns]
  /\ stored \subseteq Mention /\ news \in BOOLEAN
  /\ kept \in [Person -> SUBSET Mention]
  /\ state \subseteq Mention /\ loaded \in BOOLEAN
  /\ view \in View /\ gate \in Gate /\ run \in [Slots -> Run]
  /\ activated \in Person \cup {Nobody}

Settled == Live = {} /\ loads = {} /\ saves = {} /\ connecting = 0 /\ ~news

\* Once the inbox follows the user who is signed in, no thread of anybody
\* else is shown, whatever runs and loads of earlier users are still in flight.
ShownIsMine == activated = user => view.of \in {user, Nobody}

\* When everything in flight has landed, the list holds every mention, and
\* unread are those that the state kept on disk does not hold: what the next
\* start of the program will show.  Excused are histories in which a failure
\* or an overlap of marks, loads, saves and runs lost an update.
InboxConverges ==
  (Settled /\ view.loaded /\ user = activated /\ ~excused) =>
    /\ view.mentions = stored
    /\ view.unread = stored \ kept[user]

\* Whoever the inbox is activated for sees it loaded, or has left.
EventuallyLoaded ==
  \A p \in Person :
    (activated = p) ~> (user # p \/ activated # p \/ (loaded /\ view.loaded))

\* views/inbox.rs: `state` is a "Copy of the global read state the current
\* lists were derived with."
DerivedWithState ==
  (Live = {} /\ view.loaded) => view.unread = view.mentions \ view.state
=============================================================================
