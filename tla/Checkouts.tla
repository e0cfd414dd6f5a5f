------------------------------ MODULE Checkouts ------------------------------
(***************************************************************************)
(* CheckoutsStore (signed_state/src/checkouts.rs): which folders are       *)
(* checkouts of which announced repository, and which of them have work    *)
(* to propose ("ready") or to push ("unpushed").                           *)
(*                                                                         *)
(* A full refresh is debounced, coalesced by a RefreshGate, fetches from   *)
(* the origin and recomputes everything.  Between full refreshes a local   *)
(* pass recomputes the statuses every two seconds without the network, for *)
(* as long as a view has asked for statuses.  Local passes are not gated:  *)
(* a slow one may still be in flight when the next one starts, or across a *)
(* full refresh.                                                           *)
(*                                                                         *)
(* A checkout is three commit counts: its branch, the branch on the        *)
(* server, and what the checkout last fetched of it.  A status is the      *)
(* number of commits the banner offers; 0 is no banner.                    *)
(***************************************************************************)
EXTENDS Naturals, FiniteSets, RefreshGate

CONSTANTS
  Repo,        \* repository addresses, each with one checkout
  MaxCommits,  \* bound: commits made in a checkout
  MaxLocals    \* bound: local passes in flight together

ASSUME CheckoutsAssumption == MaxCommits \in Nat /\ MaxLocals \in Nat \ {0}

VARIABLES
  local,         \* commits on the checkout's branch
  remote,        \* commits on the server's branch
  tracked,       \* commits of refs/remotes/origin in the checkout
  announcing,    \* pushes that are done but not yet reported to the store
  recorded,      \* known facts that associate a checkout with its repository
  assoc,         \* CheckoutsStore.by_repo
  ready,         \* CheckoutsStore.statuses
  unpushed,      \* CheckoutsStore.push_statuses
  readyReq,      \* CheckoutsStore.status_requested
  pushReq,       \* CheckoutsStore.push_requested
  gate,          \* CheckoutsStore.refresh
  debounce,      \* CheckoutsStore.debounce_pending
  localPending,  \* CheckoutsStore.local_pending
  runs,          \* full refreshes in flight
  locals,        \* local passes in flight
  fetchFailed    \* history: the latest full refresh could not fetch

gitVars == <<local, remote, tracked, announcing>>
resultVars == <<assoc, ready, unpushed>>
requestVars == <<readyReq, pushReq>>
vars == <<local, remote, tracked, announcing, recorded, assoc, ready, unpushed,
          readyReq, pushReq, gate, debounce, localPending, runs, locals,
          fetchFailed>>

Count == 0 .. MaxCommits
NoBanner == [r \in Repo |-> 0]

\* A task captures the associations and the requests when it starts.
Task == [known : SUBSET Repo, ready : SUBSET Repo, push : SUBSET Repo,
         stage : {"begun", "fetched", "computed"},
         readyFound : [Repo -> Count], pushFound : [Repo -> Count]]

TypeOK ==
  /\ local \in [Repo -> Count]
  /\ remote \in [Repo -> Count]
  /\ tracked \in [Repo -> Count]
  /\ announcing \in SUBSET Repo
  /\ recorded \in SUBSET Repo
  /\ assoc \in SUBSET Repo
  /\ ready \in [Repo -> Count]
  /\ unpushed \in [Repo -> Count]
  /\ readyReq \in SUBSET Repo
  /\ pushReq \in SUBSET Repo
  /\ gate \in Gate
  /\ debounce \in BOOLEAN
  /\ localPending \in BOOLEAN
  /\ runs \in SUBSET Task
  /\ locals \in SUBSET Task
  /\ fetchFailed \in BOOLEAN

\* The store as new() leaves it, its deferred first refresh made.
Init ==
  /\ local = NoBanner
  /\ remote = NoBanner
  /\ tracked = NoBanner
  /\ announcing = {}
  /\ recorded \in SUBSET Repo
  /\ assoc = {}
  /\ ready = NoBanner
  /\ unpushed = NoBanner
  /\ readyReq = {}
  /\ pushReq = {}
  /\ gate = IdleGate
  /\ debounce = TRUE
  /\ localPending = FALSE
  /\ runs = {}
  /\ locals = {}
  /\ fetchFailed = FALSE

NewTask(known) ==
  [known |-> known, ready |-> readyReq, push |-> pushReq, stage |-> "begun",
   readyFound |-> NoBanner, pushFound |-> NoBanner]

Polls(x) == x.ready # {} \/ x.push # {}
Requests == readyReq \cup pushReq

\* Mutant: a run in flight is not noticed.
RefreshUngated ==
  /\ gate' = gate
  /\ debounce' = TRUE

\* refresh(): covered by the pending debounce, folded into the run in flight,
\* or the start of a debounce.
Refresh ==
  /\ gate' = IF debounce THEN gate ELSE Requested(gate)
  /\ debounce' = (debounce \/ ~Folds(gate))

-----------------------------------------------------------------------------
(* The rest of the program *)

\* A commit in the checkout; no event tells the store.
Commit(r) ==
  /\ local[r] < MaxCommits
  /\ local' = [local EXCEPT ![r] = @ + 1]
  /\ UNCHANGED <<remote, tracked, announcing, recorded, resultVars, requestVars,
                 gate, debounce, localPending, runs, locals, fetchFailed>>

\* A push of the checkout succeeds in the background.
Push(r) ==
  /\ remote[r] # local[r]
  /\ remote' = [remote EXCEPT ![r] = local[r]]
  /\ announcing' = announcing \cup {r}
  /\ UNCHANGED <<local, tracked, recorded, resultVars, requestVars, gate,
                 debounce, localPending, runs, locals, fetchFailed>>

\* A settings record, a folder scan or an announcement associates a checkout;
\* the store observes all three.
Associate(r) ==
  /\ r \notin recorded
  /\ recorded' = recorded \cup {r}
  /\ Refresh
  /\ UNCHANGED <<gitVars, resultVars, requestVars, localPending, runs, locals,
                 fetchFailed>>

RequestStatuses(r) ==
  /\ readyReq' = readyReq \cup {r}
  /\ Refresh
  /\ UNCHANGED <<gitVars, recorded, resultVars, pushReq, localPending, runs,
                 locals, fetchFailed>>

RequestPushStatuses(r) ==
  /\ pushReq' = pushReq \cup {r}
  /\ Refresh
  /\ UNCHANGED <<gitVars, recorded, resultVars, readyReq, localPending, runs,
                 locals, fetchFailed>>

\* The push lands: the banner goes at once and a refresh is requested.
CheckoutPushed(r) ==
  /\ r \in announcing
  /\ announcing' = announcing \ {r}
  /\ unpushed' = [unpushed EXCEPT ![r] = 0]
  /\ pushReq' = pushReq \cup {r}
  /\ Refresh
  /\ UNCHANGED <<local, remote, tracked, recorded, assoc, ready, readyReq,
                 localPending, runs, locals, fetchFailed>>

\* Another identity: the requests and the statuses are dropped.
SignerChanged ==
  /\ readyReq' = {}
  /\ pushReq' = {}
  /\ ready' = NoBanner
  /\ unpushed' = NoBanner
  /\ Refresh
  /\ UNCHANGED <<gitVars, recorded, assoc, localPending, runs, locals,
                 fetchFailed>>

-----------------------------------------------------------------------------
(* A full refresh *)

RunRefresh ==
  /\ debounce
  /\ debounce' = FALSE
  /\ gate' = Begun(gate)
  /\ runs' = runs \cup {NewTask(recorded)}
  /\ UNCHANGED <<gitVars, recorded, resultVars, requestVars, localPending,
                 locals, fetchFailed>>

\* Mutant: the base commit is counted too.
ComputedInclusive(x) ==
  [x EXCEPT
     !.stage = "computed",
     !.readyFound = [r \in Repo |-> IF r \in x.known \cap x.ready THEN local[r] + 1 ELSE 0]]

\* compute_statuses: commits ahead of the base branch for the ready banner,
\* ahead of the remote-tracking branch for the unpushed one.
Computed(x) ==
  [x EXCEPT
     !.stage = "computed",
     !.readyFound = [r \in Repo |->
        IF r \in x.known \cap x.ready THEN local[r] ELSE 0],
     !.pushFound = [r \in Repo |->
        IF r \in x.known \cap x.push /\ local[r] > tracked[r]
        THEN local[r] - tracked[r] ELSE 0]]

\* The background half of a full refresh fetches before it counts; a fetch
\* that fails is only logged.
Fetch(x, fetched) ==
  /\ x.stage = "begun"
  /\ tracked' = [r \in Repo |-> IF r \in x.known \cap x.push /\ fetched
                                THEN remote[r] ELSE tracked[r]]
  /\ fetchFailed' = (~fetched /\ x.push # {})
  /\ runs' = (runs \ {x}) \cup {[x EXCEPT !.stage = "fetched"]}
  /\ UNCHANGED <<local, remote, announcing, recorded, resultVars, requestVars,
                 gate, debounce, localPending, locals>>

ComputeFull(x) ==
  /\ x.stage = "fetched"
  /\ runs' = (runs \ {x}) \cup {Computed(x)}
  /\ UNCHANGED <<gitVars, recorded, resultVars, requestVars, gate, debounce,
                 localPending, locals, fetchFailed>>

\* It lands unconditionally, honours a folded request with a new debounce and
\* keeps the local pass going if it was started for a request.
LandFull(x) ==
  /\ x.stage = "computed"
  /\ assoc' = x.known
  /\ ready' = x.readyFound
  /\ unpushed' = x.pushFound
  /\ runs' = runs \ {x}
  /\ gate' = Finished(gate)
  /\ debounce' = (debounce \/ NeedsFollowUp(gate))
  /\ localPending' = (localPending \/ Polls(x))
  /\ UNCHANGED <<gitVars, recorded, requestVars, locals, fetchFailed>>

-----------------------------------------------------------------------------
(* The local pass *)

\* local_tick when nothing is requested: polling stops.
TickStops ==
  /\ localPending
  /\ Requests = {}
  /\ localPending' = FALSE
  /\ UNCHANGED <<gitVars, recorded, resultVars, requestVars, gate, debounce,
                 runs, locals, fetchFailed>>

\* Mutant: the full refresh never falls due.
TickNeverFull ==
  /\ localPending
  /\ Requests # {}
  /\ ~gate.running /\ ~debounce
  /\ UNCHANGED vars

\* local_tick when a full refresh is due: the poll timer is armed again.  (A
\* tick during a full refresh only re-arms the timer and changes nothing.)
TickFull ==
  /\ localPending
  /\ Requests # {}
  /\ ~gate.running /\ ~debounce
  /\ Refresh
  /\ UNCHANGED <<gitVars, recorded, resultVars, requestVars, localPending, runs,
                 locals, fetchFailed>>

\* local_tick otherwise: a local pass starts and the timer is armed again.
TickLocal ==
  /\ localPending
  /\ Requests # {}
  /\ ~gate.running /\ ~debounce
  /\ Cardinality(locals) < MaxLocals
  /\ locals' = locals \cup {NewTask(assoc)}
  /\ UNCHANGED <<gitVars, recorded, resultVars, requestVars, gate, debounce,
                 localPending, runs, fetchFailed>>

ComputeLocal(x) ==
  /\ x.stage = "begun"
  /\ locals' = (locals \ {x}) \cup {Computed(x)}
  /\ UNCHANGED <<gitVars, recorded, resultVars, requestVars, gate, debounce,
                 localPending, runs, fetchFailed>>

\* A result that lands while a full refresh runs or is due is dropped.
LandLocal(x) ==
  /\ x.stage = "computed"
  /\ locals' = locals \ {x}
  /\ IF gate.running \/ debounce
       THEN UNCHANGED <<ready, unpushed>>
       ELSE ready' = x.readyFound /\ unpushed' = x.pushFound
  /\ UNCHANGED <<gitVars, recorded, assoc, requestVars, gate, debounce,
                 localPending, runs, fetchFailed>>

Next ==
  \/ \E r \in Repo : Commit(r)
  \/ \E r \in Repo : Push(r)
  \/ \E r \in Repo : Associate(r)
  \/ \E r \in Repo : RequestStatuses(r)
  \/ \E r \in Repo : RequestPushStatuses(r)
  \/ \E r \in Repo : CheckoutPushed(r)
  \/ SignerChanged
  \/ RunRefresh
  \/ \E x \in runs, fetched \in BOOLEAN : Fetch(x, fetched)
  \/ \E x \in runs : ComputeFull(x)
  \/ \E x \in runs : LandFull(x)
  \/ TickStops
  \/ TickFull
  \/ TickLocal
  \/ \E x \in locals : ComputeLocal(x)
  \/ \E x \in locals : LandLocal(x)

\* Timers fire and spawned tasks end.  A full refresh falls due on every
\* cadence of the local pass, however often the two interleave: strong
\* fairness on TickFull.
Fairness ==
  /\ WF_vars(RunRefresh)
  /\ WF_vars(\E x \in runs, fetched \in BOOLEAN : Fetch(x, fetched))
  /\ WF_vars(\E x \in runs : ComputeFull(x))
  /\ WF_vars(\E x \in runs : LandFull(x))
  /\ WF_vars(\E x \in locals : ComputeLocal(x))
  /\ WF_vars(\E x \in locals : LandLocal(x))
  /\ WF_vars(\E r \in Repo : CheckoutPushed(r))
  /\ SF_vars(TickFull)

Spec == Init /\ [][Next]_vars /\ Fairness

-----------------------------------------------------------------------------
(* Properties *)

\* At most one full refresh is debounced or in flight, although five
\* observers, two pollers and three public methods ask for it.
OneRefresh ==
  /\ \A x, y \in runs : x = y
  /\ gate.running <=> (runs # {})
  /\ ~(debounce /\ gate.running)

\* As long as some view has asked for statuses, polling cannot die: the local
\* timer is armed, a refresh is debounced, or the run in flight will arm one
\* of them when it lands, even if it started before the request.
PollingAlive ==
  Requests # {} =>
    localPending \/ debounce \/ gate.dirty \/ \E x \in runs : Polls(x)

\* A known association is never lost to an older refresh that lands late.
AssociationsKept == [][assoc \subseteq assoc']_vars

\* A recorded or scanned checkout shows up under its repository.
EventuallyAssociated == \A r \in Repo : (r \in recorded) ~> (r \in assoc)

\* The unpushed banner of a checkout whose commits are all on the server goes
\* away for whoever asked, unless the server cannot be fetched: a local pass
\* computed before the push may bring it back, but not for good.
PushedBannerClears ==
  \A r \in Repo :
    (r \in pushReq /\ unpushed[r] > 0 /\ local[r] = remote[r])
      ~> (unpushed[r] = 0 \/ local[r] # remote[r] \/ r \notin pushReq \/ fetchFailed)

\* Both banners follow the disk: a checkout shows up, a pushed one goes quiet.
CatchesUp == EventuallyAssociated /\ PushedBannerClears

\* "Another identity's repositories must not keep the old statuses alive": a
\* banner nobody has asked for under this identity goes away.
OldStatusesForgotten ==
  \A r \in Repo : (ready[r] > 0 /\ r \notin readyReq)
                    ~> (ready[r] = 0 \/ r \in readyReq)
=============================================================================
