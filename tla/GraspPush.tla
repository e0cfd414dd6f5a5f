------------------------------ MODULE GraspPush ------------------------------
(***************************************************************************)
(* Publishing a repository to its grasp servers: Backend::push_repo_from   *)
(* (signed_state/src/backend.rs), SyncState::reconcile and push_to_grasps  *)
(* (signed_state/src/state.rs) and the git calls they make.                *)
(*                                                                         *)
(* A push reads the local refs, fetches what the servers have and the      *)
(* local repository lacks, signs a state event that declares the whole ref *)
(* map, and then, server by server, stages the event on the relay and      *)
(* force-pushes the objects.  Once one server took the push, the event is  *)
(* broadcast to every relay.                                               *)
(*                                                                         *)
(* The servers are external: a server that is sent a change accepts it     *)
(* when the ref map it would leave equals the one the staged event         *)
(* declares, and git does not contact a server that has nothing to change. *)
(* Meanwhile others push to the servers and the user, or a mirror refresh, *)
(* moves the local refs.  A commit is an opaque value; what matters is     *)
(* which repository has its object and which refs point at it.             *)
(***************************************************************************)
EXTENDS Naturals, FiniteSets, FiniteSetsExt

CONSTANTS
  N,          \* the grasp servers are 1 .. N, in the announcement's order
  Name,       \* ref names (branches and tags)
  Commit,     \* commits
  NoRef,      \* the ref does not exist
  Unlisted,   \* a server whose refs could not be listed, or not yet
  MaxRaces    \* bound: ref changes by others during a push

ASSUME GraspPushAssumption ==
  /\ N \in Nat
  /\ NoRef \notin Commit
  /\ MaxRaces \in Nat

Server == 1 .. N
RefMap == [Name -> Commit \cup {NoRef}]
Policy == {"Reconcile", "ResetRemote"}
Stages == {"read", "list", "fetch", "sign", "stage", "prune", "push",
           "broadcast", "done", "failed"}

VARIABLES
  localRefs,   \* branches and tags of the local repository
  objects,     \* commits whose objects the local repository has
  backups,     \* refs/nostr/backup/<label>: the commit under each label
  serverRefs,  \* branches and tags of each server
  stage,       \* where the push task is
  at,          \* the server the task is at
  policy,      \* SyncState.policy
  declared,    \* SyncState.refs, and once signed the ref map of the state event
  known,       \* the refs as the push first read them
  listed,      \* what ls_remote returned for each server
  missing,     \* reconcile: per name to fetch, the servers that list it
  diverged,    \* reconcile: per name to back up, the label and the servers
  reread,      \* reconcile: some name was missing
  lost,        \* reconcile: some missing name could not be fetched
  deletions,   \* names the push to the current server deletes
  outcome,     \* PushOutcome.servers
  broadcast,   \* the state event was sent to every relay
  held,        \* history: servers that had every declared ref when they said ok
  backupLost,  \* history: some tip could not be backed up
  raced        \* history: by whom refs were changed during the push

repoVars == <<localRefs, objects, backups>>
listVars == <<known, listed, missing, diverged, reread, lost>>
pushVars == <<deletions, outcome, broadcast, held>>
envVars == <<serverRefs, raced>>
vars == <<localRefs, objects, backups, serverRefs, stage, at, policy, declared,
          known, listed, missing, diverged, reread, lost, deletions, outcome,
          broadcast, held, backupLost, raced>>

NoRefs == [n \in Name |-> NoRef]
Names(refs) == {n \in Name : refs[n] # NoRef}
Tips(refs) == {refs[n] : n \in Names(refs)}

NoSources == [n \in Name |-> {}]
NoBackup == [label |-> NoRef, sources |-> {}]
NoneDiverged == [n \in Name |-> NoBackup]

TypeOK ==
  /\ localRefs \in RefMap
  /\ objects \in SUBSET Commit
  /\ Tips(localRefs) \subseteq objects
  /\ backups \in [Commit -> objects \cup {NoRef}]
  /\ serverRefs \in [Server -> RefMap]
  /\ stage \in Stages
  /\ at \in 1 .. N + 1
  /\ policy \in Policy
  /\ declared \in RefMap
  /\ known \in RefMap
  /\ listed \in [Server -> RefMap \cup {Unlisted}]
  /\ missing \in [Name -> SUBSET Server]
  /\ diverged \in [Name -> [label : Commit \cup {NoRef}, sources : SUBSET Server]]
  /\ reread \in BOOLEAN
  /\ lost \in BOOLEAN
  /\ deletions \in SUBSET Name
  /\ outcome \in [Server -> {"none", "ok", "refused", "failed"}]
  /\ broadcast \in BOOLEAN
  /\ held \in SUBSET Server
  /\ backupLost \in BOOLEAN
  /\ raced \in [local : 0 .. MaxRaces, server : 0 .. MaxRaces]

\* Any local repository and any servers; the local repository has the objects
\* its refs point at and may have others.
Init ==
  /\ localRefs \in RefMap
  /\ objects \in SUBSET Commit
  /\ Tips(localRefs) \subseteq objects
  /\ backups = [c \in Commit |-> NoRef]
  /\ serverRefs \in [Server -> RefMap]
  /\ stage = "read"
  /\ at = 1
  /\ policy \in Policy
  /\ declared = NoRefs
  /\ known = NoRefs
  /\ listed = [s \in Server |-> Unlisted]
  /\ missing = NoSources
  /\ diverged = NoneDiverged
  /\ reread = FALSE
  /\ lost = FALSE
  /\ deletions = {}
  /\ outcome = [s \in Server |-> "none"]
  /\ broadcast = FALSE
  /\ held = {}
  /\ backupLost = FALSE
  /\ raced = [local |-> 0, server |-> 0]

-----------------------------------------------------------------------------
(* Everybody else, while the push is under way *)

MayRace == stage \notin {"read", "done", "failed"} /\ raced.local + raced.server < MaxRaces

\* Another device or maintainer moves, creates or deletes a ref on a server.
OtherPush(s, n, c) ==
  /\ MayRace
  /\ serverRefs[s][n] # c
  /\ serverRefs' = [serverRefs EXCEPT ![s][n] = c]
  /\ raced' = [raced EXCEPT !.server = @ + 1]
  /\ UNCHANGED <<repoVars, listVars, pushVars, stage, at, policy, declared, backupLost>>

\* The user commits or resets in the checkout, or the mirror is refreshed.
LocalChange(n, c) ==
  /\ MayRace
  /\ localRefs[n] # c
  /\ localRefs' = [localRefs EXCEPT ![n] = c]
  /\ objects' = objects \cup ({c} \ {NoRef})
  /\ raced' = [raced EXCEPT !.local = @ + 1]
  /\ UNCHANGED <<backups, serverRefs, listVars, pushVars, stage, at, policy,
                 declared, backupLost>>

-----------------------------------------------------------------------------
(* Reading and reconciling *)

\* A declared ref map that is empty is not pushed.
SignIfAny(refs) == IF refs = NoRefs THEN "done" ELSE "sign"

\* SyncState::from_repo.  A reset, or an empty repository, skips reconcile.
ReadRefs ==
  /\ stage = "read"
  /\ declared' = localRefs
  /\ known' = localRefs
  /\ stage' = IF policy = "ResetRemote" \/ localRefs = NoRefs
                THEN SignIfAny(localRefs) ELSE "list"
  /\ UNCHANGED <<repoVars, envVars, listed, missing, diverged, reread, lost, pushVars,
                 at, policy, backupLost>>

\* reconcile lists one server after the other and skips one that fails.
List(answers) ==
  /\ stage = "list"
  /\ at <= N
  /\ listed' = [listed EXCEPT ![at] = IF answers THEN serverRefs[at] ELSE Unlisted]
  /\ at' = at + 1
  /\ UNCHANGED <<repoVars, envVars, known, missing, diverged, reread, lost,
                 pushVars, stage, policy, declared, backupLost>>

\* Mutant: reconcile stops at the first server.
ListingFirst(n) == {s \in Server : s = 1 /\ listed[s] # Unlisted /\ listed[s][n] # NoRef}

\* The servers that listed n.
Listing(n) == {s \in Server : listed[s] # Unlisted /\ listed[s][n] # NoRef}

\* Mutant: the merge base test is inverted.
OnlyShared(n) ==
  {s \in Listing(n) : listed[s][n] # known[n] /\ listed[s][n] \in objects}

\* The ones whose tip differs from the local one and exists on servers only:
\* merge_base fails when the local repository does not have the object.
OnlyOnServers(n) ==
  {s \in Listing(n) : listed[s][n] # known[n] /\ listed[s][n] \notin objects}

\* Mutant: a name whose tips differ is fetched over the local one.
LacksOrDiffers(n) == known[n] = NoRef \/ OnlyOnServers(n) # {}

Lacks(n) == known[n] = NoRef

\* A name the local repository lacks is fetched, a tip that exists only on the
\* servers is backed up.  One backup per name: the first tip is its label.
Plan ==
  /\ stage = "list"
  /\ at = N + 1
  /\ missing' = [n \in Name |-> IF Lacks(n) THEN Listing(n) ELSE {}]
  /\ diverged' = [n \in Name |->
       IF Lacks(n) \/ OnlyOnServers(n) = {} THEN NoBackup
       ELSE [label |-> listed[Min(OnlyOnServers(n))][n], sources |-> OnlyOnServers(n)]]
  /\ reread' = (missing' # NoSources)
  /\ stage' = "fetch"
  /\ UNCHANGED <<repoVars, envVars, known, listed, lost, pushVars, at, policy, declared,
                 backupLost>>

\* fetch_refs takes the ref from the first source that works (0: none does),
\* as it is on that server now, if it is still there.
Sources(servers) == servers \cup {0}
Fetched(n, s) == IF s = 0 THEN NoRef ELSE serverRefs[s][n]

\* Mutant: the ref is written although its commit did not arrive.
NoObject(c) == {}

\* The objects that arrive with a ref.
Received(c) == {c} \ {NoRef}

\* "+name:name": the ref is created, or overwritten if it has appeared since.
FetchMissing(n, s) ==
  /\ stage = "fetch"
  /\ missing[n] # {}
  /\ s \in Sources(missing[n])
  /\ LET c == Fetched(n, s) IN
     /\ localRefs' = [localRefs EXCEPT ![n] = IF c = NoRef THEN @ ELSE c]
     /\ objects' = objects \cup Received(c)
  /\ missing' = [missing EXCEPT ![n] = {}]
  /\ lost' = (lost \/ s = 0)
  /\ UNCHANGED <<backups, envVars, listed, diverged, reread, known, pushVars,
                 stage, at, policy, declared, backupLost>>

\* "+name:refs/nostr/backup/<label>"; a failure is only logged.
BackUp(n, s) ==
  /\ stage = "fetch"
  /\ missing = NoSources
  /\ diverged[n].sources # {}
  /\ s \in Sources(diverged[n].sources)
  /\ LET c == Fetched(n, s) IN
     /\ backups' = [backups EXCEPT ![diverged[n].label] = IF c = NoRef THEN @ ELSE c]
     /\ objects' = objects \cup Received(c)
     /\ backupLost' = (backupLost \/ c = NoRef)
  /\ diverged' = [diverged EXCEPT ![n] = NoBackup]
  /\ UNCHANGED <<localRefs, envVars, listed, missing, reread, lost, known,
                 pushVars, stage, at, policy, declared>>

\* The refs are read again if any was missing; one that could not be fetched
\* ends the push.
Reconciled ==
  /\ stage = "fetch"
  /\ missing = NoSources
  /\ diverged = NoneDiverged
  /\ declared' = IF reread /\ ~lost THEN localRefs ELSE declared
  /\ stage' = IF lost THEN "failed" ELSE SignIfAny(declared')
  /\ UNCHANGED <<repoVars, envVars, listVars, pushVars, at, policy, backupLost>>

-----------------------------------------------------------------------------
(* Signing, staging and pushing *)

\* The state event declares the ref map; the server loop starts.
Sign ==
  /\ stage = "sign"
  /\ stage' = "stage"
  /\ at' = 1
  /\ UNCHANGED <<repoVars, envVars, listVars, pushVars, policy, declared, backupLost>>

\* Reading the repository or signing fails.
GiveUp ==
  /\ stage \in {"read", "sign"}
  /\ stage' = "failed"
  /\ UNCHANGED <<repoVars, envVars, listVars, pushVars, at, policy, declared, backupLost>>

\* Done with a server: its result is recorded and the loop goes on.
Record(result) ==
  /\ outcome' = [outcome EXCEPT ![at] = result]
  /\ at' = at + 1
  /\ stage' = "stage"
  /\ deletions' = {}

\* The relay of the server accepts the event; a reset lists the server again.
StageEvent ==
  /\ stage = "stage"
  /\ at <= N
  /\ stage' = IF policy = "ResetRemote" THEN "prune" ELSE "push"
  /\ UNCHANGED <<repoVars, envVars, listVars, pushVars, at, policy, declared, backupLost>>

\* The relay rejects the event, or cannot be sent to.
StageRejected ==
  /\ stage = "stage"
  /\ at <= N
  /\ Record("failed")
  /\ UNCHANGED <<repoVars, envVars, listVars, broadcast, held, policy, declared, backupLost>>

\* add_relay(relay).and_connect() fails: the error leaves push_to_grasps.
ConnectFails ==
  /\ stage = "stage"
  /\ at <= N
  /\ stage' = "failed"
  /\ UNCHANGED <<repoVars, envVars, listVars, pushVars, at, policy, declared, backupLost>>

\* Mutant: a reset forgets to delete.
NothingUndeclared(refs) == {}

Undeclared(refs) == Names(refs) \ Names(declared)

\* deletion_refspecs: what the server has and the event does not declare.
Prune ==
  /\ stage = "prune"
  /\ deletions' = Undeclared(serverRefs[at])
  /\ stage' = "push"
  /\ UNCHANGED <<repoVars, envVars, listVars, outcome, broadcast, held, at, policy,
                 declared, backupLost>>

\* ls_remote or git push fails on this side, or on the way to the server.
PushFails ==
  /\ stage \in {"prune", "push"}
  /\ Record("failed")
  /\ UNCHANGED <<repoVars, envVars, listVars, broadcast, held, policy, declared, backupLost>>

\* The server's ref map after "+refs/heads/*" and "+refs/tags/*" from the
\* local repository as it is now, and the deletions.
Pushed ==
  [n \in Name |-> IF localRefs[n] # NoRef THEN localRefs[n]
                  ELSE IF n \in deletions THEN NoRef ELSE serverRefs[at][n]]

\* git refuses to push and delete a name, or to delete one that is gone.
Contradicts ==
  \E n \in deletions : localRefs[n] # NoRef \/ serverRefs[at][n] = NoRef

\* The server takes a push that leaves the declared map; with nothing to send
\* git succeeds without asking it.
Accepts == Pushed \in {declared, serverRefs[at]}

HasDeclared(refs) == \A n \in Names(declared) : refs[n] = declared[n]

\* git push answers; the server may take the push and the answer be lost.
PushObjects(answered) ==
  /\ stage = "push"
  /\ ~Contradicts
  /\ serverRefs' = IF Accepts THEN [serverRefs EXCEPT ![at] = Pushed] ELSE serverRefs
  /\ Record(IF ~answered THEN "failed" ELSE IF Accepts THEN "ok" ELSE "refused")
  /\ held' = IF outcome'[at] = "ok" /\ HasDeclared(serverRefs'[at])
               THEN held \cup {at} ELSE held
  /\ UNCHANGED <<repoVars, raced, listVars, broadcast, policy, declared, backupLost>>

\* Mutant: a server counts once its relay has the event.
Tried == {s \in Server : outcome[s] # "none"}

Took == {s \in Server : outcome[s] = "ok"}

\* After the last server the event goes to every relay, if one took the push;
\* a broadcast that fails is only logged.  No server at all is an error.
Finish ==
  /\ stage = "stage"
  /\ at = N + 1
  /\ broadcast' = (Took # {})
  /\ stage' = IF Took # {} THEN "done" ELSE "failed"
  /\ UNCHANGED <<repoVars, envVars, listVars, deletions, outcome, held, at, policy,
                 declared, backupLost>>

Task ==
  \/ ReadRefs
  \/ \E answers \in BOOLEAN : List(answers)
  \/ Plan
  \/ \E n \in Name, s \in Sources(Server) : FetchMissing(n, s)
  \/ \E n \in Name, s \in Sources(Server) : BackUp(n, s)
  \/ Reconciled
  \/ Sign
  \/ GiveUp
  \/ StageEvent
  \/ StageRejected
  \/ ConnectFails
  \/ Prune
  \/ PushFails
  \/ \E answered \in BOOLEAN : PushObjects(answered)
  \/ Finish

Next ==
  \/ Task
  \/ \E s \in Server, n \in Name, c \in Commit \cup {NoRef} : OtherPush(s, n, c)
  \/ \E n \in Name, c \in Commit \cup {NoRef} : LocalChange(n, c)

\* The executor polls the task until it ends.
Spec == Init /\ [][Next]_vars /\ WF_vars(Task)

-----------------------------------------------------------------------------
(* Properties *)

Quiet == raced = [local |-> 0, server |-> 0]

\* A server refuses a push for its ref map only if somebody moved a ref in the
\* meantime or reconcile could not list that server: the declared map covers
\* what the servers hold ("state event in purgatory ... doesn't match push").
NoSpuriousRefusal ==
  \A s \in Server : outcome[s] = "refused" =>
    ~Quiet \/ (policy = "Reconcile" /\ listed[s] = Unlisted)

\* The state event goes to every relay only when some server holds all it
\* declares, unless the local refs moved between signing and pushing.
BroadcastHeld == broadcast /\ raced.local = 0 => held # {}

\* A push that every server took, with nobody else moving refs, leaves each
\* server with exactly the declared refs and the local repository with them
\* too, except that a server reconcile could not list may have extra refs.
EndsInSync ==
  (stage = "done" /\ Took = Server /\ Quiet) =>
    /\ localRefs = declared
    /\ \A s \in Server :
         /\ HasDeclared(serverRefs[s])
         /\ serverRefs[s] = declared \/ (policy = "Reconcile" /\ listed[s] = Unlisted)

\* A push is refused for a reason, and ends in sync when every server took it.
PushSettles == NoSpuriousRefusal /\ EndsInSync

\* No server loses the only copy of a commit to the force push: what a server
\* listed and the push overwrote is in the local repository, provided the
\* servers did not list different such tips for the name, the backup succeeded
\* and nobody else pushed.
OverwrittenTipsKept ==
  \A s \in Server, n \in Name :
    ( /\ policy = "Reconcile"
      /\ outcome[s] = "ok"
      /\ listed[s] # Unlisted
      /\ listed[s][n] # NoRef
      /\ \A t \in Listing(n) : listed[t][n] \in {listed[s][n], known[n]}
      /\ ~backupLost
      /\ raced.server = 0 )
    => listed[s][n] \in objects

\* The push never moves or drops a ref the local repository already has,
\* unless the ref appeared after the push had read the repository.
LocalRefsKept ==
  [][(raced' = raced /\ raced.local = 0) =>
       \A n \in Names(localRefs) : localRefs'[n] = localRefs[n]]_vars

\* state.rs: "Fan the state out to the relays once a git server holds the
\* objects."
BroadcastFollows == (Took # {}) ~> broadcast

\* state.rs: "Diverged server tips that exist only on the servers" are backed
\* up before the force push overwrites them, whichever server has them.
EveryTipKept ==
  \A s \in Server, n \in Name :
    ( /\ policy = "Reconcile"
      /\ outcome[s] = "ok"
      /\ listed[s] # Unlisted
      /\ known[n] # NoRef
      /\ listed[s][n] # NoRef
      /\ ~backupLost
      /\ Quiet )
    => listed[s][n] \in objects
=============================================================================
