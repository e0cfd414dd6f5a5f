-------------------------- MODULE GraspPushProofs --------------------------
(***************************************************************************)
(* Proofs about GraspPush, for any servers, ref names and commits, and any *)
(* number of ref changes by others during the push.  The inductive         *)
(* invariant says what the locals of the task are at each stage (Locals,   *)
(* PlanSound), what they still have to do with the repositories while      *)
(* nobody else changes those (LocalSound, ListedSound, NamesCovered,       *)
(* TipsCovered, DeletionsSound), and what a server that took the push has  *)
(* (TookSound).                                                            *)
(***************************************************************************)
EXTENDS GraspPush, WellFoundedInduction, TLAPS

\* The phases of the task.
Early == {"read", "list", "fetch", "sign"}   \* no server has been pushed to
Pushing == {"stage", "prune", "push"}
Settled == {"sign", "stage", "prune", "push", "done"}   \* the ref map is final

\* Server s has yet to be pushed to.
Ahead(s) == stage \in Early \/ (stage \in Pushing /\ s >= at)

\* What the locals of the task are at each point.
Locals ==
  /\ stage \in Early => \A s \in Server : outcome[s] = "none"
  /\ stage \in Pushing => \A s \in Server : s >= at => outcome[s] = "none"
  /\ stage \in {"prune", "push"} => at \in Server
  /\ stage = "prune" => policy = "ResetRemote"
  /\ stage # "fetch" => missing = NoSources /\ diverged = NoneDiverged
  /\ stage \in {"read", "list"} => ~reread /\ ~lost
  /\ missing # NoSources => reread
  /\ lost => reread
  /\ stage \in Settled => ~lost
  /\ (policy = "ResetRemote" \/ stage = "read") =>
       /\ \A s \in Server : listed[s] = Unlisted
       /\ stage \notin {"list", "fetch"}
  /\ stage # "push" \/ policy = "Reconcile" => deletions = {}
  /\ broadcast => stage = "done" /\ Took # {}

\* The plan of reconcile is about what was listed.
PlanSound ==
  \A n \in Name :
    /\ missing[n] \subseteq Listing(n)
    /\ diverged[n].sources \subseteq {s \in Listing(n) : listed[s][n] # known[n]}

\* While nobody else moves the local refs: the task adds to them what was
\* missing, and the ref map it declares is theirs.
LocalSound ==
  raced.local = 0 =>
    /\ stage = "list" => known = localRefs
    /\ \A n \in Name : missing[n] # {} => localRefs[n] = NoRef
    /\ (stage \in {"list", "fetch"} /\ ~reread) => declared = localRefs
    /\ stage \in Settled => declared = localRefs

\* While nobody else pushes: a server has what it listed until its turn comes.
ListedSound ==
  raced.server = 0 =>
    \A s \in Server : (listed[s] # Unlisted /\ Ahead(s)) => listed[s] = serverRefs[s]

\* While nobody moves anything: every listed name is declared, or is going to
\* be fetched.
NamesCovered ==
  Quiet =>
    \A s \in Server, n \in Name :
      (listed[s] # Unlisted /\ listed[s][n] # NoRef) =>
        /\ stage = "fetch" => localRefs[n] # NoRef \/ missing[n] # {} \/ lost
        /\ stage \in Settled => declared[n] # NoRef

\* The tip that s and every other server listed for n, or the local one.
Agreed(s, n) ==
  /\ listed[s] # Unlisted /\ listed[s][n] # NoRef
  /\ \A t \in Listing(n) : listed[t][n] \in {listed[s][n], known[n]}

\* While nobody else pushes: such a tip is in the local repository, or is going
\* to be fetched or backed up.
TipsCovered ==
  (raced.server = 0 /\ stage \notin {"read", "list"} /\ ~backupLost /\ ~lost) =>
    \A s \in Server, n \in Name : Agreed(s, n) =>
      \/ listed[s][n] \in objects
      \/ missing[n] # {} /\ known[n] = NoRef
      \/ diverged[n].sources # {}

\* A reset that nobody disturbs deletes what is not declared.
DeletionsSound ==
  (Quiet /\ stage = "push" /\ policy = "ResetRemote") =>
    deletions = Undeclared(serverRefs[at])

\* A server that took the push of an undisturbed task holds what is declared.
TookSound ==
  \A s \in Server : outcome[s] = "ok" =>
    /\ ~lost
    /\ raced.local = 0 => s \in held
    /\ Quiet => /\ HasDeclared(serverRefs[s])
                /\ serverRefs[s] = declared \/ (policy = "Reconcile" /\ listed[s] = Unlisted)

\* What the push read at first is in the local repository.
KnownSound == Tips(known) \subseteq objects

IInv ==
  /\ TypeOK /\ KnownSound /\ Locals /\ PlanSound /\ LocalSound /\ ListedSound
  /\ NamesCovered /\ TipsCovered /\ DeletionsSound /\ TookSound
  /\ NoSpuriousRefusal

-----------------------------------------------------------------------------
(* Smallest servers *)

\* A set of servers that is not empty has a first one.
LEMMA FirstServer ==
  ASSUME NEW S \in SUBSET Server, S # {}
  PROVE  Min(S) \in S
<1>1. Server \subseteq Nat
  BY GraspPushAssumption DEF Server
<1>2. PICK x \in S : \A y \in S : ~ (<<y, x>> \in OpToRel(<, Nat))
  BY <1>1, NatLessThanWellFounded, WFMin, Zenon
<1>3. ASSUME NEW y \in S  PROVE  ~ (y < x)
  <2>1. <<y, x>> \in Nat \X Nat
    BY <1>1
  <2>2. <<y, x>>[1] = y /\ <<y, x>>[2] = x
    OBVIOUS
  <2> QED
    BY <1>2, <2>1, <2>2, Zenon DEF OpToRel
<1>4. \A y \in S : x <= y
  BY <1>1, <1>3
<1> QED
  BY <1>4, Zenon DEF Min

-----------------------------------------------------------------------------
(* The push of an undisturbed task *)

\* With nobody else moving refs, the push leaves a server with the declared
\* refs: a reset deletes the rest, and what a listed server had is declared.
LEMMA PushedIsDeclared ==
  ASSUME IInv, stage = "push", Quiet, policy = "ResetRemote" \/ listed[at] # Unlisted
  PROVE  Pushed = declared
<1>1. at \in Server /\ localRefs \in RefMap /\ declared \in RefMap /\ serverRefs[at] \in RefMap
  BY DEF IInv, TypeOK, Locals
<1>2. declared = localRefs
  BY DEF IInv, LocalSound, Settled, Quiet
<1>3. ASSUME NEW n \in Name, localRefs[n] = NoRef, n \notin deletions
      PROVE  serverRefs[at][n] = NoRef
  <2>1. CASE policy = "ResetRemote"
    BY <1>1, <1>2, <1>3, <2>1 DEF IInv, DeletionsSound, Undeclared, Names
  <2>2. CASE listed[at] # Unlisted
    <3>1. listed[at] = serverRefs[at]
      BY <1>1, <2>2 DEF IInv, ListedSound, Ahead, Pushing, Quiet, TypeOK, Server
    <3> QED
      BY <1>1, <1>2, <1>3, <2>2, <3>1 DEF IInv, NamesCovered, Settled
  <2> QED
    BY <2>1, <2>2
<1>4. \A n \in Name : Pushed[n] = declared[n]
  BY <1>2, <1>3 DEF Pushed
<1> QED
  BY <1>1, <1>4 DEF Pushed, RefMap

-----------------------------------------------------------------------------
(* Every step keeps the invariant *)

\* A ref change by others within the bound.
LEMMA OneMoreRace ==
  ASSUME NEW r \in [local : 0 .. MaxRaces, server : 0 .. MaxRaces],
         r.local + r.server < MaxRaces
  PROVE  /\ [r EXCEPT !.local = @ + 1] \in [local : 0 .. MaxRaces, server : 0 .. MaxRaces]
         /\ [r EXCEPT !.server = @ + 1] \in [local : 0 .. MaxRaces, server : 0 .. MaxRaces]
BY GraspPushAssumption

\* The types.  A backup label is the tip of the first server that diverges.
LEMMA KeepsTypes == IInv /\ [Next]_vars => TypeOK'
<1> SUFFICES ASSUME IInv, [Next]_vars PROVE TypeOK'
  OBVIOUS
<1> USE GraspPushAssumption DEF IInv, TypeOK, Locals, RefMap, Server
<1>1. CASE ReadRefs
  BY <1>1 DEF ReadRefs, SignIfAny, NoRefs, pushVars, repoVars, envVars, Stages
<1>2. CASE \E answers \in BOOLEAN : List(answers)
  BY <1>2 DEF List, repoVars, envVars, pushVars
<1>3. CASE Plan
  <2>1. ASSUME NEW n \in Name, OnlyOnServers(n) # {}
         PROVE  listed[Min(OnlyOnServers(n))][n] \in Commit \cup {NoRef}
    <3>1. Min(OnlyOnServers(n)) \in OnlyOnServers(n)
      BY <2>1, FirstServer DEF OnlyOnServers, Listing
    <3>2. Min(OnlyOnServers(n)) \in Server /\ listed[Min(OnlyOnServers(n))] # Unlisted
      BY <3>1 DEF OnlyOnServers, Listing
    <3> QED
      BY <3>2
  <2>2. missing' \in [Name -> SUBSET Server]
    BY <1>3 DEF Plan, Listing
  <2>3. \A n \in Name : OnlyOnServers(n) \in SUBSET Server
    BY DEF OnlyOnServers, Listing
  <2>4. diverged' \in [Name -> [label : Commit \cup {NoRef}, sources : SUBSET Server]]
    BY <1>3, <2>1, <2>3 DEF Plan, NoBackup
  <2> QED
    BY <1>3, <2>2, <2>4 DEF Stages, Plan, repoVars, envVars, pushVars
<1>4. CASE \E n \in Name, s \in Sources(Server) : FetchMissing(n, s)
  BY <1>4 DEF FetchMissing, Sources, Fetched, Received, envVars, pushVars, Tips, Names
<1>5. CASE \E n \in Name, s \in Sources(Server) : BackUp(n, s)
  <2> SUFFICES ASSUME NEW n \in Name, NEW s \in Sources(Server), BackUp(n, s)
               PROVE  TypeOK'
    BY <1>5
  <2>1. Fetched(n, s) \in Commit \cup {NoRef}
    BY DEF BackUp, Sources, Fetched
  <2>2. objects' \in SUBSET Commit /\ objects \subseteq objects'
    BY <2>1 DEF BackUp, Received
  <2>3. backups' \in [Commit -> objects' \cup {NoRef}]
    BY <2>1, <2>2 DEF BackUp, Received
  <2>4. diverged' \in [Name -> [label : Commit \cup {NoRef}, sources : SUBSET Server]]
    BY DEF BackUp, NoBackup
  <2> QED
    BY <2>2, <2>3, <2>4 DEF BackUp, Sources, Fetched, Received, envVars, pushVars
<1>6. CASE Reconciled
  BY <1>6 DEF Reconciled, SignIfAny, repoVars, envVars, listVars, pushVars, Stages
<1>7. CASE Sign
  BY <1>7 DEF Sign, repoVars, envVars, listVars, pushVars, Stages
<1>8. CASE GiveUp
  BY <1>8 DEF GiveUp, repoVars, envVars, listVars, pushVars, Stages
<1>9. CASE StageEvent
  BY <1>9 DEF StageEvent, repoVars, envVars, listVars, pushVars, Stages
<1>10. CASE StageRejected
  BY <1>10 DEF StageRejected, Record, repoVars, envVars, listVars, Stages
<1>11. CASE ConnectFails
  BY <1>11 DEF ConnectFails, repoVars, envVars, listVars, pushVars, Stages
<1>12. CASE Prune
  BY <1>12 DEF Prune, repoVars, envVars, listVars, Stages, Undeclared, Names
<1>13. CASE PushFails
  BY <1>13 DEF PushFails, Record, repoVars, envVars, listVars, Stages
<1>14. CASE \E answered \in BOOLEAN : PushObjects(answered)
  <2> SUFFICES ASSUME NEW answered \in BOOLEAN, PushObjects(answered)
               PROVE  TypeOK'
    BY <1>14
  <2>1. Pushed \in RefMap
    BY DEF Pushed, PushObjects
  <2>2. serverRefs' \in [Server -> RefMap]
    BY <2>1 DEF PushObjects
  <2>3. outcome' \in [Server -> {"none", "ok", "refused", "failed"}] /\ held' \in SUBSET Server
    BY DEF PushObjects, Record
  <2> QED
    BY <2>2, <2>3 DEF Stages, PushObjects, Record, repoVars, listVars
<1>15. CASE Finish
  BY <1>15 DEF Finish, repoVars, envVars, listVars, Stages
<1>16. CASE \E s \in Server, n \in Name, c \in Commit \cup {NoRef} : OtherPush(s, n, c)
  <2> SUFFICES ASSUME NEW s \in Server, NEW n \in Name, NEW c \in Commit \cup {NoRef},
                      OtherPush(s, n, c)
               PROVE  TypeOK'
    BY <1>16
  <2>1. serverRefs' \in [Server -> RefMap]
    BY DEF OtherPush
  <2>2. raced' \in [local : 0 .. MaxRaces, server : 0 .. MaxRaces]
    BY OneMoreRace DEF OtherPush, MayRace
  <2> QED
    BY <2>1, <2>2 DEF OtherPush, MayRace, repoVars, listVars, pushVars
<1>17. CASE \E n \in Name, c \in Commit \cup {NoRef} : LocalChange(n, c)
  <2> SUFFICES ASSUME NEW n \in Name, NEW c \in Commit \cup {NoRef}, LocalChange(n, c)
               PROVE  TypeOK'
    BY <1>17
  <2>1. localRefs' \in RefMap /\ objects' \in SUBSET Commit /\ objects \subseteq objects'
    BY DEF LocalChange
  <2>2. Tips(localRefs') \subseteq objects'
    BY DEF LocalChange, Tips, Names
  <2>3. raced' \in [local : 0 .. MaxRaces, server : 0 .. MaxRaces]
    BY OneMoreRace DEF LocalChange, MayRace
  <2>4. backups' \in [Commit -> objects' \cup {NoRef}]
    BY <2>1 DEF LocalChange
  <2> QED
    BY <2>1, <2>2, <2>3, <2>4 DEF LocalChange, MayRace, listVars, pushVars
<1>18. CASE UNCHANGED vars
  BY <1>18 DEF vars
<1> QED
  BY <1>1, <1>2, <1>3, <1>4, <1>5, <1>6, <1>7, <1>8, <1>9, <1>10, <1>11, <1>12, <1>13,
     <1>14, <1>15, <1>16, <1>17, <1>18 DEF Next, Task

\* Objects are only added, so what the push first read stays there.
LEMMA KeepsKnown == IInv /\ [Next]_vars => KnownSound'
<1> SUFFICES ASSUME IInv, [Next]_vars PROVE KnownSound'
  OBVIOUS
<1> USE GraspPushAssumption DEF IInv, KnownSound, TypeOK, Tips, Names, RefMap, Server
<1>1. CASE ReadRefs
  BY <1>1 DEF ReadRefs, SignIfAny, NoRefs, pushVars, repoVars, envVars
<1>2. CASE \E answers \in BOOLEAN : List(answers)
  BY <1>2 DEF List, repoVars, envVars, pushVars
<1>3. CASE Plan
  BY <1>3 DEF Plan, repoVars, envVars, pushVars
<1>4. CASE \E n \in Name, s \in Sources(Server) : FetchMissing(n, s)
  BY <1>4 DEF FetchMissing, Sources, Fetched, Received, envVars, pushVars
<1>5. CASE \E n \in Name, s \in Sources(Server) : BackUp(n, s)
  BY <1>5 DEF BackUp, Sources, Fetched, Received, envVars, pushVars
<1>6. CASE Reconciled
  BY <1>6 DEF Reconciled, SignIfAny, repoVars, envVars, listVars, pushVars
<1>7. CASE Sign \/ GiveUp \/ StageEvent \/ ConnectFails
  BY <1>7 DEF Sign, repoVars, envVars, listVars, pushVars, GiveUp, StageEvent,
       ConnectFails
<1>8. CASE StageRejected \/ PushFails
  BY <1>8 DEF StageRejected, Record, repoVars, envVars, listVars, PushFails
<1>9. CASE Prune
  BY <1>9 DEF Prune, repoVars, envVars, listVars
<1>10. CASE \E answered \in BOOLEAN : PushObjects(answered)
  BY <1>10 DEF PushObjects, Record, repoVars, listVars
<1>11. CASE Finish
  BY <1>11 DEF Finish, repoVars, envVars, listVars
<1>12. CASE \/ \E s \in Server, n \in Name, c \in Commit \cup {NoRef} : OtherPush(s, n, c)
            \/ \E n \in Name, c \in Commit \cup {NoRef} : LocalChange(n, c)
  BY <1>12 DEF OtherPush, MayRace, repoVars, listVars, pushVars, LocalChange
<1>13. CASE UNCHANGED vars
  BY <1>13 DEF vars
<1> QED
  BY <1>1, <1>2, <1>3, <1>4, <1>5, <1>6, <1>7, <1>8, <1>9, <1>10, <1>11, <1>12, <1>13
     DEF Next, Task

\* The locals of the task, stage by stage.
LEMMA KeepsLocals == IInv /\ [Next]_vars => Locals'
<1> SUFFICES ASSUME IInv, [Next]_vars PROVE Locals'
  OBVIOUS
<1> USE GraspPushAssumption DEF IInv, Locals, TypeOK, RefMap, Server, Early, Pushing,
          Settled, NoSources, NoneDiverged, NoBackup
<1>1. CASE ReadRefs
  BY <1>1 DEF ReadRefs, SignIfAny, NoRefs, pushVars, repoVars, envVars
<1>2. CASE \E answers \in BOOLEAN : List(answers)
  BY <1>2 DEF List, repoVars, envVars, pushVars
<1>3. CASE Plan
  BY <1>3 DEF Plan, repoVars, envVars, pushVars, Lacks
<1>4. CASE \E n \in Name, s \in Sources(Server) : FetchMissing(n, s)
  BY <1>4 DEF FetchMissing, Sources, Fetched, Received, envVars, pushVars
<1>5. CASE \E n \in Name, s \in Sources(Server) : BackUp(n, s)
  BY <1>5 DEF BackUp, Sources, Fetched, Received, envVars, pushVars
<1>6. CASE Reconciled
  BY <1>6 DEF Reconciled, SignIfAny, repoVars, envVars, listVars, pushVars
<1>7. CASE Sign
  BY <1>7 DEF Sign, repoVars, envVars, listVars, pushVars
<1>8. CASE GiveUp
  BY <1>8 DEF GiveUp, repoVars, envVars, listVars, pushVars
<1>9. CASE StageEvent
  BY <1>9 DEF StageEvent, repoVars, envVars, listVars, pushVars
<1>10. CASE StageRejected
  BY <1>10 DEF StageRejected, Record, repoVars, envVars, listVars, Took
<1>11. CASE ConnectFails
  BY <1>11 DEF ConnectFails, repoVars, envVars, listVars, pushVars
<1>12. CASE Prune
  BY <1>12 DEF Prune, repoVars, envVars, listVars
<1>13. CASE PushFails
  BY <1>13 DEF PushFails, Record, repoVars, envVars, listVars, Took
<1>14. CASE \E answered \in BOOLEAN : PushObjects(answered)
  BY <1>14 DEF PushObjects, Record, repoVars, listVars
<1>15. CASE Finish
  BY <1>15 DEF Finish, repoVars, envVars, listVars, Took
<1>16. CASE \E s \in Server, n \in Name, c \in Commit \cup {NoRef} : OtherPush(s, n, c)
  BY <1>16 DEF OtherPush, MayRace, repoVars, listVars, pushVars
<1>17. CASE \E n \in Name, c \in Commit \cup {NoRef} : LocalChange(n, c)
  BY <1>17 DEF LocalChange, MayRace, listVars, pushVars
<1>18. CASE UNCHANGED vars
  BY <1>18 DEF vars, Took
<1> QED
  BY <1>1, <1>2, <1>3, <1>4, <1>5, <1>6, <1>7, <1>8, <1>9, <1>10, <1>11, <1>12, <1>13,
     <1>14, <1>15, <1>16, <1>17, <1>18 DEF Next, Task

\* The plan is made of the listed servers and only shrinks.
LEMMA KeepsPlan == IInv /\ [Next]_vars => PlanSound'
<1> SUFFICES ASSUME IInv, [Next]_vars PROVE PlanSound'
  OBVIOUS
<1> USE GraspPushAssumption DEF IInv, PlanSound, TypeOK, Locals, Listing, NoSources,
          NoneDiverged, NoBackup, RefMap
<1>1. CASE ReadRefs
  BY <1>1 DEF ReadRefs, SignIfAny, NoRefs, pushVars, repoVars, envVars
<1>2. CASE \E answers \in BOOLEAN : List(answers)
  BY <1>2 DEF List, repoVars, envVars, pushVars
<1>3. CASE Plan
  BY <1>3 DEF Plan, repoVars, envVars, pushVars, Lacks, OnlyOnServers
<1>4. CASE \E n \in Name, s \in Sources(Server) : FetchMissing(n, s)
  BY <1>4 DEF FetchMissing, Sources, Fetched, Received, envVars, pushVars
<1>5. CASE \E n \in Name, s \in Sources(Server) : BackUp(n, s)
  BY <1>5 DEF BackUp, Sources, Fetched, Received, envVars, pushVars
<1>6. CASE Reconciled
  BY <1>6 DEF Reconciled, SignIfAny, repoVars, envVars, listVars, pushVars
<1>7. CASE Sign \/ GiveUp \/ StageEvent \/ ConnectFails
  BY <1>7 DEF Sign, repoVars, envVars, listVars, pushVars, GiveUp, StageEvent,
       ConnectFails
<1>8. CASE StageRejected \/ PushFails
  BY <1>8 DEF StageRejected, Record, repoVars, envVars, listVars, PushFails
<1>9. CASE Prune
  BY <1>9 DEF Prune, repoVars, envVars, listVars
<1>10. CASE \E answered \in BOOLEAN : PushObjects(answered)
  BY <1>10 DEF PushObjects, Record, repoVars, listVars
<1>11. CASE Finish
  BY <1>11 DEF Finish, repoVars, envVars, listVars
<1>12. CASE \/ \E s \in Server, n \in Name, c \in Commit \cup {NoRef} : OtherPush(s, n, c)
            \/ \E n \in Name, c \in Commit \cup {NoRef} : LocalChange(n, c)
  BY <1>12 DEF OtherPush, MayRace, repoVars, listVars, pushVars, LocalChange
<1>13. CASE UNCHANGED vars
  BY <1>13 DEF vars
<1> QED
  BY <1>1, <1>2, <1>3, <1>4, <1>5, <1>6, <1>7, <1>8, <1>9, <1>10, <1>11, <1>12, <1>13
     DEF Next, Task

\* The local refs of an undisturbed push.
LEMMA KeepsLocalRefs == IInv /\ [Next]_vars => LocalSound'
<1> SUFFICES ASSUME IInv, [Next]_vars PROVE LocalSound'
  OBVIOUS
<1> USE GraspPushAssumption DEF IInv, LocalSound, TypeOK, Locals, Settled, RefMap,
          Server
<1>1. CASE ReadRefs
  BY <1>1 DEF ReadRefs, SignIfAny, NoRefs, pushVars, repoVars, envVars
<1>2. CASE \E answers \in BOOLEAN : List(answers)
  BY <1>2 DEF List, repoVars, envVars, pushVars
<1>3. CASE Plan
  BY <1>3 DEF Plan, repoVars, envVars, pushVars, Lacks
<1>4. CASE \E n \in Name, s \in Sources(Server) : FetchMissing(n, s)
  <2> SUFFICES ASSUME NEW n0 \in Name, NEW s \in Sources(Server), FetchMissing(n0, s)
               PROVE  LocalSound'
    BY <1>4
  <2>1. missing # NoSources /\ reread
    BY DEF FetchMissing, NoSources
  <2>2. \A n \in Name : missing'[n] # {} => n # n0 /\ missing[n] # {} /\ localRefs'[n] = localRefs[n]
    BY DEF FetchMissing
  <2> QED
    BY <2>1, <2>2 DEF FetchMissing, Sources, Fetched, Received, envVars, pushVars
<1>5. CASE \E n \in Name, s \in Sources(Server) : BackUp(n, s)
  BY <1>5 DEF BackUp, Sources, Fetched, Received, envVars, pushVars
<1>6. CASE Reconciled
  BY <1>6 DEF Reconciled, SignIfAny, repoVars, envVars, listVars, pushVars
<1>7. CASE Sign \/ GiveUp \/ StageEvent \/ ConnectFails
  BY <1>7 DEF Sign, repoVars, envVars, listVars, pushVars, GiveUp, StageEvent,
       ConnectFails
<1>8. CASE StageRejected \/ PushFails
  BY <1>8 DEF StageRejected, Record, repoVars, envVars, listVars, PushFails
<1>9. CASE Prune
  BY <1>9 DEF Prune, repoVars, envVars, listVars
<1>10. CASE \E answered \in BOOLEAN : PushObjects(answered)
  BY <1>10 DEF PushObjects, Record, repoVars, listVars
<1>11. CASE Finish
  BY <1>11 DEF Finish, repoVars, envVars, listVars
<1>12. CASE \/ \E s \in Server, n \in Name, c \in Commit \cup {NoRef} : OtherPush(s, n, c)
            \/ \E n \in Name, c \in Commit \cup {NoRef} : LocalChange(n, c)
  BY <1>12 DEF OtherPush, MayRace, repoVars, listVars, pushVars, LocalChange
<1>13. CASE UNCHANGED vars
  BY <1>13 DEF vars
<1> QED
  BY <1>1, <1>2, <1>3, <1>4, <1>5, <1>6, <1>7, <1>8, <1>9, <1>10, <1>11, <1>12, <1>13
     DEF Next, Task

\* What an undisturbed server holds until its turn comes.
LEMMA KeepsListed == IInv /\ [Next]_vars => ListedSound'
<1> SUFFICES ASSUME IInv, [Next]_vars PROVE ListedSound'
  OBVIOUS
<1> USE GraspPushAssumption DEF IInv, ListedSound, TypeOK, Locals, Ahead, Early,
          Pushing, RefMap, Server
<1>1. CASE ReadRefs
  BY <1>1 DEF ReadRefs, SignIfAny, NoRefs, pushVars, repoVars, envVars
<1>2. CASE \E answers \in BOOLEAN : List(answers)
  BY <1>2 DEF List, repoVars, envVars, pushVars
<1>3. CASE Plan
  BY <1>3 DEF Plan, repoVars, envVars, pushVars
<1>4. CASE \E n \in Name, s \in Sources(Server) : FetchMissing(n, s)
  BY <1>4 DEF FetchMissing, Sources, Fetched, Received, envVars, pushVars
<1>5. CASE \E n \in Name, s \in Sources(Server) : BackUp(n, s)
  BY <1>5 DEF BackUp, Sources, Fetched, Received, envVars, pushVars
<1>6. CASE Reconciled
  BY <1>6 DEF Reconciled, SignIfAny, repoVars, envVars, listVars, pushVars
<1>7. CASE Sign \/ GiveUp \/ StageEvent \/ ConnectFails
  BY <1>7 DEF Sign, repoVars, envVars, listVars, pushVars, GiveUp, StageEvent,
       ConnectFails
<1>8. CASE StageRejected \/ PushFails
  BY <1>8 DEF StageRejected, Record, repoVars, envVars, listVars, PushFails
<1>9. CASE Prune
  BY <1>9 DEF Prune, repoVars, envVars, listVars
<1>10. CASE \E answered \in BOOLEAN : PushObjects(answered)
  BY <1>10 DEF PushObjects, Record, repoVars, listVars
<1>11. CASE Finish
  BY <1>11 DEF Finish, repoVars, envVars, listVars
<1>12. CASE \/ \E s \in Server, n \in Name, c \in Commit \cup {NoRef} : OtherPush(s, n, c)
            \/ \E n \in Name, c \in Commit \cup {NoRef} : LocalChange(n, c)
  BY <1>12 DEF OtherPush, MayRace, repoVars, listVars, pushVars, LocalChange
<1>13. CASE UNCHANGED vars
  BY <1>13 DEF vars
<1> QED
  BY <1>1, <1>2, <1>3, <1>4, <1>5, <1>6, <1>7, <1>8, <1>9, <1>10, <1>11, <1>12, <1>13
     DEF Next, Task

\* A listed name is fetched, so the declared map has it.
LEMMA KeepsNames == IInv /\ [Next]_vars => NamesCovered'
<1> SUFFICES ASSUME IInv, [Next]_vars PROVE NamesCovered'
  OBVIOUS
<1> USE GraspPushAssumption DEF IInv, NamesCovered, TypeOK, Locals, LocalSound,
          PlanSound, Quiet, Settled, RefMap
<1>1. CASE ReadRefs
  BY <1>1 DEF ReadRefs, SignIfAny, NoRefs, pushVars, repoVars, envVars
<1>2. CASE \E answers \in BOOLEAN : List(answers)
  BY <1>2 DEF List, repoVars, envVars, pushVars
<1>3. CASE Plan
  BY <1>3 DEF Plan, repoVars, envVars, pushVars, Lacks, Listing
<1>4. CASE \E n \in Name, s \in Sources(Server) : FetchMissing(n, s)
  <2> SUFFICES ASSUME NEW n0 \in Name, NEW s0 \in Sources(Server), FetchMissing(n0, s0),
                      Quiet
               PROVE  NamesCovered'
    BY <1>4 DEF FetchMissing, Sources, Fetched, Received, envVars, pushVars
  <2>1. s0 = 0 => lost'
    BY DEF FetchMissing
  <2>2. s0 # 0 => localRefs'[n0] # NoRef
    <3> SUFFICES ASSUME s0 \in missing[n0], s0 \in Server  PROVE localRefs'[n0] # NoRef
      BY DEF FetchMissing, Sources
    <3>1. listed[s0] # Unlisted /\ listed[s0][n0] # NoRef
      BY DEF Listing
    <3>2. listed[s0] = serverRefs[s0]
      BY <3>1 DEF ListedSound, Ahead, Early, FetchMissing
    <3> QED
      BY <3>1, <3>2 DEF FetchMissing, Fetched, Server
  <2>3. \A n \in Name : n # n0 => localRefs'[n] = localRefs[n] /\ missing'[n] = missing[n]
    BY DEF FetchMissing
  <2>4. stage = "fetch" /\ stage' = stage /\ listed' = listed /\ (lost => lost')
    BY DEF FetchMissing
  <2>5. ASSUME NEW s \in Server, NEW n \in Name, listed[s] # Unlisted, listed[s][n] # NoRef
        PROVE  localRefs'[n] # NoRef \/ missing'[n] # {} \/ lost'
    <3>1. localRefs[n] # NoRef \/ missing[n] # {} \/ lost
      BY <2>4, <2>5
    <3> QED
      BY <2>1, <2>2, <2>3, <2>4, <3>1
  <2> QED
    BY <2>4, <2>5
<1>5. CASE \E n \in Name, s \in Sources(Server) : BackUp(n, s)
  BY <1>5 DEF BackUp, Sources, Fetched, Received, envVars, pushVars
<1>6. CASE Reconciled
  <2> SUFFICES ASSUME Quiet, ~lost
               PROVE  NamesCovered'
    BY <1>6 DEF Reconciled, listVars, envVars, SignIfAny
  <2>1. declared' = localRefs
    BY <1>6 DEF Reconciled
  <2>2. \A n \in Name : missing[n] = {}
    BY <1>6 DEF Reconciled, NoSources
  <2>3. stage = "fetch" /\ stage' # "fetch" /\ listed' = listed
    BY <1>6 DEF Reconciled, SignIfAny, listVars
  <2> QED
    BY <2>1, <2>2, <2>3
<1>7. CASE Sign \/ GiveUp \/ StageEvent \/ ConnectFails
  BY <1>7 DEF Sign, repoVars, envVars, listVars, pushVars, GiveUp, StageEvent,
       ConnectFails
<1>8. CASE StageRejected \/ PushFails
  BY <1>8 DEF StageRejected, Record, repoVars, envVars, listVars, PushFails
<1>9. CASE Prune
  BY <1>9 DEF Prune, repoVars, envVars, listVars
<1>10. CASE \E answered \in BOOLEAN : PushObjects(answered)
  BY <1>10 DEF PushObjects, Record, repoVars, listVars
<1>11. CASE Finish
  BY <1>11 DEF Finish, repoVars, envVars, listVars
<1>12. CASE \/ \E s \in Server, n \in Name, c \in Commit \cup {NoRef} : OtherPush(s, n, c)
            \/ \E n \in Name, c \in Commit \cup {NoRef} : LocalChange(n, c)
  BY <1>12 DEF OtherPush, MayRace, repoVars, listVars, pushVars, LocalChange
<1>13. CASE UNCHANGED vars
  BY <1>13 DEF vars
<1> QED
  BY <1>1, <1>2, <1>3, <1>4, <1>5, <1>6, <1>7, <1>8, <1>9, <1>10, <1>11, <1>12, <1>13
     DEF Next, Task

\* A tip that only servers have is fetched or backed up while they still have it.
LEMMA KeepsTips == IInv /\ [Next]_vars => TipsCovered'
<1> SUFFICES ASSUME IInv, [Next]_vars PROVE TipsCovered'
  OBVIOUS
<1> USE GraspPushAssumption DEF IInv, TipsCovered, TypeOK, Locals, RefMap
<1>1. CASE ReadRefs
  <2>1. \A s \in Server, n \in Name : ~Agreed(s, n)'
    BY <1>1 DEF Agreed, ReadRefs, SignIfAny, NoRefs, pushVars, repoVars, envVars
  <2> QED
    BY <2>1
<1>2. CASE \E answers \in BOOLEAN : List(answers)
  BY <1>2 DEF List, repoVars, envVars, pushVars
<1>3. CASE Plan
  <2>1. \A s \in Server, n \in Name : Agreed(s, n)' <=> Agreed(s, n)
    BY <1>3 DEF Agreed, Listing, Plan, repoVars, envVars, pushVars
  <2> SUFFICES ASSUME NEW s \in Server, NEW n \in Name, Agreed(s, n)
               PROVE  \/ listed[s][n] \in objects
                      \/ missing'[n] # {} /\ known[n] = NoRef
                      \/ diverged'[n].sources # {}
    BY <1>3, <2>1 DEF Plan, repoVars, envVars, pushVars
  <2>2. s \in Listing(n)
    BY DEF Agreed, Listing
  <2>3. CASE known[n] = NoRef
    BY <1>3, <2>2, <2>3 DEF Plan, Lacks
  <2>4. CASE known[n] # NoRef /\ listed[s][n] = known[n]
    BY <2>4 DEF KnownSound, Tips, Names
  <2>5. CASE known[n] # NoRef /\ listed[s][n] # known[n] /\ listed[s][n] \notin objects
    <3>1. s \in OnlyOnServers(n)
      BY <2>2, <2>5 DEF OnlyOnServers
    <3> QED
      BY <1>3, <2>5, <3>1 DEF Plan, Lacks
  <2> QED
    BY <2>3, <2>4, <2>5
<1>4. CASE \E n \in Name, s \in Sources(Server) : FetchMissing(n, s)
  <2> SUFFICES ASSUME NEW n0 \in Name, NEW s0 \in Sources(Server), FetchMissing(n0, s0)
               PROVE  TipsCovered'
    BY <1>4
  <2>1. /\ raced' = raced /\ backupLost' = backupLost /\ known' = known /\ listed' = listed
        /\ diverged' = diverged
    BY DEF FetchMissing, envVars
  <2>2. \A s \in Server, n \in Name : Agreed(s, n)' <=> Agreed(s, n)
    BY <2>1 DEF Agreed, Listing
  <2> SUFFICES ASSUME raced.server = 0, ~backupLost, ~lost', NEW s \in Server, NEW n \in Name,
                      Agreed(s, n)
               PROVE  \/ listed[s][n] \in objects'
                      \/ missing'[n] # {} /\ known[n] = NoRef
                      \/ diverged[n].sources # {}
    BY <2>1, <2>2 DEF NoSources
  <2>3. \/ listed[s][n] \in objects
        \/ missing[n] # {} /\ known[n] = NoRef
        \/ diverged[n].sources # {}
    BY DEF FetchMissing
  <2>4. objects \subseteq objects' /\ (n # n0 => missing'[n] = missing[n])
    BY DEF FetchMissing
  <2>5. CASE n = n0 /\ known[n] = NoRef
    <3>1. s0 \in Server /\ s0 \in Listing(n)
      BY <2>5 DEF FetchMissing, Sources, PlanSound, Listing
    <3>2. listed[s0] # Unlisted /\ listed[s0][n] = listed[s][n]
      BY <2>5, <3>1 DEF Agreed, Listing
    <3>3. listed[s0] = serverRefs[s0]
      BY <3>1, <3>2 DEF ListedSound, Ahead, Early, FetchMissing
    <3>4. s0 # 0
      BY DEF FetchMissing
    <3> QED
      BY <2>5, <3>2, <3>3, <3>4 DEF FetchMissing, Fetched, Received, Agreed
  <2> QED
    BY <2>3, <2>4, <2>5
<1>5. CASE \E n \in Name, s \in Sources(Server) : BackUp(n, s)
  <2> SUFFICES ASSUME NEW n0 \in Name, NEW s0 \in Sources(Server), BackUp(n0, s0)
               PROVE  TipsCovered'
    BY <1>5
  <2>1. /\ raced' = raced /\ lost' = lost /\ known' = known /\ listed' = listed /\ missing' = NoSources
    BY DEF BackUp, envVars
  <2>2. \A s \in Server, n \in Name : Agreed(s, n)' <=> Agreed(s, n)
    BY <2>1 DEF Agreed, Listing
  <2> SUFFICES ASSUME raced.server = 0, ~backupLost', ~lost, NEW s \in Server, NEW n \in Name,
                      Agreed(s, n)
               PROVE  \/ listed[s][n] \in objects'
                      \/ diverged'[n].sources # {}
    BY <2>1, <2>2 DEF NoSources
  <2>3. listed[s][n] \in objects \/ diverged[n].sources # {}
    BY DEF BackUp, NoSources
  <2>4. objects \subseteq objects' /\ (n # n0 => diverged'[n] = diverged[n])
    BY DEF BackUp
  <2>5. CASE n = n0
    <3>1. s0 # 0
      BY DEF BackUp, Fetched
    <3>2. s0 \in Listing(n) /\ listed[s0][n] # known[n]
      BY <2>5, <3>1 DEF BackUp, Sources, PlanSound
    <3>3. s0 \in Server /\ listed[s0] # Unlisted /\ listed[s0][n] = listed[s][n]
      BY <3>2 DEF Agreed, Listing
    <3>4. listed[s0] = serverRefs[s0]
      BY <3>3 DEF ListedSound, Ahead, Early, BackUp
    <3> QED
      BY <2>5, <3>1, <3>3, <3>4 DEF BackUp, Fetched, Received, Agreed
  <2> QED
    BY <2>3, <2>4, <2>5
<1>6. CASE Reconciled
  <2>1. \A s \in Server, n \in Name : Agreed(s, n)' <=> Agreed(s, n)
    BY <1>6 DEF Agreed, Listing, Reconciled, SignIfAny, repoVars, envVars, listVars,
         pushVars
  <2> QED
    BY <1>6, <2>1 DEF Reconciled, SignIfAny, repoVars, envVars, listVars, pushVars
<1>7. CASE \/ Sign
           \/ StageEvent
           \/ ConnectFails
           \/ StageRejected
           \/ PushFails
           \/ Prune
           \/ \E answered \in BOOLEAN : PushObjects(answered)
           \/ Finish
           \/ \E s \in Server, n \in Name, c \in Commit \cup {NoRef} : OtherPush(s, n, c)
           \/ \E n \in Name, c \in Commit \cup {NoRef} : LocalChange(n, c)
           \/ UNCHANGED vars
  <2>1. \A s \in Server, n \in Name : Agreed(s, n)' <=> Agreed(s, n)
    BY <1>7 DEF Agreed, Listing, Sign, repoVars, envVars, listVars, pushVars,
         StageEvent, ConnectFails, StageRejected, Record, PushFails, Prune, PushObjects,
         Finish, OtherPush, MayRace, LocalChange, vars
  <2> QED
    BY <1>7, <2>1 DEF Sign, repoVars, envVars, listVars, pushVars, StageEvent,
         ConnectFails, StageRejected, Record, PushFails, Prune, PushObjects, Finish,
         OtherPush, MayRace, LocalChange, vars
<1>8. CASE GiveUp
  <2>1. \A s \in Server, n \in Name : Agreed(s, n)' <=> Agreed(s, n)
    BY <1>8 DEF Agreed, Listing, GiveUp, repoVars, envVars, listVars, pushVars
  <2>2. stage = "read" => \A s \in Server, n \in Name : ~Agreed(s, n)
    BY DEF Agreed
  <2> QED
    BY <1>8, <2>1, <2>2 DEF GiveUp, repoVars, envVars, listVars, pushVars
<1> QED
  BY <1>1, <1>2, <1>3, <1>4, <1>5, <1>6, <1>7, <1>8 DEF Next, Task

\* The deletions of an undisturbed reset.
LEMMA KeepsDeletions == IInv /\ [Next]_vars => DeletionsSound'
<1> SUFFICES ASSUME IInv, [Next]_vars PROVE DeletionsSound'
  OBVIOUS
<1> USE GraspPushAssumption DEF IInv, DeletionsSound, TypeOK, Locals, Quiet, Undeclared,
          Names
<1>1. CASE ReadRefs
  BY <1>1 DEF ReadRefs, SignIfAny, NoRefs, pushVars, repoVars, envVars
<1>2. CASE \E answers \in BOOLEAN : List(answers)
  BY <1>2 DEF List, repoVars, envVars, pushVars
<1>3. CASE Plan
  BY <1>3 DEF Plan, repoVars, envVars, pushVars
<1>4. CASE \E n \in Name, s \in Sources(Server) : FetchMissing(n, s)
  BY <1>4 DEF FetchMissing, Sources, Fetched, Received, envVars, pushVars
<1>5. CASE \E n \in Name, s \in Sources(Server) : BackUp(n, s)
  BY <1>5 DEF BackUp, Sources, Fetched, Received, envVars, pushVars
<1>6. CASE Reconciled
  BY <1>6 DEF Reconciled, SignIfAny, repoVars, envVars, listVars, pushVars
<1>7. CASE Sign \/ GiveUp \/ StageEvent \/ ConnectFails
  BY <1>7 DEF Sign, repoVars, envVars, listVars, pushVars, GiveUp, StageEvent,
       ConnectFails
<1>8. CASE StageRejected \/ PushFails
  BY <1>8 DEF StageRejected, Record, repoVars, envVars, listVars, PushFails
<1>9. CASE Prune
  BY <1>9 DEF Prune, repoVars, envVars, listVars
<1>10. CASE \E answered \in BOOLEAN : PushObjects(answered)
  BY <1>10 DEF PushObjects, Record, repoVars, listVars
<1>11. CASE Finish
  BY <1>11 DEF Finish, repoVars, envVars, listVars
<1>12. CASE \/ \E s \in Server, n \in Name, c \in Commit \cup {NoRef} : OtherPush(s, n, c)
            \/ \E n \in Name, c \in Commit \cup {NoRef} : LocalChange(n, c)
  BY <1>12 DEF OtherPush, MayRace, repoVars, listVars, pushVars, LocalChange
<1>13. CASE UNCHANGED vars
  BY <1>13 DEF vars
<1> QED
  BY <1>1, <1>2, <1>3, <1>4, <1>5, <1>6, <1>7, <1>8, <1>9, <1>10, <1>11, <1>12, <1>13
     DEF Next, Task

\* A server that takes the push has what is declared.
LEMMA KeepsTook == IInv /\ [Next]_vars => TookSound'
<1> SUFFICES ASSUME IInv, [Next]_vars PROVE TookSound'
  OBVIOUS
<1> USE GraspPushAssumption DEF IInv, TypeOK, Locals
<1>1. CASE \/ ReadRefs
           \/ \E answers \in BOOLEAN : List(answers)
           \/ Plan
           \/ \E n \in Name, s \in Sources(Server) : FetchMissing(n, s)
           \/ \E n \in Name, s \in Sources(Server) : BackUp(n, s)
           \/ Reconciled
  <2>1. \A s \in Server : outcome'[s] # "ok"
    BY <1>1 DEF Early, ReadRefs, SignIfAny, NoRefs, pushVars, repoVars, envVars, List,
         Plan, FetchMissing, Sources, Fetched, Received, BackUp, Reconciled, listVars
  <2> QED
    BY <2>1 DEF TookSound
<1>2. CASE Sign \/ GiveUp \/ StageEvent \/ ConnectFails
  BY <1>2 DEF Sign, repoVars, envVars, listVars, pushVars, GiveUp, StageEvent,
       ConnectFails, TookSound, HasDeclared, Names, Quiet
<1>3. CASE StageRejected \/ PushFails
  BY <1>3 DEF StageRejected, Record, repoVars, envVars, listVars, PushFails, TookSound,
       HasDeclared, Names, Quiet
<1>4. CASE Prune
  BY <1>4 DEF Prune, repoVars, envVars, listVars, TookSound, HasDeclared, Names, Quiet
<1>5. CASE \E answered \in BOOLEAN : PushObjects(answered)
  <2> SUFFICES ASSUME NEW answered \in BOOLEAN, PushObjects(answered)
               PROVE  TookSound'
    BY <1>5
  <2>1. at \in Server /\ stage = "push"
    BY DEF PushObjects
  <2>2. ASSUME NEW s \in Server, s # at, outcome'[s] = "ok"
        PROVE  outcome[s] = "ok" /\ serverRefs'[s] = serverRefs[s] /\ held \subseteq held'
    BY <2>1, <2>2 DEF PushObjects, Record
  <2>3. \A s \in Server : HasDeclared(serverRefs[s])' <=>
          \A n \in Names(declared) : serverRefs'[s][n] = declared[n]
    BY DEF HasDeclared, PushObjects, Names
  <2>4. ASSUME outcome'[at] = "ok"
        PROVE  Accepts /\ serverRefs'[at] = Pushed
    BY <2>1, <2>4 DEF PushObjects, Record, Accepts
  <2>5. ASSUME outcome'[at] = "ok", raced.local = 0
        PROVE  HasDeclared(serverRefs'[at]) /\ at \in held'
    <3>1. declared = localRefs
      BY <2>1, <2>5 DEF LocalSound, Settled
    <3>2. HasDeclared(Pushed)
      BY <3>1 DEF HasDeclared, Pushed, Names
    <3>3. HasDeclared(serverRefs'[at])
      BY <2>4, <2>5, <3>2
    <3> QED
      BY <2>5, <3>3 DEF PushObjects
  <2>6. ASSUME outcome'[at] = "ok", Quiet
        PROVE  serverRefs'[at] = declared \/ (policy = "Reconcile" /\ listed[at] = Unlisted)
    BY <2>1, <2>4, <2>6, PushedIsDeclared DEF Policy
  <2>7. /\ ~lost /\ lost' = lost /\ raced' = raced /\ declared' = declared
        /\ policy' = policy /\ listed' = listed
    BY <2>1 DEF PushObjects, Settled, listVars
  <2>8. Quiet' <=> Quiet
    BY <2>7 DEF Quiet
  <2>9. Quiet => raced.local = 0
    BY DEF Quiet
  <2>10. ASSUME NEW s \in Server, outcome'[s] = "ok"
         PROVE  /\ raced.local = 0 => s \in held'
                /\ Quiet => /\ HasDeclared(serverRefs'[s])
                            /\ serverRefs'[s] = declared \/ (policy = "Reconcile" /\ listed[s] = Unlisted)
    BY <2>2, <2>5, <2>6, <2>9, <2>10 DEF TookSound
  <2> QED
    BY <2>7, <2>8, <2>10 DEF TookSound, HasDeclared, Names
<1>6. CASE Finish
  BY <1>6 DEF Finish, repoVars, envVars, listVars, TookSound, HasDeclared, Names, Quiet
<1>7. CASE \/ \E s \in Server, n \in Name, c \in Commit \cup {NoRef} : OtherPush(s, n, c)
           \/ \E n \in Name, c \in Commit \cup {NoRef} : LocalChange(n, c)
  BY <1>7 DEF OtherPush, MayRace, repoVars, listVars, pushVars, LocalChange, TookSound,
       HasDeclared, Names, Quiet
<1>8. CASE UNCHANGED vars
  BY <1>8 DEF vars, TookSound, HasDeclared, Names, Quiet
<1> QED
  BY <1>1, <1>2, <1>3, <1>4, <1>5, <1>6, <1>7, <1>8 DEF Next, Task

\* A server that refuses was not listed, or somebody moved a ref.
LEMMA KeepsRefusals == IInv /\ [Next]_vars => NoSpuriousRefusal'
<1> SUFFICES ASSUME IInv, [Next]_vars PROVE NoSpuriousRefusal'
  OBVIOUS
<1> USE GraspPushAssumption DEF IInv, NoSpuriousRefusal, TypeOK, Locals, Quiet
<1>1. CASE ReadRefs
  BY <1>1 DEF ReadRefs, SignIfAny, NoRefs, pushVars, repoVars, envVars, Early
<1>2. CASE \E answers \in BOOLEAN : List(answers)
  BY <1>2 DEF List, repoVars, envVars, pushVars, Early
<1>3. CASE Plan
  BY <1>3 DEF Plan, repoVars, envVars, pushVars, Early
<1>4. CASE \E n \in Name, s \in Sources(Server) : FetchMissing(n, s)
  BY <1>4 DEF FetchMissing, Sources, Fetched, Received, envVars, pushVars, Early
<1>5. CASE \E n \in Name, s \in Sources(Server) : BackUp(n, s)
  BY <1>5 DEF BackUp, Sources, Fetched, Received, envVars, pushVars, Early
<1>6. CASE Reconciled
  BY <1>6 DEF Reconciled, SignIfAny, repoVars, envVars, listVars, pushVars, Early
<1>7. CASE Sign \/ GiveUp \/ StageEvent \/ ConnectFails
  BY <1>7 DEF Sign, repoVars, envVars, listVars, pushVars, GiveUp, StageEvent,
       ConnectFails
<1>8. CASE StageRejected \/ PushFails
  BY <1>8 DEF StageRejected, Record, repoVars, envVars, listVars, PushFails
<1>9. CASE Prune
  BY <1>9 DEF Prune, repoVars, envVars, listVars
<1>10. CASE \E answered \in BOOLEAN : PushObjects(answered)
  <2> SUFFICES ASSUME NEW answered \in BOOLEAN, PushObjects(answered), Quiet,
                      outcome'[at] = "refused", ~(policy = "Reconcile" /\ listed[at] = Unlisted)
               PROVE  FALSE
    BY <1>10 DEF PushObjects, Record, listVars
  <2>1. ~Accepts
    BY DEF PushObjects, Record
  <2>2. Pushed = declared
    BY PushedIsDeclared DEF PushObjects, Policy
  <2> QED
    BY <2>1, <2>2 DEF Accepts
<1>11. CASE Finish
  BY <1>11 DEF Finish, repoVars, envVars, listVars
<1>12. CASE \/ \E s \in Server, n \in Name, c \in Commit \cup {NoRef} : OtherPush(s, n, c)
            \/ \E n \in Name, c \in Commit \cup {NoRef} : LocalChange(n, c)
  BY <1>12 DEF OtherPush, MayRace, repoVars, listVars, pushVars, LocalChange
<1>13. CASE UNCHANGED vars
  BY <1>13 DEF vars
<1> QED
  BY <1>1, <1>2, <1>3, <1>4, <1>5, <1>6, <1>7, <1>8, <1>9, <1>10, <1>11, <1>12, <1>13
     DEF Next, Task

-----------------------------------------------------------------------------
(* The invariant and the theorems *)

LEMMA Start == Init => IInv
<1> SUFFICES ASSUME Init PROVE IInv
  OBVIOUS
<1> USE GraspPushAssumption DEF Init
<1>1. TypeOK
  <2>1. /\ declared \in RefMap /\ known \in RefMap
        /\ listed \in [Server -> RefMap \cup {Unlisted}]
        /\ missing \in [Name -> SUBSET Server]
    BY DEF RefMap, NoRefs, NoSources
  <2>2. diverged \in [Name -> [label : Commit \cup {NoRef}, sources : SUBSET Server]]
    BY DEF NoneDiverged, NoBackup
  <2>3. /\ backups \in [Commit -> objects \cup {NoRef}]
        /\ outcome \in [Server -> {"none", "ok", "refused", "failed"}]
        /\ at \in 1 .. N + 1
        /\ raced \in [local : 0 .. MaxRaces, server : 0 .. MaxRaces]
    OBVIOUS
  <2> QED
    BY <2>1, <2>2, <2>3 DEF TypeOK, Stages
<1>2. KnownSound
  BY DEF KnownSound, Tips, Names, NoRefs
<1>3. Locals
  BY DEF Locals, Early, Pushing, Settled
<1>4. PlanSound
  BY DEF PlanSound, NoSources, NoneDiverged, NoBackup
<1>5. LocalSound
  BY DEF LocalSound, NoSources, Settled
<1>6. ListedSound /\ NamesCovered
  BY DEF ListedSound, NamesCovered
<1>7. TipsCovered /\ DeletionsSound
  BY DEF TipsCovered, DeletionsSound
<1>8. TookSound /\ NoSpuriousRefusal
  BY DEF TookSound, NoSpuriousRefusal
<1> QED
  BY <1>1, <1>2, <1>3, <1>4, <1>5, <1>6, <1>7, <1>8 DEF IInv

THEOREM Invariance == Spec => []IInv
<1>1. IInv /\ [Next]_vars => IInv'
  <2> SUFFICES ASSUME IInv, [Next]_vars PROVE IInv'
    OBVIOUS
  <2>1. (TypeOK /\ KnownSound /\ Locals /\ PlanSound)'
    BY KeepsTypes, KeepsKnown, KeepsLocals, KeepsPlan
  <2>2. (LocalSound /\ ListedSound /\ NamesCovered /\ TipsCovered)'
    BY KeepsLocalRefs, KeepsListed, KeepsNames, KeepsTips
  <2>3. (DeletionsSound /\ TookSound /\ NoSpuriousRefusal)'
    BY KeepsDeletions, KeepsTook, KeepsRefusals
  <2> QED
    BY <2>1, <2>2, <2>3 DEF IInv
<1> QED
  BY Start, <1>1, PTL DEF Spec

\* Every variable of a push keeps its type, whatever others do meanwhile.
THEOREM TypeCorrect == Spec => []TypeOK
<1>1. IInv => TypeOK
  BY DEF IInv
<1> QED
  BY <1>1, Invariance, PTL

\* The state event goes to every relay only when some server holds all that it
\* declares (push_to_grasps), unless the local refs moved after the signature.
THEOREM HeldBeforeBroadcast == Spec => []BroadcastHeld
<1>1. IInv => BroadcastHeld
  <2> SUFFICES ASSUME IInv, broadcast, raced.local = 0  PROVE held # {}
    BY DEF BroadcastHeld
  <2>1. PICK s \in Server : outcome[s] = "ok"
    BY DEF IInv, Locals, Took
  <2> QED
    BY <2>1 DEF IInv, TookSound
<1> QED
  BY <1>1, Invariance, PTL

\* A push that nobody disturbs is refused by no server that reconcile could
\* list, and when every server took it all of them have the local refs.
THEOREM SettledPush == Spec => []PushSettles
<1>1. IInv => EndsInSync
  <2> SUFFICES ASSUME IInv, stage = "done", Took = Server, Quiet
               PROVE  /\ localRefs = declared
                      /\ \A s \in Server :
                           /\ HasDeclared(serverRefs[s])
                           /\ serverRefs[s] = declared
                                \/ (policy = "Reconcile" /\ listed[s] = Unlisted)
    BY DEF EndsInSync
  <2>1. localRefs = declared
    BY DEF IInv, LocalSound, Settled, Quiet
  <2>2. \A s \in Server : outcome[s] = "ok"
    BY DEF Took
  <2> QED
    BY <2>1, <2>2 DEF IInv, TookSound
<1>2. IInv => PushSettles
  BY <1>1 DEF IInv, PushSettles
<1> QED
  BY <1>2, Invariance, PTL

\* The force push destroys no tip it had listed: reconcile fetched it, or
\* backed it up, before (one differing tip per name, backups that succeed,
\* nobody else pushing).
THEOREM TipsKept == Spec => []OverwrittenTipsKept
<1>1. IInv => OverwrittenTipsKept
  <2> SUFFICES ASSUME IInv, NEW s \in Server, NEW n \in Name,
                      outcome[s] = "ok", Agreed(s, n), ~backupLost, raced.server = 0
               PROVE  listed[s][n] \in objects
    BY DEF OverwrittenTipsKept, Agreed
  <2>1. stage \notin Early /\ ~lost
    BY DEF IInv, Locals, TookSound
  <2>2. missing[n] = {} /\ diverged[n].sources = {}
    BY <2>1 DEF IInv, Locals, Early, NoSources, NoneDiverged, NoBackup
  <2> QED
    BY <2>1, <2>2 DEF IInv, TipsCovered, Early
<1> QED
  BY <1>1, Invariance, PTL

\* No step of a push moves a local ref that exists (fetch_refs is for missing
\* names only), unless the ref appeared after the push had read the refs.
THEOREM RefsKept == Spec => LocalRefsKept
<1>1. ASSUME IInv, [Next]_vars, raced' = raced, raced.local = 0
      PROVE  \A n \in Names(localRefs) : localRefs'[n] = localRefs[n]
  <2>1. ASSUME NEW n0 \in Name, NEW s \in Sources(Server), FetchMissing(n0, s)
        PROVE  \A n \in Names(localRefs) : localRefs'[n] = localRefs[n]
    <3>1. localRefs[n0] = NoRef
      BY <1>1, <2>1 DEF FetchMissing, IInv, LocalSound
    <3> QED
      BY <1>1, <2>1, <3>1 DEF FetchMissing, Names, IInv, TypeOK, RefMap
  <2>2. ASSUME NEW n \in Name, NEW c \in Commit \cup {NoRef}, LocalChange(n, c)
        PROVE  FALSE
    BY <1>1, <2>2 DEF LocalChange, IInv, TypeOK
  <2>3. \/ localRefs' = localRefs
        \/ \E n \in Name, s \in Sources(Server) : FetchMissing(n, s)
        \/ \E n \in Name, c \in Commit \cup {NoRef} : LocalChange(n, c)
    BY <1>1 DEF Next, Task, vars, ReadRefs, List, Plan, BackUp, Reconciled, Sign, GiveUp,
         StageEvent, StageRejected, ConnectFails, Prune, PushFails, PushObjects, Finish,
         OtherPush, repoVars
  <2> QED
    BY <2>1, <2>2, <2>3
<1>2. IInv /\ [Next]_vars =>
        [(raced' = raced /\ raced.local = 0) =>
           \A n \in Names(localRefs) : localRefs'[n] = localRefs[n]]_vars
  BY <1>1
<1> QED
  BY <1>2, Invariance, PTL DEF Spec, LocalRefsKept

=============================================================================
