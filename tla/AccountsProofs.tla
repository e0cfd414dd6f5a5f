--------------------------- MODULE AccountsProofs ---------------------------
(***************************************************************************)
(* Proofs about who is signed in and about the inbox of whoever is         *)
(* (MCAccounts), for any people, mentions and numbers of requests and of   *)
(* tasks in flight.                                                        *)
(*                                                                         *)
(* Session: signing in implements the register of Identity, and the        *)
(* keyring agrees with it.  Both rest on what a job knows at each of its   *)
(* waits (JobSound); the second also on what requests that do not overlap  *)
(* leave alone (Agreement).                                                *)
(*                                                                         *)
(* Inbox: the view follows the store and the store whoever is signed in    *)
(* (Follows); as long as nothing overlaps there is one run at most, a      *)
(* mention that the list lacks is on its way (Fresh), and the state is     *)
(* what is kept or is being saved (Agrees).                                *)
(***************************************************************************)
EXTENDS MCAccounts, FiniteSetTheorems, WellFoundedInduction, TLAPS

-----------------------------------------------------------------------------
(* Signing in and out (Session) *)

\* What a job is at each point it can wait at.
JobSound(x) ==
  /\ x.at = "idle" => x = Idle
  /\ x.at # "idle" => x.kind \in Kind
  /\ x.at = "keyring" =>
       x.kind \in {"restore", "unlock"} /\ x.of = Nobody /\ x.write = "none"
  /\ x.at = "crypto" =>
       x.kind \notin {"restore", "bunker"} /\ x.write = "none"
  /\ x.at = "bunker" => x.kind = "bunker"
  /\ x.at = "write" => x.kind \notin {"restore", "unlock"}
  /\ x.at \notin {"idle", "keyring"} => x.of \in Person
  /\ x.kind \in {"restore", "unlock"} => x.write = "none"
  /\ x.at = "signer" /\ x.kind \notin {"restore", "unlock"} => x.write = "done"

JobsOK ==
  /\ job \in [Jobs -> Job]
  /\ \A j \in Jobs : JobSound(job[j])

\* Every sign-out leaves one deletion at most.
Counters ==
  /\ deletes \in Nat /\ deletes <= signOuts
  /\ starts \in 0 .. MaxStarts
  /\ signOuts \in 0 .. MaxSignOuts /\ stops \in 0 .. MaxStops

Flags ==
  /\ locked \in BOOLEAN /\ unlock \in BOOLEAN
  /\ form \in {"closed", "open", "busy"}
  /\ {excused, left, lost, stranded} \subseteq BOOLEAN

People ==
  /\ user \in Person \cup {Nobody} /\ signer \in Person \cup {Nobody}
  /\ keyring \in Credential \cup {NoCredential}
  /\ answered \subseteq Person

IInv == JobsOK /\ Counters /\ Flags /\ People

\* As long as nothing has overlapped: there is one job, and it knows what the
\* keyring holds; nothing else touches it.
JobAgrees(x) ==
  /\ (x.kind \in {"restore", "unlock"} /\ x.of \in Person) => keyring.of = x.of
  /\ x.write = "done" => keyring.of = x.of
  /\ (x.write # "done" /\ user # Nobody /\ ~stranded) => keyring.of = user

\* Nobody is there, nothing is stored, and only a restore looks for it.
Gone ==
  /\ keyring = NoCredential /\ user = Nobody
  /\ \A j \in Live : job[j].kind = "restore" /\ job[j].at = "keyring"

Agreement ==
  ~excused =>
    /\ \A i, j \in Live : i = j
    /\ Live # {} => deletes = 0
    /\ deletes > 0 => user = Nobody
    /\ (left /\ ~lost /\ deletes = 0) => Gone
    /\ \A j \in Live : JobAgrees(job[j])
    /\ (Live = {} /\ user # Nobody /\ ~stranded) => keyring.of = user

AInv == IInv /\ Agreement

-----------------------------------------------------------------------------
(* What a job is *)

LEMMA StartedSound ==
  ASSUME NEW k \in Kind, NEW p \in Person \cup {Nobody},
         k \notin {"restore", "unlock"} => p \in Person,
         k \in {"restore", "unlock"} => p = Nobody
  PROVE  /\ Started(k, p) \in Job /\ JobSound(Started(k, p))
         /\ Started(k, p).of = p
         /\ Started(k, p).at # "idle"
         /\ Started(k, p).kind = k
         /\ Started(k, p).write # "done"
<1>1. Started(k, p) \in Job
  BY DEF Started, Job, Kind
<1>2. /\ Started(k, p).of = p /\ Started(k, p).kind = k
      /\ Started(k, p).at # "idle" /\ Started(k, p).write # "done"
      /\ Started(k, p).at \in {"keyring", "crypto", "bunker"}
      /\ Started(k, p).at = "keyring" <=> k \in {"restore", "unlock"}
      /\ Started(k, p).at = "bunker" <=> k = "bunker"
      /\ k # "bunker" => Started(k, p).write = "none"
  BY DEF Started, Kind
<1> QED
  BY <1>1, <1>2 DEF JobSound

\* A slot without a job is a job that knows nothing.
LEMMA IdleSound == Idle \in Job /\ JobSound(Idle)
  BY DEF Idle, Job, JobSound, Kind

\* Whether a job is sound does not depend on its dialog.
LEMMA SoundFields ==
  ASSUME NEW x, NEW y, JobSound(x), x.at = y.at, x.of = y.of, x.kind = y.kind,
         x.write = y.write, x = Idle => y = Idle
  PROVE  JobSound(y)
  BY DEF JobSound

\* Hiding the dialog of the jobs changes nothing else about them.
LEMMA HiddenSound ==
  ASSUME NEW f \in [Jobs -> Job], \A j \in Jobs : JobSound(f[j])
  PROVE  /\ Hidden(f) \in [Jobs -> Job]
         /\ \A j \in Jobs :
              /\ JobSound(Hidden(f)[j])
              /\ Hidden(f)[j].of = f[j].of /\ Hidden(f)[j].at = f[j].at
              /\ Hidden(f)[j].kind = f[j].kind /\ Hidden(f)[j].write = f[j].write
<1> SUFFICES ASSUME NEW j \in Jobs
             PROVE  /\ Hidden(f)[j] \in Job /\ JobSound(Hidden(f)[j])
                    /\ Hidden(f)[j].of = f[j].of /\ Hidden(f)[j].at = f[j].at
                    /\ Hidden(f)[j].kind = f[j].kind
                    /\ Hidden(f)[j].write = f[j].write
  BY DEF Hidden
<1>1. Hidden(f)[j] = [f[j] EXCEPT !.shown = FALSE] /\ f[j] \in Job
  BY DEF Hidden
<1>2. /\ Hidden(f)[j] \in Job
      /\ Hidden(f)[j].of = f[j].of /\ Hidden(f)[j].at = f[j].at
      /\ Hidden(f)[j].kind = f[j].kind /\ Hidden(f)[j].write = f[j].write
  BY <1>1 DEF Job
<1>3. f[j] = Idle => Hidden(f)[j] = Idle
  <2>1. [Idle EXCEPT !.shown = FALSE] = Idle
    BY IdleSound DEF Idle, Job
  <2> QED
    BY <1>1, <2>1
<1> QED
  BY <1>2, <1>3, SoundFields

\* At the start only the restore runs.
LEMMA InitInv == Init => IInv
<1> SUFFICES ASSUME Init PROVE IInv
  OBVIOUS
<1>1. /\ Started("restore", Nobody) \in Job
      /\ JobSound(Started("restore", Nobody))
  BY StartedSound DEF Kind
<1>2. JobsOK
  BY <1>1, IdleSound DEF Init, JobsOK
<1>3. Counters
  BY SessionBounds DEF Init, Counters
<1>4. Flags
  BY DEF Init, Flags
<1>5. People
  BY DEF Init, People, Credential, NoCredential
<1> QED
  BY <1>2, <1>3, <1>4, <1>5 DEF IInv

\* The invariant holds all that TypeOK asks for.
LEMMA IInvType == IInv => TypeOK
  BY SessionBounds DEF IInv, JobsOK, Counters, Flags, People, TypeOK

\* What is counted stays a natural, or the set of those who signed in.
LEMMA CountersInv == Counters /\ [Next]_vars => Counters'
<1> SUFFICES ASSUME Counters, [Next]_vars PROVE Counters'
  OBVIOUS
<1> USE SessionBounds DEF Counters, bounds
<1>1. CASE UNCHANGED vars
  BY <1>1 DEF vars
<1>2. CASE OpenForm \/ CloseForm
  BY <1>2 DEF OpenForm, CloseForm
<1>3. CASE DeleteRuns
  BY <1>3 DEF DeleteRuns
<1>4. CASE SignOut
  BY <1>4 DEF SignOut
<1>5. CASE Stop
  BY <1>5 DEF Stop
<1>6. ASSUME NEW j \in Jobs, NEW k \in Kind, NEW p \in Person \cup {Nobody}, Start(j, k, p)
      PROVE  Counters'
  BY <1>6 DEF Start
<1>7. ASSUME NEW j \in Jobs,
             \/ WriteLands(j) \/ WriteFails(j) \/ Restore(j) \/ ReadEncrypted(j)
             \/ Fail(j) \/ Computed(j) \/ BunkerAnswers(j) \/ SpawnSigner(j)
             \/ Create(j) \/ SignerAnswers(j) \/ SignerFails(j)
      PROVE  Counters'
  BY <1>7 DEF WriteLands, WriteFails, Restore, ReadEncrypted, Fail, Computed,
     BunkerAnswers, SpawnSigner, Create, SignerAnswers, SignerFails
<1> QED
  BY <1>1, <1>2, <1>3, <1>4, <1>5, <1>6, <1>7 DEF Next, Submit, Unlock, Kind

\* The dialogs and what the run remembers of them.
LEMMA FlagsInv == Flags /\ [Next]_vars => Flags'
<1> SUFFICES ASSUME Flags, [Next]_vars PROVE Flags'
  OBVIOUS
<1> USE DEF Flags, dialogs, ghosts
<1>1. CASE UNCHANGED vars
  BY <1>1 DEF vars
<1>2. CASE OpenForm \/ CloseForm
  BY <1>2 DEF OpenForm, CloseForm
<1>3. CASE DeleteRuns \/ SignOut \/ Stop
  BY <1>3 DEF DeleteRuns, SignOut, Stop
<1>4. ASSUME NEW j \in Jobs, NEW k \in Kind, NEW p \in Person, Submit(j, k, p)
      PROVE  Flags'
  BY <1>4 DEF Submit, Start
<1>5. ASSUME NEW j \in Jobs, Unlock(j)
      PROVE  Flags'
  BY <1>5 DEF Unlock, Start
<1>6. ASSUME NEW j \in Jobs,
             \/ WriteLands(j) \/ WriteFails(j) \/ Restore(j) \/ ReadEncrypted(j)
             \/ Computed(j) \/ BunkerAnswers(j) \/ SignerAnswers(j) \/ SignerFails(j)
      PROVE  Flags'
  BY <1>6 DEF Becomes, WriteLands, WriteFails, Restore, ReadEncrypted, Computed,
     BunkerAnswers, SignerAnswers, SignerFails
<1>7. ASSUME NEW j \in Jobs, Fail(j)
      PROVE  Flags'
  BY <1>7 DEF Fail
<1>8. ASSUME NEW j \in Jobs, SpawnSigner(j) \/ Create(j)
      PROVE  Flags'
  BY <1>8 DEF Becomes, SpawnSigner, Create, CloseTop
<1> QED
  BY <1>1, <1>2, <1>3, <1>4, <1>5, <1>6, <1>7, <1>8 DEF Next

\* A step that changes one job leaves the others sound.
LEMMA OneJob ==
  ASSUME JobsOK, NEW j \in Jobs, NEW x \in Job, JobSound(x)
  PROVE  /\ [job EXCEPT ![j] = x] \in [Jobs -> Job]
         /\ \A i \in Jobs : JobSound([job EXCEPT ![j] = x][i])
  BY DEF JobsOK

\* Each step leaves every job with what it knew, or with what it has just learnt.
LEMMA JobsInv == IInv /\ [Next]_vars => JobsOK'
<1> SUFFICES ASSUME IInv, [Next]_vars PROVE JobsOK'
  OBVIOUS
<1>a. /\ JobsOK /\ Flags /\ People /\ Idle \in Job /\ JobSound(Idle)
      /\ \A j \in Jobs : job[j] \in Job /\ JobSound(job[j])
  BY IdleSound DEF IInv, JobsOK
<1>b. ASSUME NEW j \in Jobs, NEW x \in Job, JobSound(x), job' = [job EXCEPT ![j] = x]
      PROVE  JobsOK'
  BY <1>a, <1>b, OneJob DEF JobsOK
<1>c. ASSUME NEW j \in Jobs, NEW x \in Job, JobSound(x),
             \/ job' = [job EXCEPT ![j] = x] \/ job' = Hidden([job EXCEPT ![j] = x])
      PROVE  JobsOK'
  <2> DEFINE g == [job EXCEPT ![j] = x]
  <2>1. g \in [Jobs -> Job] /\ \A i \in Jobs : JobSound(g[i])
    BY <1>a, <1>c, OneJob
  <2>2. job' = g \/ job' = Hidden(g)
    BY <1>c
  <2> HIDE DEF g
  <2>3. Hidden(g) \in [Jobs -> Job] /\ \A i \in Jobs : JobSound(Hidden(g)[i])
    BY <2>1, HiddenSound
  <2> QED
    BY <2>1, <2>2, <2>3 DEF JobsOK
<1>1. CASE UNCHANGED job
  BY <1>1, <1>a DEF JobsOK
<1>2. CASE CloseForm
  BY <1>2, <1>a, HiddenSound DEF CloseForm, JobsOK
<1>3. CASE Stop
  <2>1. Started("restore", Nobody) \in Job /\ JobSound(Started("restore", Nobody))
    BY StartedSound DEF Kind
  <2> QED
    BY <1>3, <1>a, <2>1 DEF Stop, JobsOK
<1>4. ASSUME NEW j \in Jobs, NEW k \in Kind \ {"restore", "unlock"}, NEW p \in Person,
             Submit(j, k, p)
      PROVE  JobsOK'
  <2>1. Started(k, p) \in Job /\ JobSound(Started(k, p))
    BY StartedSound
  <2> QED
    BY <1>4, <1>b, <2>1 DEF Submit, Start
<1>5. ASSUME NEW j \in Jobs, Unlock(j)
      PROVE  JobsOK'
  <2>1. Started("unlock", Nobody) \in Job /\ JobSound(Started("unlock", Nobody))
    BY StartedSound DEF Kind
  <2> QED
    BY <1>5, <1>b, <2>1 DEF Unlock, Start
<1>6. ASSUME NEW j \in Jobs, WriteLands(j)
      PROVE  JobsOK'
  <2> DEFINE x == [job[j] EXCEPT !.write = "done"]
  <2>1. x \in Job /\ JobSound(x)
    BY <1>6, <1>a DEF WriteLands, Job, JobSound, Idle
  <2> QED
    BY <1>6, <1>b, <2>1 DEF WriteLands
<1>7. ASSUME NEW j \in Jobs, WriteFails(j)
      PROVE  JobsOK'
  <2> DEFINE x == [job[j] EXCEPT !.write = "failed"]
  <2>1. x \in Job /\ JobSound(x)
    BY <1>7, <1>a DEF WriteFails, Job, JobSound, Idle
  <2> QED
    BY <1>7, <1>b, <2>1 DEF WriteFails
<1>8. ASSUME NEW j \in Jobs, Restore(j)
      PROVE  JobsOK'
  <2> DEFINE x == [job[j] EXCEPT !.at = "signer", !.of = keyring.of]
  <2>1. keyring.kind = "bunker" => keyring.of \in Person
    BY <1>a DEF People, Credential, NoCredential
  <2>2. keyring.kind = "bunker" => x \in Job /\ JobSound(x)
    BY <1>8, <1>a, <2>1 DEF Restore, Job, JobSound, Kind
  <2>3. \/ job' = [job EXCEPT ![j] = Idle]
        \/ keyring.kind = "bunker" /\ job' = [job EXCEPT ![j] = x]
    BY <1>8 DEF Restore, Ends
  <2> QED
    BY <1>a, <1>b, <2>2, <2>3
<1>9. ASSUME NEW j \in Jobs, ReadEncrypted(j)
      PROVE  JobsOK'
  <2> DEFINE x == [job[j] EXCEPT !.at = "crypto", !.of = keyring.of]
  <2>1. keyring.of \in Person
    BY <1>9, <1>a DEF ReadEncrypted, People, Credential, NoCredential
  <2>2. x \in Job /\ JobSound(x)
    BY <1>9, <1>a, <2>1 DEF ReadEncrypted, Job, JobSound, Kind
  <2> QED
    BY <1>9, <1>b, <2>2 DEF ReadEncrypted
<1>10. ASSUME NEW j \in Jobs, Fail(j) \/ SignerAnswers(j) \/ SignerFails(j)
       PROVE  JobsOK'
  BY <1>10, <1>a, <1>b DEF Fail, SignerAnswers, SignerFails, Ends
<1>11. ASSUME NEW j \in Jobs, Computed(j)
       PROVE  JobsOK'
  <2> DEFINE x == [job[j] EXCEPT !.at = "write", !.write = "pending"]
  <2>1. x \in Job /\ JobSound(x)
    BY <1>11, <1>a DEF Computed, Job, JobSound, Kind
  <2> QED
    BY <1>11, <1>b, <2>1 DEF Computed
<1>12. ASSUME NEW j \in Jobs, BunkerAnswers(j)
       PROVE  JobsOK'
  <2> DEFINE x == [job[j] EXCEPT !.at = "write"]
  <2>1. x \in Job /\ JobSound(x)
    BY <1>12, <1>a DEF BunkerAnswers, Job, JobSound, Kind
  <2> QED
    BY <1>12, <1>b, <2>1 DEF BunkerAnswers
<1>13. ASSUME NEW j \in Jobs, SpawnSigner(j)
       PROVE  JobsOK'
  <2> DEFINE x == [job[j] EXCEPT !.at = "signer"]
  <2>1. x \in Job /\ JobSound(x)
    BY <1>13, <1>a DEF SpawnSigner, HandsOver, Job, JobSound, Kind
  <2> QED
    BY <1>13, <1>c, <2>1 DEF SpawnSigner, CloseTop
<1>14. ASSUME NEW j \in Jobs, Create(j)
       PROVE  JobsOK'
  BY <1>14, <1>a, <1>c DEF Create, CloseTop
<1>15. OpenForm \/ DeleteRuns \/ SignOut \/ UNCHANGED vars => UNCHANGED job
  BY DEF OpenForm, DeleteRuns, SignOut, vars
<1> QED
  BY <1>1, <1>2, <1>3, <1>4, <1>5, <1>6, <1>7, <1>8, <1>9, <1>10, <1>11, <1>12,
     <1>13, <1>14, <1>15 DEF Next

\* Whoever is signed in, pending or in the keyring is a person or nobody.
LEMMA PeopleInv == IInv /\ [Next]_vars => People'
<1> SUFFICES ASSUME IInv, [Next]_vars PROVE People'
  OBVIOUS
<1>a. /\ People
      /\ \A j \in Jobs : JobSound(job[j]) /\ job[j] \in Job
  BY DEF IInv, JobsOK
<1>b. ASSUME NEW j \in Jobs, job[j].at \notin {"idle", "keyring"}
      PROVE  job[j].of \in Person /\ Stored(job[j].kind, job[j].of) \in Credential
  BY <1>a, <1>b DEF JobSound, Stored, Credential
<1>c. ASSUME NEW j \in Jobs, job[j].write # "none"
      PROVE  job[j].at \notin {"idle", "keyring"}
  BY <1>a, <1>c DEF JobSound, Idle
<1> USE DEF People, who, dialogs, ghosts
<1>1. CASE UNCHANGED vars
  BY <1>1, <1>a DEF vars
<1>2. CASE OpenForm \/ CloseForm
  BY <1>2, <1>a DEF OpenForm, CloseForm
<1>3. CASE DeleteRuns
  BY <1>3, <1>a DEF DeleteRuns
<1>4. CASE SignOut \/ Stop
  BY <1>4, <1>a DEF SignOut, Stop
<1>5. ASSUME NEW j \in Jobs, NEW k \in Kind, NEW p \in Person \cup {Nobody}, Start(j, k, p)
      PROVE  People'
  BY <1>5, <1>a DEF Start
<1>6. ASSUME NEW j \in Jobs, WriteLands(j)
      PROVE  People'
  BY <1>6, <1>a, <1>b, <1>c DEF WriteLands
<1>7. ASSUME NEW j \in Jobs,
             \/ WriteFails(j) \/ Restore(j) \/ ReadEncrypted(j)
             \/ Computed(j) \/ SpawnSigner(j) \/ SignerFails(j)
      PROVE  People'
  BY <1>7, <1>a DEF WriteFails, Restore, ReadEncrypted, Computed,
     SpawnSigner, SignerFails
<1>8. ASSUME NEW j \in Jobs, Fail(j)
      PROVE  People'
  BY <1>8, <1>a, <1>b, <1>c DEF Fail
<1>9. ASSUME NEW j \in Jobs, BunkerAnswers(j) \/ Create(j) \/ SignerAnswers(j)
      PROVE  People'
  BY <1>9, <1>a, <1>b DEF BunkerAnswers, Create, SignerAnswers, Becomes
<1> QED
  BY <1>1, <1>2, <1>3, <1>4, <1>5, <1>6, <1>7, <1>8, <1>9 DEF Next, Submit, Unlock, Kind

\* Every step keeps the invariant.
LEMMA NextInv == IInv /\ [Next]_vars => IInv'
  BY CountersInv, FlagsInv, JobsInv, PeopleInv DEF IInv

\* So it holds always.
LEMMA AlwaysIInv == Spec => []IInv
  BY InitInv, NextInv, PTL DEF Spec

\* All state of the session is well typed, and the deletions of a sign-out do
\* not outnumber the sign-outs.
THEOREM TypeCorrect == Spec => []TypeOK
  BY AlwaysIInv, IInvType, PTL

-----------------------------------------------------------------------------
(* The register *)

JobsOf(f, p) == {j \in Jobs : f[j].of = p}
OpenFor(f) == [p \in Person |-> Cardinality(JobsOf(f, p))]

\* The jobs for somebody can be counted.
LEMMA JobsOfFinite ==
  ASSUME NEW f, NEW p
  PROVE  IsFiniteSet(JobsOf(f, p)) /\ Cardinality(JobsOf(f, p)) \in Nat
<1>1. IsFiniteSet(Jobs)
  BY FS_Interval, SessionBounds DEF Jobs
<1>2. IsFiniteSet(JobsOf(f, p))
  BY <1>1, FS_Subset DEF JobsOf
<1> QED
  BY <1>2, FS_CardinalityType

\* Jobs of the same people are the same requests.
LEMMA SameRequests ==
  ASSUME NEW f, NEW g, \A j \in Jobs : g[j].of = f[j].of
  PROVE  OpenFor(g) = OpenFor(f)
<1>1. \A p \in Person : JobsOf(g, p) = JobsOf(f, p)
  BY DEF JobsOf
<1> QED
  BY <1>1 DEF OpenFor

\* A job that learns whom it is for is one request more.
LEMMA OneMore ==
  ASSUME NEW f, NEW g, NEW j \in Jobs, NEW p \in Person,
         f[j].of = Nobody, g[j].of = p,
         \A i \in Jobs \ {j} : g[i].of = f[i].of
  PROVE  OpenFor(g) = [OpenFor(f) EXCEPT ![p] = @ + 1]
<1>1. JobsOf(g, p) = JobsOf(f, p) \cup {j} /\ j \notin JobsOf(f, p)
  BY SessionBounds DEF JobsOf
<1>2. Cardinality(JobsOf(g, p)) = Cardinality(JobsOf(f, p)) + 1
  BY <1>1, JobsOfFinite, FS_AddElement
<1>3. \A q \in Person \ {p} : JobsOf(g, q) = JobsOf(f, q)
  BY SessionBounds DEF JobsOf
<1> QED
  BY <1>2, <1>3 DEF OpenFor

\* A job that ends is one request less.
LEMMA OneLess ==
  ASSUME NEW f, NEW g, NEW j \in Jobs, NEW p \in Person,
         f[j].of = p, g[j].of = Nobody,
         \A i \in Jobs \ {j} : g[i].of = f[i].of
  PROVE  /\ OpenFor(f)[p] > 0
         /\ OpenFor(g) = [OpenFor(f) EXCEPT ![p] = @ - 1]
<1>1. JobsOf(g, p) = JobsOf(f, p) \ {j} /\ j \in JobsOf(f, p)
  BY SessionBounds DEF JobsOf
<1>2. Cardinality(JobsOf(g, p)) = Cardinality(JobsOf(f, p)) - 1
  <2>1. IsFiniteSet(JobsOf(f, p))
    BY JobsOfFinite
  <2>2. Cardinality(JobsOf(f, p) \ {j}) = Cardinality(JobsOf(f, p)) - 1
    BY <1>1, <2>1, FS_RemoveElement
  <2> QED
    BY <1>1, <2>2
<1>3. \A q \in Person \ {p} : JobsOf(g, q) = JobsOf(f, q)
  BY SessionBounds DEF JobsOf
<1>4. Cardinality(JobsOf(g, p)) \in Nat /\ Cardinality(JobsOf(f, p)) \in Nat
  BY JobsOfFinite
<1>5. OpenFor(f)[p] > 0 /\ OpenFor(g)[p] = OpenFor(f)[p] - 1
  BY <1>2, <1>4 DEF OpenFor
<1>6. \A q \in Person \ {p} : OpenFor(g)[q] = OpenFor(f)[q]
  BY <1>3 DEF OpenFor
<1>7. OpenFor(g) = [q \in Person |-> OpenFor(g)[q]] /\ OpenFor(f) = [q \in Person |-> OpenFor(f)[q]]
  BY DEF OpenFor
<1> QED
  BY <1>5, <1>6, <1>7

\* Nobody's jobs are no requests.
LEMMA NoneOpen ==
  ASSUME NEW f, \A j \in Jobs : f[j].of = Nobody
  PROVE  OpenFor(f) = [p \in Person |-> 0]
<1>1. \A p \in Person : JobsOf(f, p) = {}
  BY SessionBounds DEF JobsOf
<1> QED
  BY <1>1, FS_EmptySet DEF OpenFor

\* A refusal of one open request, whoever's.
LEMMA Ending ==
  ASSUME IInv, NEW j \in Jobs, NEW g, g[j].of = Nobody,
         \A i \in Jobs \ {j} : g[i].of = job[i].of
  PROVE  \/ OpenFor(g) = OpenFor(job)
         \/ \E p \in Person : /\ OpenFor(job)[p] > 0
                             /\ OpenFor(g) = [OpenFor(job) EXCEPT ![p] = @ - 1]
<1>1. job[j].of \in Person \cup {Nobody}
  BY DEF IInv, JobsOK, Job
<1>2. CASE job[j].of = Nobody
  BY <1>2, SameRequests
<1>3. CASE job[j].of \in Person
  BY <1>3, OneLess
<1> QED
  BY <1>1, <1>2, <1>3

\* Every step of the session is one of the register, or none.
LEMMA RegisterNext ==
  ASSUME IInv, Next
  PROVE  \/ user' = user /\ OpenFor(job') = OpenFor(job)
         \/ \E p \in Person : user' = user /\ OpenFor(job') = [OpenFor(job) EXCEPT ![p] = @ + 1]
         \/ \E p \in Person : /\ user' \in {user, p} /\ OpenFor(job)[p] > 0
                             /\ OpenFor(job') = [OpenFor(job) EXCEPT ![p] = @ - 1]
         \/ user' = Nobody /\ OpenFor(job') = OpenFor(job)
         \/ user' = Nobody /\ OpenFor(job') = [p \in Person |-> 0]
<1> DEFINE Kept == user' = user /\ OpenFor(job') = OpenFor(job)
           Asked == \E p \in Person :
             user' = user /\ OpenFor(job') = [OpenFor(job) EXCEPT ![p] = @ + 1]
           Closed == \E p \in Person :
             /\ user' \in {user, p} /\ OpenFor(job)[p] > 0
             /\ OpenFor(job') = [OpenFor(job) EXCEPT ![p] = @ - 1]
<1>a. /\ job \in [Jobs -> Job] /\ Nobody \notin Person
      /\ \A j \in Jobs : JobSound(job[j]) /\ job[j] \in Job
  BY SessionBounds DEF IInv, JobsOK
<1>b. ASSUME \A j \in Jobs : job'[j].of = job[j].of
      PROVE  OpenFor(job') = OpenFor(job)
  BY <1>b, SameRequests
<1>c. \A f \in [Jobs -> Job] : \A j \in Jobs : Hidden(f)[j].of = f[j].of
  BY DEF Hidden, Job
<1>1. CASE OpenForm \/ DeleteRuns
  BY <1>1 DEF OpenForm, DeleteRuns, who
<1>2. CASE CloseForm
  BY <1>2, <1>a, <1>b, <1>c DEF CloseForm, who
<1>3. CASE SignOut
  BY <1>3 DEF SignOut
<1>4. CASE Stop
  <2>1. \A j \in Jobs : job'[j].of = Nobody
    BY <1>4 DEF Stop, Started, Idle
  <2> QED
    BY <1>4, <2>1, NoneOpen DEF Stop
<1>5. ASSUME NEW j \in Jobs, NEW k \in Kind, NEW p \in Person \cup {Nobody}, Start(j, k, p)
      PROVE  Kept \/ Asked
  <2>1. job[j].of = Nobody /\ job'[j].of = p /\ user' = user
    BY <1>5, <1>a DEF Start, Started, Idle, who
  <2>2. \A i \in Jobs \ {j} : job'[i].of = job[i].of
    BY <1>5, <1>a DEF Start
  <2>3. CASE p = Nobody
    BY <2>1, <2>2, <2>3, <1>b
  <2>4. CASE p \in Person
    BY <2>1, <2>2, <2>4, OneMore
  <2> QED
    BY <2>3, <2>4
<1>6. ASSUME NEW j \in Jobs, WriteLands(j) \/ WriteFails(j) \/ Computed(j) \/ BunkerAnswers(j)
      PROVE  Kept
  <2>1. \A i \in Jobs : job'[i].of = job[i].of
    BY <1>6, <1>a DEF WriteLands, WriteFails, Computed, BunkerAnswers, Job
  <2> QED
    BY <1>6, <2>1, <1>b DEF WriteLands, WriteFails, Computed, BunkerAnswers, who
<1>7. ASSUME NEW j \in Jobs, SpawnSigner(j)
      PROVE  Kept
  <2> DEFINE g == [job EXCEPT ![j].at = "signer"]
  <2>1. g \in [Jobs -> Job] /\ \A i \in Jobs : g[i].of = job[i].of
    BY <1>a DEF Job
  <2>0. job' = g \/ job' = Hidden(g)
    BY <1>7 DEF SpawnSigner, CloseTop
  <2> HIDE DEF g
  <2>2. \A i \in Jobs : job'[i].of = job[i].of
    BY <2>0, <1>c, <2>1
  <2> QED
    BY <1>7, <2>2, <1>b DEF SpawnSigner, who
<1>8. ASSUME NEW j \in Jobs, Restore(j) \/ ReadEncrypted(j)
      PROVE  Kept \/ Asked
  <2>1. job[j].of = Nobody /\ user' = user
    BY <1>8, <1>a DEF Restore, ReadEncrypted, JobSound, who
  <2>2. \A i \in Jobs \ {j} : job'[i].of = job[i].of
    BY <1>8, <1>a DEF Restore, ReadEncrypted, Ends
  <2>3. job'[j].of = Nobody \/ job'[j].of \in Person
    <3>1. job'[j].of = Nobody
          \/ (keyring.kind \in {"bunker", "ncryptsec"} /\ job'[j].of = keyring.of)
      BY <1>8, <1>a DEF Restore, ReadEncrypted, Ends, Idle, Job
    <3> QED
      BY <3>1 DEF IInv, People, Credential, NoCredential
  <2>4. CASE job'[j].of = Nobody
    BY <2>1, <2>2, <2>4, <1>b
  <2>5. CASE job'[j].of \in Person
    BY <2>1, <2>2, <2>5, OneMore
  <2> QED
    BY <2>3, <2>4, <2>5
<1>9. ASSUME NEW j \in Jobs, Fail(j) \/ SignerFails(j)
      PROVE  Kept \/ Closed
  <2>1. job'[j].of = Nobody /\ \A i \in Jobs \ {j} : job'[i].of = job[i].of
    BY <1>9, <1>a DEF Fail, SignerFails, Ends, Idle
  <2>2. user' = user
    BY <1>9 DEF Fail, SignerFails, who
  <2> QED
    BY <2>1, <2>2, Ending
<1>10. ASSUME NEW j \in Jobs, SignerAnswers(j) \/ Create(j)
       PROVE  Closed
  <2>1. job[j].of \in Person /\ user' = job[j].of
    BY <1>10, <1>a DEF SignerAnswers, Create, Becomes, JobSound
  <2>2. job' = [job EXCEPT ![j] = Idle] \/ job' = Hidden([job EXCEPT ![j] = Idle])
    BY <1>10 DEF SignerAnswers, Create, Ends, CloseTop
  <2>0. [job EXCEPT ![j] = Idle] \in [Jobs -> Job]
    BY <1>a, IdleSound
  <2>3. job'[j].of = Nobody /\ \A i \in Jobs \ {j} : job'[i].of = job[i].of
    BY <2>0, <2>2, <1>a, <1>c DEF Idle
  <2> QED
    BY <2>1, <2>3, OneLess
<1> QED
  BY <1>1, <1>2, <1>3, <1>4, <1>5, <1>6, <1>7, <1>8, <1>9, <1>10 DEF Next, Submit, Unlock, Kind

\* Sign-ins of every kind, overlapping as they may with each other, with
\* sign-outs and with stops of the process, implement the register: nobody is
\* signed in who was not asked for, and each request signs in at most once.
THEOREM ImplementsRegister == Spec => ImplementsIdentity
<1>1. Init => Register!Init
  <2> SUFFICES ASSUME Init PROVE Register!Init
    OBVIOUS
  <2>1. \A j \in Jobs : job[j].of = Nobody
    BY DEF Init, Started, Idle
  <2> QED
    BY <2>1, NoneOpen DEF Init, Register!Init, OpenFor, JobsOf
<1>2. IInv /\ [Next]_vars => [Register!Next]_(Register!vars)
  <2> SUFFICES ASSUME IInv, [Next]_vars PROVE [Register!Next]_(Register!vars)
    OBVIOUS
  <2>1. CASE UNCHANGED vars
    BY <2>1 DEF vars, who, Register!vars
  <2>2. CASE Next
    BY <2>2, RegisterNext
    DEF OpenFor, JobsOf, Register!Next, Register!vars, Register!Ask,
        Register!Grant, Register!Refuse, Register!SignOut, Register!Forget
  <2> QED
    BY <2>1, <2>2
<1> QED
  BY <1>1, <1>2, AlwaysIInv, PTL DEF Spec, ImplementsIdentity, Register!Spec

-----------------------------------------------------------------------------
(* The keyring *)

LEMMA LiveAt == JobsOK => Live = {j \in Jobs : job[j].at # "idle"}
<1> SUFFICES ASSUME JobsOK, NEW j \in Jobs
             PROVE  job[j] = Idle <=> job[j].at = "idle"
  BY DEF Live
<1>1. Idle.at = "idle"
  BY DEF Idle
<1>2. JobSound(job[j])
  BY DEF JobsOK
<1> QED
  BY <1>1, <1>2 DEF JobSound

\* The same after a step.
LEMMA LiveAtNext == (JobsOK => Live = {j \in Jobs : job[j].at # "idle"})'
  BY LiveAt, PTL

\* Nothing has overlapped at the start.
LEMMA InitAgrees == Init => Agreement
<1> SUFFICES ASSUME Init PROVE Agreement
  OBVIOUS
<1>1. JobsOK
  BY InitInv DEF IInv
<1>2. \A j \in Live : j = 1 /\ job[j].of = Nobody /\ job[j].write = "none"
  BY DEF Init, Live, Started, Idle
<1> QED
  BY <1>2, SessionBounds DEF Init, Agreement, JobAgrees

\* The step that ends the only job: what is left to show is about the keyring.
LEMMA AllEnd ==
  ASSUME IInv, IInv', Agreement, ~excused, NEW j \in Jobs, job[j].at # "idle",
         \A i \in Jobs \ {j} : job'[i].at = job[i].at, job'[j].at = "idle",
         deletes' = deletes, left' = left, lost' = lost,
         (user' # Nobody /\ ~stranded') => keyring'.of = user',
         (left /\ ~lost) => keyring' = NoCredential /\ user' = Nobody
  PROVE  Agreement'
<1>1. Live = {i \in Jobs : job[i].at # "idle"} /\ Live' = {i \in Jobs : job'[i].at # "idle"}
  BY LiveAt, LiveAtNext DEF IInv
<1>2. Live' = {} /\ Live # {}
  BY <1>1 DEF Agreement
<1>3. (left' /\ ~lost' /\ deletes' = 0) => Gone'
  BY <1>2 DEF Agreement, Gone
<1> QED
  BY <1>2, <1>3 DEF Agreement

\* A step that moves the only job and nothing else but the keyring.
LEMMA OneMoves ==
  ASSUME IInv, IInv', Agreement, ~excused, NEW j \in Jobs, job[j].at # "idle",
         \A i \in Jobs \ {j} : job'[i].at = job[i].at, job'[j].at # "idle",
         deletes' = deletes, left' = left, lost' = lost,
         JobAgrees(job[j]) => JobAgrees(job[j])', left => lost
  PROVE  Agreement'
<1>1. Live = {i \in Jobs : job[i].at # "idle"} /\ Live' = {i \in Jobs : job'[i].at # "idle"}
  BY LiveAt, LiveAtNext DEF IInv
<1>2. Live' = {j} /\ Live = {j}
  BY <1>1 DEF Agreement
<1> QED
  BY <1>2 DEF Agreement

\* A step that starts the only job.
LEMMA OneStarts ==
  ASSUME IInv', Agreement, ~excused, Live = {}, deletes' = 0, NEW j \in Jobs,
         \A i \in Jobs \ {j} : job'[i].at = "idle", job'[j].at # "idle",
         ~left', JobAgrees(job[j])'
  PROVE  Agreement'
<1>1. Live' = {i \in Jobs : job'[i].at # "idle"}
  BY LiveAtNext DEF IInv
<1>2. Live' = {j}
  BY <1>1
<1> QED
  BY <1>2 DEF Agreement

\* A step that leaves every job where it is, whatever its dialog does.
LEMMA NoneMoves ==
  ASSUME IInv, IInv', Agreement, ~excused,
         \A i \in Jobs : /\ job'[i].at = job[i].at /\ job'[i].of = job[i].of
                         /\ job'[i].kind = job[i].kind /\ job'[i].write = job[i].write,
         UNCHANGED <<user, keyring, deletes, left, lost, stranded>>
  PROVE  Agreement'
<1>1. Live = {i \in Jobs : job[i].at # "idle"} /\ Live' = {i \in Jobs : job'[i].at # "idle"}
  BY LiveAt, LiveAtNext DEF IInv
<1>2. Live' = Live
  BY <1>1
<1>3. \A i \in Live : JobAgrees(job[i]) => JobAgrees(job[i])'
  BY DEF JobAgrees, Live
<1>4. Gone => Gone'
  BY <1>2 DEF Gone, Live
<1> QED
  BY <1>2, <1>3, <1>4 DEF Agreement

\* A step without an overlap keeps what the only job knows of the keyring.
LEMMA NextAgrees == IInv /\ Agreement /\ [Next]_vars => Agreement'
<1> SUFFICES ASSUME IInv, Agreement, [Next]_vars, ~excused' PROVE Agreement'
  BY DEF Agreement
<1>i. IInv'
  BY NextInv
<1>e. ~excused
  BY DEF Next, vars, ghosts, bounds, OpenForm, CloseForm, DeleteRuns, SignOut, Stop,
     Submit, Unlock, Start, WriteLands, WriteFails, Restore, ReadEncrypted, Fail,
     Computed, BunkerAnswers, SpawnSigner, Create, SignerAnswers, SignerFails, Becomes
<1>a. /\ job \in [Jobs -> Job] /\ deletes \in Nat
      /\ \A j \in Jobs : JobSound(job[j]) /\ job[j] \in Job
      /\ Nobody \notin Person
  BY SessionBounds DEF IInv, JobsOK, Counters
<1>l. Live = {i \in Jobs : job[i].at # "idle"}
  BY LiveAt DEF IInv
<1>w. ASSUME NEW j \in Jobs, job[j].at # "idle"
      PROVE  JobAgrees(job[j])
  BY <1>w, <1>l, <1>e DEF Agreement
<1>g. ASSUME NEW j \in Jobs, job[j].at # "idle", left, ~lost
      PROVE  /\ keyring = NoCredential /\ user = Nobody
             /\ job[j].kind = "restore" /\ job[j].at = "keyring"
  BY <1>g, <1>l, <1>e DEF Agreement, Gone
<1>1. CASE UNCHANGED vars
  BY <1>1, <1>i, <1>e, NoneMoves DEF vars, who, ghosts
<1>2. CASE OpenForm
  BY <1>2, <1>i, <1>e, NoneMoves DEF OpenForm, who, ghosts
<1>3. CASE CloseForm
  <2>1. \A i \in Jobs : /\ job'[i].at = job[i].at /\ job'[i].of = job[i].of
                        /\ job'[i].kind = job[i].kind /\ job'[i].write = job[i].write
    BY <1>3, <1>a, HiddenSound DEF CloseForm
  <2> QED
    BY <1>3, <1>i, <1>e, <2>1, NoneMoves DEF CloseForm, who, ghosts
<1>4. CASE DeleteRuns
  <2>1. Live = {} /\ user = Nobody
    BY <1>4, <1>a, <1>e DEF DeleteRuns, Agreement
  <2>2. Live' = Live /\ user' = user
    BY <1>4 DEF DeleteRuns, Live, who
  <2>3. keyring' = NoCredential \/ lost' = TRUE
    BY <1>4 DEF DeleteRuns
  <2> QED
    BY <2>1, <2>2, <2>3 DEF Agreement, Gone
<1>5. CASE SignOut
  <2>1. Live = {}
    BY <1>5 DEF SignOut
  <2>2. Live' = Live /\ user' = Nobody /\ deletes' = deletes + 1
    BY <1>5 DEF SignOut, Live
  <2> QED
    BY <1>a, <2>1, <2>2 DEF Agreement
<1>6. CASE Stop
  <2>1. /\ 1 \in Jobs /\ deletes' = 0 /\ user' = Nobody /\ keyring' = keyring
        /\ left' = left /\ lost' = (lost \/ deletes > 0)
    BY <1>6, SessionBounds DEF Stop, Jobs
  <2>2. /\ job'[1] = Started("restore", Nobody)
        /\ \A i \in Jobs \ {1} : job'[i] = Idle
    BY <1>6, <2>1 DEF Stop
  <2>3. /\ job'[1].of = Nobody /\ job'[1].at = "keyring" /\ job'[1].write = "none"
        /\ job'[1].kind = "restore"
        /\ \A i \in Jobs \ {1} : job'[i].at = "idle"
    BY <2>2 DEF Started, Idle
  <2>4. Live' = {1}
    BY <1>i, <2>1, <2>3, LiveAtNext DEF IInv
  <2>5. JobAgrees(job[1])'
    BY <1>a, <2>1, <2>3 DEF JobAgrees
  <2>6. (left' /\ ~lost') => Gone'
    <3> SUFFICES ASSUME left', ~lost' PROVE Gone'
      OBVIOUS
    <3>0. left /\ ~lost /\ ~(deletes > 0)
      BY <2>1, Zenon
    <3>1. Gone
      BY <1>a, <1>e, <3>0 DEF Agreement
    <3> QED
      BY <2>1, <2>3, <2>4, <3>1 DEF Gone
  <2> QED
    BY <2>1, <2>4, <2>5, <2>6 DEF Agreement
<1>7. ASSUME NEW j \in Jobs, NEW k \in Kind, NEW p \in Person \cup {Nobody}, Start(j, k, p),
             k \in {"restore", "unlock"} => p = Nobody,
             k \notin {"restore", "unlock"} => p \in Person
      PROVE  Agreement'
  <2>0. ~(excused \/ Live # {} \/ deletes > 0) /\ left' = FALSE
    BY <1>7, Zenon DEF Start
  <2>1. /\ Live = {} /\ deletes' = 0 /\ ~left' /\ user' = user /\ keyring' = keyring
        /\ stranded' = stranded
    BY <1>7, <1>a, <2>0 DEF Start, who
  <2>2. job'[j] = Started(k, p) /\ \A i \in Jobs \ {j} : job'[i] = job[i]
    BY <1>7, <1>a DEF Start
  <2>3. /\ job'[j].at # "idle" /\ job'[j].of = p /\ job'[j].kind = k
        /\ job'[j].write # "done"
    BY <1>7, <2>2, StartedSound
  <2>4. \A i \in Jobs \ {j} : job'[i].at = "idle"
    BY <1>l, <2>1, <2>2
  <2>5. (user # Nobody /\ ~stranded) => keyring.of = user
    BY <1>e, <2>1 DEF Agreement
  <2>6. JobAgrees(job[j])'
    BY <1>7, <1>a, <2>1, <2>3, <2>5 DEF JobAgrees
  <2> QED
    BY <1>i, <1>e, <2>1, <2>3, <2>4, <2>6, OneStarts
<1>8. ASSUME NEW j \in Jobs,
             \/ WriteLands(j) \/ WriteFails(j) \/ Computed(j) \/ BunkerAnswers(j)
             \/ ReadEncrypted(j)
      PROVE  Agreement'
  <2>1. job[j].at # "idle"
    BY <1>8, <1>a DEF WriteLands, WriteFails, Computed, BunkerAnswers, ReadEncrypted,
       JobSound, Idle
  <2>2. /\ \A i \in Jobs \ {j} : job'[i] = job[i]
        /\ job'[j].at # "idle" /\ job'[j].kind = job[j].kind
        /\ job'[j].of = job[j].of \/ (ReadEncrypted(j) /\ job'[j].of = keyring.of)
        /\ user' = user
        /\ UNCHANGED <<deletes, left, lost, stranded>>
    BY <1>8, <1>a, <2>1 DEF WriteLands, WriteFails, Computed, BunkerAnswers,
       ReadEncrypted, who, ghosts, Job
  <2>3. JobAgrees(job[j])'
    <3>1. CASE WriteLands(j)
      <4>1. /\ job'[j].write = "done" /\ keyring'.of = job[j].of /\ job'[j].of = job[j].of
        BY <3>1, <1>a DEF WriteLands, Stored, Job
      <4> QED
        BY <4>1 DEF JobAgrees
    <3>2. CASE WriteFails(j)
      <4>1. /\ job'[j].write = "failed" /\ keyring' = keyring
            /\ job'[j].of = job[j].of /\ job[j].write = "pending"
        BY <3>2, <1>a DEF WriteFails, Job
      <4> QED
        BY <4>1, <2>1, <2>2, <1>w DEF JobAgrees
    <3>3. CASE Computed(j)
      <4>1. /\ job'[j].write = "pending" /\ keyring' = keyring
            /\ job'[j].of = job[j].of /\ job[j].write = "none"
        BY <3>3, <1>a DEF Computed, Job, JobSound
      <4> QED
        BY <4>1, <2>1, <2>2, <1>w DEF JobAgrees
    <3>4. CASE BunkerAnswers(j)
      <4>1. /\ job'[j].write = job[j].write /\ keyring' = keyring
            /\ job'[j].of = job[j].of
        BY <3>4, <1>a DEF BunkerAnswers, Job
      <4> QED
        BY <4>1, <2>1, <2>2, <1>w DEF JobAgrees
    <3>5. CASE ReadEncrypted(j)
      <4>1. /\ job'[j].write = "none" /\ job[j].write = "none" /\ keyring' = keyring
            /\ job'[j].of = keyring.of
        BY <3>5, <1>a DEF ReadEncrypted, Job, JobSound
      <4> QED
        BY <4>1, <2>1, <2>2, <1>w DEF JobAgrees
    <3> QED
      BY <1>8, <3>1, <3>2, <3>3, <3>4, <3>5
  <2>4. left => lost
    BY <1>8, <1>a, <1>g, <2>1 DEF WriteLands, WriteFails, Computed, BunkerAnswers,
       ReadEncrypted, JobSound
  <2> QED
    BY <1>i, <1>e, <2>1, <2>2, <2>3, <2>4, OneMoves
<1>9. ASSUME NEW j \in Jobs, SpawnSigner(j)
      PROVE  Agreement'
  <2> DEFINE g == [job EXCEPT ![j].at = "signer"]
  <2>1. /\ g \in [Jobs -> Job] /\ g[j].at = "signer"
        /\ \A i \in Jobs \ {j} : g[i] = job[i]
        /\ g[j].of = job[j].of /\ g[j].kind = job[j].kind /\ g[j].write = job[j].write
    BY <1>a DEF Job
  <2>2. job' = g \/ job' = Hidden(g)
    BY <1>9 DEF SpawnSigner, CloseTop
  <2> HIDE DEF g
  <2>3. /\ job'[j].at = "signer"
        /\ \A i \in Jobs \ {j} : job'[i].at = job[i].at
        /\ job'[j].of = job[j].of /\ job'[j].kind = job[j].kind
        /\ job'[j].write = job[j].write
    <3>1. \A i \in Jobs :
            /\ Hidden(g)[i].of = g[i].of /\ Hidden(g)[i].at = g[i].at
            /\ Hidden(g)[i].kind = g[i].kind /\ Hidden(g)[i].write = g[i].write
      BY <2>1 DEF Hidden, Job
    <3> QED
      BY <2>1, <2>2, <3>1
  <2>4. user' = user /\ UNCHANGED <<keyring, deletes, left, lost, stranded>>
    BY <1>9 DEF SpawnSigner, who, ghosts
  <2>5. job[j].at # "idle"
    BY <1>9, <1>a DEF SpawnSigner, HandsOver
  <2>6. JobAgrees(job[j]) => JobAgrees(job[j])'
    BY <2>3, <2>4 DEF JobAgrees
  <2>7. left => lost
    BY <1>9, <1>g, <2>5 DEF SpawnSigner, HandsOver
  <2> QED
    BY <1>i, <1>e, <2>3, <2>4, <2>5, <2>6, <2>7, OneMoves
<1>10. ASSUME NEW j \in Jobs, Restore(j)
       PROVE  Agreement'
  <2>1. /\ job[j].at = "keyring" /\ job[j].kind = "restore" /\ job[j].write = "none"
        /\ user' = user /\ UNCHANGED <<keyring, deletes, left, lost, stranded>>
    BY <1>10, <1>a DEF Restore, JobSound, who, ghosts
  <2>2. /\ (user # Nobody /\ ~stranded) => keyring.of = user
        /\ (left /\ ~lost) => keyring = NoCredential /\ user = Nobody
    BY <2>1, <1>w, <1>g DEF JobAgrees
  <2>3. CASE job' = [job EXCEPT ![j] = Idle]
    <3>1. job'[j].at = "idle" /\ \A i \in Jobs \ {j} : job'[i].at = job[i].at
      BY <2>3, <1>a DEF Idle
    <3> QED
      BY <1>i, <1>e, <2>1, <2>2, <3>1, AllEnd
  <2>4. CASE job' = [job EXCEPT ![j].at = "signer", ![j].of = keyring.of]
    <3>1. /\ job'[j].at = "signer" /\ \A i \in Jobs \ {j} : job'[i] = job[i]
          /\ job'[j].of = keyring.of /\ job'[j].write = "none"
      BY <2>1, <2>4, <1>a DEF Job
    <3>2. JobAgrees(job[j])'
      BY <2>1, <2>2, <3>1 DEF JobAgrees
    <3>3. keyring # NoCredential
      BY <1>10, <1>a, <2>1, <3>1, IdleSound DEF Restore, Ends, NoCredential, Idle
    <3> QED
      BY <1>i, <1>e, <2>1, <2>2, <3>1, <3>2, <3>3, OneMoves
  <2> QED
    BY <1>10, <2>3, <2>4 DEF Restore, Ends
<1>11. ASSUME NEW j \in Jobs, Fail(j) \/ SignerFails(j)
       PROVE  Agreement'
  <2>1. job[j].at # "idle" /\ user' = user /\ UNCHANGED <<deletes, left, lost>>
    BY <1>11, <1>a DEF Fail, SignerFails, who, JobSound, Idle
  <2>2. job'[j].at = "idle" /\ \A i \in Jobs \ {j} : job'[i].at = job[i].at
    BY <1>11, <1>a DEF Fail, SignerFails, Ends, Idle
  <2>3. ~stranded' => ~stranded /\ keyring' = keyring /\ job[j].write # "done"
    BY <1>11, <1>a DEF Fail, SignerFails, JobSound
  <2>4. (user # Nobody /\ ~stranded') => keyring'.of = user
    BY <2>1, <2>3, <1>w DEF JobAgrees
  <2>5. left => lost
    BY <1>11, <1>g, <2>1 DEF Fail, SignerFails
  <2> QED
    BY <1>i, <1>e, <2>1, <2>2, <2>4, <2>5, AllEnd
<1>12. ASSUME NEW j \in Jobs, SignerAnswers(j) \/ Create(j)
       PROVE  Agreement'
  <2>1. /\ job[j].at \in {"signer", "write"} /\ user' = job[j].of
        /\ UNCHANGED <<keyring, deletes, left, lost>>
    BY <1>12 DEF SignerAnswers, Create, Becomes
  <2>2. job' = [job EXCEPT ![j] = Idle] \/ job' = Hidden([job EXCEPT ![j] = Idle])
    BY <1>12 DEF SignerAnswers, Create, Ends, CloseTop
  <2>3. job'[j].at = "idle" /\ \A i \in Jobs \ {j} : job'[i].at = job[i].at
    <3>1. /\ [job EXCEPT ![j] = Idle] \in [Jobs -> Job]
          /\ [job EXCEPT ![j] = Idle][j].at = "idle"
      BY <1>a, IdleSound DEF Idle
    <3>2. \A f \in [Jobs -> Job] : \A i \in Jobs : Hidden(f)[i].at = f[i].at
      BY DEF Hidden, Job
    <3> QED
      BY <2>2, <1>a, <3>1, <3>2
  <2>4. keyring.of = job[j].of
    BY <1>12, <1>a, <1>w, <2>1 DEF SignerAnswers, Create, JobSound, JobAgrees
  <2>5. left => lost
    BY <1>12, <1>g, <2>1 DEF SignerAnswers, Create
  <2> QED
    BY <1>i, <1>e, <2>1, <2>3, <2>4, <2>5, AllEnd
<1> QED
  BY <1>1, <1>2, <1>3, <1>4, <1>5, <1>6, <1>7, <1>8, <1>9, <1>10, <1>11, <1>12
  DEF Next, Submit, Unlock, Kind

\* Both hold always.
LEMMA AlwaysAgrees == Spec => []AInv
  BY InitInv, InitAgrees, NextInv, NextAgrees, PTL DEF Spec, AInv

\* As long as no two requests overlap, the keyring at rest has the identity of
\* this session unless a sign-in has failed with its credential stored, and
\* nobody's after a sign-out, in this session and after any number of stops, unless
\* the deletion was refused or a stop came before it.
THEOREM NextStart == Spec => []NextStartAgrees
<1>1. AInv => NextStartAgrees
  BY DEF AInv, Agreement, Gone, NextStartAgrees, AtRest
<1> QED
  BY <1>1, AlwaysAgrees, PTL

-----------------------------------------------------------------------------
(* The inbox (Inbox) *)

LoadSound(l) ==
  l \in [of : Person, at : {"query", "land"}, found : SUBSET Mention, n : 0 .. MaxLists]
SaveSound(s) == s.of \in Person /\ s.state \subseteq Mention

InboxTypes ==
  /\ userI \in Person \cup {Nobody}
  /\ signIns \in 0 .. MaxSignIns /\ asked \in [Person -> 0 .. signIns]
  /\ stored \subseteq Mention /\ news \in BOOLEAN
  /\ kept \in [Person -> SUBSET Mention]
  /\ state \subseteq Mention /\ loaded \in BOOLEAN
  /\ view \in Ib!View /\ gate \in Ib!Gate /\ run \in [Ib!Slots -> Ib!Run]
  /\ excusedI \in BOOLEAN /\ lists \in 0 .. MaxLists
  /\ \A l \in loads : LoadSound(l)
  /\ \A s \in saves : SaveSound(s)

\* The view follows the store, and the store whoever is signed in.
Follows ==
  /\ view.loaded = loaded
  /\ loaded => view.state = state /\ userI # Nobody
  /\ activated \in {userI, Nobody}
  /\ activated = userI => view.of \in {userI, Nobody}

\* As long as nothing has overlapped: one run at most, and the gate tells of it.
OneRun ==
  /\ \A i, j \in Ib!Live : i = j
  /\ gate.running <=> Ib!Live # {}
  /\ gate.dirty => gate.running
  /\ ~loaded => Ib!Live = {}
  /\ \A i \in Ib!Live : run[i].at # "idle"

\* A mention that the list does not hold is going to get there.
Fresh ==
  loaded =>
    \/ news \/ gate.dirty
    \/ Ib!Live = {} /\ view.mentions = stored
    \/ \E i \in Ib!Live : run[i].at = "query" \/ run[i].seen = stored

Derived ==
  /\ view.unread = view.mentions \ state
  /\ ~loaded => view.mentions = {}

\* What is kept on disk is the state, or the one save in flight will make it so.
Agrees ==
  (loaded /\ activated = userI) =>
    \/ saves = {} /\ state = kept[userI]
    \/ \E s \in saves : saves = {s} /\ s.of = userI /\ s.state = state

InboxInv ==
  /\ InboxTypes /\ Follows
  /\ ~excusedI => OneRun /\ Fresh /\ Derived /\ Agrees

\* A set of naturals has a least element.
LEMMA LeastNatural ==
  ASSUME NEW S \in SUBSET Nat, S # {}
  PROVE  \E m \in S : \A k \in S : m <= k
<1>1. PICK m \in S : \A k \in S : <<k, m>> \notin OpToRel(<, Nat)
  BY NatLessThanWellFounded, WFMin
<1>2. \A k \in S : ~ (k < m)
  BY <1>1 DEF OpToRel
<1> QED
  BY <1>2

\* Nobody is no person.
LEMMA NobodyIsOut == Nobody \notin Person
  BY SessionBounds

\* What the methods of the gate do to it.
LEMMA GateMoves ==
  ASSUME NEW g \in Ib!Gate
  PROVE  /\ Ib!IdleGate \in Ib!Gate /\ ~Ib!IdleGate.running /\ ~Ib!IdleGate.dirty
         /\ Ib!Begun(g) \in Ib!Gate /\ Ib!Begun(g).running /\ (Ib!Begun(g).dirty <=> g.dirty)
         /\ Ib!Finished(g) \in Ib!Gate /\ ~Ib!Finished(g).running /\ ~Ib!Finished(g).dirty
         /\ Ib!Aborted(g) \in Ib!Gate /\ ~Ib!Aborted(g).running
         /\ g.running => /\ Ib!Requested(g) \in Ib!Gate
                         /\ Ib!Requested(g).running /\ Ib!Requested(g).dirty
BY DEF Ib!Gate, Ib!IdleGate, Ib!Begun, Ib!Finished, Ib!Aborted, Ib!Requested, Ib!Folds

\* The view when the state arrives (sync_state).
LEMMA ViewLoads ==
  ASSUME NEW v \in Ib!View, NEW s \in SUBSET Mention, NEW w,
         w = [v EXCEPT !.loaded = TRUE, !.state = s]
  PROVE  /\ w \in Ib!View /\ w.loaded /\ w.state = s
         /\ w.of = v.of /\ w.mentions = v.mentions /\ w.unread = v.unread
<1>1. PICK u : u = [v EXCEPT !.loaded = TRUE]
  OBVIOUS
<1>2. /\ u \in Ib!View /\ u.loaded /\ u.of = v.of /\ u.mentions = v.mentions
      /\ u.unread = v.unread
  BY <1>1 DEF Ib!View
<1>3. w = [u EXCEPT !.state = s]
  BY <1>1 DEF Ib!View
<1> QED BY <1>2, <1>3 DEF Ib!View

\* The view when the state changes (regroup).
LEMMA ViewRegroups ==
  ASSUME NEW v \in Ib!View, NEW s \in SUBSET Mention
  PROVE  /\ Ib!Regrouped(v, s) \in Ib!View /\ Ib!Regrouped(v, s).loaded = v.loaded
         /\ Ib!Regrouped(v, s).state = s /\ Ib!Regrouped(v, s).of = v.of
         /\ Ib!Regrouped(v, s).mentions = v.mentions
         /\ Ib!Regrouped(v, s).unread = v.mentions \ s
<1>1. PICK u : u = [v EXCEPT !.state = s]
  OBVIOUS
<1>2. /\ u \in Ib!View /\ u.loaded = v.loaded /\ u.of = v.of /\ u.mentions = v.mentions
      /\ u.state = s
  BY <1>1 DEF Ib!View
<1>3. PICK M \in SUBSET Mention : M = v.mentions
  BY DEF Ib!View
<1>4. PICK U \in SUBSET Mention : U = M \ s
  OBVIOUS
<1>5. Ib!Regrouped(v, s) = [u EXCEPT !.unread = U]
  BY <1>1, <1>3, <1>4 DEF Ib!View, Ib!Regrouped
<1> QED BY <1>2, <1>3, <1>4, <1>5 DEF Ib!View

Lands(v, p, M, U) == [v EXCEPT !.of = p, !.mentions = M, !.unread = U]

\* The view when a run lands.
LEMMA ViewLands ==
  ASSUME NEW v \in Ib!View, NEW p \in Person \cup {Nobody}, NEW M \in SUBSET Mention,
         NEW U \in SUBSET Mention, NEW w,
         w = Lands(v, p, M, U)
  PROVE  /\ w \in Ib!View /\ w.loaded = v.loaded /\ w.state = v.state
         /\ w.of = p /\ w.mentions = M /\ w.unread = U
<1>1. PICK u : u = [v EXCEPT !.of = p]
  OBVIOUS
<1>2. /\ u \in Ib!View /\ u.loaded = v.loaded /\ u.of = p /\ u.state = v.state
  BY <1>1 DEF Ib!View
<1>3. PICK x : x = [u EXCEPT !.mentions = M]
  OBVIOUS
<1>4. /\ x \in Ib!View /\ x.loaded = v.loaded /\ x.of = p /\ x.state = v.state
      /\ x.mentions = M
  BY <1>2, <1>3 DEF Ib!View
<1>5. w = [x EXCEPT !.unread = U]
  BY <1>1, <1>3 DEF Ib!View, Lands
<1> QED BY <1>4, <1>5 DEF Ib!View

\* The view when it is cleared.
LEMMA ClearedView ==
  /\ Ib!Cleared \in Ib!View /\ Ib!Cleared.loaded = FALSE /\ Ib!Cleared.of = Nobody
  /\ Ib!Cleared.mentions = {} /\ Ib!Cleared.unread = {}
BY DEF Ib!Cleared, Ib!View

\* A run that begins is going to query.
LEMMA BeginsRun ==
  ASSUME NEW p \in Person, NEW s \in SUBSET Mention
  PROVE  /\ Ib!Begin(p, s) \in Ib!Run /\ Ib!Begin(p, s).at = "query"
         /\ Ib!Begin(p, s) # Ib!Idle
BY DEF Ib!Begin, Ib!Run, Ib!Idle

\* A run begins in a slot that is free.
LEMMA RunBegins ==
  ASSUME InboxTypes, userI # Nobody, NEW g, NEW s \in SUBSET Mention, Ib!RunRefresh(g, s)
  PROVE  /\ gate' = Ib!Begun(g)
         /\ run' \in [Ib!Slots -> Ib!Run]
         /\ \E i \in Ib!Slots : /\ Ib!Live' = Ib!Live \cup {i}
                                /\ run'[i].at = "query"
                                /\ i \notin Ib!Live
                                /\ \A k \in Ib!Slots \ {i} : run'[k] = run[k]
<1> DEFINE i == CHOOSE n \in Ib!Free : \A k \in Ib!Free : n <= k
<1>1. Ib!Free # {} /\ gate' = Ib!Begun(g) /\ run' = [run EXCEPT ![i] = Ib!Begin(userI, s)]
  BY DEF Ib!RunRefresh
<1>2. Ib!Free \in SUBSET Nat
  BY AccountsAssumption DEF Ib!Free, Ib!Slots, Ib!InboxBounds
<1>3. i \in Ib!Free
  BY <1>1, <1>2, LeastNatural
<1>4. i \in Ib!Slots /\ i \notin Ib!Live
  BY <1>3 DEF Ib!Free
<1> HIDE DEF i
<1>5. userI \in Person
  BY DEF InboxTypes
<1>6. /\ Ib!Begin(userI, s) \in Ib!Run /\ Ib!Begin(userI, s).at = "query"
      /\ Ib!Begin(userI, s) # Ib!Idle
  BY <1>5, BeginsRun
<1>7. run \in [Ib!Slots -> Ib!Run]
  BY DEF InboxTypes
<1>8. /\ run' \in [Ib!Slots -> Ib!Run] /\ run'[i] = Ib!Begin(userI, s)
      /\ \A k \in Ib!Slots \ {i} : run'[k] = run[k]
  BY <1>1, <1>4, <1>6, <1>7
<1>9. Ib!Live' = Ib!Live \cup {i}
  BY <1>4, <1>6, <1>8 DEF Ib!Live
<1> QED BY <1>1, <1>4, <1>6, <1>8, <1>9

\* The inbox starts in the invariant.
LEMMA InboxStarts ==
  AccountsInit => InboxInv
<1> SUFFICES ASSUME AccountsInit  PROVE InboxInv
  OBVIOUS
<1>0. Ib!Init /\ MaxLists \in Nat /\ MaxSignIns \in Nat
  BY AccountsAssumption DEF AccountsInit, Ib!InboxBounds
<1> USE DEF Ib!Init
<1>1. Ib!IdleGate \in Ib!Gate /\ ~Ib!IdleGate.running /\ ~Ib!IdleGate.dirty
  BY DEF Ib!IdleGate, Ib!Gate
<1>2. Ib!Idle \in Ib!Run
  BY DEF Ib!Idle, Ib!Run
<1>3. userI = Nobody /\ asked = [p \in Person |-> 0] /\ signIns = 0
  BY <1>0 DEF Ib!Users!Init
<1>4. run \in [Ib!Slots -> Ib!Run] /\ Ib!Live = {}
  BY <1>0, <1>2 DEF Ib!Live
<1>5. kept \in [Person -> SUBSET Mention]
  BY <1>0
<1>6. asked \in [Person -> 0 .. signIns] /\ signIns \in 0 .. MaxSignIns
  BY <1>0, <1>3
<1>7. InboxTypes
  <2>1. lists \in 0 .. MaxLists
    BY <1>0
  <2> QED BY <1>0, <1>1, <1>3, <1>4, <1>5, <1>6, <2>1, ClearedView DEF InboxTypes
<1>8. Follows
  BY <1>0, <1>3, ClearedView DEF Follows
<1>9. OneRun
  BY <1>0, <1>1, <1>4 DEF OneRun
<1>10. Fresh /\ Derived /\ Agrees
  BY <1>0, ClearedView DEF Fresh, Derived, Agrees
<1> QED BY <1>7, <1>8, <1>9, <1>10 DEF InboxInv

\* The steps of people and relays that leave the store and the view alone.
LEMMA PeopleKeep ==
  ASSUME InboxInv,
         \/ \E p \in Person : Ib!AskSignIn(p)
         \/ \E m \in Mention : Ib!MentionArrives(m)
         \/ Ib!ListArrives \/ Ib!ConnectFails
  PROVE  InboxInv'
<1> USE DEF InboxInv
<1>0. /\ UNCHANGED <<userI, kept, state, loaded, activated, view, gate, run, excusedI, saves,
                     loads>>
      /\ stored \subseteq stored' /\ stored' \subseteq Mention
      /\ news' \in BOOLEAN /\ (news => news') /\ (stored' # stored => news')
      /\ signIns' \in 0 .. MaxSignIns /\ asked' \in [Person -> 0 .. signIns']
      /\ lists' \in 0 .. MaxLists
  <2>0. MaxSignIns \in Nat /\ MaxLists \in Nat
    BY AccountsAssumption DEF Ib!InboxBounds
  <2>1. ASSUME NEW p \in Person, Ib!AskSignIn(p)
        PROVE  /\ signIns' \in 0 .. MaxSignIns /\ asked' \in [Person -> 0 .. signIns']
               /\ userI' = userI
    <3>1. signIns' = signIns + 1 /\ asked' = [asked EXCEPT ![p] = asked[p] + 1]
          /\ userI' = userI /\ signIns < MaxSignIns
      BY <2>1 DEF Ib!AskSignIn, Ib!Users!Ask
    <3>2. PICK n \in Nat : n = signIns
      BY <2>0 DEF InboxTypes
    <3>3. n + 1 \in 0 .. MaxSignIns
      BY <2>0, <3>1, <3>2
    <3>4. \A q \in Person : asked[q] \in 0 .. n
      BY <3>2 DEF InboxTypes
    <3>5. [asked EXCEPT ![p] = asked[p] + 1] \in [Person -> 0 .. n + 1]
      BY <3>2, <3>4 DEF InboxTypes
    <3> QED BY <3>1, <3>2, <3>3, <3>5
  <2>2. CASE \E p \in Person : Ib!AskSignIn(p)
    BY <2>1, <2>2 DEF InboxTypes, Ib!AskSignIn, Ib!database, Ib!store, Ib!tasks, Ib!panel,
          Ib!counters
  <2>3. CASE \E m \in Mention : Ib!MentionArrives(m)
    BY <2>3 DEF InboxTypes, Ib!MentionArrives, Ib!identity, Ib!store, Ib!panel, Ib!counters
  <2>4. CASE Ib!ListArrives
    BY <2>0, <2>4 DEF InboxTypes, Ib!ListArrives, Ib!identity, Ib!database, Ib!store, Ib!tasks,
          Ib!panel, Ib!counters
  <2>5. CASE Ib!ConnectFails
    BY <2>5 DEF InboxTypes, Ib!ConnectFails, Ib!identity, Ib!database, Ib!store, Ib!tasks,
          Ib!panel, Ib!counters
  <2> QED BY <2>2, <2>3, <2>4, <2>5
<1>1. InboxTypes'
  BY <1>0 DEF InboxTypes
<1>2. Follows'
  BY <1>0 DEF Follows
<1>3. Ib!Live' = Ib!Live
  BY <1>0 DEF Ib!Live
<1>4. OneRun => OneRun'
  BY <1>0, <1>3 DEF OneRun
<1>5. Fresh => Fresh'
  BY <1>0, <1>3 DEF Fresh
<1>6. (Derived => Derived') /\ (Agrees => Agrees')
  BY <1>0 DEF Derived, Agrees
<1> QED BY <1>0, <1>1, <1>2, <1>4, <1>5, <1>6

\* Nobody tells the inbox of a sign-in: the store still follows whom it was
\* activated for.
LEMMA SignInKeeps ==
  ASSUME InboxInv, NEW p \in Person, Ib!SignIn(p)
  PROVE  InboxInv'
<1> USE DEF InboxInv
<1>0. /\ UNCHANGED <<signIns, stored, news, kept, state, loaded, view, gate, run, excusedI,
                     saves, loads, lists>>
      /\ userI' = p /\ activated' = IF p = userI THEN activated ELSE Nobody
      /\ asked[p] > 0 /\ asked' = [asked EXCEPT ![p] = asked[p] - 1]
  BY DEF Ib!SignIn, Ib!Users!Grant, Ib!database, Ib!tasks, Ib!panel, Ib!counters
<1>1. asked' \in [Person -> 0 .. signIns]
  <2>1. signIns \in Nat /\ asked[p] \in 0 .. signIns
    BY AccountsAssumption DEF InboxTypes, Ib!InboxBounds
  <2>2. asked[p] - 1 \in 0 .. signIns
    BY <1>0, <2>1
  <2> QED BY <1>0, <2>2 DEF InboxTypes
<1>2. InboxTypes'
  BY <1>0, <1>1 DEF InboxTypes
<1>3. Follows'
  BY <1>0, NobodyIsOut DEF Follows
<1>4. Ib!Live' = Ib!Live
  BY <1>0 DEF Ib!Live
<1>5. (OneRun => OneRun') /\ (Fresh => Fresh') /\ (Derived => Derived')
  BY <1>0, <1>4 DEF OneRun, Fresh, Derived
<1>6. Agrees => Agrees'
  BY <1>0, NobodyIsOut DEF Agrees
<1> QED BY <1>0, <1>2, <1>3, <1>5, <1>6

\* Whatever unloads the inbox leaves an empty view, and nothing in flight
\* unless something has overlapped.
LEMMA UnloadKeeps ==
  ASSUME InboxInv, Ib!SignOut \/ Ib!Connected
  PROVE  InboxInv'
<1> USE DEF InboxInv
<1>0. /\ UNCHANGED <<signIns, stored, news, kept, run, lists, saves, asked>>
      /\ state' = {} /\ loaded' = FALSE /\ view' = Ib!Cleared /\ gate' = Ib!IdleGate
      /\ excusedI' = (excusedI \/ Ib!Live # {} \/ saves # {})
      /\ userI' \in {userI, Nobody} /\ activated' = userI'
      /\ \A l \in loads' : l \in loads \/ (userI \in Person /\ l = Ib!Load(userI))
  <2>1. CASE Ib!SignOut
    BY <2>1 DEF Ib!SignOut, Ib!Users!SignOut, Ib!Unload, Ib!SyncState, Ib!database, Ib!tasks,
          Ib!counters
  <2>2. CASE Ib!Connected
    BY <2>2 DEF InboxTypes, Ib!Connected, Ib!Unload, Ib!SyncState, Ib!identity, Ib!database,
          Ib!counters
  <2> QED BY <2>1, <2>2
<1>1. gate' \in Ib!Gate /\ ~gate'.running /\ ~gate'.dirty
  BY <1>0, GateMoves DEF InboxTypes
<1>2. view' \in Ib!View /\ view'.loaded = FALSE /\ view'.of = Nobody
      /\ view'.mentions = {} /\ view'.unread = {}
  BY <1>0, ClearedView
<1>3. \A l \in loads' : LoadSound(l)
  BY <1>0 DEF InboxTypes, LoadSound, Ib!Load
<1>4. InboxTypes'
  <2>1. userI' \in Person \cup {Nobody} /\ excusedI' \in BOOLEAN
    BY <1>0 DEF InboxTypes
  <2>2. state' \subseteq Mention /\ loaded' \in BOOLEAN
    BY <1>0
  <2> QED BY <1>0, <1>1, <1>2, <1>3, <2>1, <2>2 DEF InboxTypes
<1>5. Follows'
  BY <1>0, <1>2 DEF Follows
<1>6. ~excusedI' => OneRun'
  <2> SUFFICES ASSUME ~excusedI'  PROVE OneRun'
    OBVIOUS
  <2>1. Ib!Live' = {}
    BY <1>0 DEF Ib!Live
  <2> QED BY <1>0, <1>1, <2>1 DEF OneRun
<1>7. Fresh' /\ Derived' /\ Agrees'
  BY <1>0, <1>2 DEF Fresh, Derived, Agrees
<1> QED BY <1>4, <1>5, <1>6, <1>7

\* An announcement starts a run, is folded into the one under way, or comes
\* before the state has been loaded.
LEMMA AnnounceKeeps ==
  ASSUME InboxInv, Ib!Announce
  PROVE  InboxInv'
<1> USE DEF InboxInv
<1>0. /\ UNCHANGED <<userI, asked, signIns, stored, kept, state, loaded, activated, view,
                     excusedI, saves, loads, lists>>
      /\ news' = FALSE /\ Ib!Refresh
  BY DEF Ib!Announce, Ib!identity, Ib!store, Ib!tasks, Ib!counters
<1>1. CASE ~loaded
  <2>1. gate' = gate /\ run' = run
    BY <1>0, <1>1 DEF Ib!Refresh, Follows
  <2>2. InboxTypes' /\ Follows'
    BY <1>0, <2>1 DEF InboxTypes, Follows
  <2>3. Ib!Live' = Ib!Live
    BY <2>1 DEF Ib!Live
  <2>4. (OneRun => OneRun') /\ Fresh' /\ (Derived => Derived') /\ Agrees'
    BY <1>0, <1>1, <2>1, <2>3 DEF OneRun, Fresh, Derived, Agrees
  <2> QED BY <1>0, <2>2, <2>4
<1>2. CASE loaded /\ gate.running
  <2>1. gate' = Ib!Requested(gate) /\ run' = run
    BY <1>0, <1>2 DEF Ib!Refresh, Follows, Ib!Folds
  <2>2. gate' \in Ib!Gate /\ gate'.running /\ gate'.dirty
    BY <1>2, <2>1, GateMoves DEF InboxTypes
  <2>3. InboxTypes' /\ Follows'
    BY <1>0, <2>1, <2>2 DEF InboxTypes, Follows
  <2>4. Ib!Live' = Ib!Live
    BY <2>1 DEF Ib!Live
  <2>5. (OneRun => OneRun') /\ Fresh'
    BY <1>0, <1>2, <2>1, <2>2, <2>4 DEF OneRun, Fresh
  <2>6. (Derived => Derived') /\ (Agrees => Agrees')
    BY <1>0 DEF Derived, Agrees
  <2> QED BY <1>0, <2>3, <2>5, <2>6
<1>3. CASE loaded /\ ~gate.running
  <2>1. userI # Nobody /\ view.loaded /\ view.state \in SUBSET Mention
    BY <1>3 DEF Follows, InboxTypes
  <2>2. Ib!RunRefresh(gate, view.state)
    BY <1>0, <1>3, <2>1 DEF Ib!Refresh, Ib!Folds
  <2>3. /\ gate' = Ib!Begun(gate) /\ run' \in [Ib!Slots -> Ib!Run]
        /\ \E i \in Ib!Slots : /\ Ib!Live' = Ib!Live \cup {i}
                               /\ run'[i].at = "query"
                               /\ i \notin Ib!Live
                               /\ \A k \in Ib!Slots \ {i} : run'[k] = run[k]
    BY <2>1, <2>2, RunBegins
  <2>4. gate' \in Ib!Gate /\ gate'.running
    BY <2>3, GateMoves DEF InboxTypes
  <2>5. InboxTypes' /\ Follows'
    BY <1>0, <2>3, <2>4 DEF InboxTypes, Follows
  <2>6. PICK i \in Ib!Slots : Ib!Live' = Ib!Live \cup {i} /\ run'[i].at = "query"
    BY <2>3
  <2>7. Fresh'
    BY <2>6 DEF Fresh
  <2>8. OneRun => OneRun'
    BY <1>0, <1>3, <2>4, <2>6 DEF OneRun
  <2>9. (Derived => Derived') /\ (Agrees => Agrees')
    BY <1>0 DEF Derived, Agrees
  <2> QED BY <1>0, <2>5, <2>7, <2>8, <2>9
<1> QED BY <1>1, <1>2, <1>3

\* A load finds what is kept at that moment.
LEMMA LoadReadsKeeps ==
  ASSUME InboxInv, NEW l \in loads, Ib!LoadReads(l)
  PROVE  InboxInv'
<1> USE DEF InboxInv
<1> DEFINE m == [l EXCEPT !.at = "land", !.found = kept[l.of]]
<1>0. /\ UNCHANGED <<userI, asked, signIns, stored, news, kept, state, loaded, activated, view,
                     gate, run, excusedI, saves, lists>>
      /\ loads' = (loads \ {l}) \cup {m}
  BY DEF Ib!LoadReads, Ib!identity, Ib!database, Ib!store, Ib!panel, Ib!counters
<1>1. LoadSound(m)
  <2>1. l.of \in Person /\ LoadSound(l)
    BY DEF InboxTypes, LoadSound
  <2>2. PICK K \in SUBSET Mention : K = kept[l.of]
    BY <2>1 DEF InboxTypes
  <2>3. PICK u : u = [l EXCEPT !.at = "land"]
    OBVIOUS
  <2>4. LoadSound(u)
    BY <2>1, <2>3 DEF LoadSound
  <2>5. m = [u EXCEPT !.found = K]
    BY <2>1, <2>2, <2>3 DEF LoadSound
  <2> QED BY <2>2, <2>4, <2>5 DEF LoadSound
<1> HIDE DEF m
<1>2. InboxTypes'
  BY <1>0, <1>1 DEF InboxTypes
<1>3. Ib!Live' = Ib!Live
  BY <1>0 DEF Ib!Live
<1>4. Follows' /\ (OneRun => OneRun') /\ (Fresh => Fresh') /\ (Derived => Derived')
  BY <1>0, <1>3 DEF Follows, OneRun, Fresh, Derived
<1>5. Agrees => Agrees'
  BY <1>0 DEF Agrees
<1> QED BY <1>0, <1>2, <1>4, <1>5

\* A load that lands is taken if it is of the user, and starts the first run.
LEMMA LoadLandsKeeps ==
  ASSUME InboxInv, NEW l \in loads, NEW fails \in BOOLEAN, Ib!LoadLands(l, fails)
  PROVE  InboxInv'
<1> USE DEF InboxInv
<1>0. /\ UNCHANGED <<userI, asked, signIns, stored, news, kept, saves, lists>>
      /\ loads' = loads \ {l}
  BY DEF Ib!LoadLands, Ib!identity, Ib!database, Ib!counters
<1>1. CASE userI # l.of
  <2>1. UNCHANGED <<state, loaded, activated, view, gate, run, excusedI>>
    BY <1>1 DEF Ib!LoadLands, Ib!store, Ib!panel
  <2>2. InboxTypes' /\ Follows'
    BY <1>0, <2>1 DEF InboxTypes, Follows
  <2>3. Ib!Live' = Ib!Live
    BY <2>1 DEF Ib!Live
  <2>4. (OneRun => OneRun') /\ (Fresh => Fresh') /\ (Derived => Derived') /\ (Agrees => Agrees')
    BY <1>0, <2>1, <2>3 DEF OneRun, Fresh, Derived, Agrees
  <2> QED BY <2>1, <2>2, <2>4
<1>2. CASE userI = l.of
  <2>1. /\ state' = IF fails THEN state ELSE l.found
        /\ loaded' = TRUE /\ Ib!SyncState(TRUE, state')
        /\ excusedI' = (excusedI \/ fails \/ saves # {} \/ state' # kept[userI])
        /\ activated' = activated
    BY <1>2 DEF Ib!LoadLands
  <2>2. userI \in Person /\ userI # Nobody
    BY <1>2, NobodyIsOut DEF InboxTypes, LoadSound
  <2>3. PICK s \in SUBSET Mention : s = state'
    BY <2>1 DEF InboxTypes, LoadSound
  <2>4. Ib!SyncState(TRUE, s)
    BY <2>1, <2>3
  <2>5. CASE ~loaded
    <3>1. /\ view' = [view EXCEPT !.loaded = TRUE, !.state = s]
          /\ Ib!RefreshInitial(s)
      BY <2>4, <2>5 DEF Ib!SyncState, Follows
    <3>2. /\ view' \in Ib!View /\ view'.loaded = TRUE /\ view'.state = s
          /\ view'.of = view.of /\ view'.mentions = view.mentions /\ view'.unread = view.unread
      BY <3>1, ViewLoads DEF InboxTypes, Ib!View
    <3>3. \/ gate.running /\ gate' = Ib!Requested(gate) /\ run' = run
          \/ ~gate.running /\ Ib!RunRefresh(gate, s)
      BY <3>1 DEF Ib!RefreshInitial
    <3>4. CASE gate.running
      <4>1. gate' = Ib!Requested(gate) /\ run' = run
        BY <3>3, <3>4
      <4>2. gate' \in Ib!Gate
        BY <3>4, <4>1, GateMoves DEF InboxTypes
      <4>3. InboxTypes'
        BY <1>0, <2>1, <2>3, <3>2, <4>1, <4>2 DEF InboxTypes
      <4>4. Follows'
        BY <1>0, <2>1, <2>2, <2>3, <3>2 DEF Follows
      <4>5. excusedI
        BY <2>5, <3>4 DEF OneRun
      <4> QED BY <2>1, <4>3, <4>4, <4>5
    <3>5. CASE ~gate.running
      <4>1. /\ gate' = Ib!Begun(gate) /\ run' \in [Ib!Slots -> Ib!Run]
            /\ \E i \in Ib!Slots : /\ Ib!Live' = Ib!Live \cup {i}
                                   /\ run'[i].at = "query"
                                   /\ i \notin Ib!Live
                                   /\ \A k \in Ib!Slots \ {i} : run'[k] = run[k]
        BY <2>2, <3>3, <3>5, RunBegins
      <4>2. gate' \in Ib!Gate /\ gate'.running
        BY <4>1, GateMoves DEF InboxTypes
      <4>3. InboxTypes'
        BY <1>0, <2>1, <2>3, <3>2, <4>1, <4>2 DEF InboxTypes
      <4>4. Follows'
        BY <1>0, <2>1, <2>2, <2>3, <3>2 DEF Follows
      <4>5. PICK i \in Ib!Slots : Ib!Live' = Ib!Live \cup {i} /\ run'[i].at = "query"
        BY <4>1
      <4>6. Fresh'
        BY <4>5 DEF Fresh
      <4>7. OneRun => OneRun'
        BY <2>1, <2>5, <4>2, <4>5 DEF OneRun
      <4>8. ~excusedI' => Agrees'
        BY <1>0, <2>1 DEF Agrees
      <4>9. Derived => Derived'
        BY <2>1, <2>3, <2>5, <3>2 DEF Derived
      <4> QED BY <2>1, <4>3, <4>4, <4>6, <4>7, <4>8, <4>9
    <3> QED BY <3>4, <3>5
  <2>6. CASE loaded
    <3>1. /\ view' = IF view.state = s THEN view ELSE Ib!Regrouped(view, s)
          /\ gate' = gate /\ run' = run
      BY <2>4, <2>6 DEF Ib!SyncState, Follows
    <3>2. /\ view' \in Ib!View /\ view'.loaded = TRUE /\ view'.state = s
          /\ view'.of = view.of /\ view'.mentions = view.mentions
          /\ view.unread = view.mentions \ view.state => view'.unread = view.mentions \ s
      <4>1. view \in Ib!View /\ view.loaded = TRUE
        BY <2>6 DEF InboxTypes, Follows
      <4> QED BY <3>1, <4>1, ViewRegroups
    <3>3. InboxTypes'
      BY <1>0, <2>1, <2>3, <3>1, <3>2 DEF InboxTypes
    <3>4. Follows'
      BY <1>0, <2>1, <2>2, <2>3, <3>2 DEF Follows
    <3>5. Ib!Live' = Ib!Live
      BY <3>1 DEF Ib!Live
    <3>6. (OneRun => OneRun') /\ (Fresh => Fresh')
      BY <1>0, <2>1, <2>6, <3>1, <3>2, <3>5 DEF OneRun, Fresh
    <3>7. Derived => Derived'
      BY <2>1, <2>3, <2>6, <3>2 DEF Derived, Follows
    <3>8. ~excusedI' => Agrees'
      BY <1>0, <2>1 DEF Agrees
    <3> QED BY <2>1, <3>3, <3>4, <3>6, <3>7, <3>8
  <2> QED BY <2>5, <2>6 DEF InboxTypes
<1> QED BY <1>1, <1>2

\* Marking reads what is shown, and saves it.
LEMMA MarkAllReadKeeps ==
  ASSUME InboxInv, Ib!MarkAllRead
  PROVE  InboxInv'
<1> USE DEF InboxInv
<1>0. /\ UNCHANGED <<userI, asked, signIns, stored, news, kept, loaded, activated, loads, lists>>
      /\ userI # Nobody /\ state' = view.mentions /\ Ib!SyncState(loaded, state')
      /\ saves' = saves \cup {[of |-> userI, state |-> state', n |-> marks]}
      /\ excusedI' = (excusedI \/ ~loaded \/ loads # {} \/ saves # {} \/ Ib!Live # {}
                      \/ userI # activated)
  BY DEF Ib!MarkAllRead, Ib!identity, Ib!database
<1>1. PICK s \in SUBSET Mention : s = view.mentions /\ s = state'
  BY <1>0 DEF InboxTypes, Ib!View
<1> DEFINE r == [of |-> userI, state |-> s, n |-> marks]
<1>2. r.of = userI /\ r.state = s /\ SaveSound(r) /\ saves' = saves \cup {r}
  BY <1>0, <1>1 DEF InboxTypes, SaveSound
<1> HIDE DEF r
<1>3. excusedI' \in BOOLEAN
  BY <1>0 DEF InboxTypes
<1>4. CASE ~loaded
  <2>1. view' = Ib!Cleared /\ gate' = Ib!IdleGate /\ run' = run
    BY <1>0, <1>4 DEF Ib!SyncState
  <2>2. view' \in Ib!View /\ view'.loaded = FALSE /\ view'.of = Nobody /\ gate' \in Ib!Gate
    BY <2>1, ClearedView, GateMoves DEF InboxTypes
  <2>3. InboxTypes'
    BY <1>0, <1>1, <1>2, <1>3, <2>1, <2>2 DEF InboxTypes
  <2>4. Follows'
    BY <1>0, <1>4, <2>2 DEF Follows, InboxTypes
  <2> QED BY <1>0, <1>4, <2>3, <2>4
<1>5. CASE loaded
  <2>1. /\ view' = IF view.state = s THEN view ELSE Ib!Regrouped(view, s)
        /\ gate' = gate /\ run' = run
    <3>1. Ib!SyncState(loaded, s)
      BY <1>0, <1>1
    <3> QED BY <1>5, <3>1 DEF Ib!SyncState, Follows
  <2>2. /\ view' \in Ib!View /\ view'.loaded = TRUE /\ view'.state = s
        /\ view'.of = view.of /\ view'.mentions = view.mentions
        /\ view.unread = view.mentions \ view.state => view'.unread = view.mentions \ s
    <3>1. view \in Ib!View /\ view.loaded = TRUE
      BY <1>5 DEF InboxTypes, Follows
    <3> QED BY <2>1, <3>1, ViewRegroups
  <2>3. InboxTypes'
    BY <1>0, <1>1, <1>2, <1>3, <2>1, <2>2 DEF InboxTypes
  <2>4. Follows'
    BY <1>0, <1>1, <1>5, <2>2 DEF Follows
  <2>5. Ib!Live' = Ib!Live
    BY <2>1 DEF Ib!Live
  <2>6. (OneRun => OneRun') /\ (Fresh => Fresh')
    BY <1>0, <1>5, <2>1, <2>2, <2>5 DEF OneRun, Fresh
  <2>7. Derived => Derived'
    BY <1>0, <1>1, <1>5, <2>2 DEF Derived, Follows
  <2>8. ~excusedI' => Agrees'
    BY <1>0, <1>1, <1>2 DEF Agrees
  <2> QED BY <1>0, <2>3, <2>4, <2>6, <2>7, <2>8
<1> QED BY <1>4, <1>5 DEF InboxTypes

\* The save makes what is kept agree with the state.
LEMMA SaveRunsKeeps ==
  ASSUME InboxInv, NEW s \in saves, NEW fails \in BOOLEAN, Ib!SaveRuns(s, fails)
  PROVE  InboxInv'
<1> USE DEF InboxInv
<1>0. /\ UNCHANGED <<userI, asked, signIns, stored, news, state, loaded, activated, view, gate,
                     run, loads, lists>>
      /\ saves' = saves \ {s} /\ excusedI' = (excusedI \/ fails)
      /\ kept' = IF fails THEN kept ELSE [kept EXCEPT ![s.of] = s.state]
  BY DEF Ib!SaveRuns, Ib!identity, Ib!database, Ib!store, Ib!panel, Ib!counters
<1>1. s.of \in Person /\ s.state \in SUBSET Mention
  BY DEF InboxTypes, SaveSound
<1>2. kept \in [Person -> SUBSET Mention]
  BY DEF InboxTypes
<1>3. kept' \in [Person -> SUBSET Mention] /\ (~fails => kept'[s.of] = s.state)
  BY <1>0, <1>1, <1>2
<1>4. InboxTypes'
  BY <1>0, <1>3 DEF InboxTypes
<1>5. Ib!Live' = Ib!Live
  BY <1>0 DEF Ib!Live
<1>6. Follows' /\ (OneRun => OneRun') /\ (Fresh => Fresh') /\ (Derived => Derived')
  BY <1>0, <1>5 DEF Follows, OneRun, Fresh, Derived
<1>7. ~excusedI' /\ Agrees => Agrees'
  <2> SUFFICES ASSUME ~fails, Agrees, loaded, activated = userI
               PROVE  saves' = {} /\ state = kept'[userI]
    BY <1>0 DEF Agrees
  <2>1. saves = {s} /\ s.of = userI /\ s.state = state
    BY DEF Agrees
  <2> QED BY <1>0, <1>3, <2>1
<1> QED BY <1>0, <1>4, <1>6, <1>7

\* A run that goes on or ends leaves the other slots alone.
LEMMA RunMoves ==
  ASSUME InboxTypes, NEW i \in Ib!Slots, NEW x \in Ib!Run, run' = [run EXCEPT ![i] = x]
  PROVE  /\ run' \in [Ib!Slots -> Ib!Run] /\ run'[i] = x
         /\ \A k \in Ib!Slots \ {i} : run'[k] = run[k]
         /\ Ib!Live' = IF x = Ib!Idle THEN Ib!Live \ {i} ELSE Ib!Live \cup {i}
<1>1. /\ run' \in [Ib!Slots -> Ib!Run] /\ run'[i] = x
      /\ \A k \in Ib!Slots \ {i} : run'[k] = run[k]
  BY DEF InboxTypes
<1> QED BY <1>1 DEF Ib!Live

\* An idle slot is a run.
LEMMA IdleRun == Ib!Idle \in Ib!Run /\ Ib!Idle.at = "idle"
BY DEF Ib!Idle, Ib!Run

\* A query finds all that is stored; what arrives later is news.
LEMMA QueryKeeps ==
  ASSUME InboxInv, NEW i \in Ib!Slots, Ib!Query(i)
  PROVE  InboxInv'
<1> USE DEF InboxInv
<1>0. /\ UNCHANGED <<userI, asked, signIns, stored, news, kept, state, loaded, activated, view,
                     gate, excusedI, loads, saves, lists>>
      /\ run[i].at = "query"
      /\ run' = [run EXCEPT ![i].at = "land", ![i].seen = stored]
  BY DEF Ib!Query, Ib!identity, Ib!database, Ib!store, Ib!tasks, Ib!counters
<1>1. PICK x : x = [run[i] EXCEPT !.at = "land", !.seen = stored]
  OBVIOUS
<1>2. run[i] \in Ib!Run /\ stored \in SUBSET Mention /\ run \in [Ib!Slots -> Ib!Run]
  BY DEF InboxTypes
<1>3. x \in Ib!Run /\ x.at = "land" /\ x.seen = stored
  <2>1. PICK u : u = [run[i] EXCEPT !.at = "land"]
    OBVIOUS
  <2>2. u \in Ib!Run /\ u.at = "land"
    BY <1>2, <2>1 DEF Ib!Run
  <2>3. x = [u EXCEPT !.seen = stored]
    BY <1>1, <1>2, <2>1 DEF Ib!Run
  <2> QED BY <1>2, <2>2, <2>3 DEF Ib!Run
<1>4. run' = [run EXCEPT ![i] = x]
  BY <1>0, <1>1, <1>2
<1>5. x # Ib!Idle /\ i \in Ib!Live
  BY <1>0, <1>3, IdleRun DEF Ib!Live
<1>6. /\ run' \in [Ib!Slots -> Ib!Run] /\ run'[i] = x
      /\ \A k \in Ib!Slots \ {i} : run'[k] = run[k]
      /\ Ib!Live' = Ib!Live
  <2>1. /\ run' \in [Ib!Slots -> Ib!Run] /\ run'[i] = x
        /\ \A k \in Ib!Slots \ {i} : run'[k] = run[k]
        /\ Ib!Live' = IF x = Ib!Idle THEN Ib!Live \ {i} ELSE Ib!Live \cup {i}
    BY <1>3, <1>4, RunMoves
  <2> QED BY <1>5, <2>1
<1>7. InboxTypes' /\ Follows'
  BY <1>0, <1>6 DEF InboxTypes, Follows
<1>8. OneRun => OneRun'
  BY <1>0, <1>3, <1>6 DEF OneRun, Ib!Live
<1>9. Fresh'
  BY <1>0, <1>3, <1>5, <1>6 DEF Fresh
<1>10. (Derived => Derived') /\ (Agrees => Agrees')
  BY <1>0 DEF Derived, Agrees
<1> QED BY <1>0, <1>7, <1>8, <1>9, <1>10

\* A run that abandons itself has overlapped with something: the gate tells of it
\* until it is cleared, and clearing it beside a run is an overlap.
LEMMA AbandonKeeps ==
  ASSUME InboxInv, NEW i \in Ib!Slots, Ib!Abandon(i)
  PROVE  InboxInv'
<1> USE DEF InboxInv
<1>0. /\ UNCHANGED <<userI, asked, signIns, stored, news, kept, state, loaded, activated, view,
                     loads, saves, lists>>
      /\ run[i].at = "land" /\ gate' = Ib!Aborted(gate)
      /\ run' = [run EXCEPT ![i] = Ib!Idle]
      /\ excusedI' = (excusedI \/ userI = run[i].of \/ gate.running)
  BY DEF Ib!Abandon, Ib!Ended, Ib!identity, Ib!database, Ib!store, Ib!tasks, Ib!counters
<1>1. run' \in [Ib!Slots -> Ib!Run]
  BY <1>0, IdleRun, RunMoves
<1>2. gate' \in Ib!Gate
  BY <1>0, GateMoves DEF InboxTypes
<1>3. InboxTypes' /\ Follows'
  BY <1>0, <1>1, <1>2 DEF InboxTypes, Follows
<1>4. i \in Ib!Live
  BY <1>0, IdleRun DEF Ib!Live
<1>5. excusedI'
  BY <1>0, <1>4 DEF OneRun
<1> QED BY <1>3, <1>5

\* A run lands for the user it was started for, and follows up on what was asked
\* for meanwhile.
LEMMA LandKeeps ==
  ASSUME InboxInv, NEW i \in Ib!Slots, Ib!Land(i)
  PROVE  InboxInv'
<1> USE DEF InboxInv
<1>0. /\ UNCHANGED <<userI, asked, signIns, stored, news, kept, state, loaded, activated,
                     loads, saves, lists>>
      /\ run[i].at = "land" /\ userI = run[i].of
      /\ view' = [view EXCEPT !.of = userI, !.mentions = run[i].seen,
                              !.unread = run[i].seen \ run[i].with]
      /\ excusedI' = (excusedI \/ run[i].with # view.state)
      /\ IF Ib!NeedsFollowUp(gate) /\ view.loaded
           THEN /\ gate' = Ib!Begun(Ib!Finished(gate))
                /\ run' = [run EXCEPT ![i] = Ib!Begin(userI, view.state)]
           ELSE gate' = Ib!Finished(gate) /\ run' = [run EXCEPT ![i] = Ib!Idle]
  BY DEF Ib!Land, Ib!Ended, Ib!identity, Ib!database, Ib!store, Ib!tasks, Ib!counters
<1>1. /\ run[i] \in Ib!Run /\ run[i].seen \in SUBSET Mention /\ run[i].with \in SUBSET Mention
      /\ view \in Ib!View /\ gate \in Ib!Gate /\ view.state \in SUBSET Mention
  BY DEF InboxTypes, Ib!Run, Ib!View
<1>2. i \in Ib!Live
  BY <1>0, IdleRun DEF Ib!Live
<1>3. userI \in Person \cup {Nobody}
  BY DEF InboxTypes
<1>4. PICK M \in SUBSET Mention : M = run[i].seen
  BY <1>1
<1>5. PICK U \in SUBSET Mention : U = M \ run[i].with
  BY <1>4
<1>6. /\ view' \in Ib!View /\ view'.loaded = view.loaded /\ view'.state = view.state
      /\ view'.of = userI /\ view'.mentions = M /\ view'.unread = U
  <2>1. view' = [view EXCEPT !.of = userI, !.mentions = M, !.unread = U]
    BY <1>0, <1>4, <1>5
  <2>2. PICK v : v = view
    OBVIOUS
  <2>3. PICK p : p = userI
    OBVIOUS
  <2>4. PICK w : w = view'
    OBVIOUS
  <2>5. w = Lands(v, p, M, U)
    BY <2>1, <2>2, <2>3, <2>4 DEF Lands
  <2>6. v \in Ib!View /\ p \in Person \cup {Nobody}
    BY <1>1, <1>3, <2>2, <2>3
  <2>7. /\ w \in Ib!View /\ w.loaded = v.loaded /\ w.state = v.state
        /\ w.of = p /\ w.mentions = M /\ w.unread = U
    BY <2>5, <2>6, ViewLands
  <2> QED BY <2>2, <2>3, <2>4, <2>7
<1>7. Follows'
  BY <1>0, <1>6 DEF Follows
<1>8. /\ excusedI' \in BOOLEAN
      /\ ~excusedI' => ~excusedI /\ run[i].with = view.state /\ loaded
  <2>1. ~excusedI => loaded
    BY <1>2 DEF OneRun
  <2> QED BY <1>0, <2>1 DEF InboxTypes
<1>9. ~excusedI' => Derived'
  BY <1>0, <1>5, <1>6, <1>8 DEF Derived, Follows
<1>10. ~excusedI' => Agrees'
  BY <1>0, <1>8 DEF Agrees
<1>11. CASE gate.dirty /\ view.loaded
  <2>1. gate' = Ib!Begun(Ib!Finished(gate)) /\ run' = [run EXCEPT ![i] = Ib!Begin(userI, view.state)]
    BY <1>0, <1>11 DEF Ib!NeedsFollowUp
  <2>2. gate' \in Ib!Gate /\ gate'.running /\ ~gate'.dirty
    BY <1>1, <2>1, GateMoves
  <2>3. userI \in Person
    BY <1>3, <1>11 DEF Follows
  <2>4. /\ run' \in [Ib!Slots -> Ib!Run] /\ run'[i].at = "query"
        /\ \A k \in Ib!Slots \ {i} : run'[k] = run[k]
        /\ Ib!Live' = Ib!Live
    <3>1. PICK x : x = Ib!Begin(userI, view.state)
      OBVIOUS
    <3>2. x \in Ib!Run /\ x.at = "query" /\ x # Ib!Idle
      BY <1>1, <2>3, <3>1, BeginsRun
    <3>3. run' = [run EXCEPT ![i] = x]
      BY <2>1, <3>1
    <3>4. /\ run' \in [Ib!Slots -> Ib!Run] /\ run'[i] = x
          /\ \A k \in Ib!Slots \ {i} : run'[k] = run[k]
          /\ Ib!Live' = IF x = Ib!Idle THEN Ib!Live \ {i} ELSE Ib!Live \cup {i}
      BY <3>2, <3>3, RunMoves
    <3> QED BY <1>2, <3>2, <3>4
  <2>5. InboxTypes'
    BY <1>0, <1>6, <1>8, <2>2, <2>4 DEF InboxTypes
  <2>6. Fresh'
    BY <1>2, <2>4 DEF Fresh
  <2>7. ~excusedI' => OneRun'
    BY <1>0, <1>2, <1>8, <2>2, <2>4 DEF OneRun, Ib!Live
  <2> QED BY <1>7, <1>9, <1>10, <2>5, <2>6, <2>7
<1>12. CASE ~(gate.dirty /\ view.loaded)
  <2>1. gate' = Ib!Finished(gate) /\ run' = [run EXCEPT ![i] = Ib!Idle]
    BY <1>0, <1>12 DEF Ib!NeedsFollowUp
  <2>2. gate' \in Ib!Gate /\ ~gate'.running /\ ~gate'.dirty
    BY <1>1, <2>1, GateMoves
  <2>3. run' \in [Ib!Slots -> Ib!Run] /\ Ib!Live' = Ib!Live \ {i}
    BY <2>1, IdleRun, RunMoves
  <2>4. InboxTypes'
    BY <1>0, <1>6, <1>8, <2>2, <2>3 DEF InboxTypes
  <2>5. ~excusedI' => Ib!Live' = {}
    BY <1>2, <1>8, <2>3 DEF OneRun
  <2>6. ~excusedI' => OneRun'
    BY <2>2, <2>5 DEF OneRun
  <2>7. ~excusedI' => Fresh'
    <3> SUFFICES ASSUME ~excusedI'  PROVE Fresh'
      OBVIOUS
    <3>1. ~excusedI /\ loaded /\ view.loaded /\ ~gate.dirty
      BY <1>8, <1>12 DEF Follows
    <3>2. news \/ M = stored
      BY <1>0, <1>2, <1>4, <3>1 DEF Fresh, OneRun
    <3> QED BY <1>0, <1>6, <2>5, <3>2 DEF Fresh
  <2> QED BY <1>7, <1>9, <1>10, <2>4, <2>6, <2>7
<1> QED BY <1>11, <1>12

\* Every step of the inbox keeps the invariant.
LEMMA InboxSteps ==
  ASSUME InboxInv, Ib!Next
  PROVE  InboxInv'
<1>1. CASE \E p \in Person : Ib!SignIn(p)
  BY <1>1, SignInKeeps
<1>2. CASE \/ \E p \in Person : Ib!AskSignIn(p)
           \/ \E m \in Mention : Ib!MentionArrives(m)
           \/ Ib!ListArrives \/ Ib!ConnectFails
  BY <1>2, PeopleKeep
<1>3. CASE Ib!SignOut \/ Ib!Connected
  BY <1>3, UnloadKeeps
<1>4. CASE Ib!Announce
  BY <1>4, AnnounceKeeps
<1>5. CASE Ib!LoadSteps
  BY <1>5, LoadReadsKeeps, LoadLandsKeeps DEF Ib!LoadSteps
<1>6. CASE Ib!MarkAllRead
  BY <1>6, MarkAllReadKeeps
<1>7. CASE \E s \in saves, fails \in BOOLEAN : Ib!SaveRuns(s, fails)
  BY <1>7, SaveRunsKeeps
<1>8. CASE Ib!RunSteps
  BY <1>8, QueryKeeps, AbandonKeeps, LandKeeps DEF Ib!RunSteps
<1> QED BY <1>1, <1>2, <1>3, <1>4, <1>5, <1>6, <1>7, <1>8 DEF Ib!Next

\* The steps of the session leave it alone.
LEMMA InboxInvariance == AccountsSpec => []InboxInv
<1>1. AccountsInit => InboxInv
  BY InboxStarts
<1>2. InboxInv /\ [AccountsNext]_<<part, vars, ib>> => InboxInv'
  <2> SUFFICES ASSUME InboxInv, [AccountsNext]_<<part, vars, ib>>
               PROVE  InboxInv'
    OBVIOUS
  <2>1. CASE Ib!Next
    BY <2>1, InboxSteps
  <2>2. CASE UNCHANGED ib
    <3>1. InboxTypes' /\ Follows'
      BY <2>2 DEF ib, InboxInv, InboxTypes, Follows
    <3>2. Ib!Live' = Ib!Live
      BY <2>2 DEF ib, Ib!Live
    <3>3. (OneRun => OneRun') /\ (Fresh => Fresh')
      BY <2>2, <3>2 DEF ib, OneRun, Fresh
    <3>4. (Derived => Derived') /\ (Agrees => Agrees') /\ excusedI' = excusedI
      BY <2>2 DEF ib, Derived, Agrees
    <3> QED BY <3>1, <3>3, <3>4 DEF InboxInv
  <2> QED BY <2>1, <2>2 DEF AccountsNext
<1> QED BY <1>1, <1>2, PTL DEF AccountsSpec

\* Once the inbox follows the user who is signed in, no thread of anybody else is
\* shown, whatever runs and loads of earlier users are in flight (refresh checks
\* the user of its start against the user of its end); and the inbox is typed.
THEOREM OnlyMineIsShown == AccountsSpec => []ShownIsMine
<1>1. InboxInv => Ib!ShownIsMine
  BY DEF InboxInv, Follows, Ib!ShownIsMine
<1>2. InboxInv => Ib!TypeOK
  <2> SUFFICES ASSUME InboxInv
               PROVE  /\ asked \in [Person -> 0 .. MaxSignIns]
                      /\ activated \in Person \cup {Nobody}
    BY DEF InboxInv, InboxTypes, Ib!TypeOK
  <2>1. signIns \in 0 .. MaxSignIns /\ asked \in [Person -> 0 .. signIns] /\ MaxSignIns \in Nat
    BY AccountsAssumption DEF InboxInv, InboxTypes, Ib!InboxBounds
  <2>2. \A p \in Person : asked[p] \in 0 .. MaxSignIns
    BY <2>1
  <2> QED BY <2>1, <2>2 DEF InboxInv, InboxTypes, Follows
<1> QED BY <1>1, <1>2, InboxInvariance, PTL DEF ShownIsMine

\* At rest the list holds every mention and shows as unread those that the state
\* kept on disk does not hold, unless marks, loads, saves and runs have overlapped
\* (InboxView::refresh, Inbox::mark_all_read, persist).
THEOREM TheInboxConverges == AccountsSpec => []InboxConverges
<1>1. InboxInv => InboxConverges
  <2> SUFFICES ASSUME InboxInv, Ib!Live = {}, saves = {}, ~news, view.loaded,
                      userI = activated, ~excusedI
               PROVE  /\ view.mentions = stored
                      /\ view.unread = stored \ kept[userI]
    BY DEF InboxConverges, Ib!InboxConverges, Ib!Settled
  <2>1. loaded
    BY DEF InboxInv, Follows
  <2>2. view.mentions = stored
    BY <2>1 DEF InboxInv, OneRun, Fresh
  <2>3. state = kept[userI]
    BY <2>1 DEF InboxInv, Agrees
  <2> QED BY <2>1, <2>2, <2>3 DEF InboxInv, Derived
<1> QED BY <1>1, InboxInvariance, PTL

-----------------------------------------------------------------------------
(* Both, as the run has them *)

\* While the inbox moves the session stutters.
LEMMA SessionGoesOn == AccountsSpec => Spec
<1>1. AccountsInit => Init
  BY DEF AccountsInit
<1>2. [AccountsNext]_<<part, vars, ib>> => [Next]_vars
  BY DEF AccountsNext
<1> QED BY <1>1, <1>2, PTL DEF AccountsSpec, Spec

\* The sign-in tasks implement the register also beside the inbox, which takes
\* its identities from one.
THEOREM AccountsImplementRegister == AccountsSpec => ImplementsIdentity
BY SessionGoesOn, ImplementsRegister

\* At rest the keyring signs in whoever is signed in, and nobody after a
\* sign-out (sign_out, the imports, restore_session).
THEOREM AccountsAgree == AccountsSpec => []NextStartAgrees
BY SessionGoesOn, NextStart
=============================================================================
