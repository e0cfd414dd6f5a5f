------------------------- MODULE PublishingProofs -------------------------
(***************************************************************************)
(* Proofs about Publishing, for any paths and people, and any number of    *)
(* publications, identity changes and deletions.  What the user is told    *)
(* when a publication ends stays true because publications are numbered    *)
(* (Numbered), because one that no sign-in disturbed is signed by its      *)
(* owner (Keyed), and because one that was alone is older than every other *)
(* one that follows (Alone).  What it has marked is not offered again      *)
(* because a scan that missed the mark is on record, and the publication   *)
(* itself still corrects the list (ListInv).                               *)
(***************************************************************************)
EXTENDS Publishing, TLAPS

\* What a deletion request names.
DeletionRequest == [what : {"announcement", "state"}, n : 0 .. MaxTasks, of : Person]

Types == TypeOK /\ deletes \subseteq DeletionRequest /\ removed \subseteq Person
         /\ started \in 0 .. MaxTasks /\ deletions \in Nat

\* Whoever is signed in holds the signer; a publication that nobody disturbed
\* is his, and only the signature changes who stands behind one.
Keyed ==
  /\ user \in Person => signer = user
  /\ \A t \in tasks :
       /\ t.calm => t.by = t.of /\ t.of = user /\ t.of = signer
       /\ t.at \in {"init", "sign"} => t.by = t.of

\* Each publication has its number.
Numbered ==
  /\ \A t \in tasks \cup reported : t.n <= started
  /\ \A s, t \in tasks : s.n = t.n => s = t
  /\ \A t \in tasks, r \in reported : t.n # r.n

\* A publication that is alone is the only one, and precedes those to come.
Alone ==
  /\ \A t \in tasks : t.alone => tasks = {t} /\ deletes = {}
  /\ \A t \in tasks, r \in reported : r.alone => r.n < t.n

\* What it has done so far is in force.
InForce ==
  \A t \in tasks : (t.alone /\ t.calm) =>
    /\ t.at \in {"push", "mark", "land"} =>
         t.took # {} /\ \A x \in t.took : live[t.by][x] = t.n
    /\ t.at \in {"mark", "land"} => held[t.by] = t.path

\* Nobody acts for an owner whose repository was deleted and left alone, and
\* what is left of it is named by a request that counts.
LeftAlone ==
  /\ \A t \in tasks : t.at \notin {"init", "sign"} => t.by \notin removed
  /\ \A a \in removed, d \in deletes : d.of = a => signer = a
  /\ \A a \in removed :
       /\ \A x \in Relay : live[a][x] # 0 =>
            [what |-> "announcement", n |-> live[a][x], of |-> a] \in deletes
       /\ a \in states => [what |-> "state", n |-> 0, of |-> a] \in deletes

\* Requests come of deletions.
Asked == deletes # {} => deletions > 0

IInv ==
  /\ Types /\ Keyed /\ Numbered /\ Alone /\ InForce /\ LeftAlone /\ Asked
  /\ RetractedWhereTaken /\ PublishedIsServed

-----------------------------------------------------------------------------
(* Steps *)

\* The disjuncts of Next, one by one.
LEMMA NextSplit ==
  ASSUME [Next]_vars
  PROVE  \/ Local \/ Request
         \/ \E kind \in {"create", "publish"}, p \in Path : Begin(kind, p)
         \/ \E p \in Path : OpenPanel(p)
         \/ \E p \in Path : ClosePanel(p)
         \/ \E p \in Person \cup {Nobody} : Switch(p)
         \/ \E t \in tasks : InitFolder(t)
         \/ \E t \in tasks : Sign(t)
         \/ \E t \in tasks : Announce(t)
         \/ \E t \in tasks : Push(t)
         \/ \E t \in tasks : Retract(t)
         \/ \E t \in tasks : MarkFolder(t)
         \/ \E t \in tasks : Land(t)
         \/ \E a \in Person : Delete(a)
         \/ \E d \in deletes : DeleteEvent(d)
         \/ UNCHANGED vars
BY DEF Next, Step, Create, PublishLocal

\* The same with the steps of a publication together.
LEMMA NextCases ==
  ASSUME [Next]_vars
  PROVE  \/ Local \/ Request
         \/ \E kind \in {"create", "publish"}, p \in Path : Begin(kind, p)
         \/ \E p \in Path : OpenPanel(p)
         \/ \E p \in Path : ClosePanel(p)
         \/ \E p \in Person \cup {Nobody} : Switch(p)
         \/ \E t \in tasks : Step(t)
         \/ \E a \in Person : Delete(a)
         \/ \E d \in deletes : DeleteEvent(d)
         \/ UNCHANGED vars
BY DEF Next, Create, PublishLocal

-----------------------------------------------------------------------------
(* What the relays serve *)

Served == [Person -> [Relay -> 0 .. MaxTasks]]

\* A deletion request takes nothing but its target away, and that from every
\* relay that has taken it.
LEMMA WithdrawnBy ==
  ASSUME live \in Served, NEW n, NEW a \in Person, NEW A \in SUBSET Relay
  PROVE  /\ Withdrawn(n, a, A) \in Served
         /\ \A b \in Person, x \in Relay :
              /\ Withdrawn(n, a, A)[b][x] \in {live[b][x], 0}
              /\ (a # b \/ live[b][x] # n) => Withdrawn(n, a, A)[b][x] = live[b][x]
              /\ (signer = a /\ b = a /\ x \in A /\ live[b][x] = n)
                   => Withdrawn(n, a, A)[b][x] = 0
<1>1. CASE signer # a
  BY <1>1 DEF Withdrawn
<1>2. CASE signer = a
  <2> DEFINE f == [x \in Relay |-> IF x \in A /\ live[a][x] = n THEN 0 ELSE live[a][x]]
  <2>1. 0 \in 0 .. MaxTasks
    BY PublishingAssumption
  <2>2. f \in [Relay -> 0 .. MaxTasks] /\ Withdrawn(n, a, A) = [live EXCEPT ![a] = f]
    BY <1>2, <2>1 DEF Served, Withdrawn
  <2>3. \A x \in Relay : f[x] = IF x \in A /\ live[a][x] = n THEN 0 ELSE live[a][x]
    OBVIOUS
  <2> HIDE DEF f
  <2>4. Withdrawn(n, a, A) \in Served
    BY <2>2 DEF Served
  <2>5. \A b \in Person, x \in Relay :
          Withdrawn(n, a, A)[b][x] = IF b = a THEN f[x] ELSE live[b][x]
    BY <2>2 DEF Served
  <2> QED
    BY <2>3, <2>4, <2>5
<1> QED
  BY <1>1, <1>2

-----------------------------------------------------------------------------
(* Publications that change *)

\* The same publication.
Same(u, t) ==
  u.n = t.n /\ u.kind = t.kind /\ u.path = t.path /\ u.of = t.of /\ u.alone = t.alone

Steps == {"init", "sign", "announce", "push", "retract", "mark", "land"}
Ways == {"failed", "published", "retracted", "remains"}

\* One that goes on, ends, is signed, or sees another identity or publication.
LEMMA GoesOn ==
  ASSUME NEW t \in Task, NEW step \in Steps
  PROVE  LET u == [t EXCEPT !.at = step]
         IN /\ u \in Task /\ Same(u, t) /\ u.by = t.by /\ u.took = t.took
            /\ u.calm = t.calm /\ u.at = step
BY DEF Task, Same, Steps

LEMMA EndsAs ==
  ASSUME NEW t \in Task, NEW says \in Ways
  PROVE  LET u == [t EXCEPT !.at = says]
         IN /\ u \in Report /\ Same(u, t) /\ u.by = t.by /\ u.took = t.took
            /\ u.calm = t.calm /\ u.at = says
BY DEF Task, Report, Same, Ways

\* One that the relays A have taken, or taken back.
LEMMA TakenBy ==
  ASSUME NEW t \in Task, NEW A \in SUBSET Relay, NEW step \in Steps
  PROVE  LET u == [t EXCEPT !.took = A, !.at = step]
         IN /\ u \in Task /\ Same(u, t) /\ u.by = t.by /\ u.took = A
            /\ u.calm = t.calm /\ u.at = step
BY DEF Task, Same, Steps

LEMMA TakenBack ==
  ASSUME NEW t \in Task, NEW A \in SUBSET Relay, NEW says \in Ways
  PROVE  LET u == [t EXCEPT !.took = A, !.at = says]
         IN /\ u \in Report /\ Same(u, t) /\ u.by = t.by /\ u.took = A
            /\ u.calm = t.calm /\ u.at = says
BY DEF Task, Report, Same, Ways

LEMMA SignedBy ==
  ASSUME NEW t \in Task, NEW p \in Person
  PROVE  LET u == [t EXCEPT !.at = "announce", !.by = p]
         IN u \in Task /\ Same(u, t) /\ u.by = p /\ u.calm = t.calm /\ u.at = "announce"
BY DEF Task, Same

LEMMA Unsettled ==
  ASSUME NEW t \in Task
  PROVE  LET u == [t EXCEPT !.calm = FALSE]
         IN /\ u \in Task /\ Same(u, t) /\ u.by = t.by /\ u.took = t.took
            /\ u.calm = FALSE /\ u.at = t.at
BY DEF Task, Same

LEMMA Joined ==
  ASSUME NEW t \in Task
  PROVE  LET u == [t EXCEPT !.alone = FALSE]
         IN /\ u \in Task
            /\ u.n = t.n /\ u.kind = t.kind /\ u.path = t.path /\ u.of = t.of
            /\ u.by = t.by /\ u.took = t.took /\ u.calm = t.calm /\ u.alone = FALSE
            /\ u.at = t.at
BY DEF Task

\* An announcement reaches the relays that take it.
Sent(t, u) ==
  /\ u \in Task /\ Same(u, t) /\ u.by = t.by /\ u.calm = t.calm
  /\ u.at \in {"push", "retract"} /\ (u.at = "push" => u.took # {})
  /\ u.took \subseteq Relay /\ tasks' = (tasks \ {t}) \cup {u}
  /\ live' \in Served
  /\ \A a \in Person, x \in Relay :
       live'[a][x] = IF a = t.by /\ x \in u.took THEN t.n ELSE live[a][x]

LEMMA AnnouncedBy ==
  ASSUME Types, NEW t \in tasks, Announce(t)
  PROVE  \E u : Sent(t, u)
<1>1. t \in Task /\ live \in Served /\ t.by \in Person /\ t.n \in 0 .. MaxTasks
  BY PublishingAssumption DEF Types, TypeOK, Served, Task
<1>2. PICK A \in SUBSET Relay :
        /\ live' = [live EXCEPT ![t.by] = [x \in Relay |-> IF x \in A THEN t.n ELSE @[x]]]
        /\ tasks' = (tasks \ {t}) \cup
             {[t EXCEPT !.took = A, !.at = IF A # {} THEN "push" ELSE "retract"]}
  BY DEF Announce
<1> DEFINE f == [x \in Relay |-> IF x \in A THEN t.n ELSE live[t.by][x]]
           step == IF A # {} THEN "push" ELSE "retract"
           u == [t EXCEPT !.took = A, !.at = step]
<1>3. f \in [Relay -> 0 .. MaxTasks] /\ live' = [live EXCEPT ![t.by] = f]
  BY <1>1, <1>2 DEF Served
<1>4. \A x \in Relay : f[x] = IF x \in A THEN t.n ELSE live[t.by][x]
  OBVIOUS
<1>5. step \in {"push", "retract"} /\ (step = "push" => A # {}) /\ step \in Steps
  BY DEF Steps
<1>6. tasks' = (tasks \ {t}) \cup {u}
  BY <1>2
<1> HIDE DEF f, step
<1>7. u \in Task /\ Same(u, t) /\ u.by = t.by /\ u.took = A /\ u.calm = t.calm /\ u.at = step
  BY <1>1, <1>5 DEF Task, Same, Steps
<1> HIDE DEF u
<1>8. live' \in Served
  BY <1>1, <1>3 DEF Served
<1>9. \A a \in Person, x \in Relay :
        live'[a][x] = IF a = t.by /\ x \in A THEN t.n ELSE live[a][x]
  BY <1>1, <1>3, <1>4 DEF Served
<1>10. Sent(t, u)
  BY <1>5, <1>6, <1>7, <1>8, <1>9 DEF Sent
<1> QED
  BY <1>10

\* A retraction takes the announcement from the relays that take the request.
Recalled(t, u) ==
  /\ u \in Report /\ Same(u, t) /\ u.by = t.by /\ u.calm = t.calm
  /\ u.at \in {"retracted", "remains"} /\ (u.at = "retracted" => u.took # {})
  /\ u.took \subseteq Relay /\ tasks' = tasks \ {t} /\ reported' = reported \cup {u}
  /\ live' \in Served
  /\ \A a \in Person, x \in Relay :
       /\ live'[a][x] \in {live[a][x], 0}
       /\ a # t.by \/ live[a][x] # t.n => live'[a][x] = live[a][x]
       /\ (signer = t.by /\ a = t.by /\ x \in u.took) => live'[a][x] # t.n

LEMMA RecalledBy ==
  ASSUME Types, NEW t \in tasks, Retract(t)
  PROVE  \E u : Recalled(t, u)
<1>1. t \in Task /\ live \in Served /\ t.by \in Person /\ t.n \in 1 .. MaxTasks /\ t.n # 0
  BY PublishingAssumption DEF Types, TypeOK, Served, Task
<1>2. PICK A \in SUBSET Relay :
        /\ live' = Withdrawn(t.n, t.by, A) /\ tasks' = tasks \ {t}
        /\ reported' = reported \cup
             {[t EXCEPT !.took = A, !.at = IF A # {} THEN "retracted" ELSE "remains"]}
  BY DEF Retract
<1> DEFINE says == IF A # {} THEN "retracted" ELSE "remains"
           u == [t EXCEPT !.took = A, !.at = says]
<1>3. /\ says \in {"retracted", "remains"} /\ (says = "retracted" => A # {})
      /\ says \in Ways
  BY DEF Ways
<1>4. reported' = reported \cup {u}
  BY <1>2
<1> HIDE DEF says
<1>5. u \in Report /\ Same(u, t) /\ u.by = t.by /\ u.took = A /\ u.calm = t.calm /\ u.at = says
  BY <1>1, <1>3 DEF Task, Report, Same, Ways
<1> HIDE DEF u
<1>6. live' \in Served
  BY <1>1, <1>2, WithdrawnBy
<1>10. \A b \in Person, x \in Relay :
         /\ Withdrawn(t.n, t.by, A)[b][x] \in {live[b][x], 0}
         /\ (t.by # b \/ live[b][x] # t.n) => Withdrawn(t.n, t.by, A)[b][x] = live[b][x]
         /\ (signer = t.by /\ b = t.by /\ x \in A /\ live[b][x] = t.n)
              => Withdrawn(t.n, t.by, A)[b][x] = 0
  BY ONLY <1>1, WithdrawnBy
<1>9. \A a \in Person, x \in Relay :
       /\ live'[a][x] \in {live[a][x], 0}
       /\ (t.by # a \/ live[a][x] # t.n) => live'[a][x] = live[a][x]
       /\ (signer = t.by /\ a = t.by /\ x \in A /\ live[a][x] = t.n) => live'[a][x] = 0
  BY <1>2, <1>10
<1>7. \A a \in Person, x \in Relay :
       /\ live'[a][x] \in {live[a][x], 0}
       /\ a # t.by \/ live[a][x] # t.n => live'[a][x] = live[a][x]
       /\ (signer = t.by /\ a = t.by /\ x \in A) => live'[a][x] # t.n
  BY <1>1, <1>9
<1>8. Recalled(t, u)
  BY <1>2, <1>3, <1>4, <1>5, <1>6, <1>7 DEF Recalled
<1> QED
  BY <1>8

\* A deletion request takes its target from the relays that take it.
Erased(d, A) ==
  /\ live' \in Served
  /\ \A a \in Person, x \in Relay :
       /\ live'[a][x] \in {live[a][x], 0}
       /\ (d.what = "announcement" /\ signer = d.of /\ a = d.of /\ x \in A)
            => live'[a][x] # d.n \/ live'[a][x] = 0
  /\ removed' = (IF A = Relay THEN removed ELSE removed \ {d.of})
  /\ states' \in {states, states \ {d.of}}
  /\ (d.what = "state" /\ signer = d.of /\ A = Relay) => states' = states \ {d.of}

LEMMA ErasedBy ==
  ASSUME Types, NEW d \in deletes, DeleteEvent(d)
  PROVE  \E A \in SUBSET Relay : Erased(d, A)
<1>1. live \in Served /\ d.of \in Person
  BY DEF Types, TypeOK, Served, DeletionRequest
<1>2. PICK A \in SUBSET Relay :
       /\ live' = IF d.what = "announcement" THEN Withdrawn(d.n, d.of, A) ELSE live
       /\ IF d.what = "state" /\ signer = d.of /\ A # {}
            THEN \/ states' = states \ {d.of}
                 \/ A # Relay /\ UNCHANGED states
            ELSE UNCHANGED states
       /\ removed' = IF A = Relay THEN removed ELSE removed \ {d.of}
  BY DEF DeleteEvent
<1>3. states' \in {states, states \ {d.of}}
  BY <1>2
<1>4. (d.what = "state" /\ signer = d.of /\ A = Relay) => states' = states \ {d.of}
  BY <1>2, PublishingAssumption
<1>5. live' \in Served
  BY <1>1, <1>2, WithdrawnBy
<1>6. \A a \in Person, x \in Relay :
       /\ live'[a][x] \in {live[a][x], 0}
       /\ (d.what = "announcement" /\ signer = d.of /\ a = d.of /\ x \in A)
            => live'[a][x] # d.n \/ live'[a][x] = 0
  BY <1>1, <1>2, WithdrawnBy
<1>7. Erased(d, A)
  BY <1>2, <1>3, <1>4, <1>5, <1>6 DEF Erased
<1> QED
  BY <1>7

\* All of them at an identity change, and when another publication or a
\* deletion begins.
LEMMA AllUnsettled ==
  ASSUME Types, NEW p, Switch(p)
  PROVE  /\ tasks' \subseteq Task
         /\ \A u \in tasks' : \E t \in tasks :
              /\ u = [t EXCEPT !.calm = FALSE]
              /\ u.n = t.n /\ u.of = t.of /\ u.alone = t.alone
              /\ u.by = t.by /\ u.calm = FALSE /\ u.at = t.at
         /\ \A t \in tasks : \E u \in tasks' : u.n = t.n /\ u.of = t.of /\ u.by = t.by
<1>1. tasks' = {[t EXCEPT !.calm = FALSE] : t \in tasks} /\ tasks \subseteq Task
  BY DEF Switch, Types, TypeOK
<1>2. ASSUME NEW u \in tasks'
      PROVE  \E t \in tasks :
              /\ u = [t EXCEPT !.calm = FALSE] /\ u \in Task
              /\ u.n = t.n /\ u.of = t.of /\ u.alone = t.alone
              /\ u.by = t.by /\ u.calm = FALSE /\ u.at = t.at
  <2>1. PICK t \in tasks : u = [t EXCEPT !.calm = FALSE]
    BY <1>1
  <2> QED
    BY <1>1, <2>1, Unsettled DEF Same
<1>3. ASSUME NEW t \in tasks
      PROVE  \E u \in tasks' : u.n = t.n /\ u.of = t.of /\ u.by = t.by
  <2>1. [t EXCEPT !.calm = FALSE] \in tasks'
    BY <1>1
  <2> QED
    BY <1>1, <2>1, Unsettled DEF Same
<1> QED
  BY <1>2, <1>3

Others == {[t EXCEPT !.alone = FALSE] : t \in tasks}

LEMMA AllJoined ==
  ASSUME Types
  PROVE  /\ Others \subseteq Task
         /\ \A u \in Others : \E t \in tasks :
              /\ u = [t EXCEPT !.alone = FALSE]
              /\ u.n = t.n /\ u.of = t.of /\ u.by = t.by /\ u.calm = t.calm
              /\ u.at = t.at /\ u.alone = FALSE
         /\ \A t \in tasks : \E u \in Others : u.n = t.n /\ u.of = t.of /\ u.by = t.by
<1>t. tasks \subseteq Task
  BY DEF Types, TypeOK
<1>1. Others \subseteq Task
  BY <1>t, Joined DEF Others
<1>2. ASSUME NEW u \in Others
      PROVE  \E t \in tasks :
              /\ u = [t EXCEPT !.alone = FALSE]
              /\ u.n = t.n /\ u.of = t.of /\ u.by = t.by /\ u.calm = t.calm
              /\ u.at = t.at /\ u.alone = FALSE
  <2>1. PICK t \in tasks : u = [t EXCEPT !.alone = FALSE]
    BY DEF Others
  <2> QED
    BY <1>t, <2>1, Joined
<1>3. ASSUME NEW t \in tasks
      PROVE  \E u \in Others : u.n = t.n /\ u.of = t.of /\ u.by = t.by
  <2>1. [t EXCEPT !.alone = FALSE] \in Others
    BY DEF Others
  <2> QED
    BY <1>t, <2>1, Joined
<1> QED
  BY <1>1, <1>2, <1>3

LEMMA DeleteJoins ==
  ASSUME Types, NEW a \in Person, Delete(a)
  PROVE  /\ tasks' \subseteq Task
         /\ \A u \in tasks' : \E t \in tasks :
              /\ u = [t EXCEPT !.alone = FALSE]
              /\ u.n = t.n /\ u.of = t.of /\ u.by = t.by /\ u.calm = t.calm
              /\ u.at = t.at /\ u.alone = FALSE
         /\ \A t \in tasks : \E u \in tasks' : u.n = t.n /\ u.of = t.of /\ u.by = t.by
<1>1. tasks' = Others
  BY DEF Delete, Others
<1> QED
  BY <1>1, AllJoined

\* The publication that begins.
LEMMA BeginsOne ==
  ASSUME Types, NEW kind \in {"create", "publish"}, NEW p \in Path, Begin(kind, p)
  PROVE  \E u \in Task :
           /\ tasks' = Others \cup {u} /\ tasks' \subseteq Task
           /\ u.n = started + 1 /\ u.of = user /\ u.by = user
           /\ u.alone => tasks = {} /\ deletes = {}
<1>1. user \in Person /\ started + 1 \in 1 .. MaxTasks
  BY PublishingAssumption DEF Begin, Types, TypeOK
<1> DEFINE u == [n |-> started + 1, kind |-> kind, path |-> p, of |-> user, by |-> user,
                 took |-> {}, calm |-> TRUE, alone |-> tasks \cup deletes = {},
                 at |-> IF kind = "create" THEN "init" ELSE "sign"]
<1>2. u \in Task
  BY <1>1 DEF Task
<1>3. tasks' = Others \cup {u}
  BY DEF Begin, Others
<1>6. tasks' \subseteq Task
  BY <1>2, <1>3, AllJoined
<1>4. u.n = started + 1 /\ u.of = user /\ u.by = user /\ (u.alone => tasks \cup deletes = {})
  OBVIOUS
<1>5. u.alone => tasks = {} /\ deletes = {}
  BY <1>4
<1> HIDE DEF u
<1> QED
  BY <1>2, <1>3, <1>4, <1>5, <1>6

\* What every step of a publication does to the set of them: it goes on as u,
\* or it ends as u.
Proceeds(t, u) == u \in Task /\ tasks' = (tasks \ {t}) \cup {u} /\ reported' = reported
Stops(t, u) == u \in Report /\ tasks' = tasks \ {t} /\ reported' = reported \cup {u}

\* A step of a publication lets it go on or end; only Sign changes who stands
\* behind it.
LEMMA StepOne ==
  ASSUME Types, NEW t \in tasks, Step(t)
  PROVE  \E u : /\ Same(u, t) /\ u.calm = t.calm
                /\ u.by = t.by \/ (t.at = "sign" /\ u.by = signer)
                /\ \/ Proceeds(t, u) /\ (u.at \in {"init", "sign"} => t.at = "init")
                   \/ Stops(t, u) /\ (u.at = "published" => t.at = "land")
<1> USE DEF Proceeds, Stops
<1>1. t \in Task /\ signer \in Person
  BY DEF Types, TypeOK
<1>2. ASSUME NEW step \in Steps, tasks' = (tasks \ {t}) \cup {[t EXCEPT !.at = step]},
             reported' = reported
      PROVE  \E u : /\ Same(u, t) /\ u.calm = t.calm /\ u.by = t.by
                    /\ Proceeds(t, u) /\ u.at = step
  BY <1>1, <1>2, GoesOn
<1>3. ASSUME NEW says \in Ways, tasks' = tasks \ {t},
             reported' = reported \cup {[t EXCEPT !.at = says]}
      PROVE  \E u : /\ Same(u, t) /\ u.calm = t.calm /\ u.by = t.by
                    /\ Stops(t, u) /\ u.at = says
  BY <1>1, <1>3, EndsAs
<1>4. CASE Sign(t)
  <2>1. CASE Ends(t, "failed")
    BY <1>3, <2>1 DEF Ends, Ways
  <2>2. CASE /\ tasks' = (tasks \ {t}) \cup {[t EXCEPT !.at = "announce", !.by = signer]}
             /\ reported' = reported /\ t.at = "sign"
    BY <1>1, <2>2, SignedBy
  <2> QED
    BY <1>4, <2>1, <2>2 DEF Sign
<1>5. CASE InitFolder(t) \/ Land(t)
  BY <1>2, <1>3, <1>5 DEF InitFolder, Land, Becomes, Ends, Steps, Ways
<1>6. CASE Push(t) \/ MarkFolder(t)
  BY <1>2, <1>6 DEF Push, MarkFolder, Becomes, Goes, FailedPush, ghosts, Steps
<1>7. CASE Announce(t)
  <2>1. PICK u : Sent(t, u)
    BY <1>7, AnnouncedBy
  <2>2. reported' = reported
    BY <1>7 DEF Announce, ghosts
  <2> QED
    BY <2>1, <2>2 DEF Sent
<1>8. CASE Retract(t)
  <2>1. PICK u : Recalled(t, u)
    BY <1>8, RecalledBy
  <2> QED
    BY <2>1 DEF Recalled
<1> QED
  BY <1>4, <1>5, <1>6, <1>7, <1>8 DEF Step

\* Nothing was started for, or signed by, the owner of r after it.
Latest(r) == \A s \in reported \cup tasks : r.of \in {s.of, s.by} => s.n <= r.n

\* The relays that took it serve it.
Announced(r) == r.took # {} /\ \A x \in r.took : live[r.of][x] = r.n

\* A publication is remembered, under its number and its owner.
LEMMA Remembered ==
  ASSUME IInv, [Next]_vars, NEW s \in reported \cup tasks
  PROVE  \E u \in (reported \cup tasks)' :
           u.n = s.n /\ u.of = s.of /\ (u.by = s.by \/ s.by = s.of)
<1> USE DEF IInv, Types, TypeOK, Keyed
<1>1. CASE Local \/ Request \/ UNCHANGED vars \/ \E d \in deletes : DeleteEvent(d)
  BY <1>1 DEF Local, Request, DeleteEvent, ghosts, vars
<1>2. ASSUME NEW kind \in {"create", "publish"}, NEW p \in Path, Begin(kind, p)
      PROVE  \E u \in (reported \cup tasks)' : u.n = s.n /\ u.of = s.of /\ u.by = s.by
  BY <1>2, BeginsOne, AllJoined DEF Begin, Others
<1>3. CASE \E p \in Path : OpenPanel(p) \/ ClosePanel(p)
  BY <1>3 DEF OpenPanel, ClosePanel, ghosts
<1>4. ASSUME NEW p, Switch(p)
      PROVE  \E u \in (reported \cup tasks)' : u.n = s.n /\ u.of = s.of /\ u.by = s.by
  <2>1. reported' = reported
    BY <1>4 DEF Switch
  <2> QED
    BY <1>4, <2>1, AllUnsettled
<1>5. ASSUME NEW t \in tasks, Step(t)
      PROVE  \E u \in (reported \cup tasks)' :
               u.n = s.n /\ u.of = s.of /\ (u.by = s.by \/ s.by = s.of)
  <2>1. PICK u : /\ Same(u, t) /\ u.calm = t.calm
                 /\ u.by = t.by \/ (t.at = "sign" /\ u.by = signer)
                 /\ Proceeds(t, u) \/ Stops(t, u)
    BY <1>5, StepOne
  <2>2. CASE s = t
    BY <2>1, <2>2 DEF Same, Proceeds, Stops
  <2>3. CASE s # t
    BY <2>1, <2>3 DEF Proceeds, Stops
  <2> QED
    BY <2>2, <2>3
<1>6. ASSUME NEW a \in Person, Delete(a)
      PROVE  \E u \in (reported \cup tasks)' : u.n = s.n /\ u.of = s.of /\ u.by = s.by
  <2>1. reported' = reported
    BY <1>6 DEF Delete
  <2> QED
    BY <1>6, <2>1, DeleteJoins
<1> QED
  BY <1>1, <1>2, <1>3, <1>4, <1>5, <1>6, NextCases

\* So what is the latest after a step was so before it.
LEMMA StillLatest ==
  ASSUME IInv, [Next]_vars, NEW r, Latest(r)'
  PROVE  Latest(r)
<1> SUFFICES ASSUME NEW s \in reported \cup tasks, r.of \in {s.of, s.by}
             PROVE  s.n <= r.n
  BY DEF Latest
<1>1. PICK u \in (reported \cup tasks)' :
             u.n = s.n /\ u.of = s.of /\ (u.by = s.by \/ s.by = s.of)
  BY Remembered
<1> QED
  BY <1>1 DEF Latest

LEMMA ServedSoFar ==
  ASSUME IInv, [Next]_vars, NEW r \in reported, r.at = "published", r.calm, r.alone,
         Latest(r)'
  PROVE  held[r.of] = r.path /\ (Announced(r) \/ deletions > 0)
<1>1. Latest(r)
  BY StillLatest
<1> QED
  BY <1>1 DEF IInv, PublishedIsServed, Latest, Announced

-----------------------------------------------------------------------------
(* Every step keeps the invariant *)

\* The scan keeps the types of the list.
LEMMA KeepsLocalTypes ==
  ASSUME LocalTypeOK, ScanSteps \/ Rescan
  PROVE  LocalTypeOK'
<1> USE LocalReposAssumption DEF LocalTypeOK, Nothing, Entry
<1>n. asked \in Nat /\ begun \in Nat /\ served \in Nat /\ served <= begun /\ begun <= asked
  OBVIOUS
<1>1. CASE ScanLands
  <2>1. disk' \in [Path -> Entry] /\ repos' \in [Path -> Entry] /\ seen' \in [Path -> Entry]
        /\ todo' \subseteq Path /\ scanning' \in BOOLEAN /\ scanDirty' \in BOOLEAN
    BY <1>1 DEF ScanLands, BeginScan
  <2>2. asked' = asked /\ served' = begun /\ begun' \in {begun, asked}
    BY <1>1 DEF ScanLands, BeginScan
  <2> QED
    BY <1>n, <2>1, <2>2
<1>2. ASSUME NEW p \in Path, Walk(p)  PROVE LocalTypeOK'
  BY <1>2 DEF Walk, counts
<1>3. CASE Rescan
  <2>1. disk' \in [Path -> Entry] /\ repos' \in [Path -> Entry] /\ seen' \in [Path -> Entry]
        /\ todo' \subseteq Path /\ scanning' \in BOOLEAN /\ scanDirty' \in BOOLEAN
    BY <1>3 DEF Rescan, Remembers, BeginScan
  <2>2. asked < MaxRescans /\ asked' = asked + 1 /\ served' = served /\ begun' \in {begun, asked'}
    BY <1>3 DEF Rescan, Remembers, BeginScan
  <2> QED
    BY <1>n, <2>1, <2>2
<1> QED
  BY <1>1, <1>2, <1>3 DEF ScanSteps

\* The types.
LEMMA KeepsTypes == IInv /\ [Next]_vars => Types'
<1> SUFFICES ASSUME IInv, [Next]_vars PROVE Types'
  OBVIOUS
<1>a. \A t \in tasks : Announce(t) => \E u : Sent(t, u)
  BY AnnouncedBy DEF IInv
<1>r. \A t \in tasks : Retract(t) => \E u : Recalled(t, u)
  BY RecalledBy DEF IInv
<1>d. \A d \in deletes : DeleteEvent(d) => \E A \in SUBSET Relay : Erased(d, A)
  BY ErasedBy DEF IInv
<1> USE PublishingAssumption, LocalReposAssumption DEF IInv, Types, TypeOK
<1>1. CASE Local \/ Request
  <2>1. LocalTypeOK'
    BY <1>1, KeepsLocalTypes DEF Local, Request
  <2> QED
    BY <1>1, <2>1 DEF Local, Request, who, views, network, ghosts, bounds
<1>2. CASE \E kind \in {"create", "publish"}, p \in Path : Begin(kind, p)
  <2> SUFFICES ASSUME NEW kind \in {"create", "publish"}, NEW p \in Path, Begin(kind, p)
               PROVE  Types'
    BY <1>2
  <2>1. LocalTypeOK'
    BY DEF Begin, localVars, scan, counts, LocalTypeOK
  <2>2. tasks' \subseteq Task
    BY BeginsOne
  <2>3. started' \in 0 .. MaxTasks
    BY DEF Begin
  <2> QED
    BY <2>1, <2>2, <2>3 DEF Begin, who, views, network
<1>3. CASE \/ \E p \in Path : OpenPanel(p)
           \/ \E p \in Path : ClosePanel(p)
  <2>1. \A t \in tasks : t.n \in 1 .. MaxTasks
    BY DEF Task
  <2>2. orphans' \subseteq 1 .. MaxTasks
    <3>1. ASSUME NEW n \in orphans'  PROVE n \in orphans \/ \E t \in tasks : n = t.n
      BY <1>3, <3>1 DEF OpenPanel, ClosePanel
    <3>2. orphans \subseteq 1 .. MaxTasks
      OBVIOUS
    <3> QED
      BY ONLY <2>1, <3>1, <3>2
  <2>3. LocalTypeOK'
    BY <1>3 DEF OpenPanel, ClosePanel, localVars, scan, counts, LocalTypeOK
  <2> QED
    BY <1>3, <2>2, <2>3 DEF OpenPanel, ClosePanel, who, network, ghosts, bounds
<1>4. CASE \E p \in Person \cup {Nobody} : Switch(p)
  <2>1. LocalTypeOK'
    BY <1>4 DEF Switch, localVars, scan, counts, LocalTypeOK
  <2>2. tasks' \subseteq Task
    BY <1>4, AllUnsettled
  <2> QED
    BY <1>4, <2>1, <2>2 DEF Switch, views, network
<1>5. CASE \E t \in tasks : Step(t)
  <2> SUFFICES ASSUME NEW t \in tasks, Step(t)  PROVE Types'
    BY <1>5
  <2>1. tasks' \subseteq Task /\ reported' \subseteq Report
    BY StepOne DEF Proceeds, Stops
  <2>2. t.path \in Path /\ t.of \in Person /\ t.by \in Person /\ t.n \in 1 .. MaxTasks
    BY DEF Task
  <2>3. LocalTypeOK'
    BY <2>2, PublishingAssumption DEF LocalTypeOK, Entry, Step, InitFolder, Sign,
         Announce, Push, Retract,
       MarkFolder, Land, Without, localVars, scan, counts
  <2>4. states' \subseteq Person /\ held' \in [Person -> Path \cup {Absent}]
    BY <2>2 DEF Step, InitFolder, Sign, Announce, Push, Retract, MarkFolder, Land,
         network
  <2>8. live' \in Served
    <3>1. live \in Served
      BY DEF Served
    <3>2. CASE Announce(t)
      BY <1>a, <3>2 DEF Sent
    <3>3. CASE Retract(t)
      BY <1>r, <3>3 DEF Recalled
    <3> QED
      BY <3>1, <3>2, <3>3 DEF Step, InitFolder, Sign, Push, MarkFolder, Land, network
  <2>5. announced' \subseteq Path /\ panels' \subseteq Path /\ orphans' \subseteq 1 .. MaxTasks
    BY <2>2 DEF Step, InitFolder, Sign, Announce, Push, Retract, MarkFolder, Land, views
  <2>6. user' = user /\ signer' = signer /\ started' = started /\ deletions' = deletions
        /\ deletes' = deletes
    BY DEF Step, InitFolder, Sign, Announce, Push, Retract, MarkFolder, Land, who,
         bounds
  <2>7. removed' \subseteq Person
    BY DEF Step, InitFolder, Sign, Announce, Push, Retract, MarkFolder, Land, ghosts
  <2> QED
    BY <2>1, <2>3, <2>4, <2>5, <2>6, <2>7, <2>8 DEF Served
<1>6. CASE \E a \in Person : Delete(a)
  <2> SUFFICES ASSUME NEW a \in Person, Delete(a)  PROVE Types'
    BY <1>6
  <2>1. LocalTypeOK'
    BY DEF Delete, localVars, scan, counts, LocalTypeOK
  <2>2. tasks' \subseteq Task
    BY DeleteJoins
  <2>3. \A n \in 0 .. MaxTasks : EventsOf(a, n) \subseteq DeletionRequest
    BY DEF EventsOf, DeletionRequest
  <2>4. PICK n \in {live[a][x] : x \in Relay} \ {0} :
          deletes' = deletes \cup EventsOf(a, n) /\ removed' \in {removed, removed \cup {a}}
    BY DEF Delete
  <2>5. n \in 0 .. MaxTasks
    OBVIOUS
  <2>6. deletes' \subseteq DeletionRequest /\ removed' \subseteq Person
    BY <2>3, <2>4, <2>5
  <2> QED
    BY <2>1, <2>2, <2>6 DEF Delete, who, views, network
<1>7. CASE \E d \in deletes : DeleteEvent(d)
  <2> SUFFICES ASSUME NEW d \in deletes, DeleteEvent(d)  PROVE Types'
    BY <1>7
  <2>2. live' \in Served
    BY <1>d DEF Erased
  <2>3. states' \subseteq Person /\ removed' \subseteq Person /\ deletes' \subseteq DeletionRequest
    BY DEF DeleteEvent
  <2> QED
    BY <2>2, <2>3 DEF DeleteEvent, localVars, scan, counts, who, views, bounds,
         LocalTypeOK, Served
<1>8. CASE UNCHANGED vars
  BY <1>8 DEF vars, localVars, scan, counts, who, views, network, ghosts, bounds,
       LocalTypeOK
<1> QED
  BY <1>1, <1>2, <1>3, <1>4, <1>5, <1>6, <1>7, <1>8, NextCases

\* The signer changes hands at an identity change only, which unsettles everything
\* in flight.
LEMMA KeepsKeys == IInv /\ [Next]_vars => Keyed'
<1> SUFFICES ASSUME IInv, [Next]_vars PROVE Keyed'
  OBVIOUS
<1> USE PublishingAssumption, LocalReposAssumption DEF IInv, Keyed
<1>1. CASE \/ Local
           \/ Request
           \/ \E p \in Path : OpenPanel(p)
           \/ \E p \in Path : ClosePanel(p)
           \/ UNCHANGED vars
  BY <1>1 DEF Local, who, views, network, ghosts, bounds, Request, OpenPanel, localVars,
       scan, counts, ClosePanel, vars
<1>2. CASE \E kind \in {"create", "publish"}, p \in Path : Begin(kind, p)
  <2> SUFFICES ASSUME NEW kind \in {"create", "publish"}, NEW p \in Path, Begin(kind, p)
               PROVE  Keyed'
    BY <1>2
  <2>1. user \in Person /\ user' = user /\ signer' = signer
    BY DEF Begin, who, Types, TypeOK
  <2>2. PICK new \in Task : tasks' = Others \cup {new} /\ new.of = user /\ new.by = user
    BY BeginsOne
  <2>3. \A u \in Others : \E t \in tasks :
          u.by = t.by /\ u.of = t.of /\ u.calm = t.calm /\ u.at = t.at
    BY AllJoined
  <2> QED
    BY <2>1, <2>2, <2>3
<1>3. CASE \E p \in Person \cup {Nobody} : Switch(p)
  <2> SUFFICES ASSUME NEW p \in Person \cup {Nobody}, Switch(p)  PROVE Keyed'
    BY <1>3
  <2>1. ASSUME NEW u \in tasks'
        PROVE  u.calm = FALSE /\ \E t \in tasks : u.by = t.by /\ u.of = t.of /\ u.at = t.at
    BY AllUnsettled
  <2>2. user' = p /\ (p # Nobody => signer' = p)
    BY DEF Switch
  <2> QED
    BY <2>1, <2>2
<1>4. CASE \E t \in tasks : Step(t)
  <2> SUFFICES ASSUME NEW t \in tasks, Step(t)  PROVE Keyed'
    BY <1>4
  <2>1. PICK u : /\ Same(u, t) /\ u.calm = t.calm
                 /\ u.by = t.by \/ (t.at = "sign" /\ u.by = signer)
                 /\ \/ Proceeds(t, u) /\ (u.at \in {"init", "sign"} => t.at = "init")
                    \/ Stops(t, u) /\ (u.at = "published" => t.at = "land")
    BY StepOne
  <2>2. user' = user /\ signer' = signer
    BY DEF Step, InitFolder, Sign, Announce, Push, Retract, MarkFolder, Land, who
  <2> QED
    BY <2>1, <2>2 DEF Same, Proceeds, Stops
<1>5. CASE \E a \in Person : Delete(a)
  <2>1. ASSUME NEW u \in tasks'
        PROVE  \E t \in tasks : u.by = t.by /\ u.of = t.of /\ u.calm = t.calm /\ u.at = t.at
    BY <1>5, DeleteJoins
  <2>2. user' = user /\ signer' = signer
    BY <1>5 DEF Delete, who
  <2> QED
    BY <2>1, <2>2
<1>6. CASE \E d \in deletes : DeleteEvent(d)
  BY <1>6 DEF DeleteEvent, Withdrawn, localVars, scan, counts, who, views, bounds
<1> QED
  BY <1>1, <1>2, <1>3, <1>4, <1>5, <1>6, NextCases

\* Only a publication that begins has a new number.
LEMMA KeepsNumbers == IInv /\ [Next]_vars => Numbered'
<1> SUFFICES ASSUME IInv, [Next]_vars PROVE Numbered'
  OBVIOUS
<1> USE PublishingAssumption, LocalReposAssumption DEF IInv, Numbered
<1>1. CASE \/ Local
           \/ Request
           \/ \E p \in Path : OpenPanel(p)
           \/ \E p \in Path : ClosePanel(p)
           \/ UNCHANGED vars
  BY <1>1 DEF Local, who, views, network, ghosts, bounds, Request, OpenPanel, localVars,
       scan, counts, ClosePanel, vars
<1>2. CASE \E kind \in {"create", "publish"}, p \in Path : Begin(kind, p)
  <2> SUFFICES ASSUME NEW kind \in {"create", "publish"}, NEW p \in Path, Begin(kind, p)
               PROVE  Numbered'
    BY <1>2
  <2>1. /\ started \in Nat /\ started' = started + 1 /\ reported' = reported
        /\ \A t \in tasks \cup reported : t.n \in Nat
    BY DEF Begin, Types, TypeOK, Task, Report
  <2>2. PICK new \in Task : tasks' = Others \cup {new} /\ new.n = started + 1
    BY BeginsOne
  <2>3. \A u \in Others : \E t \in tasks : u = [t EXCEPT !.alone = FALSE] /\ u.n = t.n
    BY AllJoined
  <2>4. \A u \in Others : u.n <= started /\ u.n \in Nat
    BY <2>1, <2>3
  <2>5. \A u, v \in Others : u.n = v.n => u = v
    BY <2>3
  <2>6. \A u \in tasks', r \in reported : u.n # r.n
    BY <2>1, <2>2, <2>3
  <2>7. \A u, v \in tasks' : u.n = v.n => u = v
    BY <2>1, <2>2, <2>4, <2>5
  <2> QED
    BY <2>1, <2>2, <2>4, <2>6, <2>7
<1>3. CASE \E p \in Person \cup {Nobody} : Switch(p)
  <2> SUFFICES ASSUME NEW p \in Person \cup {Nobody}, Switch(p)  PROVE Numbered'
    BY <1>3
  <2>1. ASSUME NEW u \in tasks'
        PROVE  \E t \in tasks : u = [t EXCEPT !.calm = FALSE] /\ u.n = t.n
    BY AllUnsettled
  <2>2. started' = started /\ reported' = reported
    BY DEF Switch
  <2>3. ASSUME NEW u \in tasks', NEW v \in tasks', u.n = v.n  PROVE u = v
    <3>1. PICK s \in tasks, t \in tasks :
                 u = [s EXCEPT !.calm = FALSE] /\ v = [t EXCEPT !.calm = FALSE] /\ s.n = t.n
      BY <2>1, <2>3
    <3>2. s = t
      BY <3>1
    <3> QED
      BY <3>1, <3>2
  <2>4. \A u \in tasks' : u.n <= started /\ \A r \in reported : u.n # r.n
    BY <2>1
  <2> QED
    BY <2>2, <2>3, <2>4
<1>4. CASE \E t \in tasks : Step(t)
  <2> SUFFICES ASSUME NEW t \in tasks, Step(t)  PROVE Numbered'
    BY <1>4
  <2>1. PICK u : Same(u, t) /\ (Proceeds(t, u) \/ Stops(t, u))
    BY StepOne
  <2>2. started' = started
    BY DEF Step, InitFolder, Sign, Announce, Push, Retract, MarkFolder, Land, bounds
  <2> QED
    BY <2>1, <2>2 DEF Same, Proceeds, Stops
<1>5. CASE \E a \in Person : Delete(a)
  <2> SUFFICES ASSUME NEW a \in Person, Delete(a)  PROVE Numbered'
    BY <1>5
  <2>1. ASSUME NEW u \in tasks'
        PROVE  \E t \in tasks : u = [t EXCEPT !.alone = FALSE] /\ u.n = t.n
    BY DeleteJoins
  <2>2. started' = started /\ reported' = reported
    BY DEF Delete
  <2>3. ASSUME NEW u \in tasks', NEW v \in tasks', u.n = v.n  PROVE u = v
    <3>1. PICK s \in tasks, t \in tasks :
                 u = [s EXCEPT !.alone = FALSE] /\ v = [t EXCEPT !.alone = FALSE] /\ s.n = t.n
      BY <2>1, <2>3
    <3>2. s = t
      BY <3>1
    <3> QED
      BY <3>1, <3>2
  <2>4. \A u \in tasks' : u.n <= started /\ \A r \in reported : u.n # r.n
    BY <2>1
  <2> QED
    BY <2>2, <2>3, <2>4
<1>6. CASE \E d \in deletes : DeleteEvent(d)
  BY <1>6 DEF DeleteEvent, Withdrawn, localVars, scan, counts, who, views, bounds
<1> QED
  BY <1>1, <1>2, <1>3, <1>4, <1>5, <1>6, NextCases

\* A publication that begins ends the solitude of the others.
LEMMA KeepsAlone == IInv /\ [Next]_vars => Alone'
<1> SUFFICES ASSUME IInv, [Next]_vars PROVE Alone'
  OBVIOUS
<1> USE PublishingAssumption, LocalReposAssumption DEF IInv, Alone, Numbered
<1>1. CASE \/ Local
           \/ Request
           \/ \E p \in Path : OpenPanel(p)
           \/ \E p \in Path : ClosePanel(p)
           \/ UNCHANGED vars
  BY <1>1 DEF Local, who, views, network, ghosts, bounds, Request, OpenPanel, localVars,
       scan, counts, ClosePanel, vars
<1>2. CASE \E kind \in {"create", "publish"}, p \in Path : Begin(kind, p)
  <2> SUFFICES ASSUME NEW kind \in {"create", "publish"}, NEW p \in Path, Begin(kind, p)
               PROVE  Alone'
    BY <1>2
  <2>1. /\ started \in Nat /\ reported' = reported /\ deletes' = deletes
        /\ \A t \in tasks \cup reported : t.n \in Nat
    BY DEF Begin, Types, TypeOK, Task, Report
  <2>2. PICK new \in Task : /\ tasks' = Others \cup {new} /\ new.n = started + 1
                            /\ new.alone => tasks = {} /\ deletes = {}
    BY BeginsOne
  <2>3. \A u \in Others : u.alone = FALSE /\ \E t \in tasks : u.n = t.n
    BY AllJoined
  <2>4. ASSUME NEW u \in tasks', u.alone  PROVE tasks' = {u} /\ deletes' = {}
    <3>1. u = new
      BY <2>2, <2>3, <2>4
    <3>2. Others = {}
      BY <2>2, <2>3, <2>4, <3>1
    <3> QED
      BY <2>1, <2>2, <2>4, <3>1, <3>2
  <2>5. ASSUME NEW u \in Others, NEW r \in reported, r.alone  PROVE r.n < u.n
    BY <2>3, <2>5
  <2>6. ASSUME NEW r \in reported  PROVE r.n < new.n
    BY <2>1, <2>2
  <2> QED
    BY <2>1, <2>2, <2>4, <2>5, <2>6
<1>3. CASE \E p \in Person \cup {Nobody} : Switch(p)
  <2> SUFFICES ASSUME NEW p, Switch(p)  PROVE Alone'
    BY <1>3
  <2>1. ASSUME NEW u \in tasks'
        PROVE  \E t \in tasks : u = [t EXCEPT !.calm = FALSE] /\ u.n = t.n /\ u.alone = t.alone
    BY AllUnsettled
  <2>2. deletes' = deletes /\ reported' = reported
    BY DEF Switch
  <2>3. ASSUME NEW u \in tasks', u.alone  PROVE tasks' = {u} /\ deletes' = {}
    <3>1. PICK t \in tasks : u = [t EXCEPT !.calm = FALSE] /\ t.alone
      BY <2>1, <2>3
    <3>2. tasks = {t} /\ deletes = {}
      BY <3>1
    <3>3. \A v \in tasks' : v = u
      BY <2>1, <3>1, <3>2
    <3> QED
      BY <2>2, <3>2, <3>3
  <2> QED
    BY <2>1, <2>2, <2>3
<1>4. CASE \E t \in tasks : Step(t)
  <2> SUFFICES ASSUME NEW t \in tasks, Step(t)  PROVE Alone'
    BY <1>4
  <2>1. PICK u : Same(u, t) /\ (Proceeds(t, u) \/ Stops(t, u))
    BY StepOne
  <2>2. deletes' = deletes
    BY DEF Step, InitFolder, Sign, Announce, Push, Retract, MarkFolder, Land, ghosts
  <2> QED
    BY <2>1, <2>2 DEF Same, Proceeds, Stops
<1>5. CASE \E a \in Person : Delete(a)
  <2> SUFFICES ASSUME NEW a \in Person, Delete(a)  PROVE Alone'
    BY <1>5
  <2>1. ASSUME NEW u \in tasks'
        PROVE  u.alone = FALSE /\ \E t \in tasks : u.n = t.n
    BY DeleteJoins
  <2>2. reported' = reported
    BY DEF Delete
  <2> QED
    BY <2>1, <2>2
<1>6. CASE \E d \in deletes : DeleteEvent(d)
  BY <1>6 DEF DeleteEvent, Withdrawn, localVars, scan, counts, who, views, bounds
<1> QED
  BY <1>1, <1>2, <1>3, <1>4, <1>5, <1>6, NextCases

\* What a lone publication does is undone by nobody before it ends.
LEMMA KeepsInForce == IInv /\ [Next]_vars => InForce'
<1> SUFFICES ASSUME IInv, [Next]_vars PROVE InForce'
  OBVIOUS
<1>a. \A t \in tasks : Announce(t) => \E u : Sent(t, u)
  BY AnnouncedBy DEF IInv
<1> USE PublishingAssumption, LocalReposAssumption DEF IInv, Types, TypeOK, Keyed,
          Alone, InForce, Task
<1>1. CASE \/ Local
           \/ Request
           \/ \E p \in Path : OpenPanel(p)
           \/ \E p \in Path : ClosePanel(p)
           \/ UNCHANGED vars
  BY <1>1 DEF Local, who, views, network, ghosts, bounds, Request, OpenPanel, localVars,
       scan, counts, ClosePanel, vars
<1>2. CASE \E kind \in {"create", "publish"}, p \in Path : Begin(kind, p)
  BY <1>2 DEF Begin, localVars, scan, counts, who, views, network
<1>3. CASE \E p \in Person \cup {Nobody} : Switch(p)
  BY <1>3 DEF Switch, localVars, scan, counts, views, network
<1>4. CASE \E t \in tasks : InitFolder(t)
  BY <1>4 DEF InitFolder, scan, counts, who, views, network, bounds, Ends, Becomes
<1>5. CASE \E t \in tasks : Sign(t)
  <2> SUFFICES ASSUME NEW t \in tasks, Sign(t)  PROVE InForce'
    BY <1>5
  <2>1. t \in Task /\ signer \in Person
    OBVIOUS
  <2>2. ASSUME NEW u \in tasks', u \notin tasks  PROVE u.at = "announce"
    <3>1. u = [t EXCEPT !.at = "announce", !.by = signer]
      BY <2>2 DEF Sign, Ends
    <3> QED
      BY <2>1, <3>1, SignedBy
  <2> QED
    BY <2>2 DEF Sign, network
<1>6. CASE \E t \in tasks : Announce(t)
  <2> SUFFICES ASSUME NEW t \in tasks, Announce(t),
                      NEW u \in tasks', u.alone, u.calm
               PROVE  /\ u.at \in {"push", "mark", "land"} =>
                           u.took # {} /\ \A x \in u.took : live'[u.by][x] = u.n
                      /\ u.at \in {"mark", "land"} => held'[u.by] = u.path
    BY <1>6 DEF InForce
  <2>1. PICK v : Sent(t, v)
    BY <1>a
  <2>2. u = v
    <3>1. tasks' = (tasks \ {t}) \cup {v}
      BY <2>1 DEF Sent
    <3>2. CASE u \in tasks
      BY <3>1, <3>2
    <3> QED
      BY <3>1, <3>2
  <2>3. t.by \in Person
    OBVIOUS
  <2> QED
    BY <2>1, <2>2, <2>3 DEF Sent, Same
<1>7. CASE \E t \in tasks : Push(t)
  <2> SUFFICES ASSUME NEW t \in tasks, Push(t),
                      NEW u \in tasks', u.alone, u.calm
               PROVE  /\ u.at \in {"push", "mark", "land"} =>
                           u.took # {} /\ \A x \in u.took : live'[u.by][x] = u.n
                      /\ u.at \in {"mark", "land"} => held'[u.by] = u.path
    BY <1>7 DEF InForce
  <2>1. PICK step \in {"land", "mark", "retract"} :
          /\ tasks' = (tasks \ {t}) \cup {[t EXCEPT !.at = step]}
          /\ step = "retract" \/ held' = [held EXCEPT ![t.by] = t.path]
    BY DEF Push, Becomes, Goes, FailedPush
  <2>2. u = [t EXCEPT !.at = step]
    <3>1. CASE u \in tasks
      <4>1. tasks = {u}
        BY <3>1
      <4> QED
        BY <2>1, <4>1
    <3> QED
      BY <2>1, <3>1
  <2>3. t \in Task /\ t.by \in Person /\ step \in Steps
    BY DEF Steps
  <2>4. /\ u.took = t.took /\ u.by = t.by /\ u.n = t.n /\ u.path = t.path
        /\ u.at = step /\ u.alone = t.alone /\ u.calm = t.calm
    BY <2>2, <2>3, GoesOn DEF Same
  <2>5. live' = live /\ t.at = "push"
    BY DEF Push
  <2>6. t.took # {} /\ \A x \in t.took : live[t.by][x] = t.n
    BY <2>4, <2>5
  <2>7. step # "retract" => held'[t.by] = t.path
    BY <2>1, <2>3
  <2> QED
    BY <2>4, <2>5, <2>6, <2>7
<1>8. CASE \E t \in tasks : Retract(t)
  <2> SUFFICES ASSUME NEW t \in tasks, Retract(t),
                      NEW u \in tasks', u.alone, u.calm
               PROVE  FALSE
    BY <1>8 DEF InForce
  <2>1. u \in tasks /\ u # t
    BY DEF Retract
  <2> QED
    BY <2>1
<1>9. CASE \E t \in tasks : MarkFolder(t)
  <2> SUFFICES ASSUME NEW t \in tasks, MarkFolder(t),
                      NEW u \in tasks', u.alone, u.calm
               PROVE  /\ u.took # {} /\ \A x \in u.took : live'[u.by][x] = u.n
                      /\ held'[u.by] = u.path
    BY <1>9 DEF InForce
  <2>1. tasks' = (tasks \ {t}) \cup {[t EXCEPT !.at = "land"]} /\ t.at = "mark"
    BY DEF MarkFolder, Becomes
  <2>2. u = [t EXCEPT !.at = "land"]
    <3>1. CASE u \in tasks
      <4>1. tasks = {u}
        BY <3>1
      <4> QED
        BY <2>1, <4>1
    <3> QED
      BY <2>1, <3>1
  <2>3. t \in Task /\ "land" \in Steps
    BY DEF Steps
  <2>4. /\ u.took = t.took /\ u.by = t.by /\ u.n = t.n /\ u.path = t.path
        /\ u.alone = t.alone /\ u.calm = t.calm
    BY <2>2, <2>3, GoesOn DEF Same
  <2>5. live' = live /\ held' = held
    BY DEF MarkFolder, network
  <2> QED
    BY <2>1, <2>4, <2>5
<1>10. CASE \E t \in tasks : Land(t)
  BY <1>10 DEF Land, scan, counts, who, network, bounds, Ends, Without
<1>11. CASE \E a \in Person : Delete(a)
  BY <1>11 DEF Delete, EventsOf, localVars, scan, counts, who, views, network
<1>12. CASE \E d \in deletes : DeleteEvent(d)
  <2>1. tasks' = tasks /\ deletes # {}
    BY <1>12 DEF DeleteEvent
  <2> QED
    BY <2>1
<1> QED
  BY <1>1, <1>2, <1>3, <1>4, <1>5, <1>6, <1>7, <1>8, <1>9, <1>10, <1>11, <1>12,
     NextSplit

\* A signature is an act of the signer; requests go one by one.
LEMMA KeepsLeftAlone == IInv /\ [Next]_vars => LeftAlone'
<1> SUFFICES ASSUME IInv, [Next]_vars PROVE LeftAlone'
  OBVIOUS
<1>a. \A t \in tasks : Announce(t) => \E u : Sent(t, u)
  BY AnnouncedBy DEF IInv
<1>r. \A t \in tasks : Retract(t) => \E u : Recalled(t, u)
  BY RecalledBy DEF IInv
<1>d. \A d \in deletes : DeleteEvent(d) => \E A \in SUBSET Relay : Erased(d, A)
  BY ErasedBy DEF IInv
<1>j. \A a \in Person : Delete(a) =>
        \A u \in tasks' : \E t \in tasks : u.by = t.by /\ u.at = t.at
  BY DeleteJoins DEF IInv
<1> USE PublishingAssumption, LocalReposAssumption DEF IInv, Types, TypeOK, Keyed,
          LeftAlone, Task, DeletionRequest
<1>1. CASE \/ Local
           \/ Request
           \/ \E p \in Path : OpenPanel(p)
           \/ \E p \in Path : ClosePanel(p)
           \/ UNCHANGED vars
  BY <1>1 DEF Local, who, views, network, ghosts, bounds, Request, OpenPanel, localVars,
       scan, counts, ClosePanel, vars
<1>2. CASE \E kind \in {"create", "publish"}, p \in Path : Begin(kind, p)
  BY <1>2 DEF Begin, localVars, scan, counts, who, views, network
<1>3. CASE \E p \in Person \cup {Nobody} : Switch(p)
  BY <1>3 DEF Switch, localVars, scan, counts, views, network
<1>4. CASE \E t \in tasks : InitFolder(t)
  BY <1>4 DEF InitFolder, scan, counts, who, views, network, bounds, Ends, Becomes
<1>5. CASE \E t \in tasks : Sign(t)
  <2> SUFFICES ASSUME NEW t \in tasks, Sign(t)  PROVE LeftAlone'
    BY <1>5
  <2>1. t \in Task /\ signer \in Person
    OBVIOUS
  <2>2. ASSUME NEW u \in tasks', u \notin tasks  PROVE u.by = signer /\ signer \notin removed'
    <3>1. u = [t EXCEPT !.at = "announce", !.by = signer] /\ removed' = removed \ {signer}
      BY <2>2 DEF Sign, Ends
    <3>2. u.by = signer
      BY <2>1, <3>1, SignedBy
    <3> QED
      BY <3>1, <3>2
  <2>3. removed' \subseteq removed /\ deletes' = deletes /\ live' = live /\ states' = states
        /\ signer' = signer
    BY DEF Sign, network, who
  <2> QED
    BY <2>2, <2>3
<1>6. CASE \E t \in tasks : Announce(t)
  <2> SUFFICES ASSUME NEW t \in tasks, Announce(t)  PROVE LeftAlone'
    BY <1>6
  <2>1. t.by \notin removed /\ t.at = "announce" /\ removed' = removed /\ deletes' = deletes
        /\ states' = states /\ signer' = signer
    BY DEF Announce, ghosts, who
  <2>2. \A a \in removed, x \in Relay : live'[a][x] = live[a][x]
    BY <1>a, <2>1 DEF Sent
  <2>3. \A u \in tasks' : u \in tasks \/ u.by = t.by
    BY <1>a DEF Sent
  <2> QED
    BY <2>1, <2>2, <2>3
<1>7. CASE \E t \in tasks : Push(t)
  <2> SUFFICES ASSUME NEW t \in tasks, Push(t)  PROVE LeftAlone'
    BY <1>7
  <2>1. t.by \notin removed /\ UNCHANGED <<removed, deletes, live, signer>>
    BY DEF Push, ghosts, who
  <2>2. states' \subseteq states \cup {t.by}
    BY DEF Push
  <2>3. \A u \in tasks' : u \in tasks \/ u.by = t.by
    BY GoesOn DEF Push, Becomes, Goes, FailedPush, Steps
  <2> QED
    BY <2>1, <2>2, <2>3
<1>8. CASE \E t \in tasks : Retract(t)
  <2> SUFFICES ASSUME NEW t \in tasks, Retract(t)  PROVE LeftAlone'
    BY <1>8
  <2>1. removed' = removed /\ deletes' = deletes /\ states' = states /\ signer' = signer
        /\ tasks' \subseteq tasks
    BY DEF Retract, who
  <2>2. \A a \in Person, x \in Relay : live'[a][x] \in {live[a][x], 0}
    BY <1>r DEF Recalled
  <2>3. \A t1 \in tasks' : t1.at \notin {"init", "sign"} => t1.by \notin removed'
    BY <2>1
  <2>4. ASSUME NEW a \in removed, NEW x \in Relay, live'[a][x] # 0
        PROVE  live'[a][x] = live[a][x]
    BY <2>2, <2>4
  <2> QED
    BY <2>1, <2>3, <2>4
<1>9. CASE \E t \in tasks : MarkFolder(t)
  BY <1>9 DEF MarkFolder, scan, counts, who, views, network, ghosts, bounds, Becomes
<1>10. CASE \E t \in tasks : Land(t)
  BY <1>10 DEF Land, scan, counts, who, network, bounds, Ends, Without
<1>11. CASE \E a \in Person : Delete(a)
  <2> SUFFICES ASSUME NEW a \in Person, Delete(a)  PROVE LeftAlone'
    BY <1>11
  <2>1. user = a /\ signer = a /\ UNCHANGED <<signer, live, states>>
    BY DEF Delete, who, network
  <2>2. PICK n \in {live[a][x] : x \in Relay} \ {0} :
          /\ deletes' = deletes \cup EventsOf(a, n)
          /\ removed' = IF tasks = {} /\ \A x \in Relay : live[a][x] \in {0, n}
                          THEN removed \cup {a} ELSE removed
    BY DEF Delete
  <2>3. \A t \in tasks' : t.at \notin {"init", "sign"} => t.by \notin removed'
    <3>1. CASE removed' = removed
      <4>1. \A u \in tasks' : \E t \in tasks : u.by = t.by /\ u.at = t.at
        BY <1>j
      <4> QED
        BY <3>1, <4>1
    <3>2. CASE tasks = {}
      BY <1>j, <3>2
    <3> QED
      BY <2>2, <3>1, <3>2
  <2>4. \A b \in removed', d \in deletes' : d.of = b => signer' = b
    BY <2>1, <2>2 DEF EventsOf
  <2>5. ASSUME NEW b \in removed'
        PROVE  /\ \A x \in Relay : live'[b][x] # 0 =>
                    [what |-> "announcement", n |-> live'[b][x], of |-> b] \in deletes'
               /\ b \in states' => [what |-> "state", n |-> 0, of |-> b] \in deletes'
    <3>1. CASE b \in removed
      BY <2>1, <2>2, <3>1
    <3>2. CASE b \notin removed
      <4>1. b = a /\ \A x \in Relay : live[a][x] \in {0, n}
        BY <2>2, <2>5, <3>2
      <4>2. /\ [what |-> "announcement", n |-> n, of |-> a] \in deletes'
            /\ [what |-> "state", n |-> 0, of |-> a] \in deletes'
        BY <2>2 DEF EventsOf
      <4>3. \A x \in Relay : live'[b][x] # 0 => live'[b][x] = n
        BY <2>1, <4>1
      <4> QED
        BY <4>1, <4>2, <4>3
    <3> QED
      BY <3>1, <3>2
  <2> QED
    BY <2>3, <2>4, <2>5
<1>12. CASE \E d \in deletes : DeleteEvent(d)
  <2> SUFFICES ASSUME NEW d \in deletes, DeleteEvent(d)  PROVE LeftAlone'
    BY <1>12
  <2>1. /\ deletes' = deletes \ {d} /\ removed' \subseteq removed /\ signer' = signer
        /\ tasks' = tasks
    BY DEF DeleteEvent, who
  <2>6. PICK A \in SUBSET Relay : Erased(d, A)
    BY <1>d
  <2>2. /\ \A a \in Person, x \in Relay : live'[a][x] \in {live[a][x], 0}
        /\ \A a \in Person : a \in states' => a \in states
    BY <2>6 DEF Erased
  <2>3. ASSUME NEW a \in removed', a = d.of
        PROVE  /\ d.what = "announcement" =>
                    \A x \in Relay : live'[a][x] # d.n \/ live'[a][x] = 0
               /\ d.what = "state" => a \notin states'
    <3>1. A = Relay /\ a \in removed /\ signer = a /\ a \in Person
      BY <2>1, <2>3, <2>6 DEF Erased
    <3> QED
      BY <2>3, <2>6, <3>1 DEF Erased
  <2>4. ASSUME NEW a \in removed', NEW x \in Relay, live'[a][x] # 0
        PROVE  [what |-> "announcement", n |-> live'[a][x], of |-> a] \in deletes'
    <3> DEFINE e == [what |-> "announcement", n |-> live'[a][x], of |-> a]
    <3>1. live'[a][x] = live[a][x]
      BY <2>1, <2>2, <2>4
    <3>2. e \in deletes
      BY <2>1, <2>4, <3>1
    <3>3. e.what = "announcement" /\ e.n = live'[a][x] /\ e.of = a
      OBVIOUS
    <3> HIDE DEF e
    <3>4. e # d
      BY <2>3, <2>4, <3>3
    <3>5. e \in deletes'
      BY <2>1, <3>2, <3>4
    <3> QED
      BY <3>5 DEF e
  <2>5. ASSUME NEW a \in removed', a \in states'
        PROVE  [what |-> "state", n |-> 0, of |-> a] \in deletes'
    <3> DEFINE e == [what |-> "state", n |-> 0, of |-> a]
    <3>1. e \in deletes
      BY <2>1, <2>2, <2>5
    <3>2. e.what = "state" /\ e.of = a
      OBVIOUS
    <3> HIDE DEF e
    <3>3. e # d
      BY <2>3, <2>5, <3>2
    <3>4. e \in deletes'
      BY <2>1, <3>1, <3>3
    <3> QED
      BY <3>4 DEF e
  <2> QED
    BY <2>1, <2>4, <2>5
<1> QED
  BY <1>1, <1>2, <1>3, <1>4, <1>5, <1>6, <1>7, <1>8, <1>9, <1>10, <1>11, <1>12,
     NextSplit

\* Requests are made by deletions.
LEMMA KeepsAsked == IInv /\ [Next]_vars => Asked'
<1> SUFFICES ASSUME IInv, [Next]_vars PROVE Asked'
  OBVIOUS
<1> USE PublishingAssumption, LocalReposAssumption DEF IInv, Types, TypeOK, Asked
<1>1. CASE \/ Local
           \/ Request
           \/ \E p \in Path : OpenPanel(p)
           \/ \E p \in Path : ClosePanel(p)
           \/ UNCHANGED vars
  BY <1>1 DEF Local, who, views, network, ghosts, bounds, Request, OpenPanel, localVars,
       scan, counts, ClosePanel, vars
<1>2. CASE \E kind \in {"create", "publish"}, p \in Path : Begin(kind, p)
  BY <1>2 DEF Begin, localVars, scan, counts, who, views, network
<1>3. CASE \E p \in Person \cup {Nobody} : Switch(p)
  BY <1>3 DEF Switch, localVars, scan, counts, views, network
<1>4. CASE \E t \in tasks : InitFolder(t)
  BY <1>4 DEF InitFolder, scan, counts, who, views, network, bounds, Ends, Becomes
<1>5. CASE \E t \in tasks : Sign(t)
  BY <1>5 DEF Sign, localVars, scan, counts, who, views, network, bounds, Ends
<1>6. CASE \E t \in tasks : Announce(t)
  BY <1>6 DEF Announce, localVars, scan, counts, who, views, ghosts, bounds, Becomes
<1>7. CASE \E t \in tasks : Push(t)
  BY <1>7 DEF Push, localVars, scan, counts, who, views, ghosts, bounds, Becomes, Goes,
       FailedPush
<1>8. CASE \E t \in tasks : Retract(t)
  BY <1>8 DEF Retract, localVars, scan, counts, who, views, bounds, Ends, Withdrawn
<1>9. CASE \E t \in tasks : MarkFolder(t)
  BY <1>9 DEF MarkFolder, scan, counts, who, views, network, ghosts, bounds, Becomes
<1>10. CASE \E t \in tasks : Land(t)
  BY <1>10 DEF Land, scan, counts, who, network, bounds, Ends, Without
<1>11. CASE \E a \in Person : Delete(a)
  BY <1>11 DEF Delete, EventsOf, localVars, scan, counts, who, views, network
<1>12. CASE \E d \in deletes : DeleteEvent(d)
  BY <1>12 DEF DeleteEvent, Withdrawn, localVars, scan, counts, who, views, bounds
<1> QED
  BY <1>1, <1>2, <1>3, <1>4, <1>5, <1>6, <1>7, <1>8, <1>9, <1>10, <1>11, <1>12,
     NextSplit

\* A number is announced once, before its publication is retracted.
LEMMA KeepsRetracted == IInv /\ [Next]_vars => RetractedWhereTaken'
<1> SUFFICES ASSUME IInv, [Next]_vars PROVE RetractedWhereTaken'
  OBVIOUS
<1>a. \A t \in tasks : Announce(t) => \E u : Sent(t, u)
  BY AnnouncedBy DEF IInv
<1>r. \A t \in tasks : Retract(t) => \E u : Recalled(t, u)
  BY RecalledBy DEF IInv
<1>d. \A d \in deletes : DeleteEvent(d) => \E A \in SUBSET Relay : Erased(d, A)
  BY ErasedBy DEF IInv
<1> USE PublishingAssumption, LocalReposAssumption DEF IInv, Types, TypeOK, Keyed,
          Numbered, RetractedWhereTaken, Task, Report
<1>1. CASE \/ Local
           \/ Request
           \/ \E p \in Path : OpenPanel(p)
           \/ \E p \in Path : ClosePanel(p)
           \/ UNCHANGED vars
  BY <1>1 DEF Local, who, views, network, ghosts, bounds, Request, OpenPanel, localVars,
       scan, counts, ClosePanel, vars
<1>2. CASE \E kind \in {"create", "publish"}, p \in Path : Begin(kind, p)
  BY <1>2 DEF Begin, localVars, scan, counts, who, views, network
<1>3. CASE \E p \in Person \cup {Nobody} : Switch(p)
  BY <1>3 DEF Switch, localVars, scan, counts, views, network
<1>4. CASE \E t \in tasks : InitFolder(t)
  BY <1>4 DEF InitFolder, scan, counts, who, views, network, bounds, Ends, Becomes
<1>5. CASE \E t \in tasks : Sign(t)
  BY <1>5 DEF Sign, localVars, scan, counts, who, views, network, bounds, Ends
<1>6. CASE \E t \in tasks : Announce(t)
  <2> SUFFICES ASSUME NEW t \in tasks, Announce(t)  PROVE RetractedWhereTaken'
    BY <1>6
  <2>1. \A a \in Person, x \in Relay : live'[a][x] \in {t.n, live[a][x]}
    BY <1>a DEF Sent
  <2>2. reported' = reported
    BY DEF Announce, ghosts
  <2> QED
    BY <2>1, <2>2
<1>7. CASE \E t \in tasks : Push(t)
  BY <1>7 DEF Push, localVars, scan, counts, who, views, ghosts, bounds, Becomes, Goes,
       FailedPush
<1>8. CASE \E t \in tasks : Retract(t)
  <2> SUFFICES ASSUME NEW t \in tasks, Retract(t)  PROVE RetractedWhereTaken'
    BY <1>8
  <2>1. PICK u : Recalled(t, u)
    BY <1>r
  <2>4. ASSUME NEW r \in reported', r.at = "retracted", r.calm
        PROVE  r.took # {} /\ \A x \in r.took : live'[r.by][x] # r.n
    <3>1. CASE r \in reported
      <4>1. r.by \in Person /\ r.took \subseteq Relay /\ r.n \in 1 .. MaxTasks
        BY <3>1
      <4>2. r.took # {} /\ \A x \in r.took : live[r.by][x] # r.n
        BY <2>4, <3>1
      <4> QED
        BY <2>1, <4>1, <4>2 DEF Recalled
    <3>2. CASE r = u
      <4>1. signer = t.by /\ t.by \in Person
        BY <2>1, <2>4, <3>2 DEF Recalled
      <4> QED
        BY <2>1, <2>4, <3>2, <4>1 DEF Recalled, Same
    <3> QED
      BY <2>1, <3>1, <3>2 DEF Recalled
  <2> QED
    BY <2>4
<1>9. CASE \E t \in tasks : MarkFolder(t)
  BY <1>9 DEF MarkFolder, scan, counts, who, views, network, ghosts, bounds, Becomes
<1>10. CASE \E t \in tasks : Land(t)
  BY <1>10 DEF Land, scan, counts, who, network, bounds, Ends, Without
<1>11. CASE \E a \in Person : Delete(a)
  BY <1>11 DEF Delete, EventsOf, localVars, scan, counts, who, views, network
<1>12. CASE \E d \in deletes : DeleteEvent(d)
  <2> SUFFICES ASSUME NEW d \in deletes, DeleteEvent(d)  PROVE RetractedWhereTaken'
    BY <1>12
  <2>2. \A a \in Person, x \in Relay : live'[a][x] \in {live[a][x], 0}
    BY <1>d DEF Erased
  <2>3. reported' = reported
    BY DEF DeleteEvent
  <2>4. \A r \in reported : r.by \in Person /\ r.took \subseteq Relay /\ r.n # 0
    OBVIOUS
  <2> QED
    BY <2>2, <2>3, <2>4
<1> QED
  BY <1>1, <1>2, <1>3, <1>4, <1>5, <1>6, <1>7, <1>8, <1>9, <1>10, <1>11, <1>12,
     NextSplit

\* What is in force at the end stays so while it is the latest.
LEMMA KeepsServed == IInv /\ [Next]_vars => PublishedIsServed'
<1> SUFFICES ASSUME IInv, [Next]_vars PROVE PublishedIsServed'
  OBVIOUS
<1>a. \A t \in tasks : Announce(t) => \E u : Sent(t, u)
  BY AnnouncedBy DEF IInv
<1>r. \A t \in tasks : Retract(t) => \E u : Recalled(t, u)
  BY RecalledBy DEF IInv
<1> USE PublishingAssumption, LocalReposAssumption DEF IInv, Types, TypeOK
<1>1. CASE \/ Local
           \/ Request
           \/ \E kind \in {"create", "publish"}, p \in Path : Begin(kind, p)
           \/ \E p \in Path : OpenPanel(p)
           \/ \E p \in Path : ClosePanel(p)
           \/ \E p \in Person \cup {Nobody} : Switch(p)
           \/ \E t \in tasks : MarkFolder(t)
           \/ UNCHANGED vars
  <2> SUFFICES ASSUME NEW r \in reported', r.at = "published", r.calm, r.alone, Latest(r)'
               PROVE  held'[r.of] = r.path /\ (Announced(r)' \/ deletions' > 0)
    BY <1>1 DEF PublishedIsServed, Latest, Announced
  <2>1. reported' = reported /\ live' = live /\ held' = held /\ deletions' = deletions
    BY <1>1 DEF Local, Request, Begin, OpenPanel, ClosePanel, Switch, MarkFolder, vars,
         network, ghosts, bounds
  <2> QED
    BY <2>1, ServedSoFar DEF Announced
<1>2. CASE \/ \E t \in tasks : InitFolder(t)
           \/ \E t \in tasks : Sign(t)
  <2> SUFFICES ASSUME NEW r \in reported', r.at = "published", r.calm, r.alone, Latest(r)'
               PROVE  held'[r.of] = r.path /\ (Announced(r)' \/ deletions' > 0)
    BY <1>2 DEF PublishedIsServed, Latest, Announced
  <2>1. live' = live /\ held' = held /\ deletions' = deletions
    BY <1>2 DEF InitFolder, Sign, network, bounds
  <2>2. PICK t \in tasks : Step(t) /\ t.at # "land"
    BY <1>2 DEF Step, InitFolder, Sign
  <2>3. r \in reported
    BY <2>2, StepOne DEF Proceeds, Stops
  <2> QED
    BY <2>1, <2>3, ServedSoFar DEF Announced
<1>3. CASE \E t \in tasks : Announce(t)
  <2> SUFFICES ASSUME NEW t \in tasks, Announce(t),
                      NEW r \in reported', r.at = "published", r.calm, r.alone, Latest(r)'
               PROVE  held'[r.of] = r.path /\ (Announced(r)' \/ deletions' > 0)
    BY <1>3 DEF PublishedIsServed, Latest, Announced
  <2>1. reported' = reported /\ held' = held /\ deletions' = deletions
    BY DEF Announce, ghosts, bounds
  <2>2. PICK u \in (reported \cup tasks)' : u.n = t.n /\ u.by = t.by
    BY <1>a DEF Sent, Same
  <2>3. r.n < t.n /\ r.n \in Nat /\ t.n \in Nat
    BY <2>1 DEF Alone, Task, Report
  <2>4. t.by # r.of
    BY <2>2, <2>3 DEF Latest
  <2>5. r.of \in Person /\ r.took \subseteq Relay
    BY <2>1 DEF Report
  <2>6. \A x \in Relay : live'[r.of][x] = live[r.of][x]
    BY <1>a, <2>4, <2>5 DEF Sent
  <2>7. Announced(r) => Announced(r)'
    BY <2>5, <2>6 DEF Announced
  <2> QED
    BY <2>1, <2>7, ServedSoFar
<1>4. CASE \E t \in tasks : Push(t)
  <2> SUFFICES ASSUME NEW t \in tasks, Push(t),
                      NEW r \in reported', r.at = "published", r.calm, r.alone, Latest(r)'
               PROVE  held'[r.of] = r.path /\ (Announced(r)' \/ deletions' > 0)
    BY <1>4 DEF PublishedIsServed, Latest, Announced
  <2>1. reported' = reported /\ live' = live /\ deletions' = deletions
    BY DEF Push, ghosts, bounds
  <2>2. PICK u \in (reported \cup tasks)' : u.n = t.n /\ u.by = t.by
    BY StepOne DEF Step, Push, Same, Proceeds, Stops
  <2>3. r.n < t.n /\ r.n \in Nat /\ t.n \in Nat
    BY <2>1 DEF Alone, Task, Report
  <2>4. t.by # r.of
    BY <2>2, <2>3 DEF Latest
  <2>5. held'[r.of] = held[r.of]
    BY <2>1, <2>4 DEF Push, Report
  <2> QED
    BY <2>1, <2>5, ServedSoFar DEF Announced
<1>5. CASE \E t \in tasks : Retract(t)
  <2> SUFFICES ASSUME NEW t \in tasks, Retract(t),
                      NEW r \in reported', r.at = "published", r.calm, r.alone, Latest(r)'
               PROVE  held'[r.of] = r.path /\ (Announced(r)' \/ deletions' > 0)
    BY <1>5 DEF PublishedIsServed, Latest, Announced
  <2>1. held' = held /\ deletions' = deletions
    BY DEF Retract, bounds
  <2>2. r \in reported
    BY <1>r DEF Recalled
  <2>3. r.n < t.n /\ r.n \in Nat /\ t.n \in Nat
    BY <2>2 DEF Alone, Task, Report
  <2>5. /\ live \in Served /\ t.by \in Person /\ r.of \in Person
        /\ r.took \subseteq Relay
    BY <2>2 DEF Served, Report, Task
  <2>6. \A x \in r.took : live[r.of][x] = r.n => live'[r.of][x] = r.n
    BY <1>r, <2>3, <2>5 DEF Recalled
  <2>4. Announced(r) => Announced(r)'
    BY <2>6 DEF Announced
  <2> QED
    BY <2>1, <2>2, <2>4, ServedSoFar
<1>6. CASE \E t \in tasks : Land(t)
  <2> SUFFICES ASSUME NEW t \in tasks, Land(t),
                      NEW r \in reported', r.at = "published", r.calm, r.alone, Latest(r)'
               PROVE  held'[r.of] = r.path /\ (Announced(r)' \/ deletions' > 0)
    BY <1>6 DEF PublishedIsServed, Latest, Announced
  <2>1. live' = live /\ held' = held /\ deletions' = deletions
    BY DEF Land, network, bounds
  <2>2. CASE r \in reported
    BY <2>1, <2>2, ServedSoFar DEF Announced
  <2>3. CASE r \notin reported
    <3>1. r = [t EXCEPT !.at = "published"]
      BY <2>3 DEF Land, Ends
    <3>2. Same(r, t) /\ r.calm = t.calm /\ r.took = t.took
      BY <3>1, EndsAs DEF Ways
    <3>3. /\ t.took # {} /\ \A x \in t.took : live[t.by][x] = t.n
          /\ held[t.by] = t.path /\ t.by = t.of
      BY <3>2 DEF InForce, Keyed, Same, Land
    <3> QED
      BY <2>1, <3>2, <3>3 DEF Same, Announced
  <2> QED
    BY <2>2, <2>3
<1>7. CASE \E a \in Person : Delete(a)
  <2> SUFFICES ASSUME NEW r \in reported', r.at = "published", r.calm, r.alone, Latest(r)'
               PROVE  held'[r.of] = r.path /\ (Announced(r)' \/ deletions' > 0)
    BY <1>7 DEF PublishedIsServed, Latest, Announced
  <2>1. reported' = reported /\ held' = held /\ deletions' > 0
    BY <1>7 DEF Delete, network
  <2> QED
    BY <2>1, ServedSoFar
<1>8. CASE \E d \in deletes : DeleteEvent(d)
  <2> SUFFICES ASSUME NEW r \in reported', r.at = "published", r.calm, r.alone, Latest(r)'
               PROVE  held'[r.of] = r.path /\ (Announced(r)' \/ deletions' > 0)
    BY <1>8 DEF PublishedIsServed, Latest, Announced
  <2>1. reported' = reported /\ held' = held /\ deletions' > 0
    BY <1>8 DEF DeleteEvent, bounds, Asked
  <2> QED
    BY <2>1, ServedSoFar
<1> QED
  BY <1>1, <1>2, <1>3, <1>4, <1>5, <1>6, <1>7, <1>8, NextSplit

-----------------------------------------------------------------------------
(* The invariant and the theorems *)

LEMMA Start == Init => IInv
<1> SUFFICES ASSUME Init PROVE IInv
  OBVIOUS
<1> USE PublishingAssumption, LocalReposAssumption DEF Init
<1>1. LocalTypeOK
  <2>1. disk \in [Path -> Entry] /\ repos \in [Path -> Entry] /\ seen \in [Path -> Entry]
    BY DEF LocalInit, Nothing, Entry
  <2>2. asked \in 0 .. MaxRescans /\ begun \in 0 .. asked /\ served \in 0 .. begun
    BY DEF LocalInit
  <2>3. todo \subseteq Path /\ scanning \in BOOLEAN /\ scanDirty \in BOOLEAN
    BY DEF LocalInit
  <2> QED
    BY <2>1, <2>2, <2>3 DEF LocalTypeOK
<1>2. Types
  BY <1>1 DEF Types, TypeOK
<1>3. Keyed /\ Numbered /\ Alone /\ InForce /\ LeftAlone /\ Asked
  BY DEF Keyed, Numbered, Alone, InForce, LeftAlone, Asked
<1>4. RetractedWhereTaken /\ PublishedIsServed
  BY DEF RetractedWhereTaken, PublishedIsServed
<1> QED
  BY <1>2, <1>3, <1>4 DEF IInv

THEOREM Invariance == Spec => []IInv
<1>1. IInv /\ [Next]_vars => IInv'
  BY KeepsTypes, KeepsKeys, KeepsNumbers, KeepsAlone, KeepsInForce, KeepsLeftAlone,
     KeepsAsked, KeepsRetracted, KeepsServed DEF IInv
<1> QED
  BY Start, <1>1, PTL DEF Spec

\* Every variable keeps its type, whatever is published, deleted and scanned.
THEOREM TypeCorrect == Spec => []TypeOK
<1>1. IInv => TypeOK
  BY DEF IInv, Types
<1> QED
  BY <1>1, Invariance, PTL

\* Of a publication that the user is told was retracted some relay took the
\* request, and it is off every relay that did (retract_announcement), unless the
\* identity had changed before.
THEOREM RetractionHolds == Spec => []RetractedWhereTaken
<1>1. IInv => RetractedWhereTaken
  BY DEF IInv
<1> QED
  BY <1>1, Invariance, PTL

\* One that ended well is on every relay that took its announcement, one at least,
\* and its objects are on a server (announce_and_push), until its owner publishes or deletes again.
THEOREM PublicationServed == Spec => []PublishedIsServed
<1>1. IInv => PublishedIsServed
  BY DEF IInv
<1> QED
  BY <1>1, Invariance, PTL

\* A deleted repository is gone with its state once every relay has taken every
\* request (retract_events), in whatever order they are sent.
THEOREM DeletionHolds == Spec => []DeletedIsGone
<1>1. IInv => DeletedIsGone
  BY DEF IInv, LeftAlone, DeletedIsGone
<1> QED
  BY <1>1, Invariance, PTL

-----------------------------------------------------------------------------
(* The list of the sidebar *)

\* A repository that was on the list, is shown or was published is on the disk.
Found(p) ==
  \/ repos[p] = Plain \/ seen[p] = Plain \/ p \in panels
  \/ \E s \in tasks \cup reported : s.kind = "publish" /\ s.path = p

OnDisk == \A p \in Path : Found(p) => disk[p] # Absent

\* Only local repositories are marked.
OnlyPublished == \A t \in tasks : t.at = "mark" => t.kind = "publish"

\* A publication that has marked the folder and has still to correct the list.
Corrected(p) == \E t \in tasks : t.kind = "publish" /\ t.path = p /\ t.at = "land"

\* The list offers the repository, or will when the scan lands.
Offered(p) == repos[p] = Plain \/ (scanning /\ seen[p] = Plain)

\* A marked repository is offered only for a reason.
Unmissed ==
  \A r \in reported :
    (/\ r.at = "published" /\ r.kind = "publish"
     /\ disk[r.path] \in Person /\ Offered(r.path))
    => r.path \in reoffered \/ Corrected(r.path)

ListInv == OnDisk /\ OnlyPublished /\ Unmissed

\* A step that leaves the list alone, and every publication where it was.
LEMMA ListStays ==
  ASSUME ListInv, UNCHANGED <<disk, repos, scanning, seen, reported, reoffered>>,
         \A p \in panels' : p \in panels \/ repos[p] = Plain,
         \A u \in tasks' : \/ \E t \in tasks : u.kind = t.kind /\ u.path = t.path /\ u.at = t.at
                           \/ u.at # "mark" /\ (u.kind = "publish" => u.path \in panels),
         \A t \in tasks : t.at = "land" =>
           \E u \in tasks' : u.kind = t.kind /\ u.path = t.path /\ u.at = t.at
  PROVE  ListInv'
<1> USE DEF ListInv
<1>1. ASSUME NEW p \in Path, Found(p)'
      PROVE  Found(p)
  BY <1>1 DEF Found
<1>2. OnDisk'
  BY <1>1 DEF OnDisk
<1>3. OnlyPublished'
  BY DEF OnlyPublished
<1>4. Unmissed'
  <2> SUFFICES ASSUME NEW r \in reported, r.at = "published", r.kind = "publish",
                      disk[r.path] \in Person, Offered(r.path), r.path \notin reoffered
               PROVE  Corrected(r.path)'
    BY DEF Unmissed, Offered
  <2>1. Corrected(r.path)
    BY DEF Unmissed
  <2> QED BY <2>1 DEF Corrected
<1> QED BY <1>2, <1>3, <1>4

\* The scan finds what is on the disk, and the list becomes what it has found.
LEMMA ListScans ==
  ASSUME Types, ListInv, Local \/ Request
  PROVE  ListInv'
<1> USE LocalReposAssumption, PublishingAssumption DEF ListInv, Types, TypeOK, LocalTypeOK
<1>1. UNCHANGED <<disk, panels, tasks, reported, reoffered>>
  BY DEF Local, Request, ScanSteps, ScanLands, Walk, Rescan, views, ghosts
<1>2. ASSUME NEW p \in Path
      PROVE  /\ repos'[p] = Plain => repos[p] = Plain \/ (scanning /\ seen[p] = Plain)
             /\ seen'[p] = Plain => seen[p] = Plain \/ disk[p] = Plain
             /\ (scanning' /\ seen'[p] = Plain) => (scanning /\ seen[p] = Plain) \/ disk[p] = Plain
  <2>1. CASE ScanLands
    BY <2>1 DEF ScanLands, BeginScan, Nothing
  <2>2. ASSUME NEW q \in Path, Walk(q)
        PROVE  /\ repos' = repos /\ scanning' = scanning
               /\ seen'[p] = seen[p] \/ seen'[p] = disk[p]
    BY <2>2 DEF Walk
  <2>3. CASE Rescan
    BY <2>3 DEF Rescan, BeginScan, Nothing, Remembers
  <2>4. ASSUME NEW q \in Path, Walk(q)
        PROVE  seen[p] # Plain /\ seen'[p] = Plain => disk[p] = Plain
    BY <2>2, <2>4
  <2>5. ASSUME NEW q \in Path, Walk(q), ~(scanning /\ seen[p] = Plain), scanning', seen'[p] = Plain
        PROVE  disk[p] = Plain
    BY <2>2, <2>5
  <2> QED BY <2>1, <2>2, <2>3, <2>4, <2>5 DEF Local, Request, ScanSteps
<1>3. OnDisk'
  BY <1>1, <1>2 DEF OnDisk, Found
<1>4. OnlyPublished'
  BY <1>1 DEF OnlyPublished
<1>5. Unmissed'
  <2> SUFFICES ASSUME NEW r \in reported, r.at = "published", r.kind = "publish",
                      disk[r.path] \in Person, Offered(r.path)', r.path \notin reoffered
               PROVE  Corrected(r.path)'
    BY <1>1 DEF Unmissed
  <2>1. r.path \in Path
    BY DEF Report
  <2>2. disk[r.path] # Plain
    OBVIOUS
  <2>3. Offered(r.path)
    BY <1>2, <2>1, <2>2 DEF Offered
  <2> QED BY <1>1, <2>3 DEF Unmissed, Corrected
<1> QED BY <1>3, <1>4, <1>5

\* A publication is one of a folder that is shown.
LEMMA ListBegins ==
  ASSUME Types, ListInv, NEW p \in Path, Create(p) \/ PublishLocal(p)
  PROVE  ListInv'
<1> USE DEF Types, TypeOK
<1>1. PICK kind \in {"create", "publish"} : Begin(kind, p) /\ (kind = "publish" => p \in panels)
  BY DEF Create, PublishLocal
<1> DEFINE u == [n |-> started + 1, kind |-> kind, path |-> p, of |-> user, by |-> user,
                 took |-> {}, calm |-> TRUE, alone |-> tasks \cup deletes = {},
                 at |-> IF kind = "create" THEN "init" ELSE "sign"]
<1>2. tasks' = Others \cup {u}
  BY <1>1 DEF Begin, Others
<1>3. u.kind = kind /\ u.path = p /\ u.at # "mark"
  OBVIOUS
<1>4. ASSUME NEW t \in tasks
      PROVE  LET v == [t EXCEPT !.alone = FALSE]
             IN  v \in Others /\ v.kind = t.kind /\ v.path = t.path /\ v.at = t.at
  BY Joined DEF Others
<1>5. ASSUME NEW v \in Others
      PROVE  \E t \in tasks : v.kind = t.kind /\ v.path = t.path /\ v.at = t.at
  BY <1>4 DEF Others
<1>6. UNCHANGED <<disk, repos, scanning, seen, reported, reoffered, panels>>
  BY <1>1 DEF Begin, localVars, scan, views
<1> HIDE DEF u
<1>7. \A v \in tasks' : \/ \E t \in tasks : v.kind = t.kind /\ v.path = t.path /\ v.at = t.at
                        \/ v.at # "mark" /\ (v.kind = "publish" => v.path \in panels)
  BY <1>1, <1>2, <1>3, <1>5
<1>8. \A t \in tasks : \E v \in tasks' : v.kind = t.kind /\ v.path = t.path /\ v.at = t.at
  BY <1>2, <1>4
<1> QED BY <1>6, <1>7, <1>8, ListStays

\* Identity changes and deletions leave every publication where it is.
LEMMA ListUnsettled ==
  ASSUME Types, ListInv,
         \/ \E p \in Person \cup {Nobody} : Switch(p)
         \/ \E a \in Person : Delete(a)
  PROVE  ListInv'
<1> USE DEF Types, TypeOK
<1>1. UNCHANGED <<disk, repos, scanning, seen, reported, reoffered, panels>>
  BY DEF Switch, Delete, localVars, scan, views
<1>2. ASSUME NEW t \in tasks
      PROVE  /\ [t EXCEPT !.calm = FALSE].kind = t.kind /\ [t EXCEPT !.calm = FALSE].path = t.path
             /\ [t EXCEPT !.calm = FALSE].at = t.at
             /\ [t EXCEPT !.alone = FALSE].kind = t.kind /\ [t EXCEPT !.alone = FALSE].path = t.path
             /\ [t EXCEPT !.alone = FALSE].at = t.at
  BY Joined, Unsettled DEF Same
<1>3. \/ tasks' = {[t EXCEPT !.calm = FALSE] : t \in tasks}
      \/ tasks' = {[t EXCEPT !.alone = FALSE] : t \in tasks}
  BY DEF Switch, Delete
<1>4. ASSUME NEW v \in tasks'
      PROVE  \E t \in tasks : v.kind = t.kind /\ v.path = t.path /\ v.at = t.at
  <2>1. PICK t \in tasks : v = [t EXCEPT !.calm = FALSE] \/ v = [t EXCEPT !.alone = FALSE]
    BY <1>3
  <2> QED BY <1>2, <2>1
<1>5. \A t \in tasks : \E v \in tasks' : v.kind = t.kind /\ v.path = t.path /\ v.at = t.at
  BY <1>2, <1>3
<1> QED BY <1>1, <1>4, <1>5, ListStays

\* What a publication does on the way to its end.
LEMMA ListProceeds ==
  ASSUME Types, ListInv, NEW t \in tasks,
         Sign(t) \/ Announce(t) \/ Push(t) \/ Retract(t)
  PROVE  ListInv'
<1>a. Announce(t) => \E u : Sent(t, u)
  BY AnnouncedBy
<1>r. Retract(t) => \E u : Recalled(t, u)
  BY RecalledBy
<1> USE DEF Types, TypeOK
<1>1. UNCHANGED <<disk, repos, scanning, seen, reoffered, panels>>
  BY DEF Sign, Announce, Push, Retract, localVars, scan, views, ghosts
<1>2. PICK u : /\ u.kind = t.kind /\ u.path = t.path /\ t.at # "land"
               /\ \/ /\ tasks' = (tasks \ {t}) \cup {u} /\ reported' = reported
                     /\ u.at = "mark" => u.kind = "publish"
                  \/ /\ tasks' = tasks \ {t} /\ reported' = reported \cup {u}
                     /\ u.at # "published"
  <2>1. t \in Task /\ signer \in Person
    OBVIOUS
  <2>2. CASE Sign(t)
    <3>1. /\ [t EXCEPT !.at = "announce", !.by = signer].kind = t.kind
          /\ [t EXCEPT !.at = "announce", !.by = signer].path = t.path
          /\ [t EXCEPT !.at = "announce", !.by = signer].at = "announce"
      BY <2>1, SignedBy DEF Same
    <3>2. /\ [t EXCEPT !.at = "failed"].kind = t.kind
          /\ [t EXCEPT !.at = "failed"].path = t.path
          /\ [t EXCEPT !.at = "failed"].at = "failed"
      BY <2>1, EndsAs DEF Same, Ways
    <3> QED BY <2>2, <3>1, <3>2 DEF Sign, Ends
  <2>3. ASSUME NEW step \in Steps
        PROVE  /\ [t EXCEPT !.at = step].kind = t.kind
               /\ [t EXCEPT !.at = step].path = t.path
               /\ [t EXCEPT !.at = step].at = step
    BY <2>1, GoesOn DEF Same
  <2>4. CASE Announce(t)
    <3>1. reported' = reported /\ t.at = "announce"
      BY <2>4 DEF Announce, ghosts
    <3> QED BY <1>a, <2>4, <3>1 DEF Sent, Same
  <2>5. CASE Push(t)
    <3>1. \/ tasks' = (tasks \ {t}) \cup {[t EXCEPT !.at = "land"]}
          \/ tasks' = (tasks \ {t}) \cup {[t EXCEPT !.at = "mark"]} /\ t.kind # "create"
          \/ tasks' = (tasks \ {t}) \cup {[t EXCEPT !.at = "retract"]}
      BY <2>5 DEF Push, Becomes, Goes, FailedPush
    <3>2. t.kind # "create" => t.kind = "publish"
      BY <2>1 DEF Task
    <3>3. t.at = "push" /\ reported' = reported
      BY <2>5 DEF Push, ghosts
    <3>4. ASSUME NEW step \in {"land", "retract"},
                 tasks' = (tasks \ {t}) \cup {[t EXCEPT !.at = step]}
          PROVE  \E u : /\ u.kind = t.kind /\ u.path = t.path /\ u.at # "mark"
                        /\ tasks' = (tasks \ {t}) \cup {u}
      BY <2>3, <3>4 DEF Steps
    <3>5. ASSUME tasks' = (tasks \ {t}) \cup {[t EXCEPT !.at = "mark"]}, t.kind # "create"
          PROVE  \E u : /\ u.kind = t.kind /\ u.path = t.path /\ u.kind = "publish"
                        /\ tasks' = (tasks \ {t}) \cup {u}
      BY <2>3, <3>2, <3>5 DEF Steps
    <3>6. \E u : /\ u.kind = t.kind /\ u.path = t.path
                 /\ tasks' = (tasks \ {t}) \cup {u}
                 /\ u.at = "mark" => u.kind = "publish"
      BY <3>1, <3>4, <3>5
    <3> QED BY <3>3, <3>6
  <2>6. CASE Retract(t)
    <3>1. t.at = "retract"
      BY <2>6 DEF Retract
    <3> QED BY <1>r, <2>6, <3>1 DEF Recalled, Same
  <2> QED BY <2>2, <2>4, <2>5, <2>6
<1>3. ASSUME NEW p, Corrected(p) PROVE Corrected(p)'
  BY <1>2, <1>3 DEF Corrected
<1>4. ASSUME NEW p, Found(p)' PROVE Found(p)
  BY <1>1, <1>2, <1>4 DEF Found
<1>5. OnDisk'
  BY <1>1, <1>4 DEF ListInv, OnDisk
<1>6. OnlyPublished'
  BY <1>2 DEF ListInv, OnlyPublished
<1>7. Unmissed'
  BY <1>1, <1>2, <1>3 DEF ListInv, Unmissed, Offered
<1> QED BY <1>5, <1>6, <1>7 DEF ListInv

\* A folder is made only where there was none.
LEMMA ListInits ==
  ASSUME Types, ListInv, NEW t \in tasks, InitFolder(t)
  PROVE  ListInv'
<1> USE LocalReposAssumption, PublishingAssumption DEF Types, TypeOK, LocalTypeOK
<1>1. UNCHANGED <<repos, scanning, seen, reoffered, panels>> /\ t \in Task /\ t.path \in Path
  BY DEF InitFolder, scan, views, Task
<1>2. \A p \in Path : disk'[p] = disk[p] \/ (disk[p] = Absent /\ disk'[p] # Absent)
  <2>1. t.of \in Mark
    BY <1>1 DEF Task
  <2>2. t.of # Absent /\ Plain # Absent
    BY <2>1
  <2>3. disk \in [Path -> Entry]
    OBVIOUS
  <2>4. ASSUME NEW new, disk[t.path] = Absent \/ new = disk[t.path], new # Absent \/ new = disk[t.path],
               disk' = [disk EXCEPT ![t.path] = new]
        PROVE  \A p \in Path : disk'[p] = disk[p] \/ (disk[p] = Absent /\ disk'[p] # Absent)
    BY ONLY <1>1, <2>3, <2>4
  <2>5. CASE disk[t.path] = Absent /\ disk' = [disk EXCEPT ![t.path] = t.of]
    BY <2>2, <2>4, <2>5
  <2>6. CASE disk' = [disk EXCEPT ![t.path] = IF @ = Absent THEN Plain ELSE @]
    BY <2>2, <2>4, <2>6
  <2> QED BY <2>5, <2>6 DEF InitFolder
<1>3. PICK u : /\ u.kind = t.kind /\ u.path = t.path /\ t.at # "land"
               /\ \/ /\ tasks' = (tasks \ {t}) \cup {u} /\ reported' = reported
                     /\ u.at # "mark"
                  \/ /\ tasks' = tasks \ {t} /\ reported' = reported \cup {u}
                     /\ u.at # "published"
  <2>1. /\ [t EXCEPT !.at = "sign"].kind = t.kind /\ [t EXCEPT !.at = "sign"].path = t.path
        /\ [t EXCEPT !.at = "sign"].at = "sign"
    BY <1>1, GoesOn DEF Same, Steps
  <2>2. /\ [t EXCEPT !.at = "failed"].kind = t.kind /\ [t EXCEPT !.at = "failed"].path = t.path
        /\ [t EXCEPT !.at = "failed"].at = "failed"
    BY <1>1, EndsAs DEF Same, Ways
  <2> QED BY <2>1, <2>2 DEF InitFolder, Becomes, Ends
<1>4. ASSUME NEW p, Corrected(p) PROVE Corrected(p)'
  BY <1>3, <1>4 DEF Corrected
<1>5. ASSUME NEW p, Found(p)' PROVE Found(p)
  BY <1>1, <1>3, <1>5 DEF Found
<1>6. OnDisk'
  BY <1>2, <1>5 DEF ListInv, OnDisk
<1>7. OnlyPublished'
  BY <1>3 DEF ListInv, OnlyPublished
<1>8. Unmissed'
  <2> SUFFICES ASSUME NEW r \in reported', r.at = "published", r.kind = "publish",
                      disk'[r.path] \in Person, Offered(r.path)', r.path \notin reoffered
               PROVE  Corrected(r.path)'
    BY <1>1 DEF Unmissed
  <2>1. r \in reported /\ r.path \in Path
    BY <1>3 DEF Report
  <2>2. disk[r.path] # Absent
    BY <2>1 DEF ListInv, OnDisk, Found
  <2>3. disk'[r.path] = disk[r.path]
    BY <1>2, <2>1, <2>2
  <2> QED BY <1>1, <1>4, <2>1, <2>3 DEF ListInv, Unmissed, Offered
<1> QED BY <1>6, <1>7, <1>8 DEF ListInv

\* A folder is marked by a publication that goes on to correct the list.
LEMMA ListMarks ==
  ASSUME Types, ListInv, NEW t \in tasks, MarkFolder(t)
  PROVE  ListInv'
<1> USE LocalReposAssumption, PublishingAssumption DEF Types, TypeOK, LocalTypeOK
<1> DEFINE u == [t EXCEPT !.at = "land"]
<1>1. /\ UNCHANGED <<repos, scanning, seen, reoffered, panels, reported>> /\ t \in Task
      /\ t.path \in Path /\ t.by \in Person /\ t.kind = "publish"
  BY DEF MarkFolder, scan, views, ghosts, Task, ListInv, OnlyPublished
<1>2. u.kind = "publish" /\ u.path = t.path /\ u.at = "land"
  BY <1>1, GoesOn DEF Same, Steps
<1>3. tasks' = (tasks \ {t}) \cup {u} /\ t.at = "mark"
  BY DEF MarkFolder, Becomes
<1>4. \A p \in Path : disk'[p] = disk[p] \/ (p = t.path /\ disk'[p] # Absent)
  BY <1>1 DEF MarkFolder
<1> HIDE DEF u
<1>5. ASSUME NEW p, Corrected(p) PROVE Corrected(p)'
  BY <1>3, <1>5 DEF Corrected
<1>6. ASSUME NEW p, Found(p)' PROVE Found(p)
  BY <1>1, <1>2, <1>3, <1>6 DEF Found
<1>7. OnDisk'
  BY <1>4, <1>6 DEF ListInv, OnDisk
<1>8. OnlyPublished'
  BY <1>2, <1>3 DEF ListInv, OnlyPublished
<1>9. Unmissed'
  <2> SUFFICES ASSUME NEW r \in reported, r.at = "published", r.kind = "publish",
                      disk'[r.path] \in Person, Offered(r.path), r.path \notin reoffered
               PROVE  Corrected(r.path)'
    BY <1>1 DEF Unmissed, Offered
  <2>1. r.path \in Path
    BY DEF Report
  <2>2. CASE r.path = t.path
    BY <1>2, <1>3, <2>2 DEF Corrected
  <2>3. CASE r.path # t.path
    BY <1>4, <1>5, <2>1, <2>3 DEF ListInv, Unmissed
  <2> QED BY <2>2, <2>3
<1> QED BY <1>7, <1>8, <1>9 DEF ListInv

\* A publication that ends well takes its folder off the list, or remembers
\* why it did not.
LEMMA ListLands ==
  ASSUME Types, ListInv, NEW t \in tasks, Land(t)
  PROVE  ListInv'
<1> USE LocalReposAssumption, PublishingAssumption DEF Types, TypeOK, LocalTypeOK
<1> DEFINE u == [t EXCEPT !.at = "published"]
<1>1. /\ UNCHANGED <<disk, scanning, seen, panels>> /\ t \in Task /\ t.path \in Path
      /\ reoffered \subseteq reoffered'
  BY DEF Land, scan, Task
<1>2. u.kind = t.kind /\ u.path = t.path
  BY <1>1, EndsAs DEF Same, Ways
<1>3. tasks' = tasks \ {t} /\ reported' = reported \cup {u}
  BY DEF Land, Ends
<1>4. \A p \in Path : repos'[p] = Plain => repos[p] = Plain
  BY <1>1 DEF Land, Without
<1>5. (t.kind = "publish" /\ t.path \notin reoffered') =>
        repos'[t.path] # Plain /\ ~(scanning /\ seen[t.path] = Plain)
  BY <1>1 DEF Land, Without
<1> HIDE DEF u
<1>6. ASSUME NEW p \in Path, Found(p)' PROVE Found(p)
  BY <1>1, <1>2, <1>3, <1>4, <1>6 DEF Found
<1>7. OnDisk'
  BY <1>1, <1>6 DEF ListInv, OnDisk
<1>8. OnlyPublished'
  BY <1>3 DEF ListInv, OnlyPublished
<1>9. Unmissed'
  <2> SUFFICES ASSUME NEW r \in reported', r.at = "published", r.kind = "publish",
                      disk[r.path] \in Person, Offered(r.path)', r.path \notin reoffered'
               PROVE  Corrected(r.path)'
    BY <1>1 DEF Unmissed
  <2>1. r.path \in Path
    BY <1>2, <1>3, <1>1 DEF Report
  <2>2. ~(t.kind = "publish" /\ r.path = t.path)
    BY <1>1, <1>5 DEF Offered
  <2>3. r \in reported
    BY <1>2, <1>3, <2>2
  <2>4. Offered(r.path)
    BY <1>1, <1>4, <2>1 DEF Offered
  <2>5. Corrected(r.path)
    BY <1>1, <2>3, <2>4 DEF ListInv, Unmissed
  <2> QED BY <1>3, <2>2, <2>5 DEF Corrected
<1> QED BY <1>7, <1>8, <1>9 DEF ListInv

\* Every step keeps it.
LEMMA KeepsList == Types /\ ListInv /\ [Next]_vars => ListInv'
<1> SUFFICES ASSUME Types, ListInv, [Next]_vars PROVE ListInv'
  OBVIOUS
<1>1. CASE \/ \E p \in Path : OpenPanel(p) \/ ClosePanel(p)
           \/ \E d \in deletes : DeleteEvent(d)
           \/ UNCHANGED vars
  <2>1. /\ UNCHANGED <<disk, repos, scanning, seen, reported, reoffered, tasks>>
        /\ \A p \in panels' : p \in panels \/ repos[p] = Plain
    BY <1>1 DEF OpenPanel, ClosePanel, DeleteEvent, vars, localVars, scan, views, ghosts
  <2> QED BY <2>1, ListStays
<1> QED
  BY <1>1, ListScans, ListBegins, ListUnsettled, ListProceeds, ListInits, ListMarks,
     ListLands DEF Next, Step

\* What is published and marked is not offered to be published again, unless its
\* panel was closed or a scan had read the folder before it was marked
\* (publish_local_repo, apply_announcement, LocalReposStore::remove).
THEOREM OfferedOnce == Spec => []NotOfferedAgain
<1>1. Init => ListInv
  BY LocalReposAssumption DEF Init, LocalInit, Nothing, ListInv, OnDisk, OnlyPublished,
     Unmissed, Found, Offered
<1>2. IInv => Types
  BY DEF IInv
<1>3. ListInv => NotOfferedAgain
  BY DEF ListInv, Unmissed, Offered, Corrected, NotOfferedAgain
<1> QED
  BY <1>1, <1>2, <1>3, Invariance, KeepsList, PTL DEF Spec
=============================================================================
