---------------------------- MODULE Publishing ----------------------------
(***************************************************************************)
(* Making a repository public and taking it back (signed_state/backend.rs, *)
(* state.rs, the dialogs of the sidebar and of the repository panel).      *)
(*                                                                         *)
(* A repository that is created, or a local one that is published, is      *)
(* announced to the relays first and pushed to the grasp servers then.  A  *)
(* push that no server accepts is answered by a deletion request for the   *)
(* announcement.  One relay that takes an event is enough for either.  An  *)
(* announcement replaces the earlier one of its address, the author and    *)
(* the identifier made from the name.  What the publication leaves on the  *)
(* disk meets the scan of the local repositories.                          *)
(***************************************************************************)
EXTENDS LocalRepos

CONSTANTS
  Person,       \* identities; also what a binding on the disk names
  Nobody,
  Relay,        \* where events are sent; each takes one or refuses it
  MaxTasks,     \* bound: publications
  MaxSwitches,  \* bound: identity changes
  MaxDeletes    \* bound: deletions of a repository by its owner

ASSUME PublishingAssumption ==
  /\ Person = Mark /\ Nobody \notin Person /\ Relay # {}
  /\ MaxTasks \in Nat /\ MaxSwitches \in Nat /\ MaxDeletes \in Nat

VARIABLES
  user,        \* Backend::current_user
  signer,      \* whose key the shared signer holds
  panels,      \* paths that a panel of a local repository shows
  announced,   \* those of them whose store has got an address since
  tasks,       \* publications in flight
  orphans,     \* publications whose panel was closed since they began
  live,        \* Person -> Relay -> the announcement it serves, 0: none
  states,      \* authors of whom some relay serves a state event
  held,        \* Person -> the path that the last push to end well has pushed
  deletes,     \* deletion requests of deleted repositories, not sent yet
  reported,    \* ghost: the publications that ended, with what the user was told
  reoffered,   \* ghost: paths whose entry nothing corrects before a rescan
  removed,     \* ghost: owners whose repository was deleted and left alone since
  started, switches, deletions

who == <<user, signer>>
views == <<panels, announced, orphans>>
network == <<live, states, held>>
ghosts == <<reported, reoffered, removed>>
bounds == <<started, switches, deletions>>
vars == <<localVars, who, views, tasks, network, deletes, ghosts, bounds>>

\* All paths end in one name, so that an owner stands for an address.
\* at: "init" in the folder, "mark" writing the marker, "land" in the update
\* of the dialog.  took: the relays that took the announcement, in the report of
\* a retraction those that took the request.  calm: nobody signed in or out
\* meanwhile; alone: no other publication or deletion was in flight.
Task == [n : 1 .. MaxTasks, kind : {"create", "publish"}, path : Path,
         of : Person, by : Person, took : SUBSET Relay,
         calm : BOOLEAN, alone : BOOLEAN,
         at : {"init", "sign", "announce", "push", "retract", "mark", "land"}]
Report == [n : 1 .. MaxTasks, kind : {"create", "publish"}, path : Path,
           of : Person, by : Person, took : SUBSET Relay,
           calm : BOOLEAN, alone : BOOLEAN,
           at : {"failed", "published", "retracted", "remains"}]

Init ==
  /\ LocalInit
  /\ user \in Person /\ signer = user
  /\ panels = {} /\ announced = {} /\ orphans = {} /\ tasks = {}
  /\ live = [a \in Person |-> [x \in Relay |-> 0]] /\ states = {}
  /\ held = [a \in Person |-> Absent] /\ deletes = {}
  /\ reported = {} /\ reoffered = {} /\ removed = {}
  /\ started = 0 /\ switches = 0 /\ deletions = 0

Becomes(t, at) == tasks' = (tasks \ {t}) \cup {[t EXCEPT !.at = at]}

\* The dialog shows what became of the publication.
Ends(t, says) ==
  /\ tasks' = tasks \ {t}
  /\ reported' = reported \cup {[t EXCEPT !.at = says]}

-----------------------------------------------------------------------------
(* The user *)

\* create_repository, publish_local_repo: the owner is the user of this moment.
Begin(kind, p) ==
  /\ user # Nobody /\ started < MaxTasks
  /\ started' = started + 1
  /\ tasks' = {[t EXCEPT !.alone = FALSE] : t \in tasks} \cup
       {[n |-> started', kind |-> kind, path |-> p, of |-> user, by |-> user,
         took |-> {}, calm |-> TRUE, alone |-> tasks \cup deletes = {},
         at |-> IF kind = "create" THEN "init" ELSE "sign"]}
  /\ removed' = removed \ {user}
  /\ UNCHANGED <<localVars, who, views, network, deletes, reported, reoffered,
                 switches, deletions>>

Create(p) == Begin("create", p)

\* The dialog of a panel; dismissing it lets the user open it once more.
PublishLocal(p) == p \in panels \ announced /\ Begin("publish", p)

OpenPanel(p) ==
  /\ repos[p] = Plain /\ p \notin panels
  /\ panels' = panels \cup {p}
  /\ UNCHANGED <<localVars, who, announced, orphans, tasks, network, deletes,
                 ghosts, bounds>>

\* A publication holds its panel weakly: one that is opened anew is another.
ClosePanel(p) ==
  /\ p \in panels
  /\ panels' = panels \ {p} /\ announced' = announced \ {p}
  /\ orphans' = orphans \cup
       {t.n : t \in {u \in tasks : u.kind = "publish" /\ u.path = p}}
  /\ UNCHANGED <<localVars, who, tasks, network, deletes, ghosts, bounds>>

\* A sign-in takes the signer along, a sign-out leaves the key in it.
Switch(p) ==
  /\ p # user /\ switches < MaxSwitches
  /\ switches' = switches + 1
  /\ user' = p
  /\ signer' = IF p = Nobody THEN signer ELSE p
  /\ tasks' = {[t EXCEPT !.calm = FALSE] : t \in tasks}
  /\ removed' = IF deletes = {} THEN removed ELSE {}
  /\ UNCHANGED <<localVars, views, network, deletes, reported, reoffered,
                 started, deletions>>

-----------------------------------------------------------------------------
(* A publication *)

\* Repo::init refuses a folder that exists and points origin at the grasp
\* server of the owner; an error leaves the folder behind.
InitFolder(t) ==
  /\ t.at = "init"
  /\ \/ /\ disk[t.path] = Absent
        /\ disk' = [disk EXCEPT ![t.path] = t.of]
        /\ Becomes(t, "sign") /\ UNCHANGED reported
     \/ /\ disk' = [disk EXCEPT ![t.path] = IF @ = Absent THEN Plain ELSE @]
        /\ Ends(t, "failed")
  /\ UNCHANGED <<repos, scan, counts, who, views, network, deletes, reoffered,
                 removed, bounds>>

\* Both events are signed by whoever holds the shared signer by now, if at all.
Sign(t) ==
  /\ t.at = "sign"
  /\ \/ /\ tasks' = (tasks \ {t}) \cup {[t EXCEPT !.at = "announce", !.by = signer]}
        /\ removed' = removed \ {signer}
        /\ UNCHANGED reported
     \/ Ends(t, "failed") /\ UNCHANGED removed
  /\ UNCHANGED <<localVars, who, views, network, deletes, reoffered, bounds>>

\* The relays that take it replace the earlier announcement of the address; it
\* is an error only if all refuse.
Announce(t) ==
  /\ t.at = "announce"
  /\ \E A \in SUBSET Relay :
       /\ live' = [live EXCEPT ![t.by] = [x \in Relay |-> IF x \in A THEN t.n ELSE @[x]]]
       /\ tasks' = (tasks \ {t}) \cup
            {[t EXCEPT !.took = A, !.at = IF A # {} THEN "push" ELSE "retract"]}
  /\ UNCHANGED <<localVars, who, views, states, held, deletes, ghosts, bounds>>

Goes(t) == IF t.kind = "create" THEN "land" ELSE "mark"

\* Mutant: an announced repository is published even if no server took it.
FailsTo(t) == Goes(t)

\* A push that no server has accepted is an error of the publication.
FailedPush(t) == "retract"

\* The push goes to the path of whoever signed the announcement; a server that
\* takes it has taken the state event, and may keep that and refuse the objects.
Push(t) ==
  /\ t.at = "push"
  /\ \/ /\ states' = states \cup {t.by}
        /\ held' = [held EXCEPT ![t.by] = t.path]
        /\ Becomes(t, Goes(t))
     \/ /\ states' \in {states, states \cup {t.by}}
        /\ Becomes(t, FailedPush(t)) /\ UNCHANGED held
  /\ UNCHANGED <<localVars, who, views, live, deletes, ghosts, bounds>>

\* Mutant: the request names the state event.
Unnamed(n, a, A) == live

\* What the relays A, which take a deletion request, make of it: it counts when
\* the author of its target has signed it.
Withdrawn(n, a, A) ==
  IF signer = a
    THEN [live EXCEPT ![a] = [x \in Relay |-> IF x \in A /\ @[x] = n THEN 0 ELSE @[x]]]
    ELSE live

\* The request goes to every relay; it is an error only if all refuse.
Retract(t) ==
  /\ t.at = "retract"
  /\ \E A \in SUBSET Relay :
       /\ live' = Withdrawn(t.n, t.by, A)
       /\ tasks' = tasks \ {t}
       /\ reported' = reported \cup
            {[t EXCEPT !.took = A, !.at = IF A # {} THEN "retracted" ELSE "remains"]}
  /\ UNCHANGED <<localVars, who, views, states, held, deletes, reoffered,
                 removed, bounds>>

\* ensure_origin and set_nostr_repo: an error of either is only logged.
MarkFolder(t) ==
  /\ t.at = "mark"
  /\ disk' \in {disk, [disk EXCEPT ![t.path] = t.by]}
  /\ Becomes(t, "land")
  /\ UNCHANGED <<repos, scan, counts, who, views, network, deletes, ghosts,
                 bounds>>

\* apply_announcement takes the path off the list, if the panel that began it is
\* still open; a repository that was created is not on the list.
Land(t) ==
  /\ t.at = "land" /\ Ends(t, "published")
  /\ IF t.kind = "publish" /\ t.n \notin orphans
       THEN repos' = Without(t.path) /\ announced' = announced \cup {t.path}
       ELSE UNCHANGED <<repos, announced>>
  /\ reoffered' = IF t.n \in orphans \/ (scanning /\ seen[t.path] = Plain)
                    THEN reoffered \cup {t.path} ELSE reoffered
  /\ UNCHANGED <<disk, scan, counts, who, panels, orphans, network, deletes,
                 removed, bounds>>

-----------------------------------------------------------------------------
(* Deleting a repository *)

\* Mutant: only the announcement is deleted.
AnnouncementOf(a, n) == {[what |-> "announcement", n |-> n, of |-> a]}

\* What the database holds of the repository whose announcement is n.
EventsOf(a, n) ==
  {[what |-> "announcement", n |-> n, of |-> a],
   [what |-> "state", n |-> 0, of |-> a]}

\* The database keeps the newest announcement there is.  An older one, on a relay
\* that refused the newest, is named by no request.
Delete(a) ==
  /\ user = a /\ deletions < MaxDeletes
  /\ deletions' = deletions + 1
  /\ \E n \in {live[a][x] : x \in Relay} \ {0} :
       /\ \A x \in Relay : live[a][x] <= n
       /\ deletes' = deletes \cup EventsOf(a, n)
       /\ removed' = IF tasks = {} /\ \A x \in Relay : live[a][x] \in {0, n}
                       THEN removed \cup {a} ELSE removed
  /\ tasks' = {[t EXCEPT !.alone = FALSE] : t \in tasks}
  /\ UNCHANGED <<localVars, who, views, network, reported, reoffered, started,
                 switches>>

\* retract_events: a detached task for each event; its failure is only logged,
\* and a relay that refuses is none as long as another one takes the request.
DeleteEvent(d) ==
  /\ deletes' = deletes \ {d}
  /\ \E A \in SUBSET Relay :
       /\ live' = IF d.what = "announcement" THEN Withdrawn(d.n, d.of, A) ELSE live
       /\ IF d.what = "state" /\ signer = d.of /\ A # {}
            THEN \/ states' = states \ {d.of}
                 \/ A # Relay /\ UNCHANGED states
            ELSE UNCHANGED states
       /\ removed' = IF A = Relay THEN removed ELSE removed \ {d.of}
  /\ UNCHANGED <<localVars, who, views, tasks, held, reported, reoffered, bounds>>

Local == ScanSteps /\ UNCHANGED <<who, views, tasks, network, deletes, ghosts, bounds>>
Request == Rescan /\ UNCHANGED <<who, views, tasks, network, deletes, ghosts, bounds>>

Step(t) ==
  InitFolder(t) \/ Sign(t) \/ Announce(t) \/ Push(t) \/ Retract(t)
  \/ MarkFolder(t) \/ Land(t)

Next ==
  \/ Local \/ Request
  \/ \E p \in Path : Create(p) \/ PublishLocal(p) \/ OpenPanel(p) \/ ClosePanel(p)
  \/ \E p \in Person \cup {Nobody} : Switch(p)
  \/ \E t \in tasks : Step(t)
  \/ \E a \in Person : Delete(a)
  \/ \E d \in deletes : DeleteEvent(d)

\* A scan of the disk comes to an end; nothing else has to.
Spec == Init /\ [][Next]_vars /\ WF_vars(Local)

-----------------------------------------------------------------------------
(* Properties *)

TypeOK ==
  /\ LocalTypeOK
  /\ user \in Person \cup {Nobody} /\ signer \in Person
  /\ announced \subseteq Path /\ panels \subseteq Path
  /\ orphans \subseteq 1 .. MaxTasks
  /\ tasks \subseteq Task /\ reported \subseteq Report
  /\ live \in [Person -> [Relay -> 0 .. MaxTasks]] /\ states \subseteq Person
  /\ held \in [Person -> Path \cup {Absent}]

\* Once a local repository is published and marked, the sidebar does not offer
\* to publish it again (the comment in publish_local_repo), unless its panel
\* was closed or a scan had read the folder before it was marked.
NotOfferedAgain ==
  \A r \in reported :
    (/\ r.at = "published" /\ r.kind = "publish"
     /\ disk[r.path] \in Person /\ repos[r.path] = Plain
     /\ \A t \in tasks : t.path # r.path)
    => r.path \in reoffered

\* Of an announcement that is reported as retracted some relay took the deletion
\* request, and none that did serves the announcement, whatever other
\* publications and deletions did, unless the identity has changed.
RetractedWhereTaken ==
  \A r \in reported : (r.at = "retracted" /\ r.calm) =>
    r.took # {} /\ \A x \in r.took : live[r.by][x] # r.n

\* A publication that ended well is announced by every relay that took the
\* announcement, one at least, and its objects are on a server,
\* as long as no other one of its address was started, or signed with the key of
\* its owner, and it is not deleted.
PublishedIsServed ==
  \A r \in reported :
    (/\ r.at = "published" /\ r.calm /\ r.alone
     /\ \A s \in reported \cup tasks : r.of \in {s.of, s.by} => s.n <= r.n)
    => /\ held[r.of] = r.path
       /\ \/ r.took # {} /\ \A x \in r.took : live[r.of][x] = r.n
          \/ deletions > 0

\* A deleted repository is gone from every relay with its state, if each took
\* every request.
DeletedIsGone ==
  deletes = {} => \A a \in removed :
    a \notin states /\ \A x \in Relay : live[a][x] = 0

-----------------------------------------------------------------------------
(* What the text of the code says and it does not keep; the README has it *)

\* backend.rs:1220: "The announcement has been retracted", so that no relay
\* serves it, unless the identity has changed.
RetractedIsGone ==
  \A r \in reported : (r.at = "retracted" /\ r.calm) =>
    \A x \in Relay : live[r.by][x] # r.n
=============================================================================
