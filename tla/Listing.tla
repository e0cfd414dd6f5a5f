------------------------------ MODULE Listing ------------------------------
(***************************************************************************)
(* The lists of issues and pull requests of a repository                   *)
(* (workspace/src/views/issues, views/pull_requests, views/status_list.rs) *)
(* over the status rules of the store (signed_core/src/status.rs,          *)
(* resolve_statuses in signed_state/src/repo.rs).                          *)
(*                                                                         *)
(* The store shows the database as its last pass has read it.  A list      *)
(* keeps positions in the store's sequences, which it reads again to draw  *)
(* a row; the sequence of the pull requests also holds their updates.      *)
(***************************************************************************)
EXTENDS Naturals, FiniteSets

CONSTANTS
  Person,
  Maintainers,   \* Announcement::effective_maintainers
  Status,        \* the RepoStatus values that are told apart
  OpenStatus,          \* RepoStatus::Open, the default
  All,           \* the filter that keeps everything
  MaxPosts, MaxStatuses, MaxTime   \* bounds of the database

ListingAssumption ==
  /\ Maintainers \subseteq Person /\ OpenStatus \in Status /\ All \notin Status
  /\ {MaxPosts, MaxStatuses, MaxTime} \subseteq Nat

VARIABLES
  posts,      \* issues, pull requests and updates in the database
  statuses,   \* status events in the database
  store,      \* RepoStore: the sequences, status_by_root and the open counts
  read,       \* ghost: the database that the store shows
  filter,     \* the chosen filter of each list
  list        \* each list: synced_filter, visible and counts

vars == <<posts, statuses, store, read, filter, list>>

Kind == {"issue", "pr", "update"}
Side == {"issue", "pr"}
Filter == Status \cup {All}
Post == [id : 1 .. MaxPosts, kind : Kind, by : Person, at : 1 .. MaxTime]
StatusEvent == [of : 1 .. MaxPosts, by : Person, says : Status, at : 1 .. MaxTime]
Snapshot == [posts : SUBSET Post, statuses : SUBSET StatusEvent]
Empty == [posts |-> {}, statuses |-> {}]

\* sort_newest_first, the ids break a tie.
NewestFirst(S) ==
  LET before(p) == {q \in S : q.at > p.at \/ (q.at = p.at /\ q.id > p.id)}
  IN  [i \in 1 .. Cardinality(S) |-> CHOOSE p \in S : Cardinality(before(p)) = i - 1]

\* Mutant: everybody may move an item.
ByAnyone(e, p) == TRUE

\* Only the author of the root and the maintainers move it.
Resolves(e, p) == e.by = p.by \/ e.by \in Maintainers

\* RepoStatus::resolve: the newest trusted event decides, any of a tie.
Resolved(statusEvents, p) ==
  LET trusted == {e \in statusEvents : e.of = p.id /\ Resolves(e, p)}
      newest == {e \in trusted : \A f \in trusted : f.at <= e.at}
  IN  IF newest = {} THEN OpenStatus ELSE (CHOOSE e \in newest : TRUE).says

\* What a pass computes; updates are kept among the pull requests.
Computed(d) ==
  [issues |-> NewestFirst({p \in d.posts : p.kind = "issue"}),
   prs |-> NewestFirst({p \in d.posts : p.kind # "issue"}),
   status |-> [i \in 1 .. MaxPosts |->
                 IF \E p \in d.posts : p.id = i
                   THEN Resolved(d.statuses, CHOOSE p \in d.posts : p.id = i) ELSE OpenStatus]]

IsRoot(p) == p.kind \in Side

\* Mutant: the updates of a pull request count as well.
CountsAll(p) == TRUE

\* open_pr_count and open_issue_count.
Counts(p) == p.kind \in Side

OpenCount(s, side) ==
  LET all == IF side = "pr" THEN s.prs ELSE s.issues
  IN  Cardinality({i \in DOMAIN all : Counts(all[i]) /\ s.status[all[i].id] = OpenStatus})

\* rebuild: filter_by_status numbers the roots, not the sequence they are from.
Rebuilt(s, side, f) ==
  LET all == IF side = "pr" THEN s.prs ELSE s.issues
      roots == {i \in DOMAIN all : IsRoot(all[i])}
      status(i) == s.status[all[i].id]
      number(i) == Cardinality({j \in roots : j <= i})
  IN  [synced |-> f,
       visible |-> {number(i) : i \in {j \in roots : f \in {All, status(j)}}},
       counts |-> [x \in Status |-> Cardinality({i \in roots : status(i) = x})]]

Init ==
  /\ posts = {} /\ statuses = {}
  /\ store = Computed(Empty) /\ read = Empty
  /\ filter = [k \in Side |-> OpenStatus]
  /\ list = [k \in Side |-> Rebuilt(store, k, OpenStatus)]

-----------------------------------------------------------------------------
\* Events arrive in any order, older ones late.
PostArrives ==
  /\ \E kind \in Kind, by \in Person, at \in 1 .. MaxTime :
       /\ Cardinality(posts) < MaxPosts
       /\ posts' = posts \cup {[id |-> Cardinality(posts) + 1, kind |-> kind,
                                by |-> by, at |-> at]}
  /\ UNCHANGED <<statuses, store, read, filter, list>>

StatusArrives ==
  /\ Cardinality(statuses) < MaxStatuses
  /\ \E p \in posts, by \in Person, says \in Status, at \in 1 .. MaxTime :
       statuses' = statuses \cup {[of |-> p.id, by |-> by, says |-> says, at |-> at]}
  /\ UNCHANGED <<posts, store, read, filter, list>>

\* run_refresh: what the pass has read is computed and applied in one step, as
\* nothing of the lists changes in between but the filter, which Land reads
\* last; both lists observe the store and rebuild.
Land ==
  /\ read' = [posts |-> posts, statuses |-> statuses]
  /\ store' = Computed(read')
  /\ list' = [k \in Side |-> Rebuilt(store', k, filter[k])]
  /\ UNCHANGED <<posts, statuses, filter>>

\* A button of the header: the filter is set and the list rebuilt.
Choose(k, f) ==
  /\ f # filter[k]
  /\ filter' = [filter EXCEPT ![k] = f]
  /\ list' = [list EXCEPT ![k] = Rebuilt(store, k, f)]
  /\ UNCHANGED <<posts, statuses, store, read>>

Next ==
  \/ PostArrives \/ StatusArrives \/ Land
  \/ \E k \in Side, f \in Filter : Choose(k, f)

Spec == Init /\ [][Next]_vars

-----------------------------------------------------------------------------
(* Properties *)

TypeOK ==
  /\ posts \subseteq Post /\ statuses \subseteq StatusEvent
  /\ read \in Snapshot
  /\ filter \in [Side -> Filter]
  /\ \A k \in Side : list[k].visible \subseteq 1 .. MaxPosts

\* An item leaves the status it was given by its author or a maintainer only
\* by the word of one of them: a list shows what they said last, whatever
\* others publish and however late an event arrives (Resolves, from resolve).
Says(p, s) ==
  LET theirs == {e \in read.statuses : e.of = p.id /\ e.by \in Maintainers \cup {p.by}}
      last == {e \in theirs : \A f \in theirs : f.at <= e.at}
  IN  IF last = {} THEN s = OpenStatus ELSE \E e \in last : e.says = s

IssuesAreThoseSaid ==
  \A i \in DOMAIN store.issues :
    LET p == store.issues[i]
    IN  /\ (i \in list["issue"].visible /\ filter["issue"] # All) => Says(p, filter["issue"])
        /\ i \notin list["issue"].visible =>
             \E s \in Status \ {filter["issue"]} : Says(p, s)

\* The badge of the repository panel, which counts in the store, and the
\* button of the list, which counts in the list, agree.
BadgesAgree ==
  \A k \in Side : OpenCount(store, k) = list[k].counts[OpenStatus]

\* "Indices into the store's pull_requests matching Self::filter"
\* (views/pull_requests/mod.rs): a row of the list is a pull request that the
\* filter keeps.
RowsMatchFilter ==
  \A i \in list["pr"].visible :
    LET row == store.prs[i]
    IN  /\ IsRoot(row)
        /\ filter["pr"] \in {All, store.status[row.id]}
=============================================================================
