# Signed: a TLA+ model of the stores, the push, the session and the panels

Signed is a desktop client for git repositories announced on Nostr (NIP-34)
and hosted on grasp servers. Its state lives in GPUI entities ("stores") on
one foreground thread; database queries, git processes and network calls run
on a background pool. This directory models the parts of it whose correctness
depends on the order in which those pieces interleave.

## How the program runs

Everything below rests on four facts about the executor, all visible in the
code under `src/crates`.

* `this.update(...)` runs to completion on the foreground thread: it is one
  atomic step. A foreground task loses the thread only at an `.await`.
* `cx.background_spawn` runs beside everything else. What it captured is a copy
  of the past by the time its result lands.
* Events and `notify` are delivered after the update that emitted them; no
  other task runs in between, so a handler is part of the step of its event.
* Dropping a `Task` cancels it at its next await; `detach` keeps it alive.

An action of a module is therefore one update, or the part of a background task
between two calls whose order matters (two database queries, two git calls).

## Inventory

| Component (`src/crates/...`) | State | Operations | Talks to |
|---|---|---|---|
| `signed_state/refresh` | running, dirty | request, begin, finish, abort | owned by the stores that coalesce |
| `signed_state/repos` (RepoListStore) | announcements, activity, counts, repositories whose state was asked for | refresh, run, land; observes SignerChanged, RepoUpdates, Synced | database, backend |
| `signed_state/checkouts` (CheckoutsStore) | associations, ready and push statuses, requests, debounce, timers | refresh, local tick, request_statuses, checkout_pushed, SignerChanged | git checkouts, settings, repository list, scan |
| `signed_state/sync_status` (store and directories) | active repositories, slot, poll; per panel: badges, pending | probe, run_pass, clear, poll, track, render, apply | backend, checkouts, database, git |
| `signed_state/state`, `push`; `Backend::push_repo_from` | one push: refs, plan, deletions, outcome per server | from_repo, reconcile, push_to_grasps, broadcast, retract | git, relays, grasp servers |
| `signed_state/backend` | signer, current user, pushing addresses, pump | pump, restore, import, sign in and out, announce, push, delete | Nostr client, keyring, every store |
| `signed_state/repo` (RepoStore) | one repository's announcement, state, issues, patches, comments, relays, pushing flag | run_refresh, publish, open_pull_request, push, clone | backend, database, git, sync status |
| `signed_git/cache`, `signed_state/git_store` | mirror directories, a lock per path | ensure_clone, open | git |
| `signed_git/*` | a repository on disk | fetch, push, fast-forward, checkout, diff, patches | git |
| `signed_core/*` | none | statuses, deletions, announcements, filters, inbox grouping | pure |
| `signed_state/inbox` | read state, loaded | activate, reset, mark, persist | backend, database |
| `signed_state/local_repos` | repositories found, scanning, scan_dirty | rescan, remove | disk |
| `metadata` | profiles, pending keys, batch | load, fetch, apply | backend, database |
| `settings` | one JSON file | load, save | disk |
| `workspace/views/repo` | per panel: what it shows of HEAD, previews, last commits, banners | load_repo, switch, catch up, previews, reset | git store, repository store |
| `workspace/views/pull_requests`, `issues`, `commit_diff` | the form, the panel of a pull request, the lists | choose, compare, submit, bind, load, filter | git store, repository store |
| `workspace/views/inbox` | threads, unread, a copy of the read state | refresh, regroup, mark | inbox store, database |
| `dock`, `signed_ui`, `desktop` | widgets and panels | render | |

What is hard about them:

* **Coalescing.** Refreshes are requested from a dozen places, run for a long
  time and must neither overlap nor lose a request that arrives during a run.
  There are four different implementations: the gate (`repos`, `checkouts`, the
  latter behind a debounce), slot and pending flag (`sync_status`), `scan_dirty`
  (`local_repos`) and none at all (`repo`).
* **Late results.** A task that started for one identity, one association or
  one ref map lands after these have changed.
* **Several servers.** A push reconciles with, stages on and pushes to servers
  that differ from each other, fail separately, and are pushed to by others.
* **Polling.** Badges and banners are kept alive by timers that re-arm
  themselves; a missing re-arm freezes them silently.
* **Cancellation.** Closing a panel drops its tasks wherever they wait.

What makes each component correct:

* Gate and repository list: one run at a time; at rest the list is what the
  database holds; it never goes back in time; every request is served.
* Checkouts: one full refresh, associations never lost, polling alive while
  somebody waits, a banner goes away when its reason does.
* Sync status: the slot belongs to one pass, everything shown is probed again,
  a sign-out forgets, rendering does not probe without end.
* Push: no commit is overwritten without a copy, no local ref is moved, what is
  broadcast is held by a server, a complete push leaves everybody in sync.
* Backend session: nobody is signed in who was not asked for, and the next start
  signs in who is signed in now.
* Repository store: what is there to find is found, on the relays of later
  announcements too; a pull request is published whole or an error is shown.
* Publishing: what is reported published is served, what is retracted is off the
  relays that took the request.
* Inbox: it shows one user's threads only, and converges to what is saved.
* Panels: what is shown belongs to the branch, binding or source selected now,
  and a panel does not stay loading.
* Push guard: one push per repository, and the mark goes when its push does.
* Mirror cache: at most one clone per path, a broken one is replaced.

## Modules

| Module | Models | Uses |
|---|---|---|
| `RefreshGate` | `refresh.rs`: the gate as a record, its methods as operators | |
| `Coalescing` | abstract: what a coalesced refresh promises to a requester | |
| `RepoList` | `repos.rs`, the pump of `backend.rs` as the list sees it | `RefreshGate`; implements `Coalescing` |
| `RepoListProofs` | its theorems | `RepoList`, `TLAPS` |
| `Checkouts` | `checkouts.rs` | `RefreshGate` |
| `SyncStatus` | `sync_status.rs`, store and directories | |
| `SyncStatusProofs` | its theorems | `SyncStatus`, `TLAPS` |
| `GraspPush` | `push_repo_from`, `SyncState::reconcile`, `push_to_grasps` and the git calls | |
| `GraspPushProofs` | its theorems | `GraspPush`, `TLAPS` |
| `MirrorCache` | `cache.rs`, `git_store.rs`, `load_repo` and the refresh of the repository panel, the push marks of `repo.rs` and `backend.rs` | |
| `MirrorCacheProofs` | its theorems | `MirrorCache`, `TLAPS` |
| `Identity` | abstract: who is signed in, as the other parts see it | |
| `Session` | sign-in, restore, sign-out in `backend.rs`, the dialogs, the keyring | implements `Identity` |
| `Inbox` | `signed_state/inbox.rs`, `views/inbox.rs` | `RefreshGate`; `Identity`'s register |
| `AccountsProofs` | the theorems of both, the refinement among them | `MCAccounts`, `TLAPS` |
| `ReadState` | `signed_core/inbox/read_state.rs` | |
| `RepoStore` | the passes of `signed_state/repo.rs` and `connect_repo_relays`, `fetch_root` in `backend.rs` | |
| `Publish` | the actions of `signed_state/repo.rs`: pull requests, revisions, issues, comments | |
| `Listing` | `status.rs`, `resolve_statuses`, the lists of issues and pull requests | |
| `RepositoryProofs` | the theorems of `Checkouts`, `RepoStore`, `Publish` and `Listing` | `MCRepository`, `Checkouts`, `TLAPS` |
| `LocalRepos` | `local_repos.rs`, `scan.rs` | implements `Coalescing` |
| `Publishing` | create, publish, retract, delete in `backend.rs` and `state.rs`, their dialogs | `LocalRepos` |
| `PublishingProofs` | its theorems | `Publishing`, `TLAPS` |
| `Compare` | the form of a new pull request, `pull_requests/new.rs` | |
| `Detail` | the panel of a pull request and its commits | |
| `Worktree` | the repository panel over the worktree of the mirror, `signed_git/repo.rs` | |
| `Previews` | the Files tab, `views/repo/files.rs` | |
| `Profiles` | `metadata/profile.rs` | |
| `PanelsProofs` | the theorems of `Compare`, `Detail`, `Worktree`, `Previews`, `Profiles` and `ReadState` | `MCPanels`, `TLAPS` |
| `MC*` | values and symmetry for TLC; `MCAccounts`, `MCRepository` and `MCPanels` put several components into one run, `MCPublishing` divides the behaviors of one | |

`PROJECT.json` maps every definition to the lines it stands for.

### RepoList

`announced` and `deleted` are the part of the event database the list depends
on: per repository the newest announcement and the latest deletion cutoff. The
database keeps replaceable events, so only the newest counts. `batch` says that
the pump holds updates it has not emitted; it stores first and emits later, so
storing and emitting are two actions. A run is a record that moves through
`ReadAnnouncements` and `ReadDeletions` and then lands; it may be abandoned at
any of these points because each of the queries may fail. `Land` contains
everything the handler does: replacing the list, `sync_own_repo_states`,
`finish` and, if the gate was dirty, the follow-up run. The activity and count
maps are further functions of the same reads and are left out.

`asked`, `served` and `abandoned` are history variables. `asked` numbers the
requests; a run covers every request made before it began, and `served` is what
the published list covers. They are the refinement mapping to `Coalescing`.

### Checkouts

A checkout is three counters: commits on the branch, on the server's branch and
on the remote-tracking branch; every status is computed from them. Each full
refresh goes through debounce, begin, fetch, compute and land; a local pass
through compute and land. Between the two steps of any of them everything else
may happen, which is where late results come from. The clock is abstracted: at a
tick a full refresh may or may not be due. The database query of a refresh
cannot fail (its closure has no error path), so `abort` is not reachable here.

### SyncStatus

The store's fields are one record; `RunPass` is `run_pass` as a relation from
the state it is called in, shared by the four places that call it. The queue of
wake-ups is a flag because the receiver drains it before it acts. Each directory
has its badges, its pending set and, as history, the number of probes it sent.
A badge is the version of the published state it was computed from. An empty
`Updated` event tells every directory to forget; it is emitted when `clear` had
something to forget.

### GraspPush

The variables are the local repository (refs, objects, backup refs), the refs of
every server and the program counter and locals of one push. Each git or relay
call is an action that succeeds or fails. The servers are external: they accept
a push that leaves exactly the ref map of the staged event, which is the
authorization rule the code relies on (its error text and tests speak of a state
event that does not match the push), and git does not contact a server that has
nothing to change. `OtherPush` and `LocalChange` are everybody else.

### MirrorCache

One repository. `dir` is what is at `repo_path`, as far as `open` and `snapshot`
tell it apart: absent, left over without a repository, unfinished (created, no
branch yet), damaged, whole. Every panel has a load, whose position is `stage`;
from `checking` to `updating` it holds the clone lock of the path. Repository
panels begin with `open`, without the lock; pull request panels (`Reader`) begin
with `ensure_clone`. What a load has read is `data`, what the panel shows is
`shown`. A panel's next load begins after the last; overlapping loads are those
of two panels.

`push`, `kind` and `pushing` are the push task of each panel, what it pushes and
the flag of its store, `marked` is the address in `pushing_repos`. A push that
is spawned has the mark already and the guard that removes it only when it has
been polled. `Close` drops a panel: a running push takes the mark with it, one
that was never polled leaves it behind, and a reset, which is detached, goes on.
Work of the pool goes on too. `Crash` keeps nothing but the directory, and
leaves there whatever a clone or a removal in progress may leave.

Git is external: a clone arrives or fails and then removes what it created, a
fetch is best effort, and a fast-forward may move a branch only in a whole clone.

### Session and Identity

Every task that ends in `set_signer` is a job: restore, unlock, import of a key,
of an encrypted key or of a bunker, and creation. A job moves through the waits
of its function: the keyring, the scrypt computation, the bunker, the detached
task in which `set_signer` asks the new signer for its key. The write of the
credential is a part of the job that runs beside it, because the code spawns it
first and awaits it later. `user` is `current_user`, `signer` the inner signer,
which changes before `user` does. `Stop` keeps the keyring only. `Identity` is
what the rest of the program may rely on: a register that becomes somebody only
after it was asked for, once per request; `ImplementsIdentity` shows that the
jobs keep it, in every overlap. Whether the keyring agrees with the register is
another matter: overlapping requests may leave it with either, so
`NextStartAgrees` excuses them (`excused`). Two failures break it without any
overlap, and each has a variable that `NextStartAgrees` names: a sign-in that
stored its credential and then failed (`stranded`, until somebody signs in), and a
sign-out whose deletion was refused or had not run when the process stopped
(`lost`, until somebody signs out again). `left` says that the last thing asked for
was to sign out; `Stop` keeps it, so that what the next start makes of the keyring
is still judged by it. `SignedOutStays` is the same promise without the exception
for `lost`, as the exit dialog gives it; the code does not keep it, which is the run
`exit_dialog`.

### Inbox and ReadState

`Inbox` has the store and the view on top of the register. Loads, saves and runs
of the view are tasks in flight; the observer that regroups runs in the same
flush as the update that notified it. A mention is a model value, the read state
the set of those marked. `ReadState` is the representation of that set: a cutoff
and ids past it, with the pruning, over a scaled clock.

### RepoStore, Publish, Listing

Three views of `signed_state/repo.rs` that share no state beyond the database.
In `RepoStore` the relays hold different parts of a repository (`World`); a pass
reads the database in two steps and lands, and what it finds decides who is
asked next. Passes are not gated, as in the code, so `Advance` lets any of them
land in any order. In `Publish` a task signs, uploads and publishes step by step
with a signer that may change in between; `accepted` is what the relays took.
`Listing` is the data part: statuses resolved from events of any author, and the
positions that the lists keep.

### LocalRepos and Publishing

`LocalRepos` reads the disk path by path while it changes. Its two flags are not
the gate of `refresh.rs` but keep the same contract, which is checked against
`Coalescing` in full, liveness included. The early return of `rescan` without any
roots is left out: the roots are fixed at the start, and without them the list is
empty for good. `Publishing` extends it: the folder a publication creates or marks
is what a scan finds. A publication is announced, pushed and, if no server takes
it, retracted; two of them may concern one address, and the owner may delete it
meanwhile. The push itself is one step with two outcomes here, for `GraspPush` has
it in detail; it goes to the path of whoever signed, not of whoever began.

An event is sent to every relay and each takes it or refuses it (`live` is what
each of them serves); one that takes it is enough for the code to call the
announcement published and the retraction done. `took` keeps which ones did, so
that `PublishedIsServed` and `RetractedWhereTaken` can say exactly what follows for
them, and `RetractedIsGone` states what the dialog says and does not follow: the
relay that took the announcement may refuse its retraction while another one takes
it. A deletion names the newest announcement in the database only, so a relay that
had refused the newest goes on serving the one before; `removed` is about
repositories where that has not happened and every relay took every request. A
panel that is closed and opened again is another one for the publication it began
(`orphans`), as the code holds it weakly.

### Worktree, Previews, Compare, Detail, Profiles

`Worktree` has one mirror with one panel. A task is the background half of a
load, a catch-up or a switch, with a step per git call that writes: `tree` is
`Torn` while two of them are writing at once. `Previews` abstracts a worktree to
a version number and a text to a unit of size; `files`, `order` and `bytes` are
the cache as it is, and `hung` marks a trimming loop that does not end.
`Compare` has the sources (folders, forks), the branches, the generation counter
and the flags of the form; one branch on both sides is an error only in a
folder, for in a fork the two refs differ even under one name (`SameRef`), and
main against main is what the form begins with there; `Detail` the binding, its
generation and the commits opened from it. In `Profiles` several directories
share one store with its queue and batch.

### The modules that join components for a run

The components joined in `MCAccounts`, `MCRepository` and `MCPanels` share no
state, so interleaving their steps would multiply the states and show nothing. A
behavior picks one of them in its initial state (`part`, `panel`), that one moves,
and the others rest in an initial state. Fairness is that of the component that
moves. What a component takes from another is in its own module: the register in
`Inbox`, the disk in `Publishing`, the push in `Publish` as an outcome.

## Runs

| Run | Question | Result |
|---|---|---|
| `repo_list` | convergence, own states asked for, refinement; every request served unless a run fails | pass |
| `sync_status` | a sign-out forgets, no badge goes back, badges are answered and catch up, no deadlock | pass |
| `checkouts` | polling alive; a checkout shows up, a banner goes away | pass |
| `grasp_push` | spurious refusals, sync, broadcast, kept tips, kept refs | pass |
| `mirror_cache` | what is handed out is whole, one push; every load and every push ends | pass |
| `accounts` | sign-in implements the register, the keyring agrees with it but for three named exceptions; the inbox is the user's, converges and gets loaded | pass |
| `repository` | a repository scattered over relays is found, pull requests are whole, failures are shown, lists are right | pass |
| `panels` | the form, the worktree, previews, pull request panel, profiles and read marks, each with tasks that land in any order | pass |
| `publishing` | what is published is served and not offered again, a retraction holds where it was taken, what is deleted everywhere is gone, a scan coalesces | pass |
| `grasp_push_tips` | tips that exist only on servers are backed up (`state.rs:218`) | violated |
| `compare_folder` | a source switch discards the import of a fork (`pull_requests/new.rs:620`) | violated |
| `exit_dialog` | who signs out "will need to sign in again on the next session" (`views/sidebar/mod.rs:930`) | violated |

Six more configurations are kept for use by hand: `CheckoutsOldStatuses.cfg`
(with `MCCheckouts`), `GraspPushBroadcast.cfg` (with `MCGraspPush`),
`ListingRows.cfg` (with `MCListing`), `MirrorCacheOpens.cfg`,
`MirrorCacheRefresh.cfg` and `MirrorCacheInterrupted.cfg` (with
`MCMirrorCache`). Each refutes one sentence of the code or the change log; see
Findings.

The type invariants of the modules with proofs and the structural invariants of
`RepoList`, `Checkouts`, `SyncStatus` and `MirrorCache` (`OneRun`, `OneRefresh`,
`SlotHeldByOnePass`, `ClonesSerialized` and so on) are proved for all values of
the constants and not run again. A property named `CatchesUp`, `PushSettles` or
`EverythingEnds` is the conjunction of the two that its definition names.

Bounds, and why they are enough to see what is at stake:

* `RepoList`: two repositories with different owners, two identities and nobody,
  one stamp besides "none" for announcements and deletions, three requests by
  users (those of the pump are bounded by the stamps). A second stamp adds
  histories but no order of steps: between two queries one event can already
  arrive, delete or be deleted. Three requests are a run, a folded one, and a
  request that meets the follow-up.
* `SyncStatus`: one panel that may look at two repositories, one identity that
  comes and goes, three versions of the published state, none included. A panel
  affects another only through the store; what many panels share is proved.
* `Checkouts`: one repository with one checkout, one commit, and two local
  passes at once: repositories share the timers and
  the gate but nothing else, and a second commit repeats the first.
* `GraspPush`: two servers, two ref names, two commits, one ref change by others
  at any point of the push; every initial content of the servers and of the
  local repository. Two commits give equal and different tips; the violation run
  about backups takes three, the local tip and two different server tips.
* `MirrorCache`: two repository panels with one load each and one stop of the
  process. Two are one that holds the lock and one that waits for it or opens
  without it; a pull request panel does less (it has no `open` and no refresh).
  A load that follows a push is seen when the push comes first.
* `Session`: two people, two requests at once of two started in all, one
  sign-out, one stop: every pair of tasks overlaps at every wait. For `exit_dialog`
  one person is enough, whom the keyring knows from the beginning. `Inbox`: two
  people, one mention, two sign-ins, two arrivals of the list, one "mark all" and
  two runs, so that a run or load of the earlier user meets the later one. More
  mentions are marked by one update.
* `RepoStore`: two versions of the announcement, of which the second adds a relay
  and a maintainer, two roots, two passes at once, one failure, and two ways the
  events may be scattered: on relays known from the beginning, from an
  announcement only, from the maintainers only. `Publish`: two people, series of
  two patches, two tasks, one identity change. `Listing`: two posts, two status
  events by a maintainer or a stranger; two time stamps give order and ties; one of
  the two lists is filtered at a time, as they share the store alone.
* `Publishing`: two folders, two people, two relays and two publications at once, so
  that they compete for a folder, or for a name from two of them. `MCPublishing`
  divides the rest into three kinds of behaviors, because a scan looks neither at who
  is signed in nor at the relays. In the first there are two scans and panels that
  open and close at any time; in the second one scan at most, then changes of
  identity and a deletion; in the third the relays take or refuse each event
  separately, without scans. In the first two the relays agree, and in all of them
  changes of identity and deletions are two together: a change there and back, or
  one beside a deletion. Two relays are enough for one to keep what the other gave
  up. The initial states fix which person and which folder comes first, since
  nothing orders them. All of it at once has thirty times the states and more; the
  theorems are about that.
* `Worktree`: one branch and one tag, one new commit, two tasks, two switches or
  stops, one failure. `Previews`: two files, a limit of one file and one text,
  so that every second file evicts. `Compare`: two folders, one fork, two
  branches, two tasks and three choices, the last of which can undo the first
  while a task of it is in flight. `Detail`: two bindings, one of them with
  patches. `Profiles`: two panels, one author, two versions. `ReadState`: two
  events and a clock of four ticks, which is more than both windows.

Symmetry is used in `GraspPush` for names and commits in a run that checks
invariants and an action property only.

`CHECK_DEADLOCK FALSE` stands where the program may rest: the list with nothing
left to store, checkouts that nobody looks at, a push that has ended, a mirror
when everybody has loaded it or closed, panels and sessions when the user has
done what the bounds allow. The sync status store polls as long as it has
anything active and takes nudges at any time; there the deadlock check is on.

### Fairness

Weak fairness is put on what the executor owes: timers fire, a queued message is
received, a spawned task is polled until it ends, an event is delivered. In
`Inbox` these are loads, runs of the view, connections (which succeed or fail)
and the pump; in `Publishing` only the scan of the disk. Users, relays, other
devices and failures are never fair. One strong fairness: a full
refresh of the checkouts falls due again and again, since the time since the
last one only grows while local passes and requests come in between, however
they interleave (`last_full_sync.elapsed() >= cadence`).

Failure is an exit in every liveness property (`abandoned`, `lastFailed`,
`fetchFailed`): a database that fails forever, or a server that is never
reachable, is no fault of the protocol. Properties "at rest" are invariants
over states in which nothing is in flight; that this comes about needs no
fairness to be stated, and where panels could be left loading it is a part of
the property (`CompareSettles`, `ShowsTheWorktree`).

## Proofs

`RepoListProofs` proves, for any repositories, identities and bounds:

* `TypeCorrect`, `SingleRun`, `ListConverges`, `OwnStates`: the four invariants;
* `ListNeverOlder`: the action property;
* `ImplementsContract`: the refinement of the safety half of `Coalescing`.

They rest on the assumption of `RepoList` alone, which TLC evaluates in each run.
The inductive invariant is `IInv`. `OneRun` is inductive by itself: the gate is
closed exactly while a run exists, and a run is created only through an open
gate. Convergence is not: what is needed beside it is a description of the run
in flight. `RunsCurrent` says that with no batch held back and no follow-up due,
what the run has read is still what the database holds; an update that arrives
later sets the batch flag, and emitting it folds into the run and leaves the gate
dirty. From that the state at rest follows when the run lands. `RunsSound` says
that what is shown is not newer than what the run has read, and that is not newer
than the database; `NeverOlder` follows from it. `DirtyAtRest` excludes a
follow-up left behind an idle gate by anything but an abandoned run, and
`InOrder` bounds the request numbers for the refinement.

`RepositoryProofs` proves, of `Checkouts`, `TypeOK`, `OneRefresh`, `PollingAlive` and
`AssociationsKept`, for any repositories, numbers of commits and local passes.
Here the properties are nearly inductive together: `PollingAlive` needs
`OneRefresh` (the run that lands is the only one, so what it knows of the
requests decides), and `AssociationsKept` needs `AssociationsSound`, that a run
in flight knows at least what is shown, which holds because every run in flight
was started after the last one landed.

Of the repository store it proves every invariant of the run `repository`, from
the specification that the run checks: each part has an invariant, and one that
rests keeps its own.

* `RepoStore`, for any relays and whatever they hold: every request is on record
  as asked (`StMarked`), so nothing is asked twice; what was asked is in the
  database, in flight or given up (`StAnswered`), and only what was asked can
  delete (`StGone`). The pass that started last has read what the database
  holds, or the pump has yet to say that there is more (`StLatest`), and the one
  that landed shows it (`StShown`). At rest, then, what the relays that were
  reached hold is shown, and the relays of the announcement are among them
  (`StTold`). The assumption on the names says that filters are not roots.
* `Publish`, for any people, series of patches, overlapping actions and
  failures: every action has a number of its own (`PbNumbered`), the patches
  before the next one are accepted (`PbPatched`), and while the identity stays
  one person signs them (`PbSigned`). `FailuresAreShown` holds at rest because
  at any time what was begun is published, in flight, or reported (`PbFollowed`).
* `Listing`, for any posts, statuses and times: the store and the lists are
  functions of what was read (`LsBuilt`), so the rest is about the operators. That
  the order of a list has every place taken once (`LsSorting`) is an induction on
  the number of posts, which is written as a least counterexample: the last of
  the posts can be taken away, and the others keep their places.

`SyncStatusProofs` proves the six invariants and the action property of
`SyncStatus`, for any repositories, panels and versions. Its invariant has two
halves. The store's half adds `SignedOutDrains` (signed out with something still
active, a wake-up or the pass in flight will clear it) to the slot and to
`KeepsPolling`. The directories' half is a predicate of one directory, given the
active set, the published versions and the pass in flight (`SoundDir`): it shows
or awaits only what is active; it has sent no more probes than it has answers and
questions outstanding; nothing it shows is newer than what the pass in flight has
found. The lemmas show it for each thing that happens to a directory, and each
action of the store lifts one of them to all directories.

`MirrorCacheProofs` proves the four invariants of `MirrorCache` and `WholeKept`,
for any panels, readers, loads and stops. `ClonesSerialized` is not inductive: that
a clone finds nothing at its destination needs the holder to be alone from the
removal to the clone, and that nobody reads meanwhile. `HeldSound` says what each
stage of the holder knows of the directory, `ReadersApart` that nobody replaces
what somebody reads (it could be opened when it was handed out, and only what
cannot be opened is replaced), and `UnfinishedIsCloned` that without a stop an
unfinished clone belongs to a task that is cloning. Steps outside the locked
region preserve all of it for one reason (`QuietInv`); those inside have a lemma
for each way they move the directory and the lock. `OnePush` is inductive as it is.

`AccountsProofs` proves, of `Session`, `TypeOK`, the refinement
`ImplementsIdentity` and `NextStartAgrees`, for any people, jobs, requests,
sign-outs and stops. What both need is what a job knows at each of its waits
(`JobSound`): whom it is for, and that nobody reaches `set_signer` with a write
that has not ended. The register counts requests by the jobs in flight that are
for somebody, which is a cardinality: each step adds one, takes one away or
leaves the set. Agreement of the keyring is inductive only together with what it
means that nothing has overlapped: there is one job at most, no deletion is due
beside it, and it knows what the keyring holds (`JobAgrees`). After a stop the
keyring and what was last asked for are as they were, so a sign-out still means
that the keyring is empty and no restore finds anything (`Gone`), unless its
deletion was pending.

Of `Inbox` it proves `ShownIsMine` and `InboxConverges`, for any mentions, tasks and
sign-ins, by an invariant over both components, as the steps of the session leave
the inbox alone except for whom it follows. `Follows` holds without exception: the
view has loaded when the store has, and then has its state, and a view of a
former user is cleared by the activation that brings the new one. The rest holds
until something overlaps or fails (`excused`): at most one run is in flight and
the gate says so (`OneRun`); a mention that the list lacks is announced, folded
into the gate or about to be read by the run (`Fresh`); the unread are the mentions
that the state of the view does not hold (`Derived`); and the state is what is
kept, or there is one save of it in flight (`Agrees`).

The attempt to prove `ShownIsMine` corrected it. Read as "the last activation
was for whoever is signed in" it held in the run only because the run has two
sign-ins: when another account signs in, a run that belongs to it lands, and the
first account signs in again before anything was activated, the threads of the
other one are shown until the next refresh. TLC finds this with a third sign-in.
`activated` now is forgotten when somebody else signs in.

`GraspPushProofs` proves `TypeOK`, `BroadcastHeld`, `PushSettles`,
`OverwrittenTipsKept` and `LocalRefsKept`, for any servers, names, commits and
changes by others. The invariant follows the program counter of the push, and each
conjunct holds under the condition that nobody has changed what it speaks of
(`raced`): as long as nobody else pushes, a server has what it listed until its
turn comes (`ListedSound`), so that the refspecs and deletions computed from
the listing fit it; as long as the local refs stay, what is declared is what they
are (`LocalSound`), and every listed name is declared or still to be fetched
(`NamesCovered`). From these, the ref map that git leaves on a server is the
declared one (`PushedIsDeclared`), so no server refuses. `TipsCovered` is the
argument for the backups: a tip is in the local repository, or is on the list of
what is missing, or of what diverged. The label of a backup is the tip of the
first server, whose existence the well-foundedness of the naturals gives.

`PublishingProofs` proves `TypeOK`, `RetractedWhereTaken`, `PublishedIsServed`,
`DeletedIsGone` and `NotOfferedAgain`, for any folders, people, relays,
publications and deletions, each relay taking or refusing each event. The
properties speak of what a publication left behind after it ended, so the
invariant says how one that is in progress stands to those that ended: numbers
are given once and grow (`Numbered`); one that was alone precedes every one that
comes after (`Alone`), so nobody replaces its announcement but a later one of
its owner; without an identity change the key that signs is the owner's
(`Keyed`); what a publication has done so far is in force on the relays that
took it (`InForce`). What a step does to the relays is stated once for each kind
of step, relay by relay (`Sent`, `Recalled`, `Erased`): only the publication
that has a number puts it on a relay, so a relay that dropped an announcement
never serves it again. For deletions `LeftAlone` says that whatever is left of a
repository is named by a request still to be sent, and that nothing in progress
is to be announced for its owner. A signature with the owner's key ends that,
and the statement says so: after two identity changes a publication that
somebody else began is signed with whatever key the signer holds by then, and
announces the repository again. For the list of the sidebar `ListInv` relates
the list to the disk: whatever is listed, was read by a scan, is shown by a
panel or was published is on the disk (`OnDisk`); and a repository that is
published and marked is on the list, or is about to be put there by a scan that
lands, only if a scan that missed the mark is on record or the publication that
marked it has still to correct the list (`Unmissed`).

`PanelsProofs` proves, of `Compare`, `TypeOK`, `CompareSettles` and
`SubmitsWhatIsCompared`, for any folders, forks, branches, tasks and choices.
The comparison of the current generation is the only one that will be taken, is
of what is selected, and keeps the button disabled (`Superseding`); without one
in flight, what is shown is of what is selected, or an error is shown, or the
import that cleared the error is still to come (`ShownIsSelected`); whoever set
a flag is still there to clear it (`Awaited`). `SubmitsWhatIsCompared` follows
when the button can be pressed: not loading, nothing is in flight that will be
taken, so what is shown is selected. An import that ends clears the flag of a
comparison beside it, which is what `excused` is for.

Of the other panels it proves every invariant of the run `panels` and its action
property, from the specification that the run checks: each panel has an invariant
that the steps of the others leave alone.

* `Detail`: there is one load of the newest generation, and it is of what the panel
  is bound to unless the pull request has gone missing since (`NewestLoad`); once
  synced the panel is bound to the pull request of the store (`BoundToRoot`).
* `ReadState`: nothing that arrived, and no cutoff, lies in the future; so a cutoff
  that advances covers the ids that it forgets.
* `Profiles`: a profile that a panel does not show as stored is announced, queued,
  in a batch or in a load that will bring it (`OnItsWay`). That a load brings it
  rests on `NothingInvented`: no panel has what the database never had.
* `Worktree`: as long as no requests overlap and nothing fails, there is one task
  besides the walks of the history, and each of its stages says what is on disk,
  what the panel shows and what it will land with (`Goes`): a fast-forward has the
  files before the branch (`Refreshes`), a switch the head before the files
  (`Switches`). A walk in flight is of the commit that is shown unless a task will
  start another (`HistoryFollows`). `TipsAdvance` needs none of this, only that a
  fast-forward goes forward (`Staged`), for it looks again before it moves the
  branch.
* `Previews`: unless a file was stored twice, the order of eviction has no path
  twice and the sum is that of the cached texts (`CacheIsExact`). Each round of the
  eviction then takes a path away or moves the selected one from the front to the
  back, so twice the length of the order, plus one when the selected path is in
  front, decreases (`Descends`); after as many rounds as `Rounds` has been given
  nothing is left to do. `Rounds` is a bounded recursive function, which the prover
  unfolds one application at a time.

Left to the model checker: everything temporal under fairness
(`ServedOrAbandoned`, the other leads-to properties, `EventuallyLoaded` and the
liveness half of `Coalescing`), which the prover does not reach; and the scan of
the disk (`LocalRepos`), whose contract is checked with its liveness. Every
invariant that a run checks, and every action property, is a theorem.

## Findings

Three are runs that TLC refutes, with a quotation in `PROJECT.json`.

1. Of different server-only tips of one branch only the first server's is
   backed up before all servers are force-pushed (`state.rs:242`).
2. A folder picked while a fork is being imported is replaced by the fork: the
   import is compared with the fork that was applied when it began, which
   picking a folder does not touch (`pull_requests/new.rs:562`, `:622`).
3. Whoever signs out is told to sign in again on the next session
   (`views/sidebar/mod.rs:930`), but the deletion of the credential is detached and
   its failure only logged: if the process ends before it has run, or the keyring
   refuses it, the next start signs the person of a bunker in (`backend.rs:972`).

These have a configuration of their own, to be run by hand:

4. A local status pass that started before a change of identity and outlives the
   refresh that follows writes the old statuses back; with no request left the
   polling stops and they stay (`checkouts.rs:494`, `CheckoutsOldStatuses.cfg`).
5. A relay that cannot be connected ends the loop over the servers, so that a
   state that a server already took is not broadcast (`state.rs:339`,
   `GraspPushBroadcast.cfg`).
6. A repository panel opens the mirror without the clone lock and shows an empty
   tree while another task is still cloning it (`views/repo/mod.rs:413`,
   `MirrorCacheOpens.cfg`).
7. The refresh of the mirror looks at the pushing flag once, before the fetch; a
   push that starts meanwhile, or in another panel, races it
   (`views/repo/mod.rs:453`, `MirrorCacheRefresh.cfg`).
8. After an interrupted clone a mirror that cannot be opened is reported and not
   replaced, and one without a branch is taken for finished
   (`views/repo/mod.rs:413`, `cache.rs:65`, `MirrorCacheInterrupted.cfg`).
9. The list of pull requests keeps positions in a sequence without the updates
   and reads them in the one with them, so that `visible_prs` are not "Indices into
   the store's `pull_requests`" (`pull_requests/mod.rs:63`, `:183`,
   `ListingRows.cfg`).

These are statements of the modules that the code does not keep; put the name
under `INVARIANT` (or `PROPERTY`, for `LeavesUnmarked`) of the run's configuration to
see the behavior:

10. `BunkerVerified` (`accounts`): a bunker is to answer before its credential is
    persisted (`backend.rs:368`), but the write is already running (`:361`).
11. `DerivedWithState` (`accounts`): the copy of the read state in the inbox view
    may be newer than the lists it is said to belong to (`views/inbox.rs`).
12. `WarnsOnlyPublished` (`repository`): the warning that a pull request was
    published without its commits is shown before it is published, and stays when
    publishing fails (`repo.rs:880`).
13. `CheckoutReplaces` (`panels`): a switch is to replace the files of the
    worktree (`signed_git/repo.rs:960`); beside a fast-forward of the branch that
    is left, files of both remain.
14. `HistoryIsHeads` (`panels`): a reload of the history that overlaps another
    may show the list of the earlier HEAD (`history.rs:57`).
15. `LeavesUnmarked` (`panels`): the cutoff that "leaves unmarked events
    uncovered" (`read_state.rs:74`) covers one that is exactly as old as the
    window (`:92`).
16. `RetractedIsGone` (`publishing`): "The announcement has been retracted"
    (`backend.rs:1220`) is said as soon as one relay has taken the deletion request
    (`state.rs:511`); a relay that took the announcement and refused the request
    goes on serving it.

Met while modelling, without a statement of the repository against it:

* a refresh request folded into a run that is then abandoned waits until
  something asks again (`repos.rs:258`); `abort` keeps the dirty flag, and
  nothing looks at it before the next run ends;
* `evict_previews` does not end when its only path is twice in the order and
  selected (`files.rs:553`); `EvictionEnds` excuses a file that was stored twice;
* passes of the repository store are not gated, so that the older one may land
  last (`repo.rs:349`); `FindsEverything` holds when the last to land was current;
* `connect_repo_relays` gives the whole request up at the first relay that fails,
  though all of them are marked as asked (`backend.rs:1055`);
* a pull request that cannot be signed ends without a word (`repo.rs:843`);
* a repository whose initialization fails leaves its folder behind;
* `delete_repository` names the newest announcement in the database, so that a relay
  that had refused the newest goes on serving an earlier one;
* `sign_out` leaves the key in the shared signer.

## Plan

1. `RefreshGate`, `Coalescing`, `RepoList` and its proofs: done.
2. `Checkouts`, `SyncStatus`, `GraspPush` and their runs: done.
3. `SyncStatusProofs`, and `Checkouts` in `RepositoryProofs`: done.
4. `MirrorCache` and its proofs: done.
5. The repository store: `RepoStore`, `Publish`, `Listing`: done.
6. The repository panel: `Worktree`, `Previews`: done.
7. `Session` against `Identity`: done.
8. `Publishing`; the form and panel of a pull request, `Compare`, `Detail`: done.
9. `Inbox`, `ReadState`, `Profiles`, `LocalRepos` against `Coalescing`: done.
10. `AccountsProofs`, `GraspPushProofs`, `PublishingProofs`, `PanelsProofs` and the
    repository store in `RepositoryProofs`: done.

Left: the dialog that resets a diverged remote (it keeps a list of commits from
before it was opened, `views/repo/mod.rs:847`), `clone_to_folder`, the scan of
the disk inside `Checkouts`; how mentions are grouped into threads; ahead and
behind of a branch against a reference definition.

## Not modelled

Rendering, layout and widgets; parsing and printing of events, patches and
diffs; the Nostr SDK and git behind the calls that are made to them; settings
(one file, written in the update that changes them) and path constants;
subscriptions at start-up (`bootstrap`); `set_status`, which only drafts reach
and nothing creates drafts; the dock and the UI kit; the wasm32 target, where the
background work is compiled out. The components are marked in `PROJECT.json`.
