---------------------------- MODULE LocalRepos ----------------------------
(***************************************************************************)
(* The list of the git repositories below the folders of the settings      *)
(* (signed_state/src/local_repos.rs, signed_git/src/scan.rs).              *)
(*                                                                         *)
(* A scan walks the disk in the background, path by path, while the disk   *)
(* changes and while entries are taken off the list.  Requests made during *)
(* a scan fold into one more scan: the contract of Coalescing, kept by two *)
(* flags of the store's own instead of the refresh gate.                   *)
(***************************************************************************)
EXTENDS Naturals

CONSTANTS
  Path,         \* the repositories and the places where one may be created
  Mark,         \* what a repository's NIP-34 binding may say
  Absent,       \* no repository at the path
  Plain,        \* a repository without a binding
  MaxRescans    \* bound: requests for a scan

ASSUME LocalReposAssumption ==
  /\ Absent # Plain /\ {Absent, Plain} \cap Mark = {}
  /\ MaxRescans \in Nat

VARIABLES
  disk,        \* Path -> what is there
  repos,       \* LocalReposStore::repos: Path -> what the list says of it
  scanning,    \* LocalReposStore::scanning
  scanDirty,   \* LocalReposStore::scan_dirty
  todo,        \* the paths that the running scan has not walked yet
  seen,        \* Path -> what the running scan has found
  asked,       \* ghost: requests made so far
  begun,       \* ghost: requests made when the running scan began
  served       \* ghost: the newest request the list serves

scan == <<scanning, scanDirty, todo, seen>>
counts == <<asked, begun, served>>
localVars == <<disk, repos, scan, counts>>

Entry == {Absent, Plain} \cup Mark
Nothing == [p \in Path |-> Absent]

\* The first scan is deferred to the end of the update that makes the store.
LocalInit ==
  /\ disk \in [Path -> {Absent, Plain}]
  /\ repos = Nothing
  /\ scanning = FALSE /\ scanDirty = FALSE
  /\ todo = {} /\ seen = Nothing
  /\ asked = 0 /\ begun = 0 /\ served = 0

\* rescan past its early return.
BeginScan(n) ==
  /\ scanning' = TRUE
  /\ todo' = Path /\ seen' = Nothing
  /\ begun' = n

\* Mutant: a request made while a scan is running is dropped.
Forgets == scanDirty' = scanDirty

\* A request made while a scan is running is remembered.
Remembers == scanDirty' = TRUE

\* The early return without any roots is left out: they are given at the start, and
\* without one every request returns there and the list stays empty.
Rescan ==
  /\ asked < MaxRescans /\ asked' = asked + 1
  /\ IF scanning THEN Remembers /\ UNCHANGED <<scanning, todo, seen, begun>>
                 ELSE BeginScan(asked') /\ UNCHANGED scanDirty
  /\ UNCHANGED <<disk, repos, served>>

\* find_git_repos reaches a path and opens what is there.
Walk(p) ==
  /\ p \in todo
  /\ todo' = todo \ {p}
  /\ seen' = [seen EXCEPT ![p] = disk[p]]
  /\ UNCHANGED <<disk, repos, scanning, scanDirty, counts>>

\* The list is replaced; a remembered request starts the next scan at once.
ScanLands ==
  /\ scanning /\ todo = {}
  /\ repos' = seen
  /\ served' = begun
  /\ scanDirty' = FALSE
  /\ IF scanDirty THEN BeginScan(asked)
                  ELSE scanning' = FALSE /\ UNCHANGED <<todo, seen, begun>>
  /\ UNCHANGED <<disk, asked>>

\* Mutant: the list keeps the entry until the next scan.
KeepsEntry(p) == repos

\* remove: the entry goes, a scan that has walked its path goes on.
Without(p) == [repos EXCEPT ![p] = Absent]

ScanSteps == ScanLands \/ \E p \in Path : Walk(p)

LocalTypeOK ==
  /\ disk \in [Path -> Entry] /\ repos \in [Path -> Entry]
  /\ seen \in [Path -> Entry] /\ todo \subseteq Path
  /\ scanning \in BOOLEAN /\ scanDirty \in BOOLEAN
  /\ asked \in 0 .. MaxRescans /\ begun \in 0 .. asked /\ served \in 0 .. begun

-----------------------------------------------------------------------------
(* Properties *)

\* Whatever requests a scan, and whenever, the list is in the end that of a
\* scan that began no earlier than the request, and it never goes back to an
\* older one (the flags of rescan).
Contract == INSTANCE Coalescing WITH asked <- asked, served <- served
ImplementsContract == Contract!Spec
=============================================================================
