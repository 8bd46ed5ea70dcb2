# A model of shasync's synchronisation

shasync keeps folders on several devices in step through a bucket (S3 or GCS)
that none of them can lock. This directory holds TLA+ modules of that protocol,
the instances TLC checks, and TLAPS proofs of what matters most. The reference
is the Go code at the root of the repository; where a document and the code
disagree, the code is modelled and the run that shows the disagreement is named
below.

## The system

**A folder** (one per device) has a working tree and a store `.blobs/`:
`objects/<sha>` (contents of files), `manifests/<sha>` (snapshots, each with the
SHA of its parent), `HEAD`, `config`, `push-log-cache`, `keyframes`, `key`.
**A bucket** has `blobs/<sha>`, `manifests/<sha>`, `HEAD`, `push-log/<time>-<sha>`
and `salt`. Devices never talk to each other; the bucket offers upload,
download, exists and list, each atomic, and no conditional write.

| Component | Code | State it keeps | Operations | What is hard about it |
|---|---|---|---|---|
| Snapshot, local store | `commands.go` 52-218, `store.go` | `objects/`, `manifests/`, `HEAD` | `snapshotWorkingTree`, `cmdCommit` | two writes and a crash in between; mtimes trusted; the folder changes meanwhile |
| Sync cycle, watch | `watch.go` | none of its own | `syncOnce`, `fetchAndCheckout`, `cmdWatch` | the two HEADs are compared, then a long download, then HEAD moves; poll ticker and debounce |
| Push | `commands.go` 1445-1916 | bucket, `push-log-cache` | `cmdPush`, `uploadManifestChainAndSetHead` | order of writes; cut pushes; what it skips because a log says so; HEAD is last writer wins |
| Pull, fetch | `commands.go` 1926-2263, `sync.go` 125-143 | local store | `cmdPull`, `doMerge`, `fetchManifestChain` | stores manifests tip first, so a cut leaves a gap in local history |
| Ancestry | `sync.go` 54-117 | none | `isAncestor`, `findCommonAncestor` | answers only as far as manifests are local |
| Merge | `sync.go` 159-261 | none | `autoMerge` | conflict copies, deletions, modes |
| Checkout, safe apply | `commands.go` 222-313, `syncsafe.go` | working tree, `HEAD` | `checkoutTarget`, `applyManifestSafely` | check-then-write against an editor; stops half way |
| gc | `commands.go` 1288-1402 | `objects/` | `runGC` | deletes by lists read earlier |
| Remotes | `remote*.go`, `commands.go` 963-1161 | `config` | `remote set`, `remote migrate` | caches that describe another bucket; copies a bucket in use |
| Deltas | `delta.go` | `keyframes` | `uploadManifest`, `downloadManifestObject` | a manifest that needs another one to be read |
| Keys, salt | `crypto.go`, `commands.go` 1165-1286 | `key`, `salt` | `fetchOrCreateSalt`, `cmdKey` | exists-then-upload by two devices |
| The rest | `scan.go`, `compress.go`, `reflink_*.go`, `bucketcheck.go`, `help.go`, display commands | none | | pure data, I/O or text |
| Rust port | `rust/shasync-core` | the same files | the same protocol as a library | its own `clone_if_new`, and a push that merges |

They interact through files and objects only: commands of one folder through
`.blobs/`, devices through the bucket. `watch` runs cycles one after the other,
but nothing stops a second terminal from running `commit` or `gc` meanwhile.

What makes each part correct:

- **push**: whatever is cut, the bucket's HEAD can be downloaded whole
  (HOW-IT-WORKS section 11, guarantee 2), no reader finds a manifest whose parent is missing,
  and the push-log may only ever save work;
- **cycle, pull, merge**: no snapshot is dropped (section 11, 4 and 5), and devices converge;
- **gc**: a local blob goes only when the bucket has it (section 11, 3);
- **remote set**: nothing believed of the old bucket is used for the new one;
- **apply, checkout**: no unsnapshotted edit is overwritten, and an apply gives way
  to real edits only; **merge**: both versions of a conflict survive;
- **remote migrate**: the same, and the new bucket's HEAD has its objects;
- **deltas**: the base of every delta in the bucket is there in full, and a delta
  rebuilds the very manifest it was made of;
- **modes, mtimes**: the fast path misses no edit, and devices at rest commit nothing;
- **salt**: one salt per bucket (not modelled).

## The modules

| Module | What it is |
|---|---|
| `Chains` | Histories and the questions the code asks of them. A manifest is the sequence of snapshots from the root to itself, because its SHA stands for exactly that; every walk takes the set of manifests that are local. |
| `Archive` | What a bucket promises its readers: objects are only added, a manifest after its ancestors, HEAD moves only to a snapshot that is there whole. |
| `Sync` | The protocol: any number of folders and buckets, one action per request to the bucket and per file written under `.blobs/`; its specifications and its properties. |
| `MCSync` | Where instances start and which actions they interleave. |
| `ThreeWay` | `autoMerge` on trees, name by name. |
| `Folder` | What `Sync` leaves out of a cycle: the files of one folder, its user, the merge and the apply, one action per file operation. The rest of the system is an environment that moves the bucket's HEAD. Uses `Chains` and `ThreeWay`. |
| `MCFolder` | Instances of `Folder`. |
| `Keyframes` | The manifests of a bucket as keyframes and deltas: what `Sync` takes for one step, the upload or arrival of a manifest, as the files and requests it consists of. Uses `Chains`. |
| `MCKeyframes` | Its instance. |
| `Migrate` | `remote migrate` beside the steps of `Sync`. |
| `MCMigrate` | `MCSync`'s machine that moves, with `Migrate`. |
| `Modes` | The mode and the mtime of a file on several devices: snapshot, merge and apply. |
| `MCModes` | Its instance. |
| `Delta` | `makeDelta` and `applyDelta`. |
| `SyncInvariants`, `KeyframesInvariants`, `FolderInvariants` | The inductive invariants of these three modules. |
| `ChainLemmas`, `SyncTipProofs`, `SyncChainProofs`, `SyncHistoryProofs`, `MigrateProofs`, `DeltaProofs`, `FolderProofs`, `ModesProofs` | The proofs: of `Chains`; of `Sync`, layer by layer; of `Migrate`; of `Delta` and `Keyframes`; of `ThreeWay` and `Folder`; of `Modes`. |

### How Sync corresponds to the code

The local variables of the running process are the record `proc[m]`; `pc` is
the place in the code:

| `pc` | Code |
|---|---|
| `idle` | no command, or watch between two cycles |
| `fetch` | `fetchManifestChain`, then the two `isAncestor` questions (`watch.go` 155-176, `commands.go` 2083-2112) |
| `fetchBlobs` | `fetchBlobsForChain` and `autoMerge` in `doMerge` |
| `checkout`, `download` | `fetchAndCheckout`; for a pull `commands.go` 2115-2166 |
| `covered`, `known`, `upload`, `ensure`, `log`, `cache` | the phases of `uploadManifestChainAndSetHead` |

`Compare` is a cycle or a pull up to the comparison of HEADs; `Ahead`, `Behind`
and `Diverged` are its three branches; `Push` and `Fetch` are `cmdPush` and
`cmdPull <sha>`. `Abort` can end any process anywhere: a request failed, a check
refused (uncommitted changes, local edits during the apply, no common
ancestor), or the process was killed. `proc[m]` is then lost; every file and object written
stays. `gc[m]` runs beside `proc[m]`. `CommitBeside` is a `commit` from another
terminal.

### How Folder corresponds to the code

A tree is a set of pairs of a name and a content. A snapshot (`ensureTreeCommitted`)
is `Begin`, the walk that finds the names, `Scan` for each file that a worker
reads, and `EndScan`, which moves HEAD if anything differs; a file that is gone
by the time it is read ends the cycle. `UpToDate`, `Ahead`, `Behind` and
`Diverged` are the branches of `syncOnce`, the last with `doMerge`'s look for
uncommitted changes; `Behind` is also the first catch-up of a new clone.
`applyManifestSafely` is the loop of `Check` (`diskMatches`), `Unlink` and `Place`
(the two halves of `reflinkCheckout`), with `Stop` for
`errLocalEditsDuringSync`, over the names in `proc.todo`, and `EndApply` for its
last line, which moves HEAD. The order of the loop is kept where it matters: a
directory before what is below it, and a conflict copy before or after its
original, depending on whether the name has an extension (`Sooner`). Names are a
path and the times of the merges that copied it.

`BeginPull` starts `cmdPull` without an argument, which takes the same snapshot and
the same branches, does not push, and goes on to `checkoutTarget`: `Look` for
uncommitted changes, then `Replace`, file by file and without another check.

`Save` and `RemoteMoves` are the environment. `saved` is a ghost: the contents that
the user has saved and that neither the user (in any file that holds them)
nor another device (on top of a snapshot that has them) replaced or deleted.
`proc.edited` is a ghost as well.

What it leaves out: modes, sizes and mtimes, which are in `Modes` (`diskMatches` and
the snapshot compare contents here); ignored files; two merges within one second;
`checkout` by hand. Two windows that the code cannot close are left out as well, and
are listed among the hazards: the user writes the very file that is being replaced,
between its check and its replacement, or anything while a pull replaces files
(guards of `Save`); and a process that dies in that part of a pull (guard of `Abort`).

### How Keyframes corresponds to the code

`stored` is a set of pairs: a manifest of the bucket and its delta's base, or `NoManifest`
when it is full. `manifestUploadForm` is `UploadBase`: the nearest ancestor within
`deltaMaxWalk` that is in `keyframes[m]` and on the part of the chain that is local, or
none if the delta of it is not small (`NearestBase`). Whether it is small depends on the
two trees alone (`Small`: they have a blob in common). `Upload` and `NoteUpload` are the request and
the `addKeyframe` of `uploadManifest`; `downloadManifestObject` is `Look`, `FetchBase` when
the base is not local, `NoteArrival` and `StoreManifest`. What a machine fetches is `Wanted`:
what its walk from the bucket's HEAD misses, or HEAD's manifest alone when the machine has
no HEAD yet. Around them the cycle of `Sync` is kept with everything that decides which
manifests are uploaded again: the push-log, its cache, the seed from a listing,
last-writer-wins of HEAD. Left out are blobs, the covered set (it needs no upload), clocks
that differ, and two folders on one `.blobs/`. A merge has any tree.

There are three starts: `Fresh`, without a snapshot; `Started`, after a first push that
every machine has fetched; and `Moved`, the same machines after `remote set` to an empty
bucket: `remote set` removes the cache but not the keyframes file, which then lists what
another bucket has in full.

### How Migrate corresponds to the code

`ListBlobs` and `ListManifests` are the two listings of `cmdRemoteMigrate`, `CopyBlob` and
`CopyManifest` the workers of `parallelFor` in any order, `CopyHead` the loop over
HEAD and salt (which goes on when HEAD cannot be read), `EndMigrate` the config and
the cache. `AbortMigrate` may come anywhere. The push-log is not copied, as in the code.
`SpecMigrate` is for any machines; the run's `SpecMigrating` for one.

### How Modes and Delta correspond to the code

`Modes` has one file of constant size. `Found` is what a worker of a snapshot lists
for it, with the fast path; `Dirty` is `manifestFilesEqual`; `Merged` and `Applied` are
the lines of `autoMerge` and `applyManifestSafely` that decide about an entry of equal
content. A cycle is one step: what happens within one is `Sync`'s and `Folder`'s matter.
`Write` gives the file a new mtime, `Chmod` none.

`Delta` has `makeDelta` and `applyDelta` on functions from paths to entries; parent,
message and time are copied field by field and left out.

### What Sync leaves out

- *The working tree.* A snapshot finds any tree of `Tree`, so the user may have
  done anything since the last one; a tree is the set of its files' blobs.
  Changes that only rename files or change modes are not seen.
- *Snapshot and cycle* are two steps, although a cycle starts with a snapshot:
  more interleavings than the code has. Reading the two HEADs is one step; the
  reads that matter later (HEAD of the bucket for the covered set, HEAD of the
  folder in the apply) are steps of their own.
- *Which files a merge keeps.* The merge is a child of the bucket's HEAD made of
  any of the two tips' blobs.
- *Deltas*: a downloaded manifest may bring one ancestor along (`Arrive`), which is
  all that the rest of the code can see of them. `Keyframes` is about the rest.
- *Encryption, compression, names, messages, times*. The time in a push-log key
  is any unused number, so clocks may be wrong in any way.
- `RemoteSet` writes the config and removes the cache in one step, and finds no
  command running; nothing else runs on a machine that migrates.

## The runs

The `Sync...` runs use module `MCSync` (`SyncMove` uses `MCMigrate`), the others the
MC module of their name. In `MCSync` contents (and machines, where they are alike)
are symmetric, in `MCKeyframes` both. Instances start from a bucket that is already
in use, so that the interesting steps come early.

| Run | Instance | Checks |
|---|---|---|
| `SyncWatch` | 2 machines that only run watch, 1 bucket, 2 contents, histories up to 3, failures anywhere | `TypeOK`, `HeadComplete`, `NoDanglingParent`, `HistoryKept`, `LogHonest` |
| `SyncSteady` | 2 machines, no failures, fairness; each may add one snapshot to the shared one, merges up to 9 | `Converges` |
| `SyncCommands` | 1 machine with every command except `remote set` (`pull <sha>` of snapshots that are not local), gc beside it, 3 contents; the bucket holds another machine's history of 2 | `VersionsRecoverable`, `ImplementsArchive`, `NoSnapshotDropped` |
| `SyncMove` | 1 machine, 2 buckets, every command except gc, `remote migrate`, lost blobs | `HeadUsable`, `KnownManifestsThere` |
| `SyncTerminals` | as `SyncWatch` without failures, and `CommitBeside` on one machine | violates `NoSnapshotDropped` |
| `SyncPartial` | as `SyncMove`, without `remote migrate` | violates `HeadComplete` |
| `SyncCopy` | 1 machine, a folder with a copy of its own manifest | violates `HeadUsable` |
| `FolderWatch` | 1 file with an extension and its conflict copies, in step or a new clone; 2 changes of the user, 2 pushes of other devices, 1 pull, 1 kill | `TypeOK`, `SavedKept`, `StopsOnlyForEdits`, `Settles` |
| `KeyframesWatch` | 2 machines that run watch, 2 trees that are no small deltas of one another, histories up to 3, 1 kill, after a first push or after `remote set` | `TypeOK`, `BasesThere`, `NoDeltaOnDelta`, `KeyframesFull` |
| `FolderCrash` | the file without an extension, no pull, 1 kill | violates `ConflictsKeepBoth` |
| `FolderDir` | a directory that another device replaces by a file | violates `StopsOnlyForEdits` |
| `ModesRest` | 2 devices, 1 file, 2 contents, 2 modes, 1 change of a user | violates `Rests` |

**The bounds.** `MaxHistory` and `MaxMerged` bound the length of histories and
`MaxLogKey` the number of pushes that write a log entry. They are guards of
`TakeSnapshot`, `Merge` and `WriteLog` and do nothing else. Three levels are
enough for the cases that differ: a shared ancestor, two snapshots that fork
from it, and a merge on top of one of them; three log entries allow one from
each machine beside the first, in either order of clocks. Two machines are
enough for each hazard listed, since a machine only meets what others left in the
bucket; two contents tell a changed file from an unchanged one and three let
one be lost. In `SyncCommands` and `SyncMove` a new folder takes its first
snapshot only after it has caught up, which keeps all histories related;
unrelated ones only end in an error of `doMerge`, or in a forced push. The
theorems hold for all values of all bounds. In `Folder` only the environment is
bounded: changes of the user, moves of the bucket, pulls and kills. Two changes on
each side are what a half-applied merge needs to meet a newer snapshot of the
bucket and another edit, and an edit also stops a cycle half way, so that one kill
is enough for two half-applied states in a row; with two kills and no pull the same
properties hold as well (1.1 million states). The names of copies, and
copies of copies, make an apply go over several files even with one path. Cycles,
merges and histories are not bounded. In `KeyframesWatch` a chain of three is the shortest in
which a keyframe has a delta above it and another manifest above that; its two trees
make either choice of form possible at every level. The kill separates an upload from its
note, which `TypeOK` and `BasesThere` must survive; the other two properties say "until
a cycle is cut", and *Seen in the models* says why.

**Fairness.** `SyncSteady` assumes weak fairness of each machine's
cycle (`SyncStep`), because the poll ticker of `cmdWatch` keeps starting one
(`watch.go` 70 and 110-111) and its loop waits for nothing else while a cycle
runs. Snapshots are the user's and have none. It also assumes that no request
fails: with failures there is no reason to converge. That
`MaxMerged = 9` and `MaxLogKey = 4` do not stop the machines is part of what
the run shows: a machine that could not merge or log would never converge.
`FolderWatch` assumes weak fairness of `Cycle` for the same reason, and nothing of the
user, other devices or failures; these are finitely many, so `Settles` says what
happens after the last of them, from whatever half-applied state it left. A pull
runs to its end under the same assumption, but nothing makes a user start one.
`ModesRest` assumes it of every device's cycle; a counterexample thus shows cycles
that do run and still never find a clean tree.
Deadlock is not checked in `SyncSteady`, `SyncTerminals` and `KeyframesWatch`, because
everything may be in step and at its bound.

### What the violating runs show

- `SyncTerminals`: `fetchAndCheckout` reads HEAD again after its downloads
  (`watch.go` 208) and takes it for the snapshot the cycle compared. A commit
  made meanwhile in another terminal is what the files on disk now hold, so the
  apply replaces them and moves HEAD past it: the commit is in no history, its
  edits in no merge. `syncsafe.go` 17-18 and WORKFLOW.md 169-172 say otherwise.
  Edits that were *not* committed are safe in the same situation.
- `SyncPartial`: a folder that caught up with a cycle has only the newest
  manifest. After `remote set`, a push to the new bucket stops its walk there
  (`commands.go` 1764) and moves HEAD: not "downloaded whole", as HOW-IT-WORKS
  section 11 says. `HeadUsable` (the tip and its files) still holds, and is proved.
- `SyncCopy`: manifests and blobs share one name space in the push-log, the
  cache and the covered set. A file that is a copy of a manifest is never
  uploaded as a blob. This is why the theorems assume `NamesDiffer`.
- `FolderCrash`: paths are applied in byte order. `todo (modified ...).md` sorts
  before `todo.md`, so a conflict copy is on disk before its original is replaced, and
  `FolderWatch` shows that no kill loses a version then. `todo (modified ...)`
  sorts after `todo`: a kill between the two drops the local version from all later
  merges, against HOW-IT-WORKS 284 and 344. It is still in an
  orphaned local manifest.
- `FolderDir`: when a directory became a file on another device, `diskMatches` finds the
  directory and reports a local edit, in every cycle (`syncsafe.go` 108), against
  the meaning that `syncsafe.go` 12-15 gives that error.

- `ModesRest`: a snapshot counts a mode as a change (`commands.go` 176), while merge
  and apply compare contents (`sync.go` 240-248, `syncsafe.go` 58). A file that was
  written again with what it had and another mode is committed; another device
  catches up without touching its own file, finds an mtime that is not HEAD's,
  reads its own mode and commits that; then the first does the same. WORKFLOW.md
  209-212 promises that clean trees are not committed, and `shasync status` calls
  both clean.

### Seen in the models, without a run

These came up as counterexamples, or as cases to leave out, while the models were
written. Each is listed among the hazards.

- *A push that dies between a keyframe and its note* (`uploadManifest`, between its upload and
  its `addKeyframe`). A full manifest M is in the bucket and not in the keyframes file of the
  machine that sent it. Its next push finds M listed, so M is never noted there, and
  a child N of M goes up in full. Another machine noted M when it downloaded it; where it
  uploads N again, N becomes a delta of M; and a child of N that the first machine
  uploads is then a delta of a delta, against `delta.go` 7 ("A delta never refers to
  another delta"). A machine that fetches it gets "is itself a delta". TLC finds this within
  half a minute with `kills = 0 =>` dropped from `NoDeltaOnDelta`, one tree, one kill,
  histories up to 5, and two machines that share two snapshots and an empty bucket.
  It is too long for the bounds of `KeyframesWatch`. So `NoDeltaOnDelta` and
  `KeyframesFull` hold until a cycle is cut, which is what the run checks and the theorems
  state; `BasesThere` holds whatever is cut.
- *A first cycle of a clone that is disturbed* leaves files in the folder and no HEAD.
  The next snapshot is a root of its own and `doMerge` finds no common ancestor, in
  every cycle. `Settles` names that exception; `syncsafe.go` 12-14 does not.
- *A pull that dies while it replaces files* has removed before it places; the next
  snapshot takes what is missing for the user's deletions. `Abort` leaves this out, since
  otherwise `SavedKept` fails at once.
- *The Linux build* places `x` by way of `x.tmp` in the user's folder
  (`reflink_linux.go` 23). `Folder` models a placement without that name.

ARCHITECTURE section 7 still describes a push that checks each blob with a HEAD
request and merges on divergence; neither is in the Go code any more, and the
model follows the code.

## The proofs

TLAPS proves every safety property that a passing run checks, for any machines, buckets, contents,
trees, paths and bounds. What it assumes of constants is in the modules (trees are
sets of blobs, bounds are numbers, `deltaMaxWalk` is at least 1), and TLC evaluates it in
every run. Three hypotheses go beyond that; a violating run shows what the code does without each:

- `NamesDiffer`, for all theorems of `Sync` and `Migrate` but `Types`: no file of a folder has the
  bytes of a manifest (`SyncCopy`);
- `NoDirectories`, for `StopsForEdits` and `NoSavedVersionLost`: no path is a file on one
  device and a directory on another (`FolderDir`);
- `CopiesFirst`, for `NoSavedVersionLost`: names have an extension, so that a conflict copy
  sorts before its original (`FolderCrash`).

A fourth is part of a specification: in `SpecMigrate` nobody moves HEAD of a bucket while it
is copied (`HeadsRest`). The code reads HEAD after the listings and does not see to that; a
machine that does it gives the new bucket a HEAD without its objects.

| Theorem | Statement |
|---|---|
| `SyncTipProofs!Types` | `SpecAny => []TypeOK`, where `SpecAny` allows the steps of all of `Sync`'s specifications in any mixture |
| `SyncTipProofs!Usable`, `Credited` | `SpecAny => [](HeadUsable /\ KnownManifestsThere)` |
| `SyncChainProofs!Complete`, `NoneDangling` | `SpecStay => [](HeadComplete /\ NoDanglingParent)`: everything but `remote set` |
| `SyncChainProofs!Implements` | `SpecStay => ImplementsArchive`: the refinement |
| `SyncHistoryProofs!AllVersionsKept`, `GCDeletesNoLastCopy`, `LogNeverLies` | `SpecBeside => [](HistoryKept /\ VersionsRecoverable /\ LogHonest)`: machines stay, no local file is lost, commits beside cycles are allowed |
| `SyncHistoryProofs!NoneDropped` | `SpecMove => NoSnapshotDropped`: an action property; files may be lost and machines move, but nothing is committed beside a cycle (`SyncTerminals`) |
| `MigrateProofs!MigrationUsable` | `SpecMigrate => [](HeadUsable /\ KnownManifestsThere)`: `remote migrate` on any machines beside all the rest |
| `DeltaProofs!KeyframeTypes`, `BasesStored` | `SpecAny => [](TypeOK /\ BasesThere)`, from all three starts of `Keyframes` |
| `DeltaProofs!DeltasOfKeyframes`, `ListedAreFull` | `SpecAny => [](NoDeltaOnDelta /\ KeyframesFull)` |
| `DeltaProofs!DeltaRebuilds` | `applyDelta` of a base and of `makeDelta`'s result is the manifest the delta was made of |
| `FolderProofs!LocalKept`, `RemoteKept` | nothing that one side has and the ancestor has not is lost by `autoMerge`; only local versions move aside |
| `FolderProofs!NothingMadeUp`, `MergeIsTree` | the merge has only contents of the two sides, and one content per name if copies have new names |
| `FolderProofs!FolderTypes` | `Spec => []TypeOK`: no name ever has two files |
| `FolderProofs!StopsForEdits` | `Spec => StopsOnlyForEdits`: an action property |
| `FolderProofs!NoSavedVersionLost` | `Spec => []SavedKept` |
| `ModesProofs!FastPath` | `Spec => []EditsSeen`: no edit is missed by the trust in mtimes, if every write has an mtime of its own |

### Sync

`HeadUsable` is far from inductive, since what a push may skip depends on what
was true when it read the log. `SyncInvariants` strengthens it in layers, each
inductive relative to the ones before:

1. `TypeInv`: types, and that a push or an apply has a manifest to work on.
2. `TipInv`: what a machine believes of its bucket is true of manifests (cache
   and push-log list a manifest only after it was uploaded: manifests are
   uploaded before the log is written, and nothing deletes them), and the covered
   set is true of blobs. For blobs the *log* is not believed, because a push lists
   lost ones too. A push keeps its tip covered by what it still has to
   upload, what it skipped, and what is there; the check turns the second into
   the third before HEAD moves. That is what makes "the push-log only saves work"
   (`commands.go` 1865) true.
3. `ChainInv`: what a machine lacks of a history it knows, its bucket has
   (`LocalClosed`; this is the part that fails when it moves to another bucket),
   and a push keeps its chain covered by what it still has to upload and what
   is there. Oldest-first order is needed for `NoDanglingParent`, and
   `NoDanglingParent` for the skip of a chain's known part.
4. `HistoryInv`: as long as no local file is lost, the log can be believed of blobs
   too, and then so can the cache, what gc took from a listing, and what a
   push skips of its whole chain. A manifest arrives in the bucket after its
   blobs, and gc deletes only what a bucket had, which buckets never give up.
5. `HeadInv`: until a cycle moves HEAD, HEAD is where the cycle compared it, and
   what it moves to is a descendant or the merge. `CommitBeside` breaks exactly this.

`SyncTipProofs` (the first two), `SyncChainProofs` and `SyncHistoryProofs` prove the
layers in turn: initial states, one step per action, and the temporal conclusion.
`Implements` shows that blobs, manifests and HEAD change only in steps that
`Archive` allows.

`MigrateProofs` adds the migrations to the first two layers. Its `Copied` says of each that
what HEAD of the old bucket needs is on the lists or in the new bucket, so that HEAD has its
objects when it is copied, and that the machine runs nothing else, so that it
believes nothing of the old bucket when it arrives in the new one.

### Keyframes

`LogInv`, whatever is cut: what a push-log or cache lists is in the bucket, and a push
has uploaded of its chain what is not on its list any more. With oldest-first this
gives `BasesThere`.

`NoDeltaOnDelta` needs more, since a manifest may be uploaded twice, by machines whose
keyframes files differ, and in another form the second time. `UncutInv(S, K)` says why
that does not happen before a cycle is cut: the form of a manifest is a function of its
ancestors alone (`BucketForm`), because a machine to which a manifest is local also knows
whether it is full, but for the moment between an upload or an arrival and its note
(`Knows`). `S` are the snapshots that the machines shared when the bucket was empty and
`K` those of them that an earlier bucket had in full. They never change, and the
invariant is that such sets exist.

### Folder

1. `TypeInv`: every tree has one file per name. A name is a path and the times of the
   merges that copied it, all before the present, so a copy has a new name; and the
   walk of a snapshot does not read a name again.
2. `RestInv`, for `StopsOnlyForEdits`: while the user changes nothing in a cycle, the folder
   is as the snapshot found it but for what the apply has done.
3. `SavedInv`, for `SavedKept`: a saved version that a snapshot has is in every later one of
   the same history, in its own file or in a copy of it (`Carries`); at most its
   place changes. `ScanInv` and `ApplyInv` say the same of half a snapshot and half an
   apply: what a removal takes away the target has in that file or in a copy, and
   the copy sorts first, so it is on disk already. `ReplaceInv` does it for a pull, where
   the folder holds exactly what HEAD or the target has. That a merge carries what both
   sides carry (`MergeCarries`) takes the longest copy of a file that still holds
   the version, which exists because histories and trees are what a merge finds and
   its own copy is longer still (`Greatest`).

### Modes

`EditsSeen` is not inductive either, since an apply gives a file the mtime of an entry
that was written elsewhere. `FastPath` strengthens it to: of all files and entries
anywhere, two with one mtime have one content, and no mtime is ahead of the clock
(`OneContent` and `Past` of `ModesProofs`).

### Only model-checked

`Converges` and `Settles`: liveness under fairness is out of the prover's reach. Nothing else
that a passing run checks.

What a model leaves out its theorems leave out too: `NoSavedVersionLost` says nothing of a pull that
dies while it replaces files.

## Not modelled

- *Encryption, passphrase, salt, key commands* (`crypto.go`): the framing is pure data;
  two devices that create a salt at once is one look and one write on each side, and
  meets no state of the modules.
- *Bucket check, status, log, diff, ls, browse, help*: read and print.
- *Ignore rules* (`scan.go`): a filter on paths. Their two effects on sync, a new pattern that
  deletes for others and an ignored path that stops every apply, are among the hazards.
- *Compression, reflinks, the temporary names of the Linux build.*
- *Debounce and fsnotify*: they only start cycles earlier than the ticker.
- *A running watch whose bucket is changed by another terminal*, `remote set` killed
  between its two writes, a push that moves HEAD of a bucket while another machine copies it.
- *The Rust port*: a second implementation with a protocol of its own for clones and
  pushes.

## The plan

Done: `Chains`, `Archive`, `Sync`, `ThreeWay`, `Folder`, `Delta`, `Keyframes`, `Migrate`,
`Modes`, with their runs, and a theorem for each safety property of a passing run. What
would come next:

1. An abstract folder that never loses a saved version, and `Folder` as its refinement.
2. `Folder` with ignored files.
3. `Clone`: the Rust port's `clone_if_new` and its merging push, composed with `Sync`.

## Running it

    tlc -workers 2 -config SyncWatch.cfg MCSync      # the others alike
    tlc -workers 2 -config SyncMove.cfg MCMigrate
    tlc -workers 2 -config FolderWatch.cfg MCFolder
    tlc -workers 2 -config KeyframesWatch.cfg MCKeyframes
    tlc -workers 2 -config ModesRest.cfg MCModes
    tlapm SyncHistoryProofs.tla                      # and the other proof modules

`SyncWatch` explores about 850,000 states, `SyncCommands` 1,115,000, `SyncMove`
2,760,000, `FolderWatch` 650,000 and `KeyframesWatch` 1,840,000 (each within one to
two and a half minutes), `SyncSteady` 14,000. `FolderProofs` and `DeltaProofs` take tlapm
about two minutes each, the others less. The `Mistaken ...` definitions are
plausible bugs of the action that follows them; with one in place of that action,
the property it is meant for fails.
