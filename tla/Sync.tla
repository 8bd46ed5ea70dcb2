-------------------------------- MODULE Sync --------------------------------
(***************************************************************************)
(* Machines that share a bucket: the commands commit, checkout, push,      *)
(* pull, gc and remote set, and the cycle of watch (syncOnce), at the      *)
(* grain of the requests that they send to the bucket and of the files     *)
(* that they write under .blobs/.                                          *)
(*                                                                         *)
(* One shasync process works on a machine at a time, except gc, which may  *)
(* run beside it.  Its local variables are the record proc[m]; any request *)
(* may fail and the process may die at any point (Abort), which loses the  *)
(* record and keeps every file and every object already written.           *)
(*                                                                         *)
(* The working tree is not here: the tree that a snapshot finds is any     *)
(* member of Tree, so the user may have done anything in between.          *)
(***************************************************************************)
EXTENDS Chains

CONSTANTS Tree,        \* the working trees a snapshot may find, as sets of blobs
          Bucket,      \* the buckets (prefixes of buckets) a remote may name
          MaxHistory,  \* bound: a snapshot makes no history longer than this
          MaxMerged,   \* bound: and a merge none longer than this
          MaxLogKey    \* bound: push-log keys are 1 .. MaxLogKey

ASSUME TreeAssumption == Tree \subseteq SUBSET Blob
ASSUME BoundAssumption == {MaxHistory, MaxMerged, MaxLogKey} \subseteq Nat

\* The push-log and its cache list bare SHAs, of blobs and manifests alike.
Name == Blob \cup Manifest

VARIABLES
  manifests,        \* manifests[m]: .blobs/manifests/ of machine m
  objects,          \* objects[m]: .blobs/objects/
  head,             \* head[m]: .blobs/HEAD
  cache,            \* cache[m]: .blobs/push-log-cache
  remote,           \* remote[m]: the remote in .blobs/config
  proc,             \* proc[m]: the running shasync process
  gc,               \* gc[m]: a gc beside it
  remoteBlobs,      \* remoteBlobs[b]: blobs/ of bucket b
  remoteManifests,  \* remoteManifests[b]: manifests/
  remoteHead,       \* remoteHead[b]: HEAD
  pushLog           \* pushLog[b]: push-log/

local  == << manifests, objects, head, cache, remote >>
bucket == << remoteBlobs, remoteManifests, remoteHead, pushLog >>
vars   == << local, proc, gc, bucket >>

-----------------------------------------------------------------------------
(***************************************************************************)
(* The state of a process.                                                 *)
(***************************************************************************)
Idle == [pc      |-> "idle",
         mode    |-> "sync",     \* sync, pull, fetch (pull <sha>), or merge:
                                 \* a sync that has merged
         local   |-> NoManifest, \* local HEAD when the cycle compared it
         target  |-> NoManifest, \* manifest being fetched, applied or pushed
         chain   |-> {},         \* manifests of the target's chain it walked
         covered |-> {},         \* what the bucket's HEAD already needs
         known   |-> {},         \* what the push-log says the bucket has
         cursor  |-> 0,          \* newest push-log key read
         novel   |-> {},         \* names this push did not find in known
         blobs   |-> {},         \* blobs still to transfer or to check
         mans    |-> {}]         \* manifests still to upload or to check

PC == {"idle", "fetch", "fetchBlobs", "checkout", "download", "covered",
       "known", "upload", "ensure", "log", "cache"}

Process == [pc : PC, mode : {"sync", "pull", "fetch", "merge"},
            local : Manifest \cup {NoManifest},
            target : Manifest \cup {NoManifest},
            chain : SUBSET Manifest, covered : SUBSET Name,
            known : SUBSET Name, cursor : Nat, novel : SUBSET Name,
            blobs : SUBSET Blob, mans : SUBSET Manifest]

NoGC == [pc |-> "idle", keep |-> {}, delete |-> {}]
GC   == [pc : {"idle", "list", "delete"}, keep : SUBSET Blob, delete : SUBSET Blob]

\* An empty cursor is 0; keys order by time, as zero-padded milliseconds do.
EmptyCache == [cursor |-> 0, known |-> {}]
Cache      == [cursor : Nat, known : SUBSET Name]
LogEntry   == [key : Nat, names : SUBSET Name]

TypeOK ==
  /\ manifests \in [Machine -> SUBSET Manifest]
  /\ objects \in [Machine -> SUBSET Blob]
  /\ head \in [Machine -> Manifest \cup {NoManifest}]
  /\ cache \in [Machine -> Cache]
  /\ remote \in [Machine -> Bucket]
  /\ proc \in [Machine -> Process]
  /\ gc \in [Machine -> GC]
  /\ remoteBlobs \in [Bucket -> SUBSET Blob]
  /\ remoteManifests \in [Bucket -> SUBSET Manifest]
  /\ remoteHead \in [Bucket -> Manifest \cup {NoManifest}]
  /\ pushLog \in [Bucket -> SUBSET LogEntry]

Init ==
  /\ manifests = [m \in Machine |-> {}]
  /\ objects = [m \in Machine |-> {}]
  /\ head = [m \in Machine |-> NoManifest]
  /\ cache = [m \in Machine |-> EmptyCache]
  /\ remote \in [Machine -> Bucket]
  /\ proc = [m \in Machine |-> Idle]
  /\ gc = [m \in Machine |-> NoGC]
  /\ remoteBlobs = [b \in Bucket |-> {}]
  /\ remoteManifests = [b \in Bucket |-> {}]
  /\ remoteHead = [b \in Bucket |-> NoManifest]
  /\ pushLog = [b \in Bucket |-> {}]

At(m, pc)  == proc[m].pc = pc
Goto(m, p) == proc' = [proc EXCEPT ![m] = p]
Learn(m, S)     == manifests' = [manifests EXCEPT ![m] = @ \cup S]
Store(m, blobs) == objects' = [objects EXCEPT ![m] = @ \cup blobs]
SetHead(m, M)   == head' = [head EXCEPT ![m] = M]

-----------------------------------------------------------------------------
(***************************************************************************)
(* Local commands.                                                         *)
(***************************************************************************)

\* snapshotWorkingTree: every file of the tree ends up in objects/.  A tree
\* that differs from HEAD's becomes a manifest, and then HEAD; the process may
\* die between the two writes.  There is no empty first snapshot.
TakeSnapshot(m) ==
  \E t \in Tree :
    /\ Store(m, t)
    /\ IF t = (IF head[m] = NoManifest THEN {} ELSE TreeOf(head[m]))
       THEN UNCHANGED << manifests, head >>
       ELSE /\ Len(head[m]) < MaxHistory
            /\ LET M == Append(head[m], [tree |-> t, by |-> m])
               IN  Learn(m, {M}) /\ (SetHead(m, M) \/ UNCHANGED head)
    /\ UNCHANGED << cache, remote, proc, gc, bucket >>

Snapshot(m) == At(m, "idle") /\ TakeSnapshot(m)

\* A commit from another terminal while a cycle is under way.
CommitBeside(m) == ~ At(m, "idle") /\ TakeSnapshot(m)

\* cmdCheckout: HEAD moves to any manifest whose blobs are all local.
Checkout(m, M) ==
  /\ At(m, "idle")
  /\ M \in manifests[m]
  /\ TreeOf(M) \subseteq objects[m]
  /\ SetHead(m, M)
  /\ UNCHANGED << manifests, objects, cache, remote, proc, gc, bucket >>

\* Mistaken RemoteSet: the cache stays.
RemoteSetKeepsCache(m, b) ==
  /\ At(m, "idle") /\ gc[m].pc = "idle"
  /\ b # remote[m]
  /\ remote' = [remote EXCEPT ![m] = b]
  /\ UNCHANGED << manifests, objects, head, cache, proc, gc, bucket >>

\* cmdRemote "set": the cache describes the old bucket, so it goes.
RemoteSet(m, b) ==
  /\ At(m, "idle") /\ gc[m].pc = "idle"
  /\ b # remote[m]
  /\ remote' = [remote EXCEPT ![m] = b]
  /\ cache' = [cache EXCEPT ![m] = EmptyCache]
  /\ UNCHANGED << manifests, objects, head, proc, gc, bucket >>

\* External: a file of objects/ disappears (the push allows for it).
LoseObject(m, blob) ==
  /\ blob \in objects[m]
  /\ objects' = [objects EXCEPT ![m] = @ \ {blob}]
  /\ UNCHANGED << manifests, head, cache, remote, proc, gc, bucket >>

-----------------------------------------------------------------------------
(***************************************************************************)
(* gc, in three steps: HEAD's blobs, the local and the remote listing, and *)
(* the deletions one by one.                                               *)
(***************************************************************************)
GCKeep(m) ==
  /\ gc[m].pc = "idle"
  /\ head[m] # NoManifest
  /\ gc' = [gc EXCEPT ![m] = [NoGC EXCEPT !.pc = "list", !.keep = TreeOf(head[m])]]
  /\ UNCHANGED << local, proc, bucket >>

\* Mistaken GCList: what HEAD does not need is deleted, uploaded or not.
GCListAll(m) ==
  /\ gc[m].pc = "list"
  /\ gc' = [gc EXCEPT ![m].pc = "delete", ![m].delete = objects[m] \ gc[m].keep]
  /\ UNCHANGED << local, proc, bucket >>

GCList(m) ==
  /\ gc[m].pc = "list"
  /\ gc' = [gc EXCEPT ![m].pc = "delete",
                      ![m].delete = (objects[m] \ gc[m].keep) \cap remoteBlobs[remote[m]]]
  /\ UNCHANGED << local, proc, bucket >>

GCDelete(m) ==
  /\ gc[m].pc = "delete"
  /\ \E blob \in gc[m].delete :
       /\ objects' = [objects EXCEPT ![m] = @ \ {blob}]
       /\ gc' = [gc EXCEPT ![m].delete = @ \ {blob}]
  /\ UNCHANGED << manifests, head, cache, remote, proc, bucket >>

\* gc ends, having deleted everything or failed on the way.
GCEnd(m) ==
  /\ gc[m].pc # "idle"
  /\ gc' = [gc EXCEPT ![m] = NoGC]
  /\ UNCHANGED << local, proc, bucket >>

-----------------------------------------------------------------------------
(***************************************************************************)
(* From reading the bucket's HEAD to applying a manifest.                  *)
(***************************************************************************)

\* Mistaken Upload: the walk to the root does not stop at the empty parent.
UploadPastRoot(m, M) ==
  Goto(m, [Idle EXCEPT !.pc = "covered", !.target = M,
                       !.chain = LocalChain(M, manifests[m]) \cup {NoManifest}])

\* The first lines of uploadManifestChainAndSetHead: the chain to push.
Upload(m, M) ==
  Goto(m, [Idle EXCEPT !.pc = "covered", !.target = M,
                       !.chain = LocalChain(M, manifests[m])])

\* The first lines of fetchAndCheckout and of the download half of cmdPull.
FetchTip(p, M) == [p EXCEPT !.pc = "checkout", !.target = M, !.chain = {M}]

\* cmdPush: any local manifest (HEAD by default), if the bucket's HEAD is
\* absent, the same or an ancestor, or by force.
Push(m, M, force) ==
  /\ At(m, "idle")
  /\ M \in manifests[m]
  /\ LET R == remoteHead[remote[m]]
     IN  \/ force
         \/ R \in {NoManifest, M}
         \/ IsAncestor(R, M, manifests[m])
  /\ Upload(m, M)
  /\ UNCHANGED << local, gc, bucket >>

\* cmdPull with an argument only downloads.
Fetch(m, M) ==
  /\ At(m, "idle")
  /\ M \in manifests[m] \cup remoteManifests[remote[m]]
  /\ Goto(m, FetchTip([Idle EXCEPT !.mode = "fetch"], M))
  /\ UNCHANGED << local, gc, bucket >>

\* syncOnce (mode "sync") and cmdPull without arguments (mode "pull"), up to
\* the comparison of the two HEADs.  When they are the same there is nothing to
\* do: the snapshot just taken, if any, has a name that no bucket can have yet.
Compare(m, mode) ==
  /\ At(m, "idle")
  /\ LET R == remoteHead[remote[m]]
         L == head[m]
         p == [Idle EXCEPT !.mode = mode, !.local = L]
     IN  \/ R = NoManifest /\ L # NoManifest /\ mode = "sync" /\ Upload(m, L)
         \/ R # NoManifest /\ L = NoManifest /\ Goto(m, FetchTip(p, R))
         \/ /\ R # NoManifest /\ L \notin {NoManifest, R}
            /\ Goto(m, [p EXCEPT !.pc = "fetch", !.target = R])
  /\ UNCHANGED << local, gc, bucket >>

\* downloadManifestObject: a manifest that is stored as a delta brings the
\* ancestor along that it is a delta of.
Arrive(m, M) ==
  /\ M \in remoteManifests[remote[m]]
  /\ \E base \in Chain(M) \cap remoteManifests[remote[m]] : Learn(m, {M, base})

\* fetchManifestChain: from the tip to the root, every manifest not local.
FetchManifest(m) ==
  /\ At(m, "fetch")
  /\ \E i \in MissingFrom(proc[m].target, manifests[m]) :
       /\ \A k \in MissingFrom(proc[m].target, manifests[m]) : k <= i
       /\ Arrive(m, Prefix(proc[m].target, i))
  /\ UNCHANGED << objects, head, cache, remote, proc, gc, bucket >>

Fetched(m) == At(m, "fetch") /\ MissingFrom(proc[m].target, manifests[m]) = {}

\* Mistaken Ahead: a cycle that took no snapshot has nothing to push.
AheadIdle(m) ==
  /\ Fetched(m)
  /\ IsAncestor(proc[m].target, proc[m].local, manifests[m])
  /\ Goto(m, Idle)
  /\ UNCHANGED << local, gc, bucket >>

\* The bucket is behind: a cycle pushes, a pull has nothing to do.
Ahead(m) ==
  /\ Fetched(m)
  /\ IsAncestor(proc[m].target, proc[m].local, manifests[m])
  /\ IF proc[m].mode = "sync" THEN Upload(m, proc[m].local) ELSE Goto(m, Idle)
  /\ UNCHANGED << local, gc, bucket >>

\* Mistaken Behind: what is not ahead of the bucket is behind it.
BehindAnyway(m) ==
  /\ Fetched(m)
  /\ ~ IsAncestor(proc[m].target, proc[m].local, manifests[m])
  /\ Goto(m, FetchTip(proc[m], proc[m].target))
  /\ UNCHANGED << local, gc, bucket >>

\* The bucket is ahead: fast-forward.
Behind(m) ==
  /\ Fetched(m)
  /\ ~ IsAncestor(proc[m].target, proc[m].local, manifests[m])
  /\ IsAncestor(proc[m].local, proc[m].target, manifests[m])
  /\ Goto(m, FetchTip(proc[m], proc[m].target))
  /\ UNCHANGED << local, gc, bucket >>

\* Both moved: doMerge needs the blobs of the bucket's side since the fork,
\* and gives up when there is no common ancestor (then only Abort is left).
Diverged(m) ==
  /\ Fetched(m)
  /\ ~ IsAncestor(proc[m].target, proc[m].local, manifests[m])
  /\ ~ IsAncestor(proc[m].local, proc[m].target, manifests[m])
  /\ LET R == proc[m].target
         L == proc[m].local
         needed == Files(SinceFork(L, R, manifests[m]))
     IN  /\ HasCommonAncestor(L, R, manifests[m])
         /\ Goto(m, [proc[m] EXCEPT !.pc = "fetchBlobs", !.blobs = needed \ objects[m]])
  /\ UNCHANGED << local, gc, bucket >>

\* parallelFor over downloadBlob, in any order.
DownloadBlob(m) ==
  /\ proc[m].pc \in {"fetchBlobs", "download"}
  /\ \E blob \in proc[m].blobs \cap remoteBlobs[remote[m]] :
       /\ Store(m, {blob})
       /\ Goto(m, [proc[m] EXCEPT !.blobs = @ \ {blob}])
  /\ UNCHANGED << manifests, head, cache, remote, gc, bucket >>

\* autoMerge and writeManifest: a child of the bucket's HEAD made of files of
\* the two tips.  A cycle will push it, a pull leaves that to the user.
Merge(m) ==
  /\ At(m, "fetchBlobs") /\ proc[m].blobs = {}
  /\ Len(proc[m].target) < MaxMerged
  /\ \E t \in Tree :
       /\ t \subseteq TreeOf(proc[m].target) \cup TreeOf(proc[m].local)
       /\ LET M == Append(proc[m].target, [tree |-> t, by |-> m])
              mode == IF proc[m].mode = "sync" THEN "merge" ELSE "pull"
          IN  /\ Learn(m, {M})
              /\ Goto(m, FetchTip([proc[m] EXCEPT !.mode = mode], M))
  /\ UNCHANGED << objects, head, cache, remote, gc, bucket >>

\* Only the target's manifest; a pull then tries for its ancestors as well,
\* up to the first one that was local or does not arrive.
FetchTarget(m) ==
  /\ At(m, "checkout")
  /\ \E M \in remoteManifests[remote[m]] \ manifests[m] :
       /\ \/ M = proc[m].target
          \/ /\ proc[m].mode \in {"pull", "fetch"}
             /\ \E C \in proc[m].chain \cap manifests[m] :
                  Len(C) > 1 /\ M = Prefix(C, Len(C) - 1)
       /\ Arrive(m, M)
       /\ Goto(m, [proc[m] EXCEPT !.chain = @ \cup {M}])
  /\ UNCHANGED << objects, head, cache, remote, gc, bucket >>

\* The blobs to download: of the target, and for a pull of those ancestors.
StartDownload(m) ==
  /\ At(m, "checkout")
  /\ proc[m].target \in manifests[m]
  /\ Goto(m, [proc[m] EXCEPT
                !.pc = "download",
                !.blobs = Files(proc[m].chain) \ objects[m]])
  /\ UNCHANGED << local, gc, bucket >>

\* applyManifestSafely, or checkoutTarget for a pull, when no path stops it:
\* the files change first and HEAD last.  After a merge a cycle pushes it.
Apply(m) ==
  /\ At(m, "download") /\ proc[m].blobs = {} /\ proc[m].mode # "fetch"
  /\ LET M == proc[m].target
         same == IF proc[m].mode = "pull" \/ head[m] = NoManifest
                 THEN {} ELSE TreeOf(head[m])
     IN  /\ TreeOf(M) \ same \subseteq objects[m]
         /\ SetHead(m, M)
         /\ IF proc[m].mode = "merge" THEN Upload(m, M) ELSE Goto(m, Idle)
  /\ UNCHANGED << manifests, objects, cache, remote, gc, bucket >>

EndFetch(m) ==
  /\ At(m, "download") /\ proc[m].blobs = {} /\ proc[m].mode = "fetch"
  /\ Goto(m, Idle)
  /\ UNCHANGED << local, gc, bucket >>

-----------------------------------------------------------------------------
(***************************************************************************)
(* uploadManifestChainAndSetHead.                                          *)
(***************************************************************************)

\* Mistaken ReadCovered: what the local HEAD needs, not the bucket's.
ReadCoveredLocal(m) ==
  /\ At(m, "covered")
  /\ LET L == head[m]
         covered == IF L = NoManifest THEN {}
                    ELSE TreeOf(L) \cup LocalChain(L, manifests[m])
     IN  Goto(m, [proc[m] EXCEPT !.pc = "known", !.covered = covered])
  /\ UNCHANGED << local, gc, bucket >>

\* coveredByRemoteHead: the files of the bucket's HEAD and the part of its
\* chain that is local, if its manifest is.
ReadCovered(m) ==
  /\ At(m, "covered")
  /\ LET R == remoteHead[remote[m]]
         covered == IF R = NoManifest \/ R \notin manifests[m] THEN {}
                    ELSE TreeOf(R) \cup LocalChain(R, manifests[m])
     IN  Goto(m, [proc[m] EXCEPT !.pc = "known", !.covered = covered])
  /\ UNCHANGED << local, gc, bucket >>

\* fetchKnownRemoteSHAs: a listing of the bucket when there is neither a
\* push-log nor a cache, else the cache and the entries after its cursor.
NewEntries(m) == {e \in pushLog[remote[m]] : e.key > cache[m].cursor}

KnownNames(m) ==
  IF pushLog[remote[m]] = {} /\ cache[m] = EmptyCache
  THEN remoteBlobs[remote[m]] \cup remoteManifests[remote[m]]
  ELSE cache[m].known \cup UNION {e.names : e \in NewEntries(m)}

\* With known, the blobs and manifests that the push has to upload.  The cursor
\* moves to the newest entry.
ReadKnown(m) ==
  /\ At(m, "known")
  /\ \E cursor \in {cache[m].cursor} \cup {e.key : e \in NewEntries(m)} :
       /\ \A e \in NewEntries(m) : e.key <= cursor
       /\ LET blobs == Files(proc[m].chain) \ KnownNames(m)
              mans  == proc[m].chain \ KnownNames(m)
          IN  Goto(m, [proc[m] EXCEPT !.pc = "upload", !.known = KnownNames(m),
                                      !.cursor = cursor,
                                      !.novel = blobs \cup mans,
                                      !.blobs = blobs, !.mans = mans])
  /\ UNCHANGED << local, gc, bucket >>

PutBlob(m, blob) ==
  remoteBlobs' = [remoteBlobs EXCEPT ![remote[m]] = @ \cup {blob}]
PutManifest(m, M) ==
  remoteManifests' = [remoteManifests EXCEPT ![remote[m]] = @ \cup {M}]

\* A blob that is not local is skipped if the bucket has it, or if it is lost
\* on both sides and only older snapshots use it; else the push fails.
UploadBlob(m) ==
  /\ At(m, "upload")
  /\ \E blob \in proc[m].blobs :
       /\ \/ blob \in objects[m] /\ PutBlob(m, blob)
          \/ /\ blob \notin objects[m]
             /\ blob \in remoteBlobs[remote[m]] \/ blob \notin TreeOf(proc[m].target)
             /\ UNCHANGED remoteBlobs
       /\ Goto(m, [proc[m] EXCEPT !.blobs = @ \ {blob}])
  /\ UNCHANGED << local, gc, remoteManifests, remoteHead, pushLog >>

\* Mistaken UploadManifest: newest first.
UploadNewestFirst(m) ==
  /\ At(m, "upload") /\ proc[m].blobs = {}
  /\ \E M \in proc[m].mans :
       /\ \A N \in proc[m].mans : Len(M) >= Len(N)
       /\ PutManifest(m, M)
       /\ Goto(m, [proc[m] EXCEPT !.mans = @ \ {M}])
  /\ UNCHANGED << local, gc, remoteBlobs, remoteHead, pushLog >>

\* Mistaken UploadManifest: while blobs are still being uploaded.
UploadWithBlobs(m) ==
  /\ At(m, "upload")
  /\ \E M \in proc[m].mans :
       /\ \A N \in proc[m].mans : Len(M) <= Len(N)
       /\ PutManifest(m, M)
       /\ Goto(m, [proc[m] EXCEPT !.mans = @ \ {M}])
  /\ UNCHANGED << local, gc, remoteBlobs, remoteHead, pushLog >>

\* Oldest first, after every blob.
UploadManifest(m) ==
  /\ At(m, "upload") /\ proc[m].blobs = {}
  /\ \E M \in proc[m].mans :
       /\ \A N \in proc[m].mans : Len(M) <= Len(N)
       /\ PutManifest(m, M)
       /\ Goto(m, [proc[m] EXCEPT !.mans = @ \ {M}])
  /\ UNCHANGED << local, gc, remoteBlobs, remoteHead, pushLog >>

\* The names to check: those of the new HEAD that were skipped because they
\* are known, unless the old HEAD needs them too.
StartEnsure(m) ==
  /\ At(m, "upload") /\ proc[m].blobs = {} /\ proc[m].mans = {}
  /\ LET unchecked == proc[m].known \ proc[m].covered
     IN  Goto(m, [proc[m] EXCEPT !.pc = "ensure",
                                 !.blobs = TreeOf(proc[m].target) \cap unchecked,
                                 !.mans = proc[m].chain \cap unchecked])
  /\ UNCHANGED << local, gc, bucket >>

\* ensureOnRemote: upload what is missing; missing on both sides is an error.
EnsureBlob(m) ==
  /\ At(m, "ensure")
  /\ \E blob \in proc[m].blobs :
       /\ \/ blob \in remoteBlobs[remote[m]] /\ UNCHANGED remoteBlobs
          \/ blob \in objects[m] /\ PutBlob(m, blob)
       /\ Goto(m, [proc[m] EXCEPT !.blobs = @ \ {blob}])
  /\ UNCHANGED << local, gc, remoteManifests, remoteHead, pushLog >>

EnsureManifest(m) ==
  /\ At(m, "ensure")
  /\ \E M \in proc[m].mans :
       /\ PutManifest(m, M)
       /\ Goto(m, [proc[m] EXCEPT !.mans = @ \ {M}])
  /\ UNCHANGED << local, gc, remoteBlobs, remoteHead, pushLog >>

\* Mistaken WriteRemoteHead: before the manifests are uploaded and checked.
WriteHeadEarly(m) ==
  /\ proc[m].pc \in {"upload", "ensure"} /\ proc[m].blobs = {}
  /\ remoteHead' = [remoteHead EXCEPT ![remote[m]] = proc[m].target]
  /\ Goto(m, [proc[m] EXCEPT !.pc = IF proc[m].novel = {} THEN "cache" ELSE "log"])
  /\ UNCHANGED << local, gc, remoteBlobs, remoteManifests, pushLog >>

\* writeRemoteHead: the last writer wins.
WriteRemoteHead(m) ==
  /\ At(m, "ensure") /\ proc[m].blobs = {} /\ proc[m].mans = {}
  /\ remoteHead' = [remoteHead EXCEPT ![remote[m]] = proc[m].target]
  /\ Goto(m, [proc[m] EXCEPT !.pc = IF proc[m].novel = {} THEN "cache" ELSE "log"])
  /\ UNCHANGED << local, gc, remoteBlobs, remoteManifests, pushLog >>

\* The push-log entry, keyed by the machine's own clock.
WriteLog(m) ==
  /\ At(m, "log")
  /\ \E k \in 1 .. MaxLogKey :
       /\ \A e \in pushLog[remote[m]] : e.key # k
       /\ pushLog' = [pushLog EXCEPT ![remote[m]] =
                        @ \cup {[key |-> k, names |-> proc[m].novel]}]
       /\ Goto(m, [proc[m] EXCEPT !.pc = "cache", !.cursor = k,
                                  !.known = @ \cup proc[m].novel])
  /\ UNCHANGED << local, gc, remoteBlobs, remoteManifests, remoteHead >>

\* The cache is written only when the cursor moved.
WriteCache(m) ==
  /\ At(m, "cache")
  /\ cache' = [cache EXCEPT ![m] =
                 IF proc[m].cursor = @.cursor THEN @
                 ELSE [cursor |-> proc[m].cursor, known |-> proc[m].known]]
  /\ Goto(m, Idle)
  /\ UNCHANGED << manifests, objects, head, remote, gc, bucket >>

\* Mistaken Abort: a push that fails still logs what it meant to upload.
AbortLogged(m) ==
  /\ ~ At(m, "idle")
  /\ \E k \in 1 .. MaxLogKey :
       /\ \A e \in pushLog[remote[m]] : e.key # k
       /\ pushLog' = [pushLog EXCEPT ![remote[m]] =
                        @ \cup {[key |-> k, names |-> proc[m].novel]}]
  /\ Goto(m, Idle)
  /\ UNCHANGED << local, gc, remoteBlobs, remoteManifests, remoteHead >>

\* A request fails, a check fails, or the process is killed.
Abort(m) ==
  /\ ~ At(m, "idle")
  /\ Goto(m, Idle)
  /\ UNCHANGED << local, gc, bucket >>

-----------------------------------------------------------------------------
(***************************************************************************)
(* The specifications.  Every passing property says which it is about.     *)
(***************************************************************************)
Command(m) ==
  \/ \E M \in manifests[m] : Checkout(m, M)
  \/ \E M \in manifests[m], force \in BOOLEAN : Push(m, M, force)
  \/ \E M \in manifests[m] \cup remoteManifests[remote[m]] : Fetch(m, M)
  \/ \E mode \in {"sync", "pull"} : Compare(m, mode)

Begin(m) == Snapshot(m) \/ Command(m)

Download(m) ==
  \/ FetchManifest(m) \/ Ahead(m) \/ Behind(m) \/ Diverged(m)
  \/ DownloadBlob(m) \/ Merge(m)
  \/ FetchTarget(m) \/ StartDownload(m) \/ Apply(m) \/ EndFetch(m)

UploadStep(m) ==
  \/ ReadCovered(m) \/ ReadKnown(m) \/ UploadBlob(m) \/ UploadManifest(m)
  \/ StartEnsure(m) \/ EnsureBlob(m) \/ EnsureManifest(m)
  \/ WriteRemoteHead(m) \/ WriteLog(m) \/ WriteCache(m)

GCStep(m) == GCKeep(m) \/ GCList(m) \/ GCDelete(m) \/ GCEnd(m)

Next ==
  \E m \in Machine :
    Begin(m) \/ Download(m) \/ UploadStep(m) \/ GCStep(m) \/ Abort(m)

\* Local blobs may also disappear.
NextLossy ==
  \/ Next
  \/ \E m \in Machine, blob \in Blob : LoseObject(m, blob)

\* Snapshots may also be taken beside a running cycle.
NextBeside ==
  \/ Next
  \/ \E m \in Machine : CommitBeside(m)

\* A machine may also move to another bucket.
NextMove ==
  \/ NextLossy
  \/ \E m \in Machine, b \in Bucket : RemoteSet(m, b)

Spec       == Init /\ [][Next]_vars
SpecLossy  == Init /\ [][NextLossy]_vars
SpecBeside == Init /\ [][NextBeside]_vars
SpecMove   == Init /\ [][NextMove]_vars

-----------------------------------------------------------------------------
(***************************************************************************)
(* Properties.                                                             *)
(***************************************************************************)

\* What a clone needs of the bucket's HEAD: its manifest and its blobs.
TipThere(b, M) ==
  M \in remoteManifests[b] /\ TreeOf(M) \subseteq remoteBlobs[b]

\* A bucket's HEAD always points at a snapshot that can be downloaded whole, its
\* manifest chain included: uploadManifestChainAndSetHead moves HEAD last, and
\* checks before that what it skipped because the push-log lists it.
HeadComplete ==
  \A b \in Bucket : remoteHead[b] # NoManifest =>
    TipThere(b, remoteHead[b]) /\ Chain(remoteHead[b]) \subseteq remoteManifests[b]

\* HeadComplete without the chain, which is what still holds when a machine
\* moves to another bucket (cmdRemote) with only a part of a history.
HeadUsable ==
  \A b \in Bucket : remoteHead[b] # NoManifest => TipThere(b, remoteHead[b])

\* uploadManifestChainAndSetHead uploads manifests oldest first, so a manifest in
\* a bucket never has an ancestor that is not, also when the push that uploaded
\* it was cut and another machine skipped a part of the chain as known.
NoDanglingParent ==
  \A b \in Bucket : \A M \in remoteManifests[b] : Chain(M) \subseteq remoteManifests[b]

\* As long as no local file disappears, uploadManifestChainAndSetHead leaves in
\* the bucket every version of every file that the bucket's manifests list,
\* whatever pushes are cut and whatever gc deletes.
HistoryKept ==
  \A b \in Bucket : \A M \in remoteManifests[b] : TreeOf(M) \subseteq remoteBlobs[b]

\* runGC never deletes the last copy of a version that a local manifest lists,
\* although HEAD, the store and the bucket change between its three steps.
VersionsRecoverable ==
  \A m \in Machine : \A M \in manifests[m] :
    TreeOf(M) \subseteq objects[m] \cup remoteBlobs[remote[m]]

\* As long as no local file disappears, the entries that pushes add to the
\* push-log (the end of uploadManifestChainAndSetHead) name only what the bucket
\* has, whatever was cut before and whatever other pushes upload meanwhile.
LogHonest ==
  \A b \in Bucket : \A e \in pushLog[b] :
    e.names \subseteq remoteBlobs[b] \cup remoteManifests[b]

\* A manifest that fetchKnownRemoteSHAs takes for uploaded is in the bucket the
\* machine syncs with, also after cmdRemote changed which one that is.
KnownManifestsThere ==
  \A m \in Machine :
    (cache[m].known \cup proc[m].known) \cap Manifest \subseteq remoteManifests[remote[m]]

\* What autoMerge makes on machine m of the bucket's side and of L: a child of the
\* one, with files of the two.
MergeOf(m, M, L) ==
  /\ Len(M) > 1 /\ M[Len(M)].by = m
  /\ TreeOf(M) \subseteq TreeOf(Prefix(M, Len(M) - 1)) \cup TreeOf(L)

\* When a cycle or a pull moves HEAD (writeHead at the end of
\* applyManifestSafely and of checkoutTarget), the snapshot that HEAD leaves is
\* an ancestor of the new one, or it is the one that was compared with the bucket
\* and the new one is its merge: no snapshot of the user is dropped on the way.
NoSnapshotDropped ==
  [][\A m \in Machine :
       proc[m].pc = "download" /\ proc'[m] # proc[m] /\ head'[m] # head[m] =>
         \/ head[m] \in {NoManifest} \cup Chain(head'[m])
         \/ head[m] = proc[m].local /\ MergeOf(m, head'[m], head[m])]_vars

\* The steps of all machines together give a bucket's readers what Archive
\* promises: objects are only added, in an order that leaves no gap, and HEAD only
\* moves to a snapshot that is there whole.
Readers == INSTANCE Archive
ImplementsArchive == Readers!Spec

\* Once nobody saves anything, the cycles of watch (syncOnce) bring every machine
\* and the bucket to the same snapshot, whichever pushes overwrote which.
Converged == \A m \in Machine : head[m] = remoteHead[remote[m]]
Converges == <>[]Converged
=============================================================================
