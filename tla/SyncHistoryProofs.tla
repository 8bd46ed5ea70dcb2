-------------------------- MODULE SyncHistoryProofs --------------------------
(***************************************************************************)
(* HistoryKept, VersionsRecoverable and LogHonest, as long as no local     *)
(* file is lost and every machine stays with its bucket: HistoryInv is     *)
(* inductive, given TypeInv, TipInv and ChainInv.                          *)
(*                                                                         *)
(* And NoSnapshotDropped, as long as nothing is committed beside a cycle:  *)
(* HeadInv is inductive, given TypeInv and TipInv.                         *)
(***************************************************************************)
EXTENDS SyncChainProofs

-----------------------------------------------------------------------------
(***************************************************************************)
(* No file is lost: machine by machine.                                    *)
(***************************************************************************)

Versions(m) ==
  \A M \in manifests[m] : TreeOf(M) \subseteq objects[m] \cup BlobsThere(m)

Kept(m) == Versions(m) /\ BlobBeliefs(m) /\ Filed(m)

\* A step of machine m leaves the stores and the gc of the others alone.
StoreOnlyOf(m) ==
  \A n \in Machine \ {m} : objects'[n] = objects[n] /\ gc'[n] = gc[n]

LEMMA HistoryIsKept ==
  HistoryInv <=> HistoryKept /\ LogTrueOfBlobs /\ \A m \in Machine : Kept(m)
BY DEF HistoryInv, Kept, Versions, VersionsRecoverable, BlobsThere

\* What holds of a machine's files stays true when a bucket grows.
LEMMA HistoryStepOf ==
  ASSUME TypeInv, HistoryInv, NEW m \in Machine, OnlyOf(m), StoreOnlyOf(m), BucketsGrow,
         HistoryKept', LogTrueOfBlobs', Kept(m)'
  PROVE  HistoryInv'
<1>1. ASSUME NEW n \in Machine \ {m}
      PROVE  Kept(n)'
  <2>1. /\ Kept(n) /\ BlobsThere(n) \subseteq BlobsThere(n)'
        /\ proc'[n] = proc[n] /\ cache'[n] = cache[n] /\ gc'[n] = gc[n]
        /\ manifests'[n] = manifests[n] /\ objects'[n] = objects[n]
    BY HistoryIsKept DEF TypeInv, TypeOK, OnlyOf, StoreOnlyOf, BucketsGrow, BlobsThere
  <2>2. Versions(n)'
    BY <2>1 DEF Kept, Versions
  <2>3. BlobBeliefs(n)'
    BY <2>1 DEF Kept, BlobBeliefs
  <2>4. Filed(n)'
    BY <2>1 DEF Kept, Filed
  <2> QED
    BY <2>2, <2>3, <2>4 DEF Kept
<1>2. \A n \in Machine : Kept(n)'
  BY <1>1
<1>3. \A n \in Machine : Versions(n)' /\ BlobBeliefs(n)' /\ Filed(n)'
  BY <1>2 DEF Kept
<1>4. VersionsRecoverable'
  BY <1>3 DEF Versions, VersionsRecoverable, BlobsThere
<1> QED
  BY <1>3, <1>4 DEF HistoryInv

\* A step that writes no bucket and does not push: a machine forgets a file only
\* if its bucket has it, and learns a manifest only if one of the two has its files.
LEMMA QuietStep ==
  ASSUME TypeInv, HistoryInv, NEW m \in Machine, OnlyOf(m), StoreOnlyOf(m),
         UNCHANGED << cache, remote, bucket >>,
         objects[m] \subseteq objects'[m] \cup BlobsThere(m),
         \A M \in manifests'[m] \ manifests[m] :
           TreeOf(M) \subseteq objects[m] \cup objects'[m] \cup BlobsThere(m),
         gc'[m].delete \subseteq BlobsThere(m),
         proc'[m].known \subseteq proc[m].known,
         Filed(m)'
  PROVE  HistoryInv'
<1>1. /\ HistoryKept /\ LogTrueOfBlobs /\ Kept(m)
      /\ BlobsThere(m)' = BlobsThere(m) /\ BucketsGrow
  BY HistoryIsKept DEF BlobsThere, BucketsGrow, bucket
<1>2. HistoryKept' /\ LogTrueOfBlobs'
  BY <1>1 DEF HistoryKept, LogTrueOfBlobs, bucket
<1>3. Versions(m)'
  BY <1>1 DEF Kept, Versions
<1>4. BlobBeliefs(m)'
  BY <1>1 DEF Kept, BlobBeliefs
<1> QED
  BY <1>1, <1>2, <1>3, <1>4, HistoryStepOf DEF Kept

\* A process that is neither pushing nor merging has nothing filed.
LEMMA NothingFiled ==
  ASSUME NEW m \in Machine,
         proc'[m].pc \notin {"fetchBlobs", "covered", "known", "upload", "ensure", "log"}
  PROVE  Filed(m)'
BY DEF Filed

\* A push begins with manifests that it read.
LEMMA UploadFiled ==
  ASSUME TypeInv, HistoryInv, NEW m \in Machine, NEW M \in manifests[m], Upload(m, M),
         OnlyOf(m), UNCHANGED << manifests, objects, gc, cache, remote, bucket >>
  PROVE  HistoryInv'
<1> DEFINE S == LocalChain(M, manifests[m])
           p == [Idle EXCEPT !.pc = "covered", !.target = M, !.chain = S]
<1>1. M \in Manifest
  BY DEF TypeInv, TypeOK
<1>2. S \subseteq manifests[m]
  BY <1>1, LocalChainType
<1>3. proc'[m] = p
  BY DEF Upload, Goto, TypeInv, TypeOK
<1>4. p.pc = "covered" /\ p.chain = S /\ p.known = {}
  BY DEF Idle
<1> HIDE DEF p, S
<1>5. Filed(m)'
  BY <1>2, <1>3, <1>4 DEF Filed
<1>6. gc[m].delete \subseteq BlobsThere(m)
  BY DEF HistoryInv, BlobBeliefs
<1> QED
  BY <1>3, <1>4, <1>5, <1>6, QuietStep DEF StoreOnlyOf

\* The local commands and gc: a snapshot stores the files it lists, and gc deletes
\* only what it saw in the bucket, where everything stays.
LEMMA CommandKept ==
  ASSUME TypeInv, HistoryInv, NEW m \in Machine,
         \/ TakeSnapshot(m) \/ GCStep(m)
         \/ \E M \in manifests[m] : Checkout(m, M)
  PROVE  HistoryInv'
<1>a. Filed(m) /\ gc[m].delete \subseteq BlobsThere(m)
  BY DEF HistoryInv, BlobBeliefs
<1>b. ASSUME OnlyOf(m), StoreOnlyOf(m), UNCHANGED << cache, remote, proc, bucket >>,
             manifests[m] \subseteq manifests'[m],
             objects[m] \subseteq objects'[m] \cup BlobsThere(m),
             \A M \in manifests'[m] \ manifests[m] : TreeOf(M) \subseteq objects'[m],
             gc'[m].delete \subseteq BlobsThere(m)
      PROVE  HistoryInv'
  <2>1. Filed(m)'
    BY <1>a, <1>b DEF Filed, BlobsThere, bucket
  <2> QED
    BY <1>b, <2>1, QuietStep
<1>c. ASSUME UNCHANGED << manifests, cache, remote, proc, bucket >>,
             \A n \in Machine \ {m} : head'[n] = head[n]
      PROVE  OnlyOf(m)
  BY <1>c DEF OnlyOf
<1>1. CASE TakeSnapshot(m)
  <2>1. PICK t \in Tree :
          /\ Store(m, t)
          /\ \/ UNCHANGED << manifests, head >>
             \/ LET M == Append(head[m], [tree |-> t, by |-> m])
                IN  Learn(m, {M}) /\ (head' = [head EXCEPT ![m] = M] \/ UNCHANGED head)
    BY <1>1 DEF TakeSnapshot, SetHead
  <2> DEFINE l == [tree |-> t, by |-> m]
             M == Append(head[m], l)
  <2>2. l \in Listing /\ head[m] \in Manifest \cup {NoManifest} /\ t \subseteq Blob
    BY TreeAssumption DEF Listing, TypeInv, TypeOK
  <2>3. TreeOf(M) = t
    BY <2>2, AppendTree
  <2>4. \/ UNCHANGED << manifests, head >>
        \/ Learn(m, {M}) /\ (head' = [head EXCEPT ![m] = M] \/ UNCHANGED head)
    BY <2>1
  <2> HIDE DEF M
  <2>5. UNCHANGED << cache, remote, proc, gc, bucket >>
    BY <1>1 DEF TakeSnapshot
  <2>6. /\ manifests[m] \subseteq manifests'[m]
        /\ manifests'[m] \ manifests[m] \subseteq {M}
        /\ OnlyOf(m)
    BY <2>4, <2>5 DEF OnlyOf, Learn, TypeInv, TypeOK
  <2>7. objects'[m] = objects[m] \cup t /\ StoreOnlyOf(m)
    BY <2>1, <2>5 DEF Store, StoreOnlyOf, TypeInv, TypeOK
  <2> QED
    BY <1>a, <1>b, <2>3, <2>5, <2>6, <2>7
<1>2. ASSUME NEW M \in manifests[m], Checkout(m, M)
      PROVE  HistoryInv'
  <2>1. OnlyOf(m)
    BY <1>2, <1>c DEF Checkout, SetHead, TypeInv, TypeOK
  <2> QED
    BY <1>2, <1>a, <1>b, <2>1 DEF Checkout, StoreOnlyOf
<1>3. ASSUME NEW g, gc' = [gc EXCEPT ![m] = g], g.delete \subseteq BlobsThere(m),
             UNCHANGED << local, proc, bucket >>
      PROVE  HistoryInv'
  <2>1. gc'[m] = g /\ StoreOnlyOf(m) /\ OnlyOf(m)
    BY <1>3 DEF StoreOnlyOf, OnlyOf, local, TypeInv, TypeOK
  <2> QED
    BY <1>3, <1>b, <2>1 DEF local
<1>4. CASE GCKeep(m)
  <2> DEFINE g == [NoGC EXCEPT !.pc = "list", !.keep = TreeOf(head[m])]
  <2>1. g.delete = {}
    BY DEF NoGC
  <2>2. gc' = [gc EXCEPT ![m] = g] /\ UNCHANGED << local, proc, bucket >>
    BY <1>4 DEF GCKeep
  <2> HIDE DEF g
  <2> QED
    BY <1>3, <2>1, <2>2
<1>5. CASE GCList(m)
  <2> DEFINE D == (objects[m] \ gc[m].keep) \cap remoteBlobs[remote[m]]
             g == [gc[m] EXCEPT !.pc = "delete", !.delete = D]
  <2>1. g.delete = D
    BY DEF TypeInv, TypeOK, GC
  <2>2. gc' = [gc EXCEPT ![m] = g] /\ UNCHANGED << local, proc, bucket >>
    BY <1>5 DEF GCList
  <2>3. D \subseteq BlobsThere(m)
    BY DEF BlobsThere
  <2> HIDE DEF g, D
  <2> QED
    BY <1>3, <2>1, <2>2, <2>3
<1>6. CASE GCDelete(m)
  <2>1. PICK blob \in gc[m].delete :
          /\ objects' = [objects EXCEPT ![m] = @ \ {blob}]
          /\ gc' = [gc EXCEPT ![m].delete = @ \ {blob}]
    BY <1>6 DEF GCDelete
  <2>2. gc'[m].delete = gc[m].delete \ {blob} /\ objects'[m] = objects[m] \ {blob}
    BY <2>1 DEF TypeInv, TypeOK, GC
  <2>3. StoreOnlyOf(m)
    BY <2>1 DEF StoreOnlyOf, TypeInv, TypeOK
  <2>4. UNCHANGED << manifests, head, cache, remote, proc, bucket >>
    BY <1>6 DEF GCDelete
  <2>5. OnlyOf(m)
    BY <1>c, <2>4
  <2> QED
    BY <1>a, <1>b, <2>2, <2>3, <2>4, <2>5
<1>7. CASE GCEnd(m)
  <2>1. NoGC.delete = {}
    BY DEF NoGC
  <2> QED
    BY <1>3, <1>7, <2>1 DEF GCEnd
<1> QED
  BY <1>1, <1>2, <1>4, <1>5, <1>6, <1>7 DEF GCStep

\* The download half: a manifest comes from the bucket, which has its files, or is
\* a merge of two whose files are there.
LEMMA DownloadKept ==
  ASSUME TypeInv, TipInv, HistoryInv, NEW m \in Machine,
         \/ \E mode \in {"sync", "pull"} : Compare(m, mode)
         \/ \E M \in manifests[m] \cup remoteManifests[remote[m]] : Fetch(m, M)
         \/ Download(m)
  PROVE  HistoryInv'
<1> DEFINE s == proc[m]
<1>a. /\ s \in Process /\ remote[m] \in Bucket
      /\ head[m] \in manifests[m] \cup {NoManifest}
      /\ s.local \in manifests[m] \cup {NoManifest}
      /\ s.pc \in {"fetchBlobs", "download"} => s.target \in manifests[m]
      /\ Filed(m) /\ Versions(m) /\ gc[m].delete \subseteq BlobsThere(m)
  BY HistoryIsKept DEF TypeInv, TypeOK, TipInv, Local, Kept, BlobBeliefs
<1>b. \A p : Goto(m, p) => proc'[m] = p /\ \A n \in Machine \ {m} : proc'[n] = proc[n]
  BY DEF Goto, TypeInv, TypeOK
<1>c. ASSUME NEW p, Goto(m, p), UNCHANGED << manifests, cache, remote, gc, bucket >>,
             \A n \in Machine \ {m} : head'[n] = head[n] /\ objects'[n] = objects[n],
             objects[m] \subseteq objects'[m], p.known \subseteq s.known,
             \/ p.pc = "fetchBlobs" /\ p.local # NoManifest
             \/ p.pc \in {"idle", "fetch", "checkout", "download"}
      PROVE  HistoryInv'
  <2>1. proc'[m] = p /\ OnlyOf(m) /\ StoreOnlyOf(m)
    BY <1>b, <1>c DEF OnlyOf, StoreOnlyOf
  <2>2. Filed(m)'
    BY <1>c, <2>1 DEF Filed
  <2> QED
    BY <1>a, <1>c, <2>1, <2>2, QuietStep
<1>d. ASSUME NEW M \in manifests[m], Upload(m, M),
             UNCHANGED << manifests, objects, cache, remote, gc, bucket >>,
             \A n \in Machine \ {m} : head'[n] = head[n]
      PROVE  HistoryInv'
  BY <1>b, <1>d, UploadFiled DEF OnlyOf, Upload
<1>e. ASSUME NEW p, NEW S, Goto(m, p), Learn(m, S),
             \A M \in S : TreeOf(M) \subseteq objects[m] \cup BlobsThere(m),
             UNCHANGED << objects, head, cache, remote, gc, bucket >>,
             p.pc \in {"fetch", "checkout"}, p.known = s.known
      PROVE  HistoryInv'
  <2>1. /\ manifests'[m] = manifests[m] \cup S /\ proc'[m] = p
        /\ OnlyOf(m) /\ StoreOnlyOf(m)
    BY <1>b, <1>e DEF OnlyOf, StoreOnlyOf, Learn, TypeInv, TypeOK
  <2>2. Filed(m)'
    BY <1>e, <2>1, NothingFiled
  <2> QED
    BY <1>a, <1>e, <2>1, <2>2, QuietStep
<1>f. Idle.pc = "idle" /\ Idle.known = {}
  BY DEF Idle
<1>g. \A M \in ManifestsThere(m) : TreeOf(M) \subseteq BlobsThere(m)
  BY <1>a DEF HistoryInv, HistoryKept, ManifestsThere, BlobsThere
<1>h. ASSUME NEW M, Arrive(m, M)
      PROVE  \E S \in SUBSET ManifestsThere(m) : Learn(m, S)
  BY <1>h DEF Arrive, ManifestsThere
<1>1. ASSUME NEW mode \in {"sync", "pull"}, Compare(m, mode)
      PROVE  HistoryInv'
  <2> DEFINE R == remoteHead[remote[m]]
             p == [Idle EXCEPT !.mode = mode, !.local = head[m]]
             q == [p EXCEPT !.pc = "fetch", !.target = R]
             r == FetchTip(p, R)
  <2>1. q.pc = "fetch" /\ r.pc = "checkout" /\ q.known = {} /\ r.known = {}
    BY DEF FetchTip, Idle
  <2>2. \/ head[m] # NoManifest /\ Upload(m, head[m])
        \/ Goto(m, q) \/ Goto(m, r)
    BY <1>1 DEF Compare
  <2>3. UNCHANGED << local, gc, bucket >>
    BY <1>1 DEF Compare
  <2> HIDE DEF q, r
  <2> QED
    BY <1>a, <1>c, <1>d, <2>1, <2>2, <2>3 DEF local
<1>2. CASE FetchManifest(m)
  <2>1. PICK S \in SUBSET ManifestsThere(m) : Learn(m, S)
    BY <1>2, <1>h DEF FetchManifest
  <2>2. /\ Goto(m, s) /\ s.pc = "fetch"
        /\ UNCHANGED << objects, head, cache, remote, gc, bucket >>
    BY <1>2 DEF FetchManifest, At, Goto, TypeInv, TypeOK
  <2> QED
    BY <1>e, <1>g, <2>1, <2>2
<1>3. CASE Ahead(m)
  <2>1. s.local \in manifests[m]
    BY <1>3, <1>a DEF Ahead, IsAncestor, Named, NoManifest
  <2>2. Upload(m, s.local) \/ Goto(m, Idle)
    BY <1>3 DEF Ahead
  <2> QED
    BY <1>3, <1>c, <1>d, <1>f, <2>1, <2>2 DEF Ahead, local
<1>4. CASE Behind(m)
  <2> DEFINE q == FetchTip(s, s.target)
  <2>1. q.pc = "checkout" /\ q.known = s.known
    BY <1>a DEF FetchTip, Process
  <2>2. Goto(m, q) /\ UNCHANGED << local, gc, bucket >>
    BY <1>4 DEF Behind
  <2> HIDE DEF q
  <2> QED
    BY <1>c, <2>1, <2>2 DEF local
<1>5. CASE Diverged(m)
  <2> DEFINE needed == Files(SinceFork(s.local, s.target, manifests[m]))
             q == [s EXCEPT !.pc = "fetchBlobs", !.blobs = needed \ objects[m]]
  <2>1. Goto(m, q) /\ UNCHANGED << local, gc, bucket >>
    BY <1>5 DEF Diverged
  <2>2. s.local # NoManifest
    BY <1>5 DEF Diverged, HasCommonAncestor, CommonAncestors, Named, NoManifest
  <2> HIDE DEF needed
  <2>3. q.pc = "fetchBlobs" /\ q.local = s.local /\ q.known = s.known
    BY <1>a DEF Process
  <2> HIDE DEF q
  <2> QED
    BY <1>c, <2>1, <2>2, <2>3 DEF local
<1>6. CASE DownloadBlob(m)
  <2>1. PICK blob \in s.blobs \cap remoteBlobs[remote[m]] :
          Store(m, {blob}) /\ Goto(m, [s EXCEPT !.blobs = @ \ {blob}])
    BY <1>6 DEF DownloadBlob
  <2> DEFINE q == [s EXCEPT !.blobs = @ \ {blob}]
  <2>2. q.pc = s.pc /\ q.local = s.local /\ q.known = s.known /\ Goto(m, q)
    BY <1>a, <2>1 DEF Process
  <2> HIDE DEF q
  <2>3. /\ objects[m] \subseteq objects'[m]
        /\ \A n \in Machine \ {m} : objects'[n] = objects[n]
    BY <2>1 DEF Store, TypeInv, TypeOK
  <2>4. (s.pc = "fetchBlobs" /\ s.local # NoManifest) \/ s.pc = "download"
    BY <1>6, <1>a DEF DownloadBlob, Filed
  <2> QED
    BY <1>6, <1>c, <2>2, <2>3, <2>4 DEF DownloadBlob
<1>7. CASE Merge(m)
  <2>1. PICK t \in Tree :
          /\ t \subseteq TreeOf(s.target) \cup TreeOf(s.local)
          /\ LET M == Append(s.target, [tree |-> t, by |-> m])
                 mode == IF s.mode = "sync" THEN "merge" ELSE "pull"
             IN  Learn(m, {M}) /\ Goto(m, FetchTip([s EXCEPT !.mode = mode], M))
    BY <1>7 DEF Merge
  <2> DEFINE l == [tree |-> t, by |-> m]
             M == Append(s.target, l)
             mode == IF s.mode = "sync" THEN "merge" ELSE "pull"
             q == FetchTip([s EXCEPT !.mode = mode], M)
  <2>2. Learn(m, {M}) /\ Goto(m, q)
    BY <2>1
  <2>3. /\ s.target \in Manifest /\ s.target \in manifests[m] /\ l \in Listing
        /\ s.local \in manifests[m]
    BY <1>7, <1>a, TreeAssumption DEF Merge, At, Filed, Listing, TypeInv, TypeOK
  <2>4. TreeOf(M) = t
    BY <2>3, AppendTree
  <2> HIDE DEF M
  <2>5. q.pc = "checkout" /\ q.known = s.known
    BY <1>a DEF FetchTip, Process
  <2>6. TreeOf(M) \subseteq objects[m] \cup BlobsThere(m)
    BY <1>a, <2>1, <2>3, <2>4 DEF Versions
  <2> HIDE DEF q
  <2> QED
    BY <1>7, <1>e, <2>2, <2>5, <2>6 DEF Merge
<1>8. CASE FetchTarget(m)
  <2>1. PICK M \in ManifestsThere(m), S \in SUBSET ManifestsThere(m) :
          Learn(m, S) /\ Goto(m, [s EXCEPT !.chain = @ \cup {M}])
    BY <1>8, <1>h DEF FetchTarget, ManifestsThere
  <2> DEFINE q == [s EXCEPT !.chain = @ \cup {M}]
  <2>2. q.pc = "checkout" /\ q.known = s.known /\ Goto(m, q)
    BY <1>8, <1>a, <2>1 DEF FetchTarget, At, Process
  <2> HIDE DEF q
  <2> QED
    BY <1>8, <1>e, <1>g, <2>1, <2>2 DEF FetchTarget
<1>9. CASE StartDownload(m)
  <2> DEFINE q == [s EXCEPT !.pc = "download", !.blobs = Files(s.chain) \ objects[m]]
  <2>1. q.pc = "download" /\ q.known = s.known
    BY <1>a DEF Process
  <2>2. Goto(m, q) /\ UNCHANGED << local, gc, bucket >>
    BY <1>9 DEF StartDownload
  <2> HIDE DEF q
  <2> QED
    BY <1>c, <2>1, <2>2 DEF local
<1>10. CASE Apply(m)
  <2>1. s.target \in manifests[m] /\ \A n \in Machine \ {m} : head'[n] = head[n]
    BY <1>10, <1>a DEF Apply, At, SetHead, TypeInv, TypeOK
  <2>2. Upload(m, s.target) \/ Goto(m, Idle)
    BY <1>10 DEF Apply
  <2> QED
    BY <1>10, <1>c, <1>d, <1>f, <2>1, <2>2 DEF Apply
<1>11. ASSUME NEW M \in manifests[m] \cup remoteManifests[remote[m]], Fetch(m, M)
       PROVE  HistoryInv'
  <2> DEFINE q == FetchTip([Idle EXCEPT !.mode = "fetch"], M)
  <2>1. q.pc = "checkout" /\ q.known = {}
    BY DEF FetchTip, Idle
  <2>2. Goto(m, q) /\ UNCHANGED << local, gc, bucket >>
    BY <1>11 DEF Fetch
  <2> HIDE DEF q
  <2> QED
    BY <1>c, <2>1, <2>2 DEF local
<1>12. CASE EndFetch(m)
  BY <1>12, <1>c, <1>f DEF EndFetch, local
<1> QED
  BY <1>1, <1>2, <1>3, <1>4, <1>5, <1>6, <1>7, <1>8, <1>9, <1>10, <1>11, <1>12 DEF Download

\* What a push takes for uploaded of blobs is, where no manifest has the name of
\* a blob.
LEMMA KnownBlobsThere ==
  ASSUME TypeInv, HistoryInv, NamesDiffer, NEW m \in Machine
  PROVE  KnownNames(m) \cap Blob \subseteq BlobsThere(m)
<1>1. /\ remote[m] \in Bucket /\ remoteManifests[remote[m]] \subseteq Manifest
      /\ BlobBeliefs(m) /\ LogTrueOfBlobs
  BY DEF TypeInv, TypeOK, HistoryInv
<1>2. \A e \in NewEntries(m) : e.names \cap Blob \subseteq BlobsThere(m)
  BY <1>1 DEF LogTrueOfBlobs, NewEntries, BlobsThere
<1>3. remoteManifests[remote[m]] \cap Blob = {}
  BY <1>1 DEF NamesDiffer
<1> QED
  BY <1>1, <1>2, <1>3 DEF KnownNames, BlobBeliefs, BlobsThere

\* A step of a push that changes nothing local.
LEMMA PushKept ==
  ASSUME TypeInv, HistoryInv, NEW m \in Machine, NEW p, Goto(m, p),
         UNCHANGED << local, gc >>, BucketsGrow, HistoryKept', LogTrueOfBlobs',
         p.known \cap Blob \subseteq BlobsThere(m)', Filed(m)'
  PROVE  HistoryInv'
<1>1. /\ proc'[m] = p /\ remote[m] \in Bucket
      /\ \A n \in Machine \ {m} : proc'[n] = proc[n]
  BY DEF Goto, TypeInv, TypeOK
<1>2. OnlyOf(m) /\ StoreOnlyOf(m)
  BY <1>1 DEF OnlyOf, StoreOnlyOf, local
<1>3. Kept(m) /\ BlobsThere(m) \subseteq BlobsThere(m)'
  BY <1>1, HistoryIsKept DEF BucketsGrow, BlobsThere, local
<1>4. Versions(m)'
  BY <1>3 DEF Kept, Versions, local
<1>5. BlobBeliefs(m)'
  BY <1>1, <1>3 DEF Kept, BlobBeliefs, local
<1> QED
  BY <1>2, <1>4, <1>5, HistoryStepOf DEF Kept

\* The upload half: a blob that is not local is in the bucket, because the chain
\* was read from local manifests; so every blob of the chain is there before its
\* manifests go up, and before the push-log and the cache name it.
LEMMA UploadHalfKept ==
  ASSUME TypeInv, ChainInv, HistoryInv, NamesDiffer, NEW m \in Machine,
         \/ \E M \in manifests[m], force \in BOOLEAN : Push(m, M, force)
         \/ UploadStep(m) \/ Abort(m)
  PROVE  HistoryInv'
<1> DEFINE s == proc[m]
<1>a. /\ s \in Process /\ remote[m] \in Bucket /\ manifests[m] \subseteq Manifest
      /\ HistoryKept /\ LogTrueOfBlobs /\ Chained(m)
      /\ Versions(m) /\ BlobBeliefs(m) /\ Filed(m)
  BY HistoryIsKept DEF TypeInv, TypeOK, ChainInv, Kept
<1>b. \A p : Goto(m, p) => proc'[m] = p /\ \A n \in Machine \ {m} : proc'[n] = proc[n]
  BY DEF Goto, TypeInv, TypeOK
<1>c. ASSUME UNCHANGED << remoteBlobs, remoteManifests >>
      PROVE  BucketsGrow /\ HistoryKept'
  BY <1>a, <1>c DEF BucketsGrow, HistoryKept
<1>d. ASSUME UNCHANGED << local, bucket >>
      PROVE  /\ BucketsGrow /\ HistoryKept' /\ LogTrueOfBlobs'
             /\ BlobsThere(m)' = BlobsThere(m)
  BY <1>a, <1>c, <1>d DEF LogTrueOfBlobs, BlobsThere, local, bucket
<1>1. ASSUME NEW M \in manifests[m], NEW force \in BOOLEAN, Push(m, M, force)
      PROVE  HistoryInv'
  <2>1. Upload(m, M) /\ UNCHANGED << local, gc, bucket >>
    BY <1>1 DEF Push
  <2>2. OnlyOf(m)
    BY <1>b, <2>1 DEF Upload, OnlyOf, local
  <2> QED
    BY <2>1, <2>2, UploadFiled DEF local
<1>2. CASE ReadCovered(m)
  <2> DEFINE R == remoteHead[remote[m]]
             covered == IF R = NoManifest \/ R \notin manifests[m] THEN {}
                        ELSE TreeOf(R) \cup LocalChain(R, manifests[m])
             q == [s EXCEPT !.pc = "known", !.covered = covered]
  <2>1. Goto(m, q) /\ s.pc = "covered" /\ UNCHANGED << local, gc, bucket >>
    BY <1>2 DEF ReadCovered, At
  <2> HIDE DEF covered
  <2>2. q.pc = "known" /\ q.chain = s.chain /\ q.known = s.known
    BY <1>a DEF Process
  <2> HIDE DEF q
  <2>3. Filed(m)'
    BY <1>a, <1>b, <2>1, <2>2 DEF Filed, local
  <2> QED
    BY <1>a, <1>d, <2>1, <2>2, <2>3, PushKept DEF BlobBeliefs
<1>3. CASE ReadKnown(m)
  <2> DEFINE blobs == Files(s.chain) \ KnownNames(m)
             mans  == s.chain \ KnownNames(m)
  <2>1. PICK cursor \in {cache[m].cursor} \cup {e.key : e \in NewEntries(m)} :
          Goto(m, [s EXCEPT !.pc = "upload", !.known = KnownNames(m),
                            !.cursor = cursor, !.novel = blobs \cup mans,
                            !.blobs = blobs, !.mans = mans])
    BY <1>3 DEF ReadKnown
  <2> DEFINE q == [s EXCEPT !.pc = "upload", !.known = KnownNames(m),
                            !.cursor = cursor, !.novel = blobs \cup mans,
                            !.blobs = blobs, !.mans = mans]
  <2>2. Goto(m, q) /\ s.pc = "known" /\ UNCHANGED << local, gc, bucket >>
    BY <1>3, <2>1 DEF ReadKnown, At
  <2>3. KnownNames(m) \cap Blob \subseteq BlobsThere(m)
    BY KnownBlobsThere
  <2>4. s.chain \subseteq manifests[m] /\ Files(s.chain) \subseteq Blob
    BY <1>a, <2>2, FilesType DEF Filed, Process
  <2>5. /\ mans \subseteq s.chain /\ blobs \subseteq Files(s.chain)
        /\ Files(s.chain) \subseteq blobs \cup BlobsThere(m)
        /\ (blobs \cup mans) \cap Blob \subseteq blobs
    BY <1>a, <2>3, <2>4 DEF NamesDiffer
  <2> HIDE DEF blobs, mans
  <2>6. /\ q.pc = "upload" /\ q.chain = s.chain /\ q.known = KnownNames(m)
        /\ q.mans = mans /\ q.blobs = blobs /\ q.novel = blobs \cup mans
    BY <1>a DEF Process
  <2> HIDE DEF q
  <2>7. Filed(m)'
    BY <1>b, <1>d, <2>2, <2>4, <2>5, <2>6 DEF Filed, local
  <2> QED
    BY <1>d, <2>2, <2>3, <2>6, <2>7, PushKept
<1>4. ASSUME NEW blob \in s.blobs, UNCHANGED remoteBlobs \/ PutBlob(m, blob),
             s.pc = "upload" => blob \in BlobsThere(m)',
             Goto(m, [s EXCEPT !.blobs = @ \ {blob}]), s.pc \in {"upload", "ensure"},
             UNCHANGED << local, gc, remoteManifests, remoteHead, pushLog >>
      PROVE  HistoryInv'
  <2> DEFINE q == [s EXCEPT !.blobs = @ \ {blob}]
  <2>1. /\ q.pc = s.pc /\ q.chain = s.chain /\ q.known = s.known /\ q.mans = s.mans
        /\ q.blobs = s.blobs \ {blob} /\ q.novel = s.novel
    BY <1>a DEF Process
  <2>2. BucketsGrow
    BY <1>4, <1>a DEF PutBlob, BucketsGrow, TypeInv, TypeOK
  <2>3. BlobsThere(m) \subseteq BlobsThere(m)'
    BY <1>4, <1>a, <2>2 DEF BucketsGrow, BlobsThere, local
  <2>4. Goto(m, q)
    BY <1>4
  <2> HIDE DEF q
  <2>5. Filed(m)'
    BY <1>4, <1>a, <1>b, <2>1, <2>3, <2>4 DEF Filed, local
  <2>6. HistoryKept' /\ LogTrueOfBlobs'
    BY <1>4, <1>a, <2>2 DEF HistoryKept, LogTrueOfBlobs, BucketsGrow
  <2> QED
    BY <1>4, <1>a, <2>1, <2>2, <2>3, <2>4, <2>5, <2>6, PushKept DEF BlobBeliefs
<1>5. CASE UploadBlob(m)
  <2>1. PICK blob \in s.blobs :
          /\ \/ PutBlob(m, blob)
             \/ blob \notin objects[m] /\ UNCHANGED remoteBlobs
          /\ Goto(m, [s EXCEPT !.blobs = @ \ {blob}])
    BY <1>5 DEF UploadBlob
  <2>2. /\ s.pc = "upload"
        /\ UNCHANGED << local, gc, remoteManifests, remoteHead, pushLog >>
    BY <1>5 DEF UploadBlob, At
  <2>3. PICK M \in s.chain : blob \in TreeOf(M)
    BY <1>a, <2>1, <2>2 DEF Filed, Files
  <2>4. blob \in objects[m] \cup BlobsThere(m)
    BY <1>a, <2>2, <2>3 DEF Filed, Versions
  <2>5. PutBlob(m, blob) => blob \in BlobsThere(m)'
    BY <1>a, <2>2 DEF PutBlob, BlobsThere, local, TypeInv, TypeOK
  <2>6. blob \in BlobsThere(m)'
    BY <2>1, <2>2, <2>4, <2>5 DEF BlobsThere, local
  <2> QED
    BY <1>4, <2>1, <2>2, <2>6
<1>6. CASE EnsureBlob(m)
  BY <1>4, <1>6 DEF EnsureBlob, At
<1>7. ASSUME NEW M \in s.mans, PutManifest(m, M), TreeOf(M) \subseteq BlobsThere(m),
             Goto(m, [s EXCEPT !.mans = @ \ {M}]), s.pc \in {"upload", "ensure"},
             UNCHANGED << local, gc, remoteBlobs, remoteHead, pushLog >>
      PROVE  HistoryInv'
  <2> DEFINE q == [s EXCEPT !.mans = @ \ {M}]
  <2>1. /\ q.pc = s.pc /\ q.chain = s.chain /\ q.known = s.known
        /\ q.mans = s.mans \ {M} /\ q.blobs = s.blobs /\ q.novel = s.novel
    BY <1>a DEF Process
  <2>2. /\ remoteManifests' = [remoteManifests EXCEPT ![remote[m]] = @ \cup {M}]
        /\ BucketsGrow /\ BlobsThere(m)' = BlobsThere(m)
    BY <1>7, <1>a DEF PutManifest, BucketsGrow, BlobsThere, local, TypeInv, TypeOK
  <2>3. Goto(m, q)
    BY <1>7
  <2> HIDE DEF q
  <2>4. Filed(m)'
    BY <1>7, <1>a, <1>b, <2>1, <2>2, <2>3 DEF Filed, local
  <2>5. HistoryKept'
    BY <1>7, <1>a, <2>2 DEF HistoryKept, BlobsThere, TypeInv, TypeOK
  <2>6. LogTrueOfBlobs'
    BY <1>7, <1>a DEF LogTrueOfBlobs
  <2> QED
    BY <1>7, <1>a, <2>1, <2>2, <2>3, <2>4, <2>5, <2>6, PushKept DEF BlobBeliefs
<1>8. CASE UploadManifest(m)
  <2>1. PICK M \in s.mans : PutManifest(m, M) /\ Goto(m, [s EXCEPT !.mans = @ \ {M}])
    BY <1>8 DEF UploadManifest
  <2>2. /\ s.pc = "upload" /\ s.blobs = {}
        /\ UNCHANGED << local, gc, remoteBlobs, remoteHead, pushLog >>
    BY <1>8 DEF UploadManifest, At
  <2>3. TreeOf(M) \subseteq BlobsThere(m)
    BY <1>a, <2>1, <2>2 DEF Filed, Files
  <2> QED
    BY <1>7, <2>1, <2>2, <2>3
<1>9. CASE EnsureManifest(m)
  <2>1. PICK M \in s.mans : PutManifest(m, M) /\ Goto(m, [s EXCEPT !.mans = @ \ {M}])
    BY <1>9 DEF EnsureManifest
  <2>2. /\ s.pc = "ensure"
        /\ UNCHANGED << local, gc, remoteBlobs, remoteHead, pushLog >>
    BY <1>9 DEF EnsureManifest, At
  <2>3. TreeOf(M) \subseteq BlobsThere(m)
    BY <1>a, <2>2 DEF Chained, HistoryKept, ManifestsThere, BlobsThere
  <2> QED
    BY <1>7, <2>1, <2>2, <2>3
<1>10. CASE StartEnsure(m)
  <2> DEFINE unchecked == s.known \ s.covered
             q == [s EXCEPT !.pc = "ensure", !.blobs = TreeOf(s.target) \cap unchecked,
                            !.mans = s.chain \cap unchecked]
  <2>1. /\ Goto(m, q) /\ s.pc = "upload" /\ s.blobs = {}
        /\ UNCHANGED << local, gc, bucket >>
    BY <1>10 DEF StartEnsure, At
  <2> HIDE DEF unchecked
  <2>2. q.pc = "ensure" /\ q.known = s.known /\ q.novel = s.novel
    BY <1>a DEF Process
  <2> HIDE DEF q
  <2>3. Filed(m)'
    BY <1>a, <1>b, <1>d, <2>1, <2>2 DEF Filed
  <2> QED
    BY <1>a, <1>d, <2>1, <2>2, <2>3, PushKept DEF BlobBeliefs
<1>11. CASE WriteRemoteHead(m)
  <2> DEFINE q == [s EXCEPT !.pc = IF s.novel = {} THEN "cache" ELSE "log"]
  <2>1. /\ Goto(m, q) /\ s.pc = "ensure"
        /\ UNCHANGED << local, gc, remoteBlobs, remoteManifests, pushLog >>
    BY <1>11 DEF WriteRemoteHead, At
  <2>2. q.pc \in {"cache", "log"} /\ q.known = s.known /\ q.novel = s.novel
    BY <1>a DEF Process
  <2> HIDE DEF q
  <2>3. BlobsThere(m)' = BlobsThere(m) /\ LogTrueOfBlobs'
    BY <1>a, <2>1 DEF BlobsThere, LogTrueOfBlobs, local
  <2>4. Filed(m)'
    BY <1>a, <1>b, <2>1, <2>2, <2>3 DEF Filed
  <2> QED
    BY <1>a, <1>c, <2>1, <2>2, <2>3, <2>4, PushKept DEF BlobBeliefs
<1>12. CASE WriteLog(m)
  <2>1. PICK k \in 1 .. MaxLogKey :
          /\ pushLog' = [pushLog EXCEPT ![remote[m]] = @ \cup {[key |-> k, names |-> s.novel]}]
          /\ Goto(m, [s EXCEPT !.pc = "cache", !.cursor = k, !.known = @ \cup s.novel])
    BY <1>12 DEF WriteLog
  <2> DEFINE q == [s EXCEPT !.pc = "cache", !.cursor = k, !.known = @ \cup s.novel]
  <2>2. /\ Goto(m, q) /\ s.pc = "log"
        /\ UNCHANGED << local, gc, remoteBlobs, remoteManifests, remoteHead >>
    BY <1>12, <2>1 DEF WriteLog, At
  <2>3. q.pc = "cache" /\ q.known = s.known \cup s.novel
    BY <1>a DEF Process
  <2> HIDE DEF q
  <2>4. s.novel \cap Blob \subseteq BlobsThere(m) /\ BlobsThere(m)' = BlobsThere(m)
    BY <1>a, <2>2 DEF Filed, BlobsThere, local
  <2>5. LogTrueOfBlobs'
    BY <1>a, <2>1, <2>2, <2>4 DEF LogTrueOfBlobs, BlobsThere, TypeInv, TypeOK
  <2>6. Filed(m)'
    BY <1>b, <2>2, <2>3, NothingFiled
  <2> QED
    BY <1>a, <1>c, <2>2, <2>3, <2>4, <2>5, <2>6, PushKept DEF BlobBeliefs
<1>13. CASE WriteCache(m) \/ Abort(m)
  <2>1. Idle.pc = "idle" /\ Idle.known = {}
    BY DEF Idle
  <2>2. /\ Goto(m, Idle) /\ UNCHANGED << manifests, objects, head, remote, gc, bucket >>
        /\ \A n \in Machine \ {m} : cache'[n] = cache[n]
        /\ cache'[m].known \in {cache[m].known, s.known}
    BY <1>13 DEF WriteCache, Abort, local, TypeInv, TypeOK
  <2>3. BlobsThere(m)' = BlobsThere(m) /\ LogTrueOfBlobs'
    BY <1>a, <2>2 DEF BlobsThere, LogTrueOfBlobs, bucket
  <2>4. OnlyOf(m) /\ StoreOnlyOf(m) /\ proc'[m] = Idle
    BY <1>b, <2>2 DEF OnlyOf, StoreOnlyOf
  <2>5. Filed(m)'
    BY <2>1, <2>4, NothingFiled
  <2>6. Versions(m)' /\ BlobBeliefs(m)'
    BY <1>a, <2>1, <2>2, <2>3, <2>4 DEF Versions, BlobBeliefs
  <2> QED
    BY <1>c, <2>2, <2>3, <2>4, <2>5, <2>6, HistoryStepOf DEF Kept, bucket
<1> QED
  BY <1>1, <1>2, <1>3, <1>5, <1>6, <1>8, <1>9, <1>10, <1>11, <1>12, <1>13 DEF UploadStep

LEMMA HistoryStep ==
  ASSUME TypeInv, TipInv, ChainInv, HistoryInv, NamesDiffer, [NextBeside]_vars
  PROVE  HistoryInv'
<1>1. CASE UNCHANGED vars
  BY <1>1 DEF vars, local, bucket, HistoryInv, HistoryKept, VersionsRecoverable,
     LogTrueOfBlobs, BlobBeliefs, Filed, BlobsThere
<1>2. ASSUME NEW m \in Machine,
             Begin(m) \/ Download(m) \/ UploadStep(m) \/ GCStep(m) \/ Abort(m)
      PROVE  HistoryInv'
  BY <1>2, CommandKept, DownloadKept, UploadHalfKept DEF Begin, Command, Snapshot
<1>3. CASE \E m \in Machine : CommitBeside(m)
  BY <1>3, CommandKept DEF CommitBeside
<1> QED
  BY <1>1, <1>2, <1>3 DEF NextBeside, Next

LEMMA HistoryInit ==
  ASSUME Init
  PROVE  HistoryInv
<1>1. HistoryKept /\ VersionsRecoverable /\ LogTrueOfBlobs
  BY DEF Init, HistoryKept, VersionsRecoverable, LogTrueOfBlobs
<1>2. ASSUME NEW m \in Machine
      PROVE  BlobBeliefs(m) /\ Filed(m)
  <2>1. proc[m] = Idle /\ cache[m] = EmptyCache /\ gc[m] = NoGC
    BY DEF Init
  <2> QED
    BY <2>1 DEF BlobBeliefs, Filed, Idle, EmptyCache, NoGC
<1> QED
  BY <1>1, <1>2 DEF HistoryInv

\* As long as no local file is lost and machines stay with their bucket, a bucket
\* has every version of every file of its manifests, every machine can get back
\* every version that it knows of, and the push-log names nothing that is not
\* there: whichever pushes are cut, whatever gc deletes and whatever is committed
\* beside a cycle.
THEOREM History ==
  ASSUME NamesDiffer
  PROVE  SpecBeside => [](HistoryKept /\ VersionsRecoverable /\ LogHonest)
<1> DEFINE Inv == TypeInv /\ TipInv /\ ChainInv /\ HistoryInv
<1>1. Init => Inv
  BY TypeInit, TipInit, ChainInit, HistoryInit
<1>2. Inv /\ [NextBeside]_vars => Inv'
  BY StayStep, HistoryStep DEF StayNext
<1>3. Inv => HistoryKept /\ VersionsRecoverable /\ LogHonest
  <2>1. TypeInv => \A b \in Bucket : \A e \in pushLog[b] : e.names \subseteq Name
    BY DEF TypeInv, TypeOK, LogEntry
  <2> QED
    BY <2>1 DEF HistoryInv, TipInv, LogTrue, LogTrueOfBlobs, LogHonest, Name
<1> QED
  BY <1>1, <1>2, <1>3, PTL DEF SpecBeside

\* Whatever is cut, the bucket has the files of all its manifests.
COROLLARY AllVersionsKept ==
  ASSUME NamesDiffer
  PROVE  SpecBeside => []HistoryKept
BY History, PTL

\* gc never deletes the last copy of a version that a local manifest lists.
COROLLARY GCDeletesNoLastCopy ==
  ASSUME NamesDiffer
  PROVE  SpecBeside => []VersionsRecoverable
BY History, PTL

\* No entry of the push-log names what is not there.
COROLLARY LogNeverLies ==
  ASSUME NamesDiffer
  PROVE  SpecBeside => []LogHonest
BY History, PTL

-----------------------------------------------------------------------------
(***************************************************************************)
(* No snapshot is dropped.                                                 *)
(***************************************************************************)

\* HEAD and the process of the other machines stay, and m is between two
\* downloads or goes on with this one.
LEMMA RestStep ==
  ASSUME HeadInv, NEW m \in Machine,
         \A n \in Machine \ {m} : proc'[n] = proc[n] /\ head'[n] = head[n],
         \/ proc'[m].pc \notin {"fetch", "fetchBlobs", "checkout", "download"}
         \/ head'[m] = head[m] /\ proc'[m] = proc[m]
         \/ HeadRests(m)'
  PROVE  HeadInv'
BY DEF HeadInv, HeadRests

\* What a command does to HEAD it does while no cycle is under way.
LEMMA CommandRests ==
  ASSUME TypeInv, HeadInv, NEW m \in Machine,
         \/ Snapshot(m) \/ GCStep(m)
         \/ \E M \in manifests[m] : Checkout(m, M)
         \/ \E b \in Bucket : RemoteSet(m, b)
         \/ \E blob \in Blob : LoseObject(m, blob)
  PROVE  HeadInv'
<1>1. CASE UNCHANGED << head, proc >>
  BY <1>1, RestStep
<1>2. CASE Snapshot(m) \/ \E M \in manifests[m] : Checkout(m, M)
  <2>1. /\ proc' = proc /\ proc[m].pc = "idle"
        /\ \A n \in Machine \ {m} : head'[n] = head[n]
    BY <1>2 DEF Snapshot, TakeSnapshot, Checkout, SetHead, At, TypeInv, TypeOK
  <2> QED
    BY <2>1, RestStep
<1> QED
  BY <1>1, <1>2 DEF GCStep, GCKeep, GCList, GCDelete, GCEnd, RemoteSet, LoseObject, local

\* A push leaves HEAD alone.
LEMMA UploadRests ==
  ASSUME TypeInv, HeadInv, NEW m \in Machine,
         \/ \E M \in manifests[m], force \in BOOLEAN : Push(m, M, force)
         \/ UploadStep(m) \/ Abort(m)
  PROVE  HeadInv'
<1>a. proc[m] \in Process
  BY DEF TypeInv, TypeOK
<1>b. ASSUME NEW p, Goto(m, p), UNCHANGED head,
             p.pc \notin {"fetch", "fetchBlobs", "checkout", "download"}
      PROVE  HeadInv'
  BY <1>b, RestStep DEF Goto, TypeInv, TypeOK
<1>c. UNCHANGED head
  BY DEF Push, UploadStep, ReadCovered, ReadKnown, UploadBlob, UploadManifest, StartEnsure,
     EnsureBlob, EnsureManifest, WriteRemoteHead, WriteLog, WriteCache, Abort, local
<1>1. ASSUME NEW M \in manifests[m], NEW force \in BOOLEAN, Push(m, M, force)
      PROVE  HeadInv'
  <2> DEFINE p == [Idle EXCEPT !.pc = "covered", !.target = M,
                               !.chain = LocalChain(M, manifests[m])]
  <2>1. Goto(m, p)
    BY <1>1 DEF Push, Upload
  <2>2. p.pc = "covered"
    BY DEF Idle
  <2> HIDE DEF p
  <2> QED
    BY <1>b, <1>c, <2>1, <2>2
<1>2. CASE ReadCovered(m)
  <2>1. PICK S : Goto(m, [proc[m] EXCEPT !.pc = "known", !.covered = S])
    BY <1>2 DEF ReadCovered
  <2> DEFINE p == [proc[m] EXCEPT !.pc = "known", !.covered = S]
  <2>2. p.pc = "known" /\ Goto(m, p)
    BY <1>a, <2>1 DEF Process
  <2> HIDE DEF p
  <2> QED
    BY <1>b, <1>c, <2>2
<1>3. CASE ReadKnown(m)
  <2>1. PICK cursor, blobs, mans :
          Goto(m, [proc[m] EXCEPT !.pc = "upload", !.known = KnownNames(m),
                                  !.cursor = cursor, !.novel = blobs \cup mans,
                                  !.blobs = blobs, !.mans = mans])
    BY <1>3 DEF ReadKnown
  <2> DEFINE p == [proc[m] EXCEPT !.pc = "upload", !.known = KnownNames(m),
                                  !.cursor = cursor, !.novel = blobs \cup mans,
                                  !.blobs = blobs, !.mans = mans]
  <2>2. p.pc = "upload" /\ Goto(m, p)
    BY <1>a, <2>1 DEF Process
  <2> HIDE DEF p
  <2> QED
    BY <1>b, <1>c, <2>2
<1>4. CASE UploadBlob(m) \/ EnsureBlob(m)
  <2>1. PICK blob \in proc[m].blobs : Goto(m, [proc[m] EXCEPT !.blobs = @ \ {blob}])
    BY <1>4 DEF UploadBlob, EnsureBlob
  <2> DEFINE p == [proc[m] EXCEPT !.blobs = @ \ {blob}]
  <2>2. p.pc \in {"upload", "ensure"} /\ Goto(m, p)
    BY <1>a, <1>4, <2>1 DEF Process, UploadBlob, EnsureBlob, At
  <2> HIDE DEF p
  <2> QED
    BY <1>b, <1>c, <2>2
<1>5. CASE UploadManifest(m) \/ EnsureManifest(m)
  <2>1. PICK M \in proc[m].mans : Goto(m, [proc[m] EXCEPT !.mans = @ \ {M}])
    BY <1>5 DEF UploadManifest, EnsureManifest
  <2> DEFINE p == [proc[m] EXCEPT !.mans = @ \ {M}]
  <2>2. p.pc \in {"upload", "ensure"} /\ Goto(m, p)
    BY <1>a, <1>5, <2>1 DEF Process, UploadManifest, EnsureManifest, At
  <2> HIDE DEF p
  <2> QED
    BY <1>b, <1>c, <2>2
<1>6. CASE StartEnsure(m)
  <2>1. PICK S, T : Goto(m, [proc[m] EXCEPT !.pc = "ensure", !.blobs = S, !.mans = T])
    BY <1>6 DEF StartEnsure
  <2> DEFINE p == [proc[m] EXCEPT !.pc = "ensure", !.blobs = S, !.mans = T]
  <2>2. p.pc = "ensure" /\ Goto(m, p)
    BY <1>a, <2>1 DEF Process
  <2> HIDE DEF p
  <2> QED
    BY <1>b, <1>c, <2>2
<1>7. CASE WriteRemoteHead(m)
  <2> DEFINE p == [proc[m] EXCEPT !.pc = IF proc[m].novel = {} THEN "cache" ELSE "log"]
  <2>1. p.pc \in {"cache", "log"} /\ Goto(m, p)
    BY <1>a, <1>7 DEF Process, WriteRemoteHead
  <2> HIDE DEF p
  <2> QED
    BY <1>b, <1>c, <2>1
<1>8. CASE WriteLog(m)
  <2>1. PICK k : Goto(m, [proc[m] EXCEPT !.pc = "cache", !.cursor = k,
                                          !.known = @ \cup proc[m].novel])
    BY <1>8 DEF WriteLog
  <2> DEFINE p == [proc[m] EXCEPT !.pc = "cache", !.cursor = k, !.known = @ \cup proc[m].novel]
  <2>2. p.pc = "cache" /\ Goto(m, p)
    BY <1>a, <2>1 DEF Process
  <2> HIDE DEF p
  <2> QED
    BY <1>b, <1>c, <2>2
<1>9. CASE WriteCache(m) \/ Abort(m)
  BY <1>9, <1>b, <1>c DEF WriteCache, Abort, Idle
<1> QED
  BY <1>1, <1>2, <1>3, <1>4, <1>5, <1>6, <1>7, <1>8, <1>9 DEF UploadStep

\* A cycle compares HEAD when it begins, and fetches a descendant of it or makes
\* a merge before it moves HEAD.
LEMMA DownloadRests ==
  ASSUME TypeInv, TipInv, HeadInv, NEW m \in Machine,
         \/ \E mode \in {"sync", "pull"} : Compare(m, mode)
         \/ \E M \in manifests[m] \cup remoteManifests[remote[m]] : Fetch(m, M)
         \/ Download(m)
  PROVE  HeadInv'
<1> DEFINE s == proc[m]
<1>a. /\ s \in Process /\ HeadRests(m)
      /\ s.pc \in {"fetchBlobs", "download"} => s.target \in Manifest
      /\ s.local \in Manifest \cup {NoManifest}
  BY DEF TypeInv, TypeOK, HeadInv, TipInv, Local, Process
<1>b. \A p : Goto(m, p) => proc'[m] = p /\ \A n \in Machine \ {m} : proc'[n] = proc[n]
  BY DEF Goto, TypeInv, TypeOK
<1>c. ASSUME NEW p, Goto(m, p), UNCHANGED head, p.pc # "idle" /\ p.mode # "fetch" => head[m] = p.local,
             p.pc \in {"fetch", "fetchBlobs"} => p.mode # "fetch",
             p.pc \in {"checkout", "download"} /\ p.mode # "fetch" =>
               p.local \in {NoManifest} \cup Chain(p.target) \/ MergeOf(m, p.target, p.local)
      PROVE  HeadInv'
  <2>1. HeadRests(m)'
    BY <1>b, <1>c DEF HeadRests, MergeOf
  <2> QED
    BY <1>b, <1>c, <2>1, RestStep
<1>d. ASSUME NEW M, Upload(m, M), \A n \in Machine \ {m} : head'[n] = head[n]
      PROVE  HeadInv'
  <2> DEFINE p == [Idle EXCEPT !.pc = "covered", !.target = M,
                               !.chain = LocalChain(M, manifests[m])]
  <2>1. p.pc = "covered" /\ proc'[m] = p
    BY <1>b, <1>d DEF Idle, Upload
  <2> HIDE DEF p
  <2>2. \A n \in Machine \ {m} : proc'[n] = proc[n]
    BY <1>b, <1>d DEF Upload
  <2> QED
    BY <1>d, <2>1, <2>2, RestStep
<1>e. ASSUME Goto(m, Idle), \A n \in Machine \ {m} : head'[n] = head[n]
      PROVE  HeadInv'
  BY <1>b, <1>e, RestStep DEF Idle
<1>1. ASSUME NEW mode \in {"sync", "pull"}, Compare(m, mode)
      PROVE  HeadInv'
  <2> DEFINE R == remoteHead[remote[m]]
             p == [Idle EXCEPT !.mode = mode, !.local = head[m]]
             q == [p EXCEPT !.pc = "fetch", !.target = R]
             r == FetchTip(p, R)
  <2>1. q.pc = "fetch" /\ q.mode = mode /\ q.local = head[m]
    BY DEF Idle
  <2>2. r.pc = "checkout" /\ r.mode = mode /\ r.local = head[m]
    BY DEF FetchTip, Idle
  <2>3. \/ Upload(m, head[m]) \/ Goto(m, q)
        \/ head[m] = NoManifest /\ Goto(m, r)
    BY <1>1 DEF Compare
  <2>4. UNCHANGED head
    BY <1>1 DEF Compare, local
  <2> HIDE DEF q, r
  <2> QED
    BY <1>c, <1>d, <2>1, <2>2, <2>3, <2>4
<1>2. CASE FetchManifest(m)
  BY <1>2, RestStep DEF FetchManifest
<1>3. CASE Ahead(m)
  BY <1>3, <1>d, <1>e DEF Ahead, local
<1>4. CASE Behind(m)
  <2> DEFINE q == FetchTip(s, s.target)
  <2>1. /\ q.pc = "checkout" /\ q.mode = s.mode /\ q.local = s.local
        /\ q.target = s.target
    BY <1>a DEF FetchTip, Process
  <2>2. s.local \in Chain(s.target)
    BY <1>4 DEF Behind, IsAncestor, Named, Chain
  <2>3. Goto(m, q) /\ UNCHANGED head /\ s.pc = "fetch"
    BY <1>4 DEF Behind, Fetched, At, local
  <2> HIDE DEF q
  <2> QED
    BY <1>a, <1>c, <2>1, <2>2, <2>3 DEF HeadRests
<1>5. CASE Diverged(m)
  <2>1. PICK S : Goto(m, [s EXCEPT !.pc = "fetchBlobs", !.blobs = S])
    BY <1>5 DEF Diverged
  <2> DEFINE q == [s EXCEPT !.pc = "fetchBlobs", !.blobs = S]
  <2>2. q.pc = "fetchBlobs" /\ q.mode = s.mode /\ q.local = s.local /\ Goto(m, q)
    BY <1>a, <2>1 DEF Process
  <2>3. UNCHANGED head /\ s.pc = "fetch"
    BY <1>5 DEF Diverged, Fetched, At, local
  <2> HIDE DEF q
  <2> QED
    BY <1>a, <1>c, <2>2, <2>3 DEF HeadRests
<1>6. CASE DownloadBlob(m)
  <2>1. PICK blob \in s.blobs : Goto(m, [s EXCEPT !.blobs = @ \ {blob}])
    BY <1>6 DEF DownloadBlob
  <2> DEFINE q == [s EXCEPT !.blobs = @ \ {blob}]
  <2>2. /\ q.pc = s.pc /\ q.mode = s.mode /\ q.local = s.local
        /\ q.target = s.target /\ Goto(m, q)
    BY <1>a, <2>1 DEF Process
  <2> HIDE DEF q
  <2> QED
    BY <1>6, <1>a, <1>c, <2>2 DEF DownloadBlob, HeadRests
<1>7. CASE Merge(m)
  <2>1. PICK t \in Tree :
          /\ t \subseteq TreeOf(s.target) \cup TreeOf(s.local)
          /\ LET M == Append(s.target, [tree |-> t, by |-> m])
                 mode == IF s.mode = "sync" THEN "merge" ELSE "pull"
             IN  Goto(m, FetchTip([s EXCEPT !.mode = mode], M))
    BY <1>7 DEF Merge
  <2> DEFINE l == [tree |-> t, by |-> m]
             M == Append(s.target, l)
             mode == IF s.mode = "sync" THEN "merge" ELSE "pull"
             q == FetchTip([s EXCEPT !.mode = mode], M)
  <2>2. Goto(m, q) /\ UNCHANGED head
    BY <1>7, <2>1 DEF Merge
  <2>3. s.pc = "fetchBlobs" /\ s.target \in Manifest /\ l \in Listing
    BY <1>7, <1>a, TreeAssumption DEF Merge, At, Listing
  <2>4. MergeOf(m, M, s.local)
    <3>1. TreeOf(M) = t /\ M[Len(s.target) + 1].by = m
      BY <2>3, AppendTree
    <3>2. Len(M) = Len(s.target) + 1 /\ Len(s.target) \in Nat \ {0}
      BY <2>3, AppendType, PrefixWhole
    <3>3. Prefix(M, Len(s.target)) = s.target
      BY <2>3, AppendParent
    <3> HIDE DEF M
    <3> QED
      BY <2>1, <3>1, <3>2, <3>3 DEF MergeOf
  <2> HIDE DEF M
  <2>5. q.pc = "checkout" /\ q.local = s.local /\ q.target = M
    BY <1>a DEF FetchTip, Process
  <2> HIDE DEF q
  <2> QED
    BY <1>a, <1>c, <2>2, <2>3, <2>4, <2>5 DEF HeadRests
<1>8. CASE FetchTarget(m)
  <2>1. PICK M : Goto(m, [s EXCEPT !.chain = @ \cup {M}])
    BY <1>8 DEF FetchTarget
  <2> DEFINE q == [s EXCEPT !.chain = @ \cup {M}]
  <2>2. /\ q.pc = s.pc /\ q.mode = s.mode /\ q.local = s.local
        /\ q.target = s.target /\ Goto(m, q)
    BY <1>a, <2>1 DEF Process
  <2> HIDE DEF q
  <2> QED
    BY <1>8, <1>a, <1>c, <2>2 DEF FetchTarget, At, HeadRests
<1>9. CASE StartDownload(m)
  <2>1. PICK S : Goto(m, [s EXCEPT !.pc = "download", !.blobs = S])
    BY <1>9 DEF StartDownload
  <2> DEFINE q == [s EXCEPT !.pc = "download", !.blobs = S]
  <2>2. /\ q.pc = "download" /\ q.mode = s.mode /\ q.local = s.local
        /\ q.target = s.target /\ Goto(m, q)
    BY <1>a, <2>1 DEF Process
  <2> HIDE DEF q
  <2> QED
    BY <1>9, <1>a, <1>c, <2>2 DEF StartDownload, At, HeadRests, local
<1>10. CASE Apply(m)
  <2>1. \A n \in Machine \ {m} : head'[n] = head[n]
    BY <1>10 DEF Apply, SetHead, TypeInv, TypeOK
  <2> QED
    BY <1>10, <1>d, <1>e, <2>1 DEF Apply
<1>11. ASSUME NEW M \in manifests[m] \cup remoteManifests[remote[m]], Fetch(m, M)
       PROVE  HeadInv'
  <2> DEFINE q == FetchTip([Idle EXCEPT !.mode = "fetch"], M)
  <2>1. q.pc = "checkout" /\ q.mode = "fetch"
    BY DEF FetchTip, Idle
  <2>2. Goto(m, q) /\ UNCHANGED head
    BY <1>11 DEF Fetch, local
  <2> HIDE DEF q
  <2> QED
    BY <1>c, <2>1, <2>2
<1>12. CASE EndFetch(m)
  BY <1>12, <1>e DEF EndFetch, local
<1> QED
  BY <1>1, <1>2, <1>3, <1>4, <1>5, <1>6, <1>7, <1>8, <1>9, <1>10, <1>11, <1>12 DEF Download

LEMMA HeadStep ==
  ASSUME TypeInv, TipInv, HeadInv, [NextMove]_vars
  PROVE  HeadInv'
<1>1. CASE UNCHANGED vars
  BY <1>1 DEF vars, local, HeadInv, HeadRests, MergeOf
<1>2. ASSUME NEW m \in Machine,
             Begin(m) \/ Download(m) \/ UploadStep(m) \/ GCStep(m) \/ Abort(m)
      PROVE  HeadInv'
  BY <1>2, CommandRests, DownloadRests, UploadRests DEF Begin, Command
<1>3. CASE \E m \in Machine, blob \in Blob : LoseObject(m, blob)
  BY <1>3, CommandRests
<1>4. CASE \E m \in Machine, b \in Bucket : RemoteSet(m, b)
  BY <1>4, CommandRests
<1> QED
  BY <1>1, <1>2, <1>3, <1>4 DEF NextMove, NextLossy, Next

\* Only Apply moves HEAD while a manifest is being downloaded.
LEMMA DownloadMoves ==
  ASSUME TypeInv, NextMove, NEW m \in Machine, proc[m].pc = "download",
         proc'[m] # proc[m], head'[m] # head[m]
  PROVE  Apply(m)
<1>1. ASSUME NEW n \in Machine, GCStep(n) \/ Snapshot(n) \/ UploadStep(n) \/ Abort(n)
      PROVE  FALSE
  BY <1>1 DEF GCStep, GCKeep, GCList, GCDelete, GCEnd, Snapshot, TakeSnapshot, UploadStep,
     ReadCovered, ReadKnown, UploadBlob, UploadManifest, StartEnsure, EnsureBlob,
     EnsureManifest, WriteRemoteHead, WriteLog, WriteCache, Abort, local
<1>2. ASSUME NEW n \in Machine, Command(n)
      PROVE  FALSE
  BY <1>2 DEF Command, Checkout, Push, Fetch, Compare, local
<1>3. ASSUME NEW n \in Machine, Download(n), ~ Apply(n)
      PROVE  FALSE
  BY <1>3 DEF Download, FetchManifest, Ahead, Behind, Diverged, DownloadBlob, Merge,
     FetchTarget, StartDownload, EndFetch, local
<1>4. ~ (\E n \in Machine, blob \in Blob : LoseObject(n, blob))
  BY DEF LoseObject
<1>5. ~ (\E n \in Machine, b \in Bucket : RemoteSet(n, b))
  BY DEF RemoteSet
<1>6. PICK n \in Machine : Apply(n)
  BY <1>1, <1>2, <1>3, <1>4, <1>5 DEF NextMove, NextLossy, Next, Begin
<1>7. n = m
  BY <1>6 DEF Apply, SetHead, TypeInv, TypeOK
<1> QED
  BY <1>6, <1>7

\* The snapshot that a cycle or a pull makes HEAD leave is an ancestor of the new
\* one or was merged into it, wherever machines move and whatever they lose, as
\* long as nothing is committed beside a cycle.
THEOREM NoneDropped ==
  ASSUME NamesDiffer
  PROVE  SpecMove => NoSnapshotDropped
<1> DEFINE Inv == TypeInv /\ TipInv /\ HeadInv
           Moved(m) == proc[m].pc = "download" /\ proc'[m] # proc[m] /\ head'[m] # head[m] =>
                         \/ head[m] \in {NoManifest} \cup Chain(head'[m])
                         \/ head[m] = proc[m].local /\ MergeOf(m, head'[m], head[m])
<1>1. Init => Inv
  <2>1. ASSUME Init
        PROVE  HeadInv
    BY <2>1 DEF Init, HeadInv, HeadRests, Idle
  <2> QED
    BY <2>1, TypeInit, TipInit
<1>2. Inv /\ [NextMove]_vars => Inv'
  BY TypeStep, TipStep, HeadStep DEF AnyNext
<1>3. Inv /\ [NextMove]_vars => [\A m \in Machine : Moved(m)]_vars
  <2> SUFFICES ASSUME Inv, NextMove, NEW m \in Machine, proc[m].pc = "download",
                      proc'[m] # proc[m], head'[m] # head[m]
               PROVE  Moved(m)
    OBVIOUS
  <2>1. Apply(m)
    BY DownloadMoves
  <2>2. /\ head'[m] = proc[m].target /\ proc[m].mode # "fetch"
        /\ head[m] = proc[m].local
        /\ \/ proc[m].local \in {NoManifest} \cup Chain(proc[m].target)
           \/ MergeOf(m, proc[m].target, proc[m].local)
    BY <2>1 DEF Apply, SetHead, HeadInv, HeadRests, TypeInv, TypeOK
  <2> QED
    BY <2>2
<1> QED
  BY <1>1, <1>2, <1>3, PTL DEF SpecMove, NoSnapshotDropped
=============================================================================
