---------------------------- MODULE SyncTipProofs ----------------------------
(***************************************************************************)
(* TypeOK, HeadUsable and KnownManifestsThere, in every specification of   *)
(* Sync, with remote set, lost objects and commits beside a cycle: TypeInv *)
(* is inductive, and TipInv given TypeInv.                                 *)
(***************************************************************************)
EXTENDS SyncInvariants, ChainLemmas

\* All that Sync's specifications allow, in any mixture.
AnyNext == NextMove \/ NextBeside
SpecAny == Init /\ [][AnyNext]_vars

\* What a step of a process does to the other processes, and to the types.
LEMMA GotoType ==
  ASSUME TypeOK, NEW m \in Machine, NEW p \in Process, Goto(m, p)
  PROVE  proc' \in [Machine -> Process] /\ proc'[m] = p
         /\ \A n \in Machine \ {m} : proc'[n] = proc[n]
BY DEF TypeOK, Goto

LEMMA IdleType == Idle \in Process
BY DEF Idle, Process, PC, Name, Manifest, NoManifest

LEMMA UploadType ==
  ASSUME TypeOK, NEW m \in Machine, NEW M \in Manifest, Upload(m, M)
  PROVE  /\ proc' \in [Machine -> Process]
         /\ proc'[m].target = M
         /\ proc'[m].pc = "covered"
         /\ \A n \in Machine \ {m} : proc'[n] = proc[n]
<1> DEFINE p == [Idle EXCEPT !.pc = "covered", !.target = M,
                             !.chain = LocalChain(M, manifests[m])]
<1>1. p \in Process /\ p.target = M /\ p.pc = "covered"
  <2>1. LocalChain(M, manifests[m]) \subseteq Manifest
    BY LocalChainType, ChainType
  <2> QED
    BY <2>1 DEF Idle, Process, PC
<1> HIDE DEF p
<1>2. Goto(m, p)
  BY DEF Upload, p
<1> QED
  BY <1>1, <1>2, GotoType

\* Steps of a process that touch only local files, and steps that touch only the
\* bucket.
LEMMA LocalStep ==
  ASSUME TypeInv, NEW m \in Machine, NEW p \in Process, Goto(m, p),
         p.pc \in Pushing \cup {"download"} => p.target \in Manifest,
         manifests' \in [Machine -> SUBSET Manifest],
         objects' \in [Machine -> SUBSET Blob],
         head' \in [Machine -> Manifest \cup {NoManifest}],
         UNCHANGED << cache, remote, gc, bucket >>
  PROVE  TypeInv'
<1>1. /\ proc' \in [Machine -> Process] /\ proc'[m] = p
      /\ \A n \in Machine \ {m} : proc'[n] = proc[n]
  BY GotoType DEF TypeInv
<1>2. TypeOK'
  BY <1>1 DEF TypeInv, TypeOK, bucket
<1> QED
  BY <1>1, <1>2 DEF TypeInv

LEMMA BucketStep ==
  ASSUME TypeInv, NEW m \in Machine, NEW p \in Process, Goto(m, p),
         p.pc \in Pushing \cup {"download"} => p.target \in Manifest,
         cache' \in [Machine -> Cache],
         remoteBlobs' \in [Bucket -> SUBSET Blob],
         remoteManifests' \in [Bucket -> SUBSET Manifest],
         remoteHead' \in [Bucket -> Manifest \cup {NoManifest}],
         pushLog' \in [Bucket -> SUBSET LogEntry],
         UNCHANGED << manifests, objects, head, remote, gc >>
  PROVE  TypeInv'
<1>1. /\ proc' \in [Machine -> Process] /\ proc'[m] = p
      /\ \A n \in Machine \ {m} : proc'[n] = proc[n]
  BY GotoType DEF TypeInv
<1>2. TypeOK'
  BY <1>1 DEF TypeInv, TypeOK
<1> QED
  BY <1>1, <1>2 DEF TypeInv

LEMMA UploadStarts ==
  ASSUME TypeInv, NEW m \in Machine, NEW M \in Manifest, Upload(m, M),
         head' \in [Machine -> Manifest \cup {NoManifest}],
         UNCHANGED << manifests, objects, cache, remote, gc, bucket >>
  PROVE  TypeInv'
<1>1. /\ proc' \in [Machine -> Process] /\ proc'[m].target = M
      /\ \A n \in Machine \ {m} : proc'[n] = proc[n]
  BY UploadType DEF TypeInv
<1>2. TypeOK'
  BY <1>1 DEF TypeInv, TypeOK, bucket
<1> QED
  BY <1>1, <1>2 DEF TypeInv

\* The local commands and gc.
LEMMA CommandTypes ==
  ASSUME TypeInv, NEW m \in Machine,
         \/ TakeSnapshot(m) \/ GCStep(m)
         \/ \E M \in manifests[m] : Checkout(m, M)
         \/ \E b \in Bucket : RemoteSet(m, b)
         \/ \E blob \in Blob : LoseObject(m, blob)
  PROVE  TypeInv'
<1> USE DEF TypeInv
<1>1. CASE TakeSnapshot(m)
  <2>1. PICK t \in Tree :
          /\ objects' = [objects EXCEPT ![m] = @ \cup t]
          /\ \/ UNCHANGED << manifests, head >>
             \/ LET M == Append(head[m], [tree |-> t, by |-> m])
                IN  /\ manifests' = [manifests EXCEPT ![m] = @ \cup {M}]
                    /\ \/ head' = [head EXCEPT ![m] = M]
                       \/ UNCHANGED head
          /\ UNCHANGED << cache, remote, proc, gc, bucket >>
    BY <1>1 DEF TakeSnapshot, Store, Learn, SetHead
  <2> DEFINE M == Append(head[m], [tree |-> t, by |-> m])
  <2>2. t \subseteq Blob
    BY TreeAssumption
  <2>3. M \in Manifest
    BY <2>2, AppendType DEF TypeOK, Listing
  <2>4. \/ UNCHANGED << manifests, head >>
        \/ /\ manifests' = [manifests EXCEPT ![m] = @ \cup {M}]
           /\ head' = [head EXCEPT ![m] = M] \/ UNCHANGED head
    BY <2>1
  <2> HIDE DEF M
  <2>6. /\ manifests' \in [Machine -> SUBSET Manifest]
        /\ head' \in [Machine -> Manifest \cup {NoManifest}]
    BY <2>3, <2>4 DEF TypeOK
  <2>5. objects' \in [Machine -> SUBSET Blob]
    BY <2>1, <2>2 DEF TypeOK
  <2> QED
    BY <2>1, <2>5, <2>6 DEF TypeOK, bucket
<1>2. ASSUME NEW M \in manifests[m], Checkout(m, M)
      PROVE  TypeInv'
  BY <1>2 DEF Checkout, SetHead, TypeOK, bucket
<1>3. ASSUME NEW b \in Bucket, RemoteSet(m, b)
      PROVE  TypeInv'
  BY <1>3 DEF RemoteSet, TypeOK, bucket, Cache, EmptyCache
<1>4. ASSUME NEW blob \in Blob, LoseObject(m, blob)
      PROVE  TypeInv'
  BY <1>4 DEF LoseObject, TypeOK, bucket
<1>5. CASE GCKeep(m)
  <2>1. TreeOf(head[m]) \subseteq Blob
    BY <1>5, TreeType DEF GCKeep, TypeOK
  <2> QED
    BY <1>5, <2>1 DEF GCKeep, TypeOK, local, bucket, GC, NoGC
<1>6. CASE GCList(m)
  <2>1. gc[m] \in GC /\ objects[m] \subseteq Blob
    BY DEF TypeOK
  <2> DEFINE g == [gc[m] EXCEPT !.pc = "delete",
                     !.delete = (objects[m] \ gc[m].keep) \cap remoteBlobs[remote[m]]]
  <2>2. g \in GC
    BY <2>1 DEF GC
  <2>3. gc' = [gc EXCEPT ![m] = g]
    BY <1>6 DEF GCList, TypeOK
  <2> HIDE DEF g
  <2>4. gc' \in [Machine -> GC]
    BY <2>2, <2>3 DEF TypeOK
  <2>5. UNCHANGED << local, proc, bucket >>
    BY <1>6 DEF GCList
  <2> QED
    BY <2>4, <2>5 DEF TypeOK, local, bucket
<1>7. CASE GCDelete(m)
  <2>1. PICK blob \in gc[m].delete :
          /\ objects' = [objects EXCEPT ![m] = @ \ {blob}]
          /\ gc' = [gc EXCEPT ![m].delete = @ \ {blob}]
    BY <1>7 DEF GCDelete
  <2>2. objects' \in [Machine -> SUBSET Blob]
    BY <2>1 DEF TypeOK
  <2>3. gc' \in [Machine -> GC]
    BY <2>1 DEF TypeOK, GC
  <2> QED
    BY <1>7, <2>2, <2>3 DEF GCDelete, TypeOK, bucket
<1>8. CASE GCEnd(m)
  BY <1>8 DEF GCEnd, TypeOK, local, bucket, GC, NoGC
<1> QED
  BY <1>1, <1>2, <1>3, <1>4, <1>5, <1>6, <1>7, <1>8 DEF GCStep

\* The download half of a cycle or a pull.
LEMMA DownloadTypes ==
  ASSUME TypeInv, NEW m \in Machine,
         \/ \E mode \in {"sync", "pull"} : Compare(m, mode)
         \/ \E M \in manifests[m] \cup remoteManifests[remote[m]] : Fetch(m, M)
         \/ Download(m)
  PROVE  TypeInv'
<1> USE DEF TypeInv
<1>a. proc[m] \in Process /\ head[m] \in Manifest \cup {NoManifest}
  BY DEF TypeOK
<1>b. manifests[m] \subseteq Manifest /\ objects[m] \subseteq Blob /\ remote[m] \in Bucket
  BY DEF TypeOK
<1>c. \A b \in Bucket : /\ remoteManifests[b] \subseteq Manifest
                        /\ remoteHead[b] \in Manifest \cup {NoManifest}
  BY DEF TypeOK
<1>d. /\ manifests \in [Machine -> SUBSET Manifest]
      /\ objects \in [Machine -> SUBSET Blob]
      /\ head \in [Machine -> Manifest \cup {NoManifest}]
  BY DEF TypeOK
<1>1. ASSUME NEW mode \in {"sync", "pull"}, Compare(m, mode)
      PROVE  TypeInv'
  <2> DEFINE R == remoteHead[remote[m]]
             L == head[m]
             p == [Idle EXCEPT !.mode = mode, !.local = L]
             q == [p EXCEPT !.pc = "fetch", !.target = R]
  <2>1. CASE L # NoManifest /\ Upload(m, L)
    BY <1>1, <2>1, <1>a, <1>d, UploadStarts DEF Compare, local
  <2>2. CASE R # NoManifest /\ Goto(m, FetchTip(p, R))
    <3>1. FetchTip(p, R) \in Process /\ FetchTip(p, R).pc = "checkout"
      BY <2>2, <1>a, <1>b, <1>c DEF FetchTip, Idle, Process, PC
    <3> HIDE DEF p, R
    <3> QED
      BY <1>1, <1>d, <2>2, <3>1, LocalStep DEF Compare, local, Pushing
  <2>3. CASE Goto(m, q)
    <3>1. q \in Process /\ q.pc = "fetch"
      BY <1>a, <1>b, <1>c DEF Idle, Process, PC
    <3> HIDE DEF q
    <3> QED
      BY <1>1, <1>d, <2>3, <3>1, LocalStep DEF Compare, local, Pushing
  <2> QED
    BY <1>1, <2>1, <2>2, <2>3 DEF Compare
<1>f. ASSUME NEW M, Arrive(m, M)
      PROVE  manifests' \in [Machine -> SUBSET Manifest]
  <2>1. M \in Manifest
    BY <1>b, <1>c, <1>f DEF Arrive
  <2> QED
    BY <1>d, <1>f, <2>1, ChainType DEF Arrive, Learn
<1>2. CASE FetchManifest(m)
  <2>1. manifests' \in [Machine -> SUBSET Manifest]
    BY <1>2, <1>f DEF FetchManifest
  <2> QED
    BY <1>2, <2>1 DEF FetchManifest, TypeOK, bucket
<1>3. CASE Ahead(m)
  <2>1. proc[m].local \in Manifest
    BY <1>3, <1>a DEF Ahead, IsAncestor, Named, Process, NoManifest
  <2>2. Upload(m, proc[m].local) \/ Goto(m, Idle)
    BY <1>3 DEF Ahead
  <2> QED
    BY <1>3, <1>d, <2>1, <2>2, UploadStarts, LocalStep, IdleType DEF Ahead, local, Idle, Pushing
<1>4. CASE Behind(m)
  <2> DEFINE q == FetchTip(proc[m], proc[m].target)
  <2>1. proc[m].target \in Manifest
    BY <1>4, <1>a DEF Behind, IsAncestor, Named, Process, NoManifest
  <2>2. q \in Process /\ q.pc = "checkout"
    BY <2>1, <1>a DEF FetchTip, Process, PC
  <2> HIDE DEF q
  <2>3. Goto(m, q) /\ UNCHANGED << local, gc, bucket >>
    BY <1>4 DEF Behind, q
  <2> QED
    BY <1>d, <2>2, <2>3, LocalStep DEF local, Pushing
<1>5. CASE Diverged(m)
  <2> DEFINE needed == Files(SinceFork(proc[m].local, proc[m].target, manifests[m]))
             q == [proc[m] EXCEPT !.pc = "fetchBlobs", !.blobs = needed \ objects[m]]
  <2>1. proc[m].target \in Manifest
    BY <1>5, <1>a DEF Diverged, HasCommonAncestor, CommonAncestors, Named, Process, NoManifest
  <2>2. SinceFork(proc[m].local, proc[m].target, manifests[m]) \subseteq Manifest
    BY <2>1, PrefixType DEF SinceFork
  <2>3. needed \subseteq Blob
    BY <2>2, FilesType
  <2> HIDE DEF needed
  <2>4. q \in Process /\ q.pc = "fetchBlobs"
    BY <2>3, <1>a DEF Process, PC
  <2>5. Goto(m, q) /\ UNCHANGED << local, gc, bucket >>
    BY <1>5 DEF Diverged, needed
  <2> HIDE DEF q
  <2> QED
    BY <1>d, <2>4, <2>5, LocalStep DEF local, Pushing
<1>6. CASE DownloadBlob(m)
  <2>1. PICK blob \in proc[m].blobs :
          /\ Store(m, {blob})
          /\ Goto(m, [proc[m] EXCEPT !.blobs = @ \ {blob}])
          /\ proc[m].pc \in {"fetchBlobs", "download"}
          /\ UNCHANGED << manifests, head, cache, remote, gc, bucket >>
    BY <1>6 DEF DownloadBlob
  <2> DEFINE q == [proc[m] EXCEPT !.blobs = @ \ {blob}]
  <2>2. q \in Process /\ q.pc = proc[m].pc /\ q.target = proc[m].target /\ blob \in Blob
    BY <1>a DEF Process
  <2>3. objects' \in [Machine -> SUBSET Blob]
    BY <1>d, <2>1, <2>2 DEF Store
  <2>4. Goto(m, q) /\ (q.pc \in Pushing \cup {"download"} => q.target \in Manifest)
    BY <2>1, <2>2 DEF Pushing
  <2> HIDE DEF q
  <2> QED
    BY <1>d, <2>1, <2>2, <2>3, <2>4, LocalStep
<1>7. CASE Merge(m)
  <2>1. PICK t \in Tree :
          LET M == Append(proc[m].target, [tree |-> t, by |-> m])
              mode == IF proc[m].mode = "sync" THEN "merge" ELSE "pull"
          IN  Learn(m, {M}) /\ Goto(m, FetchTip([proc[m] EXCEPT !.mode = mode], M))
    BY <1>7 DEF Merge
  <2> DEFINE M == Append(proc[m].target, [tree |-> t, by |-> m])
             mode == IF proc[m].mode = "sync" THEN "merge" ELSE "pull"
             q == FetchTip([proc[m] EXCEPT !.mode = mode], M)
  <2>2. t \subseteq Blob
    BY TreeAssumption
  <2>3. M \in Manifest
    BY <1>a, <2>2, AppendType DEF Process, Listing
  <2>4. Learn(m, {M}) /\ Goto(m, q)
    BY <2>1
  <2> HIDE DEF M
  <2>5. q \in Process /\ q.pc = "checkout"
    BY <1>a, <2>3 DEF FetchTip, Process, PC
  <2>6. manifests' \in [Machine -> SUBSET Manifest]
    BY <1>d, <2>3, <2>4 DEF Learn
  <2> HIDE DEF q
  <2> QED
    BY <1>7, <1>d, <2>4, <2>5, <2>6, LocalStep DEF Merge, Pushing
<1>8. CASE FetchTarget(m)
  <2>1. PICK M \in remoteManifests[remote[m]] :
          /\ Arrive(m, M)
          /\ Goto(m, [proc[m] EXCEPT !.chain = @ \cup {M}])
    BY <1>8 DEF FetchTarget
  <2> DEFINE q == [proc[m] EXCEPT !.chain = @ \cup {M}]
  <2>2. M \in Manifest
    BY <1>b, <1>c
  <2>3. q \in Process /\ q.pc = proc[m].pc
    BY <1>a, <2>2 DEF Process
  <2>4. manifests' \in [Machine -> SUBSET Manifest]
    BY <1>f, <2>1
  <2>5. Goto(m, q) /\ q.pc = "checkout"
    BY <1>8, <2>1, <2>3 DEF FetchTarget, At
  <2> HIDE DEF q
  <2> QED
    BY <1>8, <1>d, <2>3, <2>4, <2>5, LocalStep DEF FetchTarget, Pushing
<1>9. CASE StartDownload(m)
  <2> DEFINE needed == Files(proc[m].chain) \ objects[m]
             q == [proc[m] EXCEPT !.pc = "download", !.blobs = needed]
  <2>1. proc[m].chain \subseteq Manifest
    BY <1>a DEF Process
  <2>2. needed \subseteq Blob
    BY <2>1, FilesType
  <2> HIDE DEF needed
  <2>3. q \in Process /\ q.target \in Manifest
    BY <1>9, <1>a, <1>b, <2>2 DEF StartDownload, Process, PC
  <2>4. Goto(m, q) /\ UNCHANGED << local, gc, bucket >>
    BY <1>9 DEF StartDownload, needed
  <2> HIDE DEF q
  <2> QED
    BY <1>d, <2>3, <2>4, LocalStep DEF local, Pushing
<1>10. CASE Apply(m)
  <2>1. proc[m].target \in Manifest
    BY <1>10 DEF Apply, At
  <2>2. head' \in [Machine -> Manifest \cup {NoManifest}]
    BY <1>10, <1>a, <1>d DEF Apply, SetHead, Process
  <2>3. Upload(m, proc[m].target) \/ Goto(m, Idle)
    BY <1>10 DEF Apply
  <2> QED
    BY <1>10, <1>d, <2>1, <2>2, <2>3, UploadStarts, LocalStep, IdleType DEF Apply, Idle, Pushing
<1>11. ASSUME NEW M \in manifests[m] \cup remoteManifests[remote[m]], Fetch(m, M)
       PROVE  TypeInv'
  <2> DEFINE q == FetchTip([Idle EXCEPT !.mode = "fetch"], M)
  <2>1. M \in Manifest
    BY <1>b, <1>c
  <2>2. q \in Process /\ q.pc = "checkout"
    BY <2>1 DEF FetchTip, Idle, Process, PC, NoManifest
  <2>3. Goto(m, q) /\ UNCHANGED << local, gc, bucket >>
    BY <1>11 DEF Fetch
  <2> HIDE DEF q
  <2> QED
    BY <1>d, <2>2, <2>3, LocalStep DEF local, Pushing
<1>12. CASE EndFetch(m)
  BY <1>12, <1>d, IdleType, LocalStep DEF EndFetch, local, Idle, Pushing
<1> QED
  BY <1>1, <1>2, <1>3, <1>4, <1>5, <1>6, <1>7, <1>8, <1>9, <1>10, <1>11, <1>12 DEF Download

\* The upload.
LEMMA UploadTypes ==
  ASSUME TypeInv, NEW m \in Machine,
         \/ \E M \in manifests[m], force \in BOOLEAN : Push(m, M, force)
         \/ UploadStep(m) \/ Abort(m)
  PROVE  TypeInv'
<1> USE DEF TypeInv
<1>a. proc[m] \in Process /\ (proc[m].pc \in Pushing => proc[m].target \in Manifest)
  BY DEF TypeOK
<1>b. manifests[m] \subseteq Manifest /\ remote[m] \in Bucket /\ cache[m] \in Cache
  BY DEF TypeOK
<1>c. \A b \in Bucket : /\ remoteHead[b] \in Manifest \cup {NoManifest}
                        /\ remoteManifests[b] \subseteq Manifest
                        /\ remoteBlobs[b] \subseteq Blob
                        /\ pushLog[b] \subseteq LogEntry
  BY DEF TypeOK
<1>d. /\ cache \in [Machine -> Cache]
      /\ remoteBlobs \in [Bucket -> SUBSET Blob]
      /\ remoteManifests \in [Bucket -> SUBSET Manifest]
      /\ remoteHead \in [Bucket -> Manifest \cup {NoManifest}]
      /\ pushLog \in [Bucket -> SUBSET LogEntry]
  BY DEF TypeOK
<1>e. ASSUME NEW q \in Process, Goto(m, q), q.pc \in Pushing => q.target \in Manifest,
             q.pc # "download", UNCHANGED << local, gc, bucket >>
      PROVE  TypeInv'
  BY <1>d, <1>e, BucketStep DEF local, bucket
<1>1. ASSUME NEW M \in manifests[m], NEW force \in BOOLEAN, Push(m, M, force)
      PROVE  TypeInv'
  <2>1. head' \in [Machine -> Manifest \cup {NoManifest}]
    BY <1>1 DEF Push, TypeOK, local
  <2> QED
    BY <1>1, <1>b, <2>1, UploadStarts DEF Push, local
<1>2. CASE ReadCovered(m)
  <2> DEFINE R == remoteHead[remote[m]]
             covered == IF R = NoManifest \/ R \notin manifests[m] THEN {}
                        ELSE TreeOf(R) \cup LocalChain(R, manifests[m])
             q == [proc[m] EXCEPT !.pc = "known", !.covered = covered]
  <2>1. covered \subseteq Name
    BY <1>b, <1>c, TreeType, LocalChainType DEF Name
  <2>2. Goto(m, q) /\ UNCHANGED << local, gc, bucket >>
    BY <1>2 DEF ReadCovered
  <2> HIDE DEF covered
  <2>3. q \in Process /\ q.pc = "known" /\ q.target = proc[m].target
    BY <1>a, <2>1 DEF Process, PC
  <2> HIDE DEF q
  <2> QED
    BY <1>2, <1>a, <1>e, <2>2, <2>3 DEF ReadCovered, At, Pushing
<1>3. CASE ReadKnown(m)
  <2>1. PICK cursor \in {cache[m].cursor} \cup {e.key : e \in NewEntries(m)} :
          LET blobs == Files(proc[m].chain) \ KnownNames(m)
              mans  == proc[m].chain \ KnownNames(m)
          IN  Goto(m, [proc[m] EXCEPT !.pc = "upload", !.known = KnownNames(m),
                                      !.cursor = cursor,
                                      !.novel = blobs \cup mans,
                                      !.blobs = blobs, !.mans = mans])
    BY <1>3 DEF ReadKnown
  <2> DEFINE blobs == Files(proc[m].chain) \ KnownNames(m)
             mans  == proc[m].chain \ KnownNames(m)
             q == [proc[m] EXCEPT !.pc = "upload", !.known = KnownNames(m),
                                  !.cursor = cursor, !.novel = blobs \cup mans,
                                  !.blobs = blobs, !.mans = mans]
  <2>2. cursor \in Nat
    BY <1>b, <1>c DEF NewEntries, Cache, LogEntry
  <2>3. KnownNames(m) \subseteq Name
    BY <1>b, <1>c DEF KnownNames, NewEntries, Cache, LogEntry, Name
  <2>4. proc[m].chain \subseteq Manifest
    BY <1>a DEF Process
  <2>5. blobs \subseteq Blob /\ mans \subseteq Manifest /\ blobs \cup mans \subseteq Name
    BY <2>4, FilesType DEF Name
  <2>6. Goto(m, q) /\ UNCHANGED << local, gc, bucket >>
    BY <1>3, <2>1 DEF ReadKnown
  <2> HIDE DEF blobs, mans
  <2>7. q \in Process /\ q.pc = "upload" /\ q.target = proc[m].target
    BY <1>a, <2>2, <2>3, <2>5 DEF Process, PC
  <2> HIDE DEF q
  <2> QED
    BY <1>3, <1>a, <1>e, <2>6, <2>7 DEF ReadKnown, At, Pushing
<1>4. ASSUME NEW blob \in proc[m].blobs, UNCHANGED remoteBlobs \/ PutBlob(m, blob),
             Goto(m, [proc[m] EXCEPT !.blobs = @ \ {blob}]), proc[m].pc \in {"upload", "ensure"},
             UNCHANGED << local, gc, remoteManifests, remoteHead, pushLog >>
      PROVE  TypeInv'
  <2> DEFINE q == [proc[m] EXCEPT !.blobs = @ \ {blob}]
  <2>1. q \in Process /\ q.pc = proc[m].pc /\ q.target = proc[m].target /\ blob \in Blob
    BY <1>a DEF Process
  <2>2. remoteBlobs' \in [Bucket -> SUBSET Blob]
    BY <1>4, <1>b, <1>d, <2>1 DEF PutBlob
  <2>3. Goto(m, q)
    BY <1>4
  <2> HIDE DEF q
  <2> QED
    BY <1>4, <1>a, <1>d, <2>1, <2>2, <2>3, BucketStep DEF local, Pushing
<1>5. ASSUME NEW M \in proc[m].mans, PutManifest(m, M),
             Goto(m, [proc[m] EXCEPT !.mans = @ \ {M}]), proc[m].pc \in {"upload", "ensure"},
             UNCHANGED << local, gc, remoteBlobs, remoteHead, pushLog >>
      PROVE  TypeInv'
  <2> DEFINE q == [proc[m] EXCEPT !.mans = @ \ {M}]
  <2>1. q \in Process /\ q.pc = proc[m].pc /\ q.target = proc[m].target /\ M \in Manifest
    BY <1>a DEF Process
  <2>2. remoteManifests' \in [Bucket -> SUBSET Manifest]
    BY <1>5, <1>b, <1>d, <2>1 DEF PutManifest
  <2>3. Goto(m, q)
    BY <1>5
  <2> HIDE DEF q
  <2> QED
    BY <1>5, <1>a, <1>d, <2>1, <2>2, <2>3, BucketStep DEF local, Pushing
<1>6. CASE UploadBlob(m) \/ EnsureBlob(m)
  BY <1>6, <1>4 DEF UploadBlob, EnsureBlob, At
<1>7. CASE UploadManifest(m) \/ EnsureManifest(m)
  BY <1>7, <1>5 DEF UploadManifest, EnsureManifest, At
<1>8. CASE StartEnsure(m)
  <2> DEFINE unchecked == proc[m].known \ proc[m].covered
             q == [proc[m] EXCEPT !.pc = "ensure",
                                  !.blobs = TreeOf(proc[m].target) \cap unchecked,
                                  !.mans = proc[m].chain \cap unchecked]
  <2>1. proc[m].target \in Manifest
    BY <1>8, <1>a DEF StartEnsure, At, Pushing
  <2>2. TreeOf(proc[m].target) \cap unchecked \subseteq Blob
    BY <2>1, TreeType
  <2>3. Goto(m, q) /\ UNCHANGED << local, gc, bucket >>
    BY <1>8 DEF StartEnsure
  <2> HIDE DEF unchecked
  <2>4. q \in Process /\ q.pc = "ensure" /\ q.target = proc[m].target
    BY <1>a, <2>2 DEF Process, PC
  <2> HIDE DEF q
  <2> QED
    BY <1>e, <2>1, <2>3, <2>4
<1>9. CASE WriteRemoteHead(m)
  <2> DEFINE q == [proc[m] EXCEPT !.pc = IF proc[m].novel = {} THEN "cache" ELSE "log"]
  <2>1. proc[m].target \in Manifest
    BY <1>9, <1>a DEF WriteRemoteHead, At, Pushing
  <2>2. Goto(m, q)
    BY <1>9 DEF WriteRemoteHead
  <2>3. q \in Process /\ q.pc \in {"cache", "log"} /\ q.target = proc[m].target
    BY <1>a DEF Process, PC
  <2>4. remoteHead' \in [Bucket -> Manifest \cup {NoManifest}]
    BY <1>9, <1>b, <1>d, <2>1 DEF WriteRemoteHead
  <2> HIDE DEF q
  <2> QED
    BY <1>9, <1>d, <2>1, <2>2, <2>3, <2>4, BucketStep DEF WriteRemoteHead, local
<1>10. CASE WriteLog(m)
  <2>1. PICK k \in 1 .. MaxLogKey :
          /\ pushLog' = [pushLog EXCEPT ![remote[m]] =
                           @ \cup {[key |-> k, names |-> proc[m].novel]}]
          /\ Goto(m, [proc[m] EXCEPT !.pc = "cache", !.cursor = k,
                                     !.known = @ \cup proc[m].novel])
    BY <1>10 DEF WriteLog
  <2> DEFINE q == [proc[m] EXCEPT !.pc = "cache", !.cursor = k,
                                  !.known = @ \cup proc[m].novel]
  <2>2. k \in Nat
    BY BoundAssumption
  <2>3. q \in Process /\ q.pc = "cache" /\ q.target = proc[m].target
    BY <1>a, <2>2 DEF Process, PC
  <2>4. [key |-> k, names |-> proc[m].novel] \in LogEntry
    BY <1>a, <2>2 DEF Process, LogEntry
  <2>5. pushLog' \in [Bucket -> SUBSET LogEntry]
    BY <1>b, <1>d, <2>1, <2>4
  <2>6. Goto(m, q)
    BY <2>1
  <2>7. q.target \in Manifest
    BY <1>10, <1>a, <2>3 DEF WriteLog, At, Pushing
  <2> HIDE DEF q
  <2> QED
    BY <1>10, <1>d, <2>3, <2>5, <2>6, <2>7, BucketStep DEF WriteLog, local
<1>11. CASE WriteCache(m)
  <2>1. [cursor |-> proc[m].cursor, known |-> proc[m].known] \in Cache
    BY <1>a DEF Process, Cache
  <2>2. cache' \in [Machine -> Cache]
    BY <1>11, <1>b, <1>d, <2>1 DEF WriteCache
  <2>3. Goto(m, Idle) /\ Idle.pc = "idle"
    BY <1>11 DEF WriteCache, Idle
  <2> QED
    BY <1>11, <1>d, <2>2, <2>3, IdleType, BucketStep DEF WriteCache, bucket, Pushing
<1>12. CASE Abort(m)
  <2>1. Goto(m, Idle) /\ Idle.pc = "idle"
    BY <1>12 DEF Abort, Idle
  <2> QED
    BY <1>12, <1>e, <2>1, IdleType DEF Abort, Pushing
<1> QED
  BY <1>1, <1>2, <1>3, <1>6, <1>7, <1>8, <1>9, <1>10, <1>11, <1>12 DEF UploadStep

LEMMA TypeStep ==
  ASSUME TypeInv, [AnyNext]_vars
  PROVE  TypeInv'
<1>1. CASE UNCHANGED vars
  BY <1>1 DEF vars, local, bucket, TypeInv, TypeOK
<1>2. ASSUME NEW m \in Machine,
             Begin(m) \/ Download(m) \/ UploadStep(m) \/ GCStep(m) \/ Abort(m)
      PROVE  TypeInv'
  BY <1>2, CommandTypes, DownloadTypes, UploadTypes DEF Begin, Command, Snapshot
<1>3. CASE Next
  BY <1>2, <1>3 DEF Next
<1>4. CASE \E m \in Machine, blob \in Blob : LoseObject(m, blob)
  BY <1>4, CommandTypes
<1>5. CASE \E m \in Machine, b \in Bucket : RemoteSet(m, b)
  BY <1>5, CommandTypes
<1>6. CASE \E m \in Machine : CommitBeside(m)
  BY <1>6, CommandTypes DEF CommitBeside
<1> QED
  BY <1>1, <1>3, <1>4, <1>5, <1>6 DEF AnyNext, NextMove, NextLossy, NextBeside

LEMMA TypeInit ==
  ASSUME Init
  PROVE  TypeInv
BY IdleType DEF Init, TypeInv, TypeOK, Pushing, Idle, NoGC, GC, EmptyCache, Cache

\* Every variable of Sync keeps its type, whichever commands run, wherever they
\* are cut, whatever gets lost and whatever is committed beside a cycle.
THEOREM Types == SpecAny => []TypeOK
<1>1. Init => TypeInv
  BY TypeInit
<1>2. TypeInv /\ [AnyNext]_vars => TypeInv'
  BY TypeStep
<1>3. TypeInv => TypeOK
  BY DEF TypeInv
<1> QED
  BY <1>1, <1>2, <1>3, PTL DEF SpecAny

-----------------------------------------------------------------------------
(***************************************************************************)
(* The tip of every push.                                                  *)
(***************************************************************************)
Sound(m) == Local(m) /\ Beliefs(m) /\ Tip(m)

BucketsGrow ==
  \A b \in Bucket : /\ remoteBlobs[b] \subseteq remoteBlobs'[b]
                    /\ remoteManifests[b] \subseteq remoteManifests'[b]

\* A step of machine m leaves the others alone.
OnlyOf(m) ==
  \A n \in Machine \ {m} :
    /\ proc'[n] = proc[n] /\ head'[n] = head[n] /\ cache'[n] = cache[n]
    /\ remote'[n] = remote[n] /\ manifests'[n] = manifests[n]

\* What a machine believes and has done stays true when a bucket grows and when
\* it learns manifests.
LEMMA Bystander ==
  ASSUME TypeInv, NEW n \in Machine, Sound(n), BucketsGrow,
         proc'[n] = proc[n], head'[n] = head[n], cache'[n] = cache[n],
         remote'[n] = remote[n], manifests[n] \subseteq manifests'[n]
  PROVE  Sound(n)'
<1>1. remote[n] \in Bucket
  BY DEF TypeInv, TypeOK
<1>2. BlobsThere(n) \subseteq BlobsThere(n)' /\ ManifestsThere(n) \subseteq ManifestsThere(n)'
  BY <1>1 DEF BucketsGrow, BlobsThere, ManifestsThere
<1>3. Local(n)'
  BY DEF Sound, Local
<1>4. Beliefs(n)'
  BY <1>2 DEF Sound, Beliefs, At
<1>5. Tip(n)'
  BY <1>2 DEF Sound, Tip
<1> QED
  BY <1>3, <1>4, <1>5 DEF Sound

LEMMA WholeStep ==
  ASSUME TypeInv, TipInv, NEW m \in Machine, OnlyOf(m), BucketsGrow,
         HeadUsable', LogTrue', Sound(m)'
  PROVE  TipInv'
<1>1. \A n \in Machine \ {m} : Sound(n)'
  BY Bystander DEF TipInv, OnlyOf, Sound
<1> QED
  BY <1>1 DEF TipInv, Sound

\* A step that writes neither HEAD nor the push-log of a bucket.
LEMMA StepOf ==
  ASSUME TypeInv, TipInv, NEW m \in Machine, OnlyOf(m), BucketsGrow,
         UNCHANGED << remoteHead, pushLog >>, Sound(m)'
  PROVE  TipInv'
<1>1. HeadUsable'
  BY DEF TipInv, HeadUsable, TipThere, BucketsGrow
<1>2. LogTrue'
  BY DEF TipInv, LogTrue, BucketsGrow
<1> QED
  BY <1>1, <1>2, WholeStep

\* A step of a process that is not pushing.
LEMMA WorkingStep ==
  ASSUME TypeInv, TipInv, NEW m \in Machine, NEW p \in Process, Goto(m, p),
         OnlyOf(m), UNCHANGED << cache, remote, bucket >>,
         manifests[m] \subseteq manifests'[m],
         head'[m] \in manifests'[m] \cup {NoManifest},
         p.local \in manifests'[m] \cup {NoManifest},
         p.pc \in {"fetchBlobs", "download"} => p.target \in manifests'[m],
         p.pc \notin Pushing, p.pc = "idle" => p = Idle,
         p.known \subseteq proc[m].known, p.covered \subseteq proc[m].covered
  PROVE  TipInv'
<1>1. proc'[m] = p /\ BucketsGrow /\ Sound(m)
  BY GotoType DEF TypeInv, BucketsGrow, bucket, TipInv, Sound
<1>2. ManifestsThere(m)' = ManifestsThere(m) /\ BlobsThere(m)' = BlobsThere(m)
  BY DEF ManifestsThere, BlobsThere, bucket
<1>3. Local(m)'
  BY <1>1 DEF Local
<1>4. Beliefs(m)'
  BY <1>1, <1>2 DEF Sound, Beliefs, At, Idle
<1>5. Tip(m)'
  BY <1>1 DEF Tip, Pushing
<1> QED
  BY <1>1, <1>3, <1>4, <1>5, StepOf DEF Sound, bucket

\* A push begins with a local manifest, which is in the chain it walks.
LEMMA PushBegins ==
  ASSUME TypeInv, TipInv, NEW m \in Machine, NEW M \in manifests[m], Upload(m, M),
         OnlyOf(m), UNCHANGED << manifests, cache, remote, bucket >>,
         head'[m] \in manifests[m] \cup {NoManifest}
  PROVE  TipInv'
<1> DEFINE p == [Idle EXCEPT !.pc = "covered", !.target = M,
                             !.chain = LocalChain(M, manifests[m])]
<1>1. M \in Manifest
  BY DEF TypeInv, TypeOK
<1>2. M \in LocalChain(M, manifests[m])
  <2>1. LocalFrom(M, Len(M), manifests[m])
    BY <1>1, PrefixWhole DEF LocalFrom
  <2> QED
    BY <1>1, <2>1, PrefixWhole DEF LocalChain
<1>3. proc'[m] = p /\ BucketsGrow /\ Sound(m)
  BY DEF Upload, Goto, TypeInv, TypeOK, BucketsGrow, bucket, TipInv, Sound
<1>4. p.pc = "covered" /\ p.target \in p.chain /\ p.local = NoManifest
      /\ p.known = {} /\ p.covered = {}
  BY <1>2 DEF Idle
<1> HIDE DEF p
<1>5. ManifestsThere(m)' = ManifestsThere(m) /\ BlobsThere(m)' = BlobsThere(m)
  BY DEF ManifestsThere, BlobsThere, bucket
<1>6. Local(m)'
  BY <1>3, <1>4 DEF Local
<1>7. Beliefs(m)'
  BY <1>3, <1>4, <1>5 DEF Sound, Beliefs, At
<1>8. Tip(m)'
  BY <1>3, <1>4 DEF Tip
<1> QED
  BY <1>3, <1>6, <1>7, <1>8, StepOf DEF Sound, bucket

\* The local commands and gc: HEAD only moves to a local manifest, and only an
\* idle machine, which believes nothing, turns to another bucket.
LEMMA CommandSound ==
  ASSUME TypeInv, TipInv, NEW m \in Machine,
         \/ TakeSnapshot(m) \/ GCStep(m)
         \/ \E M \in manifests[m] : Checkout(m, M)
         \/ \E b \in Bucket : RemoteSet(m, b)
         \/ \E blob \in Blob : LoseObject(m, blob)
  PROVE  TipInv'
<1>a. Sound(m) /\ remote[m] \in Bucket
  BY DEF TypeInv, TypeOK, TipInv, Sound
<1>b. ASSUME OnlyOf(m), UNCHANGED << cache, remote, proc, bucket >>,
             manifests[m] \subseteq manifests'[m],
             head'[m] \in manifests'[m] \cup {NoManifest}
      PROVE  TipInv'
  <2>1. Local(m)'
    BY <1>a, <1>b DEF Sound, Local
  <2>2. Beliefs(m)' /\ Tip(m)'
    BY <1>a, <1>b DEF Sound, Beliefs, Tip, At, BlobsThere, ManifestsThere, bucket
  <2> QED
    BY <1>b, <2>1, <2>2, StepOf DEF Sound, BucketsGrow, bucket
<1>1. CASE TakeSnapshot(m)
  <2>1. PICK t \in Tree :
          \/ UNCHANGED << manifests, head >>
          \/ LET M == Append(head[m], [tree |-> t, by |-> m])
             IN  /\ manifests' = [manifests EXCEPT ![m] = @ \cup {M}]
                 /\ \/ head' = [head EXCEPT ![m] = M]
                    \/ UNCHANGED head
    BY <1>1 DEF TakeSnapshot, Learn, SetHead
  <2> DEFINE M == Append(head[m], [tree |-> t, by |-> m])
  <2>2. \/ UNCHANGED << manifests, head >>
        \/ /\ manifests' = [manifests EXCEPT ![m] = @ \cup {M}]
           /\ head' = [head EXCEPT ![m] = M] \/ UNCHANGED head
    BY <2>1
  <2> HIDE DEF M
  <2>3. manifests[m] \subseteq manifests'[m] /\ head'[m] \in manifests'[m] \cup {NoManifest}
    BY <1>a, <2>2 DEF TypeInv, TypeOK, Sound, Local
  <2>4. UNCHANGED << cache, remote, proc, bucket >>
    BY <1>1 DEF TakeSnapshot
  <2>5. OnlyOf(m)
    BY <2>2, <2>4 DEF OnlyOf, TypeInv, TypeOK
  <2> QED
    BY <1>b, <2>3, <2>4, <2>5
<1>2. ASSUME NEW M \in manifests[m], Checkout(m, M)
      PROVE  TipInv'
  BY <1>2, <1>b DEF Checkout, SetHead, TypeInv, TypeOK, OnlyOf
<1>3. ASSUME NEW b \in Bucket, RemoteSet(m, b)
      PROVE  TipInv'
  <2>1. cache'[m] = EmptyCache /\ UNCHANGED << manifests, head, proc, bucket >>
    BY <1>3 DEF RemoteSet, TypeInv, TypeOK
  <2>2. proc[m].pc = "idle" /\ proc[m].known = {} /\ proc[m].covered = {}
    BY <1>a, <1>3 DEF RemoteSet, Sound, Beliefs, At
  <2>3. Local(m)' /\ Beliefs(m)' /\ Tip(m)'
    BY <1>a, <2>1, <2>2 DEF Sound, Local, Beliefs, Tip, EmptyCache, At
  <2>4. OnlyOf(m)
    BY <1>3 DEF RemoteSet, OnlyOf, TypeInv, TypeOK
  <2> QED
    BY <2>1, <2>3, <2>4, StepOf DEF Sound, BucketsGrow, bucket
<1>4. ASSUME UNCHANGED << manifests, head, cache, remote, proc, bucket >>
      PROVE  TipInv'
  BY <1>4, <1>a, <1>b DEF OnlyOf, Sound, Local
<1>5. ASSUME NEW blob \in Blob, LoseObject(m, blob)
      PROVE  TipInv'
  BY <1>5, <1>4 DEF LoseObject
<1>6. CASE GCStep(m)
  BY <1>6, <1>4 DEF GCStep, GCKeep, GCList, GCDelete, GCEnd, local
<1> QED
  BY <1>1, <1>2, <1>3, <1>5, <1>6

\* The download half: what it fetches it fetches before it uses it.
LEMMA DownloadSound ==
  ASSUME TypeInv, TipInv, NEW m \in Machine,
         \/ \E mode \in {"sync", "pull"} : Compare(m, mode)
         \/ \E M \in manifests[m] \cup remoteManifests[remote[m]] : Fetch(m, M)
         \/ Download(m)
  PROVE  TipInv'
<1>a. proc[m] \in Process /\ Sound(m) /\ manifests[m] \subseteq Manifest
  BY DEF TypeInv, TypeOK, TipInv, Sound
<1>b. /\ head[m] \in manifests[m] \cup {NoManifest}
      /\ proc[m].local \in manifests[m] \cup {NoManifest}
      /\ proc[m].pc \in {"fetchBlobs", "download"} => proc[m].target \in manifests[m]
  BY <1>a DEF Sound, Local
<1>c. \A p : Goto(m, p) => \A n \in Machine \ {m} : proc'[n] = proc[n]
  BY DEF Goto, TypeInv, TypeOK
<1>d. ASSUME NEW p, Goto(m, p), UNCHANGED << manifests, head, cache, remote >>
      PROVE  OnlyOf(m)
  BY <1>c, <1>d DEF OnlyOf
<1>e. ASSUME NEW M \in manifests[m], Upload(m, M), UNCHANGED << local, bucket >>
      PROVE  TipInv'
  BY <1>b, <1>d, <1>e, PushBegins DEF Upload, local
<1>f. ASSUME NEW p \in Process, Goto(m, p), UNCHANGED << local, bucket >>,
             p.local \in manifests[m] \cup {NoManifest},
             p.pc \in {"fetchBlobs", "download"} => p.target \in manifests[m],
             p.pc \notin Pushing, p.pc = "idle" => p = Idle,
             p.known \subseteq proc[m].known, p.covered \subseteq proc[m].covered
      PROVE  TipInv'
  BY <1>b, <1>d, <1>f, WorkingStep DEF local
<1>g. ASSUME NEW p \in Process, NEW S, Goto(m, p), Learn(m, S),
             UNCHANGED << head, cache, remote, bucket >>,
             p.local = proc[m].local, p.pc \in {"fetch", "checkout"},
             p.known = proc[m].known, p.covered = proc[m].covered
      PROVE  TipInv'
  <2>1. manifests[m] \subseteq manifests'[m]
    BY <1>g DEF Learn, TypeInv, TypeOK
  <2>2. OnlyOf(m)
    BY <1>c, <1>g DEF OnlyOf, Learn, TypeInv, TypeOK
  <2> QED
    BY <1>b, <1>g, <2>1, <2>2, WorkingStep DEF Pushing
<1>h. /\ Idle.local = NoManifest /\ Idle.pc = "idle"
      /\ Idle.known = {} /\ Idle.covered = {}
  BY DEF Idle
<1>1. ASSUME NEW mode \in {"sync", "pull"}, Compare(m, mode)
      PROVE  TipInv'
  <2> DEFINE R == remoteHead[remote[m]]
             L == head[m]
             p == [Idle EXCEPT !.mode = mode, !.local = L]
             q == [p EXCEPT !.pc = "fetch", !.target = R]
             r == FetchTip(p, R)
  <2>1. CASE L # NoManifest /\ Upload(m, L)
    BY <1>1, <1>b, <1>e, <2>1 DEF Compare
  <2>2. R \in Manifest \cup {NoManifest} /\ L \in Manifest \cup {NoManifest}
    BY DEF TypeInv, TypeOK
  <2>3. CASE R # NoManifest /\ Goto(m, r)
    <3>1. /\ r \in Process /\ r.pc = "checkout" /\ r.local = L
          /\ r.known = {} /\ r.covered = {}
      BY <2>2, <2>3 DEF FetchTip, Idle, Process, PC
    <3> HIDE DEF r
    <3> QED
      BY <1>1, <1>b, <1>f, <2>3, <3>1 DEF Compare, Pushing
  <2>4. CASE Goto(m, q)
    <3>1. /\ q \in Process /\ q.pc = "fetch" /\ q.local = L
          /\ q.known = {} /\ q.covered = {}
      BY <2>2 DEF Idle, Process, PC
    <3> HIDE DEF q
    <3> QED
      BY <1>1, <1>b, <1>f, <2>4, <3>1 DEF Compare, Pushing
  <2> QED
    BY <1>1, <2>1, <2>3, <2>4 DEF Compare
<1>2. CASE FetchManifest(m)
  <2>1. PICK S : Learn(m, S) /\ UNCHANGED << head, cache, remote, proc, bucket >>
    BY <1>2 DEF FetchManifest, Arrive
  <2>2. Goto(m, proc[m])
    BY <2>1 DEF Goto, TypeInv, TypeOK
  <2> QED
    BY <1>2, <1>a, <1>g, <2>1, <2>2 DEF FetchManifest, At
<1>3. CASE Ahead(m)
  <2>1. proc[m].local \in manifests[m]
    BY <1>3, <1>b DEF Ahead, IsAncestor, Named, NoManifest
  <2>2. Upload(m, proc[m].local) \/ Goto(m, Idle)
    BY <1>3 DEF Ahead
  <2>3. Idle.local = NoManifest /\ Idle.pc = "idle" /\ Idle.known = {} /\ Idle.covered = {}
    BY DEF Idle
  <2> QED
    BY <1>3, <1>e, <1>f, <2>1, <2>2, <2>3, IdleType DEF Ahead, Pushing
<1>4. CASE Behind(m)
  <2> DEFINE q == FetchTip(proc[m], proc[m].target)
  <2>1. proc[m].target \in Manifest
    BY <1>4, <1>a DEF Behind, IsAncestor, Named, Process, NoManifest
  <2>2. /\ q \in Process /\ q.pc = "checkout" /\ q.local = proc[m].local
        /\ q.known = proc[m].known /\ q.covered = proc[m].covered
    BY <2>1, <1>a DEF FetchTip, Process, PC
  <2> HIDE DEF q
  <2>3. Goto(m, q) /\ UNCHANGED << local, gc, bucket >>
    BY <1>4 DEF Behind, q
  <2> QED
    BY <1>b, <1>f, <2>2, <2>3 DEF Pushing
<1>5. CASE Diverged(m)
  <2> DEFINE T == proc[m].target
             needed == Files(SinceFork(proc[m].local, T, manifests[m]))
             q == [proc[m] EXCEPT !.pc = "fetchBlobs", !.blobs = needed \ objects[m]]
  <2>1. T \in Manifest
    BY <1>5, <1>a DEF Diverged, HasCommonAncestor, CommonAncestors, Named, Process, NoManifest
  <2>2. T \in manifests[m]
    <3>1. Len(T) \notin MissingFrom(T, manifests[m])
      BY <1>5 DEF Diverged, Fetched
    <3> QED
      BY <2>1, <3>1, PrefixWhole DEF MissingFrom
  <2>3. needed \subseteq Blob
    <3>1. SinceFork(proc[m].local, T, manifests[m]) \subseteq Manifest
      BY <2>1, PrefixType DEF SinceFork
    <3> QED
      BY <3>1, FilesType
  <2> HIDE DEF needed
  <2>4. /\ q \in Process /\ q.pc = "fetchBlobs" /\ q.local = proc[m].local
        /\ q.target = T /\ q.known = proc[m].known /\ q.covered = proc[m].covered
    BY <2>3, <1>a DEF Process, PC
  <2>5. Goto(m, q) /\ UNCHANGED << local, gc, bucket >>
    BY <1>5 DEF Diverged, needed
  <2> HIDE DEF q
  <2> QED
    BY <1>b, <1>f, <2>2, <2>4, <2>5 DEF Pushing
<1>6. CASE DownloadBlob(m)
  <2>1. PICK blob \in proc[m].blobs : Goto(m, [proc[m] EXCEPT !.blobs = @ \ {blob}])
    BY <1>6 DEF DownloadBlob
  <2> DEFINE q == [proc[m] EXCEPT !.blobs = @ \ {blob}]
  <2>2. /\ q \in Process /\ q.pc = proc[m].pc /\ q.target = proc[m].target
        /\ q.local = proc[m].local /\ q.known = proc[m].known /\ q.covered = proc[m].covered
    BY <1>a DEF Process
  <2>3. Goto(m, q) /\ q.pc \in {"fetchBlobs", "download"}
        /\ UNCHANGED << manifests, head, cache, remote, bucket >>
    BY <1>6, <2>1, <2>2 DEF DownloadBlob
  <2> HIDE DEF q
  <2> QED
    BY <1>b, <1>d, <2>2, <2>3, WorkingStep DEF Pushing
<1>7. CASE Merge(m)
  <2>1. PICK t \in Tree :
          LET M == Append(proc[m].target, [tree |-> t, by |-> m])
              mode == IF proc[m].mode = "sync" THEN "merge" ELSE "pull"
          IN  Learn(m, {M}) /\ Goto(m, FetchTip([proc[m] EXCEPT !.mode = mode], M))
    BY <1>7 DEF Merge
  <2> DEFINE M == Append(proc[m].target, [tree |-> t, by |-> m])
             mode == IF proc[m].mode = "sync" THEN "merge" ELSE "pull"
             q == FetchTip([proc[m] EXCEPT !.mode = mode], M)
  <2>2. M \in Manifest
    BY <1>a, TreeAssumption, AppendType DEF Process, Listing
  <2>3. Learn(m, {M}) /\ Goto(m, q)
    BY <2>1
  <2> HIDE DEF M
  <2>4. /\ q \in Process /\ q.pc = "checkout" /\ q.local = proc[m].local
        /\ q.known = proc[m].known /\ q.covered = proc[m].covered
    BY <1>a, <2>2 DEF FetchTip, Process, PC
  <2> HIDE DEF q
  <2> QED
    BY <1>7, <1>g, <2>3, <2>4 DEF Merge
<1>8. CASE FetchTarget(m)
  <2>1. PICK M \in remoteManifests[remote[m]] :
          /\ \E S : Learn(m, S)
          /\ Goto(m, [proc[m] EXCEPT !.chain = @ \cup {M}])
    BY <1>8 DEF FetchTarget, Arrive
  <2> DEFINE q == [proc[m] EXCEPT !.chain = @ \cup {M}]
  <2>2. M \in Manifest
    BY DEF TypeInv, TypeOK
  <2>3. /\ q \in Process /\ q.pc = proc[m].pc /\ q.local = proc[m].local
        /\ q.known = proc[m].known /\ q.covered = proc[m].covered
    BY <1>a, <2>2 DEF Process
  <2>4. Goto(m, q) /\ q.pc = "checkout"
    BY <1>8, <2>1, <2>3 DEF FetchTarget, At
  <2> HIDE DEF q
  <2> QED
    BY <1>8, <1>g, <2>1, <2>3, <2>4 DEF FetchTarget
<1>9. CASE StartDownload(m)
  <2> DEFINE needed == Files(proc[m].chain) \ objects[m]
             q == [proc[m] EXCEPT !.pc = "download", !.blobs = needed]
  <2>1. needed \subseteq Blob
    BY <1>a, FilesType DEF Process
  <2> HIDE DEF needed
  <2>2. /\ q \in Process /\ q.pc = "download" /\ q.local = proc[m].local
        /\ q.target = proc[m].target
        /\ q.known = proc[m].known /\ q.covered = proc[m].covered
    BY <1>a, <2>1 DEF Process, PC
  <2>3. Goto(m, q) /\ UNCHANGED << local, gc, bucket >> /\ proc[m].target \in manifests[m]
    BY <1>9 DEF StartDownload, needed
  <2> HIDE DEF q
  <2> QED
    BY <1>b, <1>f, <2>2, <2>3 DEF Pushing
<1>10. CASE Apply(m)
  <2>1. proc[m].target \in manifests[m]
    BY <1>10, <1>b DEF Apply, At
  <2>2. head'[m] = proc[m].target /\ \A n \in Machine \ {m} : head'[n] = head[n]
    BY <1>10 DEF Apply, SetHead, TypeInv, TypeOK
  <2>3. Upload(m, proc[m].target) \/ Goto(m, Idle)
    BY <1>10 DEF Apply
  <2>4. OnlyOf(m)
    BY <1>10, <1>c, <2>2, <2>3 DEF OnlyOf, Apply, Upload
  <2>5. Idle.local = NoManifest /\ Idle.pc = "idle" /\ Idle.known = {} /\ Idle.covered = {}
    BY DEF Idle
  <2> QED
    BY <1>10, <2>1, <2>2, <2>3, <2>4, <2>5, IdleType, PushBegins, WorkingStep DEF Apply, Pushing
<1>11. ASSUME NEW M \in manifests[m] \cup remoteManifests[remote[m]], Fetch(m, M)
       PROVE  TipInv'
  <2> DEFINE q == FetchTip([Idle EXCEPT !.mode = "fetch"], M)
  <2>1. M \in Manifest
    BY <1>a DEF TypeInv, TypeOK
  <2>2. /\ q \in Process /\ q.pc = "checkout"
        /\ q.local = NoManifest /\ q.known = {} /\ q.covered = {}
    BY <2>1 DEF FetchTip, Idle, Process, PC, NoManifest
  <2>3. Goto(m, q) /\ UNCHANGED << local, gc, bucket >>
    BY <1>11 DEF Fetch
  <2> HIDE DEF q
  <2> QED
    BY <1>f, <2>2, <2>3 DEF Pushing
<1>12. CASE EndFetch(m)
  BY <1>12, <1>f, <1>h, IdleType DEF EndFetch, Pushing
<1> QED
  BY <1>1, <1>2, <1>3, <1>4, <1>5, <1>6, <1>7, <1>8, <1>9, <1>10, <1>11, <1>12 DEF Download

\* A step of a push that changes nothing local.
LEMMA PushingStep ==
  ASSUME TypeInv, TipInv, NEW m \in Machine, NEW p \in Process, Goto(m, p),
         UNCHANGED local, BucketsGrow, p.local = proc[m].local, p.pc \in Pushing,
         p.covered \cap Blob \subseteq BlobsThere(m)',
         p.known \cap Manifest \subseteq ManifestsThere(m)',
         Tip(m)'
  PROVE  OnlyOf(m) /\ Sound(m)'
<1>1. /\ proc'[m] = p /\ Sound(m) /\ remote[m] \in Bucket
      /\ \A n \in Machine \ {m} : proc'[n] = proc[n]
  BY GotoType DEF TipInv, Sound, TypeInv, TypeOK
<1>2. OnlyOf(m)
  BY <1>1 DEF OnlyOf, local
<1>3. Local(m)'
  BY <1>1 DEF Sound, Local, local, Pushing
<1>4. Beliefs(m)'
  <2>1. ManifestsThere(m) \subseteq ManifestsThere(m)'
    BY <1>1 DEF BucketsGrow, ManifestsThere, local
  <2> QED
    BY <1>1, <2>1 DEF Sound, Beliefs, At, local, Pushing
<1> QED
  BY <1>2, <1>3, <1>4 DEF Sound

\* What a push takes for uploaded holds of manifests: from the cache, from the
\* push-log and from a listing, where no blob has the name of a manifest.
LEMMA KnownThere ==
  ASSUME TypeInv, TipInv, NamesDiffer, NEW m \in Machine
  PROVE  KnownNames(m) \cap Manifest \subseteq ManifestsThere(m)
<1>1. remote[m] \in Bucket /\ remoteBlobs[remote[m]] \subseteq Blob /\ Beliefs(m)
  BY DEF TypeInv, TypeOK, TipInv
<1>2. \A e \in NewEntries(m) : e.names \cap Manifest \subseteq ManifestsThere(m)
  BY <1>1 DEF TipInv, LogTrue, NewEntries, ManifestsThere
<1>3. remoteBlobs[remote[m]] \cap Manifest = {}
  BY <1>1 DEF NamesDiffer
<1> QED
  BY <1>1, <1>2, <1>3 DEF KnownNames, Beliefs, ManifestsThere

\* The upload half: what it skips as known is checked again before HEAD moves,
\* except the blobs that the bucket's HEAD already needs.
LEMMA UploadSound ==
  ASSUME TypeInv, TipInv, NamesDiffer, NEW m \in Machine,
         \/ \E M \in manifests[m], force \in BOOLEAN : Push(m, M, force)
         \/ UploadStep(m) \/ Abort(m)
  PROVE  TipInv'
<1> DEFINE s == proc[m]
<1>a. /\ s \in Process /\ Sound(m) /\ remote[m] \in Bucket
      /\ manifests[m] \subseteq Manifest /\ cache[m] \in Cache
  BY DEF TypeInv, TypeOK, TipInv, Sound
<1>b. /\ Local(m) /\ Beliefs(m) /\ Tip(m)
      /\ s.pc \in Pushing => s.target \in Manifest
  BY <1>a DEF Sound, TypeInv
<1>c. \A p : Goto(m, p) => proc'[m] = p /\ \A n \in Machine \ {m} : proc'[n] = proc[n]
  BY DEF Goto, TypeInv, TypeOK
<1>d. ASSUME UNCHANGED bucket
      PROVE  BucketsGrow /\ UNCHANGED << remoteHead, pushLog >>
  BY <1>d DEF bucket, BucketsGrow
<1>e. ASSUME UNCHANGED << local, bucket >>
      PROVE  ManifestsThere(m)' = ManifestsThere(m) /\ BlobsThere(m)' = BlobsThere(m)
  BY <1>e DEF ManifestsThere, BlobsThere, local, bucket
<1>1. ASSUME NEW M \in manifests[m], NEW force \in BOOLEAN, Push(m, M, force)
      PROVE  TipInv'
  <2>1. Upload(m, M) /\ UNCHANGED << local, bucket >>
    BY <1>1 DEF Push
  <2>2. OnlyOf(m)
    BY <1>c, <2>1 DEF Upload, OnlyOf, local
  <2> QED
    BY <1>b, <2>1, <2>2, PushBegins DEF Local, local
<1>2. CASE ReadCovered(m)
  <2> DEFINE R == remoteHead[remote[m]]
             covered == IF R = NoManifest \/ R \notin manifests[m] THEN {}
                        ELSE TreeOf(R) \cup LocalChain(R, manifests[m])
             q == [s EXCEPT !.pc = "known", !.covered = covered]
  <2>1. covered \cap Blob \subseteq BlobsThere(m)
    <3>1. R = NoManifest \/ TreeOf(R) \subseteq BlobsThere(m)
      BY <1>a DEF TipInv, HeadUsable, TipThere, BlobsThere
    <3>2. R \in manifests[m] => LocalChain(R, manifests[m]) \subseteq Manifest
      BY <1>a, LocalChainType
    <3> QED
      BY <3>1, <3>2 DEF NamesDiffer
  <2>2. covered \subseteq Name
    BY <1>a, TreeType, LocalChainType DEF Name
  <2>3. Goto(m, q) /\ UNCHANGED << local, gc, bucket >>
    BY <1>2 DEF ReadCovered
  <2> HIDE DEF covered
  <2>4. /\ q \in Process /\ q.pc = "known" /\ q.covered = covered /\ q.local = s.local
        /\ q.target = s.target /\ q.chain = s.chain /\ q.known = s.known
    BY <1>a, <2>2 DEF Process, PC
  <2> HIDE DEF q
  <2>5. Tip(m)'
    BY <1>2, <1>b, <1>c, <2>3, <2>4 DEF Tip, ReadCovered, At
  <2> QED
    BY <1>b, <1>d, <1>e, <2>1, <2>3, <2>4, <2>5, PushingStep, StepOf
    DEF Beliefs, Pushing
<1>3. CASE ReadKnown(m)
  <2> DEFINE blobs == Files(s.chain) \ KnownNames(m)
             mans  == s.chain \ KnownNames(m)
  <2>1. PICK cursor \in {cache[m].cursor} \cup {e.key : e \in NewEntries(m)} :
          Goto(m, [s EXCEPT !.pc = "upload", !.known = KnownNames(m),
                            !.cursor = cursor, !.novel = blobs \cup mans,
                            !.blobs = blobs, !.mans = mans])
    BY <1>3 DEF ReadKnown
  <2> DEFINE q == [s EXCEPT !.pc = "upload", !.known = KnownNames(m),
                            !.cursor = cursor, !.novel = blobs \cup mans,
                            !.blobs = blobs, !.mans = mans]
  <2>2. /\ pushLog[remote[m]] \subseteq LogEntry
        /\ remoteBlobs[remote[m]] \subseteq Blob
        /\ remoteManifests[remote[m]] \subseteq Manifest
    BY <1>a DEF TypeInv, TypeOK
  <2>3. cursor \in Nat /\ KnownNames(m) \subseteq Name
    BY <1>a, <2>2 DEF KnownNames, NewEntries, Cache, LogEntry, Name
  <2>4. KnownNames(m) \cap Manifest \subseteq ManifestsThere(m)
    BY KnownThere
  <2>5. blobs \subseteq Blob /\ mans \subseteq Manifest
    BY <1>a, FilesType DEF Process
  <2>6. blobs \cup mans \subseteq Name /\ (blobs \cup mans) \cap Manifest \subseteq mans
    BY <2>5 DEF Name, NamesDiffer
  <2>7. Goto(m, q) /\ UNCHANGED << local, gc, bucket >>
    BY <1>3, <2>1 DEF ReadKnown
  <2>8. /\ s.target \in mans \cup ManifestsThere(m)
        /\ TreeOf(s.target) \subseteq blobs \cup KnownNames(m)
    <3>1. s.target \in s.chain /\ s.target \in Manifest
      BY <1>3, <1>b DEF ReadKnown, At, Tip, Pushing
    <3>2. TreeOf(s.target) \subseteq Files(s.chain)
      BY <3>1 DEF Files
    <3> QED
      BY <3>1, <3>2, <2>4
  <2> HIDE DEF blobs, mans
  <2>9. /\ q \in Process /\ q.pc = "upload" /\ q.covered = s.covered /\ q.local = s.local
        /\ q.target = s.target /\ q.known = KnownNames(m) /\ q.mans = mans
        /\ q.blobs = blobs /\ q.novel = blobs \cup mans
    BY <1>a, <2>3, <2>5, <2>6 DEF Process, PC
  <2> HIDE DEF q
  <2>10. Tip(m)'
    BY <1>c, <1>e, <2>6, <2>7, <2>8, <2>9 DEF Tip
  <2> QED
    BY <1>b, <1>d, <1>e, <2>4, <2>7, <2>9, <2>10, PushingStep, StepOf
    DEF Beliefs, Pushing
<1>4. ASSUME NEW blob \in s.blobs, UNCHANGED remoteBlobs \/ PutBlob(m, blob),
             blob \in BlobsThere(m)' \/ (s.pc = "upload" /\ blob \notin TreeOf(s.target)),
             Goto(m, [s EXCEPT !.blobs = @ \ {blob}]), s.pc \in {"upload", "ensure"},
             UNCHANGED << local, gc, remoteManifests, remoteHead, pushLog >>
      PROVE  TipInv'
  <2> DEFINE q == [s EXCEPT !.blobs = @ \ {blob}]
  <2>1. /\ q \in Process /\ q.pc = s.pc /\ q.covered = s.covered /\ q.local = s.local
        /\ q.target = s.target /\ q.known = s.known /\ q.mans = s.mans
        /\ q.blobs = s.blobs \ {blob} /\ q.novel = s.novel
    BY <1>a DEF Process
  <2>2. BucketsGrow
    BY <1>4, <1>a DEF PutBlob, BucketsGrow, TypeInv, TypeOK
  <2>3. BlobsThere(m) \subseteq BlobsThere(m)' /\ ManifestsThere(m)' = ManifestsThere(m)
    BY <1>4, <1>a, <2>2 DEF BucketsGrow, BlobsThere, ManifestsThere, local
  <2>4. Goto(m, q)
    BY <1>4
  <2> HIDE DEF q
  <2>5. Tip(m)'
    BY <1>4, <1>b, <1>c, <2>1, <2>3, <2>4 DEF Tip
  <2> QED
    BY <1>4, <1>b, <2>1, <2>2, <2>3, <2>4, <2>5, PushingStep, StepOf DEF Beliefs, Pushing
<1>5. ASSUME NEW M \in s.mans, PutManifest(m, M),
             Goto(m, [s EXCEPT !.mans = @ \ {M}]), s.pc \in {"upload", "ensure"},
             UNCHANGED << local, gc, remoteBlobs, remoteHead, pushLog >>
      PROVE  TipInv'
  <2> DEFINE q == [s EXCEPT !.mans = @ \ {M}]
  <2>1. /\ q \in Process /\ q.pc = s.pc /\ q.covered = s.covered /\ q.local = s.local
        /\ q.target = s.target /\ q.known = s.known /\ q.mans = s.mans \ {M}
        /\ q.blobs = s.blobs /\ q.novel = s.novel
    BY <1>a DEF Process
  <2>2. BucketsGrow
    BY <1>5, <1>a DEF PutManifest, BucketsGrow, TypeInv, TypeOK
  <2>3. /\ ManifestsThere(m) \cup {M} = ManifestsThere(m)'
        /\ BlobsThere(m)' = BlobsThere(m)
    BY <1>5, <1>a DEF PutManifest, BlobsThere, ManifestsThere, local, TypeInv, TypeOK
  <2>4. Goto(m, q)
    BY <1>5
  <2> HIDE DEF q
  <2>5. Tip(m)'
    BY <1>5, <1>b, <1>c, <2>1, <2>3, <2>4 DEF Tip
  <2> QED
    BY <1>5, <1>b, <2>1, <2>2, <2>3, <2>4, <2>5, PushingStep, StepOf DEF Beliefs, Pushing
<1>6. ASSUME NEW blob \in s.blobs, PutBlob(m, blob), UNCHANGED remote
      PROVE  blob \in BlobsThere(m)'
  BY <1>6, <1>a DEF PutBlob, BlobsThere, TypeInv, TypeOK
<1>7. CASE UploadBlob(m) \/ EnsureBlob(m)
  BY <1>7, <1>4, <1>6 DEF UploadBlob, EnsureBlob, At, BlobsThere, local
<1>8. CASE UploadManifest(m) \/ EnsureManifest(m)
  BY <1>8, <1>5 DEF UploadManifest, EnsureManifest, At
<1>9. CASE StartEnsure(m)
  <2> DEFINE unchecked == s.known \ s.covered
             q == [s EXCEPT !.pc = "ensure", !.blobs = TreeOf(s.target) \cap unchecked,
                            !.mans = s.chain \cap unchecked]
  <2>1. s.target \in Manifest /\ s.pc = "upload" /\ s.blobs = {} /\ s.mans = {}
    BY <1>9, <1>b DEF StartEnsure, At, Pushing
  <2>2. TreeOf(s.target) \subseteq Blob
    BY <2>1, TreeType
  <2>3. Goto(m, q) /\ UNCHANGED << local, gc, bucket >>
    BY <1>9 DEF StartEnsure
  <2>4. TreeOf(s.target) \subseteq (TreeOf(s.target) \cap unchecked) \cup BlobsThere(m)
    BY <1>b, <2>1, <2>2 DEF Tip, Beliefs
  <2> HIDE DEF unchecked
  <2>5. /\ q \in Process /\ q.pc = "ensure" /\ q.covered = s.covered /\ q.local = s.local
        /\ q.target = s.target /\ q.known = s.known /\ q.novel = s.novel
        /\ q.blobs = TreeOf(s.target) \cap unchecked
    BY <1>a, <2>2 DEF Process, PC
  <2> HIDE DEF q
  <2>6. Tip(m)'
    BY <1>b, <1>c, <1>e, <2>1, <2>3, <2>4, <2>5 DEF Tip
  <2> QED
    BY <1>b, <1>d, <1>e, <2>3, <2>5, <2>6, PushingStep, StepOf DEF Beliefs, Pushing
<1>10. CASE WriteRemoteHead(m)
  <2> DEFINE q == [s EXCEPT !.pc = IF s.novel = {} THEN "cache" ELSE "log"]
  <2>1. s.target \in Manifest /\ s.pc = "ensure" /\ s.blobs = {} /\ s.mans = {}
    BY <1>10, <1>b DEF WriteRemoteHead, At, Pushing
  <2>2. /\ q \in Process /\ q.pc \in {"cache", "log"} /\ q.covered = s.covered
        /\ q.local = s.local /\ q.known = s.known /\ q.novel = s.novel
    BY <1>a DEF Process, PC
  <2>3. Goto(m, q) /\ UNCHANGED << local, remoteBlobs, remoteManifests, pushLog >>
    BY <1>10 DEF WriteRemoteHead
  <2> HIDE DEF q
  <2>4. /\ BucketsGrow /\ ManifestsThere(m)' = ManifestsThere(m)
        /\ BlobsThere(m)' = BlobsThere(m)
    BY <2>3 DEF BucketsGrow, ManifestsThere, BlobsThere, local
  <2>5. TipThere(remote[m], s.target)
    BY <1>b, <2>1 DEF Tip, TipThere, ManifestsThere, BlobsThere
  <2>6. HeadUsable'
    BY <1>10, <2>3, <2>5 DEF WriteRemoteHead, TipInv, HeadUsable, TipThere, TypeInv, TypeOK
  <2>7. Tip(m)'
    BY <1>b, <1>c, <2>1, <2>2, <2>3, <2>4 DEF Tip
  <2>8. OnlyOf(m) /\ Sound(m)'
    BY <1>b, <2>2, <2>3, <2>4, <2>7, PushingStep DEF Beliefs, Pushing
  <2>9. LogTrue'
    BY <2>3 DEF TipInv, LogTrue
  <2> QED
    BY <2>4, <2>6, <2>8, <2>9, WholeStep
<1>11. CASE WriteLog(m)
  <2>1. PICK k \in 1 .. MaxLogKey :
          /\ pushLog' = [pushLog EXCEPT ![remote[m]] = @ \cup {[key |-> k, names |-> s.novel]}]
          /\ Goto(m, [s EXCEPT !.pc = "cache", !.cursor = k, !.known = @ \cup s.novel])
    BY <1>11 DEF WriteLog
  <2> DEFINE q == [s EXCEPT !.pc = "cache", !.cursor = k, !.known = @ \cup s.novel]
  <2>2. k \in Nat
    BY BoundAssumption
  <2>3. /\ q \in Process /\ q.pc = "cache" /\ q.covered = s.covered
        /\ q.local = s.local /\ q.known = s.known \cup s.novel
    BY <1>a, <2>2 DEF Process, PC
  <2>4. Goto(m, q) /\ UNCHANGED << local, remoteBlobs, remoteManifests, remoteHead >>
    BY <1>11, <2>1 DEF WriteLog
  <2> HIDE DEF q
  <2>5. /\ BucketsGrow /\ ManifestsThere(m)' = ManifestsThere(m)
        /\ BlobsThere(m)' = BlobsThere(m)
    BY <2>4 DEF BucketsGrow, ManifestsThere, BlobsThere, local
  <2>6. s.novel \cap Manifest \subseteq ManifestsThere(m)
    BY <1>11, <1>b DEF WriteLog, At, Tip
  <2>7. LogTrue'
    BY <1>a, <2>1, <2>4, <2>6 DEF TipInv, LogTrue, ManifestsThere, TypeInv, TypeOK
  <2>8. Tip(m)'
    BY <1>c, <2>3, <2>4 DEF Tip
  <2>9. OnlyOf(m) /\ Sound(m)'
    BY <1>b, <2>3, <2>4, <2>5, <2>6, <2>8, PushingStep DEF Beliefs, Pushing
  <2>10. HeadUsable'
    BY <2>4 DEF TipInv, HeadUsable, TipThere
  <2> QED
    BY <2>5, <2>7, <2>9, <2>10, WholeStep
<1>12. ASSUME Goto(m, Idle), UNCHANGED << manifests, head, remote, bucket >>,
              \A n \in Machine \ {m} : cache'[n] = cache[n],
              cache'[m].known \subseteq cache[m].known \cup s.known
       PROVE  TipInv'
  <2>1. /\ Idle.local = NoManifest /\ Idle.pc = "idle"
        /\ Idle.known = {} /\ Idle.covered = {}
    BY DEF Idle
  <2>2. OnlyOf(m)
    BY <1>12, <1>c DEF OnlyOf
  <2>3. Local(m)' /\ Tip(m)'
    BY <1>12, <1>b, <1>c, <2>1 DEF Local, Tip
  <2>4. Beliefs(m)'
    BY <1>12, <1>b, <1>c, <2>1 DEF Beliefs, At, ManifestsThere, bucket
  <2> QED
    BY <1>12, <1>d, <2>2, <2>3, <2>4, StepOf DEF Sound
<1>13. CASE WriteCache(m)
  <2>1. \A n \in Machine \ {m} : cache'[n] = cache[n]
    BY <1>13 DEF WriteCache, TypeInv, TypeOK
  <2>2. cache'[m].known \in {cache[m].known, s.known}
    BY <1>13 DEF WriteCache, TypeInv, TypeOK
  <2> QED
    BY <1>13, <1>12, <2>1, <2>2 DEF WriteCache
<1>14. CASE Abort(m)
  BY <1>14, <1>12 DEF Abort, local
<1> QED
  BY <1>1, <1>2, <1>3, <1>7, <1>8, <1>9, <1>10, <1>11, <1>13, <1>14 DEF UploadStep

LEMMA TipStep ==
  ASSUME TypeInv, TipInv, NamesDiffer, [AnyNext]_vars
  PROVE  TipInv'
<1>1. CASE UNCHANGED vars
  BY <1>1 DEF vars, local, bucket, TipInv, HeadUsable, TipThere, LogTrue, Local,
     Beliefs, Tip, At, BlobsThere, ManifestsThere
<1>2. ASSUME NEW m \in Machine,
             Begin(m) \/ Download(m) \/ UploadStep(m) \/ GCStep(m) \/ Abort(m)
      PROVE  TipInv'
  BY <1>2, CommandSound, DownloadSound, UploadSound DEF Begin, Command, Snapshot
<1>3. CASE Next
  BY <1>2, <1>3 DEF Next
<1>4. CASE \E m \in Machine, blob \in Blob : LoseObject(m, blob)
  BY <1>4, CommandSound
<1>5. CASE \E m \in Machine, b \in Bucket : RemoteSet(m, b)
  BY <1>5, CommandSound
<1>6. CASE \E m \in Machine : CommitBeside(m)
  BY <1>6, CommandSound DEF CommitBeside
<1> QED
  BY <1>1, <1>3, <1>4, <1>5, <1>6 DEF AnyNext, NextMove, NextLossy, NextBeside

LEMMA TipInit ==
  ASSUME Init
  PROVE  TipInv
<1>1. HeadUsable /\ LogTrue
  BY DEF Init, HeadUsable, LogTrue
<1>2. ASSUME NEW m \in Machine
      PROVE  Local(m) /\ Beliefs(m) /\ Tip(m)
  <2>1. /\ proc[m] = Idle /\ cache[m] = EmptyCache
        /\ head[m] = NoManifest
    BY DEF Init
  <2> QED
    BY <2>1 DEF Local, Beliefs, Tip, At, Idle, EmptyCache
<1> QED
  BY <1>1, <1>2 DEF TipInv

\* Wherever a machine moves and whatever it loses, a bucket's HEAD can be
\* checked out, and no manifest is taken for uploaded that the bucket lacks;
\* provided that no file has the bytes of a manifest.
THEOREM Usable ==
  ASSUME NamesDiffer
  PROVE  SpecAny => [](HeadUsable /\ KnownManifestsThere)
<1>1. Init => TypeInv /\ TipInv
  BY TypeInit, TipInit
<1>2. TypeInv /\ TipInv /\ [AnyNext]_vars => TypeInv' /\ TipInv'
  BY TypeStep, TipStep
<1>3. TipInv => HeadUsable /\ KnownManifestsThere
  BY DEF TipInv, KnownManifestsThere, Beliefs, ManifestsThere
<1> QED
  BY <1>1, <1>2, <1>3, PTL DEF SpecAny

\* What fetchKnownRemoteSHAs takes for uploaded of manifests is always true of the
\* bucket that the machine is with, also after `remote set`.
COROLLARY Credited ==
  ASSUME NamesDiffer
  PROVE  SpecAny => []KnownManifestsThere
BY Usable, PTL
=============================================================================
