--------------------------- MODULE SyncChainProofs ---------------------------
(***************************************************************************)
(* NoDanglingParent and HeadComplete, as long as every machine stays with  *)
(* its bucket; local files may be lost.  ChainInv is inductive, given      *)
(* TypeInv and TipInv.  What the machines write into a bucket, in the      *)
(* order in which they write it, is then what Archive allows.              *)
(***************************************************************************)
EXTENDS SyncTipProofs

\* Everything but `remote set`.
StayNext == NextLossy \/ NextBeside
SpecStay == Init /\ [][StayNext]_vars

\* Nothing changes for the machines that do not move.
LEMMA ChainStepOf ==
  ASSUME TypeInv, ChainInv, NEW m \in Machine, OnlyOf(m), BucketsGrow,
         NoDanglingParent', LocalClosed(m)', Chained(m)'
  PROVE  ChainInv'
<1>1. ASSUME NEW n \in Machine \ {m}
      PROVE  LocalClosed(n)' /\ Chained(n)'
  <2>1. ManifestsThere(n) \subseteq ManifestsThere(n)'
    BY DEF TypeInv, TypeOK, OnlyOf, BucketsGrow, ManifestsThere
  <2>2. LocalClosed(n) /\ Chained(n) /\ proc'[n] = proc[n] /\ manifests'[n] = manifests[n]
    BY DEF ChainInv, OnlyOf
  <2>3. LocalClosed(n)'
    BY <2>1, <2>2 DEF LocalClosed
  <2>4. Chained(n)'
    BY <2>1, <2>2 DEF Chained
  <2> QED
    BY <2>3, <2>4
<1> QED
  BY <1>1 DEF ChainInv

\* A machine learns manifests of which it or the bucket has the ancestors, and
\* does not push.
LEMMA LearnStep ==
  ASSUME TypeInv, ChainInv, NEW m \in Machine, NEW S, OnlyOf(m),
         UNCHANGED << remote, bucket >>,
         \/ UNCHANGED manifests
         \/ /\ Learn(m, S)
            /\ \A M \in S : Chain(M) \subseteq manifests[m] \cup S \cup ManifestsThere(m),
         \/ proc'[m] = proc[m]
         \/ proc'[m].pc \notin {"covered", "known", "upload", "ensure"}
  PROVE  ChainInv'
<1>1. ManifestsThere(m)' = ManifestsThere(m) /\ BucketsGrow /\ NoDanglingParent'
  BY DEF ManifestsThere, BucketsGrow, bucket, ChainInv, NoDanglingParent
<1>2. LocalClosed(m) /\ Chained(m)
  BY DEF ChainInv
<1>3. manifests'[m] \in {manifests[m], manifests[m] \cup S}
  BY DEF Learn, TypeInv, TypeOK
<1>4. LocalClosed(m)'
  BY <1>1, <1>2, <1>3 DEF LocalClosed, Learn, TypeInv, TypeOK
<1>5. Chained(m)'
  BY <1>1, <1>2 DEF Chained
<1> QED
  BY <1>1, <1>4, <1>5, ChainStepOf

\* What a push does not walk, because a descendant of it is not local, is in
\* the bucket with that descendant.
LEMMA UploadChained ==
  ASSUME TypeInv, ChainInv, NEW m \in Machine, NEW M \in manifests[m], Upload(m, M),
         OnlyOf(m), UNCHANGED << manifests, remote, bucket >>
  PROVE  ChainInv'
<1> DEFINE S == LocalChain(M, manifests[m])
           p == [Idle EXCEPT !.pc = "covered", !.target = M, !.chain = S]
<1>1. M \in Manifest /\ remote[m] \in Bucket
  BY DEF TypeInv, TypeOK
<1>2. /\ NoDanglingParent /\ LocalClosed(m)
      /\ ManifestsThere(m)' = ManifestsThere(m) /\ BucketsGrow
  BY DEF ManifestsThere, BucketsGrow, bucket, ChainInv
<1>3. Chain(M) \subseteq S \cup ManifestsThere(m)
  <2> SUFFICES ASSUME NEW i \in 1 .. Len(M), Prefix(M, i) \notin S
               PROVE  Prefix(M, i) \in ManifestsThere(m)
    BY DEF Chain
  <2>1. PICK j \in i .. Len(M) : Prefix(M, j) \notin manifests[m]
    BY <1>1, BeyondLocalChain
  <2>2. j \in 1 .. Len(M) /\ i \in 1 .. j
    BY <1>1, PrefixWhole
  <2>3. Prefix(M, j) \in ManifestsThere(m)
    BY <1>2, <2>1, <2>2 DEF LocalClosed, Chain
  <2>4. Chain(Prefix(M, j)) \subseteq ManifestsThere(m)
    BY <1>1, <1>2, <2>3 DEF NoDanglingParent, ManifestsThere
  <2>5. Prefix(Prefix(M, j), i) = Prefix(M, i) /\ Len(Prefix(M, j)) = j
    BY <1>1, <2>2, PrefixType, PrefixOfPrefix
  <2>6. Prefix(M, i) \in Chain(Prefix(M, j))
    BY <2>2, <2>5 DEF Chain
  <2> QED
    BY <2>4, <2>6
<1>4. S \subseteq Chain(M)
  BY <1>1, LocalChainType
<1>5. proc'[m] = p
  BY DEF Upload, Goto, TypeInv, TypeOK
<1>6. p.pc = "covered" /\ p.target = M /\ p.chain = S
  BY DEF Idle
<1> HIDE DEF p, S
<1>7. Chained(m)'
  BY <1>2, <1>3, <1>4, <1>5, <1>6 DEF Chained
<1>8. LocalClosed(m)' /\ NoDanglingParent'
  BY <1>2 DEF LocalClosed, NoDanglingParent, bucket
<1> QED
  BY <1>2, <1>7, <1>8, ChainStepOf

\* The local commands and gc.
LEMMA CommandChained ==
  ASSUME TypeInv, TipInv, ChainInv, NEW m \in Machine,
         \/ TakeSnapshot(m) \/ GCStep(m)
         \/ \E M \in manifests[m] : Checkout(m, M)
         \/ \E blob \in Blob : LoseObject(m, blob)
  PROVE  ChainInv'
<1>1. ASSUME UNCHANGED << manifests, cache, remote, proc, bucket >>,
             \A n \in Machine \ {m} : head'[n] = head[n]
      PROVE  ChainInv'
  BY <1>1, LearnStep DEF OnlyOf
<1>2. CASE TakeSnapshot(m)
  <2>1. PICK t \in Tree :
          \/ UNCHANGED << manifests, head >>
          \/ LET M == Append(head[m], [tree |-> t, by |-> m])
             IN  Learn(m, {M}) /\ (head' = [head EXCEPT ![m] = M] \/ UNCHANGED head)
    BY <1>2 DEF TakeSnapshot, SetHead
  <2> DEFINE l == [tree |-> t, by |-> m]
             M == Append(head[m], l)
  <2>2. l \in Listing /\ head[m] \in Manifest \cup {NoManifest}
    BY TreeAssumption DEF Listing, TypeInv, TypeOK
  <2>3. Chain(M) = {M} \cup IF head[m] = NoManifest THEN {} ELSE Chain(head[m])
    BY <2>2, AppendChain
  <2>4. head[m] # NoManifest => Chain(head[m]) \subseteq manifests[m] \cup ManifestsThere(m)
    BY DEF TipInv, Local, ChainInv, LocalClosed
  <2>5. \/ UNCHANGED << manifests, head >>
        \/ Learn(m, {M}) /\ (head' = [head EXCEPT ![m] = M] \/ UNCHANGED head)
    BY <2>1
  <2> HIDE DEF M
  <2>6. UNCHANGED << cache, remote, proc, bucket >>
    BY <1>2 DEF TakeSnapshot
  <2>7. OnlyOf(m)
    BY <2>5, <2>6 DEF OnlyOf, Learn, TypeInv, TypeOK
  <2> QED
    BY <2>3, <2>4, <2>5, <2>6, <2>7, LearnStep
<1>3. ASSUME NEW M \in manifests[m], Checkout(m, M)
      PROVE  ChainInv'
  BY <1>1, <1>3 DEF Checkout, SetHead, TypeInv, TypeOK
<1>4. ASSUME NEW blob \in Blob, LoseObject(m, blob)
      PROVE  ChainInv'
  BY <1>1, <1>4 DEF LoseObject
<1>5. CASE GCStep(m)
  BY <1>1, <1>5 DEF GCStep, GCKeep, GCList, GCDelete, GCEnd, local
<1> QED
  BY <1>2, <1>3, <1>4, <1>5

\* The download half: what is fetched comes with its ancestors, or they are in
\* the bucket that it is fetched from.
LEMMA DownloadChained ==
  ASSUME TypeInv, TipInv, ChainInv, NEW m \in Machine,
         \/ \E mode \in {"sync", "pull"} : Compare(m, mode)
         \/ \E M \in manifests[m] \cup remoteManifests[remote[m]] : Fetch(m, M)
         \/ Download(m)
  PROVE  ChainInv'
<1> DEFINE s == proc[m]
<1>a. /\ s \in Process /\ remote[m] \in Bucket /\ NoDanglingParent /\ LocalClosed(m)
      /\ head[m] \in manifests[m] \cup {NoManifest}
      /\ s.local \in manifests[m] \cup {NoManifest}
      /\ s.pc \in {"fetchBlobs", "download"} => s.target \in manifests[m]
  BY DEF TypeInv, TypeOK, ChainInv, TipInv, Local
<1>b. \A p : Goto(m, p) => proc'[m] = p /\ \A n \in Machine \ {m} : proc'[n] = proc[n]
  BY DEF Goto, TypeInv, TypeOK
<1>c. ASSUME NEW p, Goto(m, p), UNCHANGED << manifests, cache, remote, bucket >>,
             \A n \in Machine \ {m} : head'[n] = head[n],
             p.pc \notin {"covered", "known", "upload", "ensure"}
      PROVE  ChainInv'
  BY <1>b, <1>c, LearnStep DEF OnlyOf
<1>d. ASSUME NEW M \in manifests[m], Upload(m, M),
             UNCHANGED << manifests, cache, remote, bucket >>,
             \A n \in Machine \ {m} : head'[n] = head[n]
      PROVE  ChainInv'
  BY <1>b, <1>d, UploadChained DEF OnlyOf, Upload
<1>e. ASSUME NEW p, NEW S, Goto(m, p), Learn(m, S),
             \A M \in S : Chain(M) \subseteq manifests[m] \cup S \cup ManifestsThere(m),
             UNCHANGED << head, cache, remote, bucket >>, p.pc \in {"fetch", "checkout"}
      PROVE  ChainInv'
  <2>1. OnlyOf(m)
    BY <1>b, <1>e DEF OnlyOf, Learn, TypeInv, TypeOK
  <2> QED
    BY <1>b, <1>e, <2>1, LearnStep
<1>f. Idle.pc = "idle"
  BY DEF Idle
<1>g. \A M \in ManifestsThere(m) : Chain(M) \subseteq ManifestsThere(m)
  BY <1>a DEF NoDanglingParent, ManifestsThere
<1>h. ASSUME NEW M, Arrive(m, M)
      PROVE  \E S \in SUBSET ManifestsThere(m) : Learn(m, S)
  BY <1>h DEF Arrive, ManifestsThere
<1>1. ASSUME NEW mode \in {"sync", "pull"}, Compare(m, mode)
      PROVE  ChainInv'
  <2> DEFINE R == remoteHead[remote[m]]
             p == [Idle EXCEPT !.mode = mode, !.local = head[m]]
             q == [p EXCEPT !.pc = "fetch", !.target = R]
             r == FetchTip(p, R)
  <2>1. q.pc = "fetch" /\ r.pc = "checkout"
    BY DEF FetchTip, Idle
  <2>2. \/ head[m] # NoManifest /\ Upload(m, head[m])
        \/ Goto(m, q) \/ Goto(m, r)
    BY <1>1 DEF Compare
  <2>3. UNCHANGED << local, bucket >>
    BY <1>1 DEF Compare
  <2> HIDE DEF q, r
  <2> QED
    BY <1>a, <1>c, <1>d, <2>1, <2>2, <2>3 DEF local
<1>2. CASE FetchManifest(m)
  <2>1. PICK S \in SUBSET ManifestsThere(m) :
          Learn(m, S) /\ UNCHANGED << head, cache, remote, proc, bucket >>
    BY <1>2, <1>h DEF FetchManifest
  <2>2. Goto(m, s) /\ s.pc = "fetch"
    BY <1>2, <2>1 DEF FetchManifest, At, Goto, TypeInv, TypeOK
  <2> QED
    BY <1>e, <1>g, <2>1, <2>2
<1>3. CASE Ahead(m)
  <2>1. s.local \in manifests[m]
    BY <1>3, <1>a DEF Ahead, IsAncestor, Named, NoManifest
  <2>2. Upload(m, s.local) \/ Goto(m, Idle)
    BY <1>3 DEF Ahead
  <2> QED
    BY <1>3, <1>c, <1>d, <1>f, <2>1, <2>2 DEF Ahead, local
<1>4. CASE Behind(m)
  <2>1. FetchTip(s, s.target).pc = "checkout"
    BY <1>a DEF FetchTip, Process
  <2> QED
    BY <1>4, <1>c, <2>1 DEF Behind, local
<1>5. CASE Diverged(m)
  <2> DEFINE needed == Files(SinceFork(s.local, s.target, manifests[m]))
             q == [s EXCEPT !.pc = "fetchBlobs", !.blobs = needed \ objects[m]]
  <2>1. Goto(m, q) /\ UNCHANGED << local, bucket >>
    BY <1>5 DEF Diverged
  <2> HIDE DEF needed
  <2>2. q.pc = "fetchBlobs"
    BY <1>a DEF Process
  <2> HIDE DEF q
  <2> QED
    BY <1>c, <2>1, <2>2 DEF local
<1>6. CASE DownloadBlob(m)
  <2>1. PICK blob \in s.blobs : Goto(m, [s EXCEPT !.blobs = @ \ {blob}])
    BY <1>6 DEF DownloadBlob
  <2>2. [s EXCEPT !.blobs = @ \ {blob}].pc = s.pc
    BY <1>a DEF Process
  <2> QED
    BY <1>6, <1>c, <2>1, <2>2 DEF DownloadBlob
<1>7. CASE Merge(m)
  <2>1. PICK t \in Tree :
          LET M == Append(s.target, [tree |-> t, by |-> m])
              mode == IF s.mode = "sync" THEN "merge" ELSE "pull"
          IN  Learn(m, {M}) /\ Goto(m, FetchTip([s EXCEPT !.mode = mode], M))
    BY <1>7 DEF Merge
  <2> DEFINE l == [tree |-> t, by |-> m]
             M == Append(s.target, l)
             mode == IF s.mode = "sync" THEN "merge" ELSE "pull"
             q == FetchTip([s EXCEPT !.mode = mode], M)
  <2>2. Learn(m, {M}) /\ Goto(m, q)
    BY <2>1
  <2>3. s.target \in Manifest /\ s.target \in manifests[m] /\ l \in Listing
    BY <1>7, <1>a, TreeAssumption DEF Merge, At, Listing, TypeInv, TypeOK
  <2>4. Chain(M) \subseteq {M} \cup Chain(s.target)
    BY <2>3, AppendChain
  <2> HIDE DEF M
  <2>5. q.pc = "checkout"
    BY <1>a DEF FetchTip, Process
  <2>6. Chain(M) \subseteq manifests[m] \cup {M} \cup ManifestsThere(m)
    BY <1>a, <2>3, <2>4 DEF LocalClosed
  <2> HIDE DEF q
  <2> QED
    BY <1>7, <1>e, <2>2, <2>5, <2>6 DEF Merge
<1>8. CASE FetchTarget(m)
  <2>1. PICK M \in ManifestsThere(m), S \in SUBSET ManifestsThere(m) :
          Learn(m, S) /\ Goto(m, [s EXCEPT !.chain = @ \cup {M}])
    BY <1>8, <1>h DEF FetchTarget, ManifestsThere
  <2> DEFINE q == [s EXCEPT !.chain = @ \cup {M}]
  <2>2. q.pc = "checkout" /\ Goto(m, q)
    BY <1>8, <1>a, <2>1 DEF FetchTarget, At, Process
  <2> HIDE DEF q
  <2> QED
    BY <1>8, <1>e, <1>g, <2>1, <2>2 DEF FetchTarget
<1>9. CASE StartDownload(m)
  <2> DEFINE q == [s EXCEPT !.pc = "download", !.blobs = Files(s.chain) \ objects[m]]
  <2>1. q.pc = "download"
    BY <1>a DEF Process
  <2>2. Goto(m, q) /\ UNCHANGED << local, bucket >>
    BY <1>9 DEF StartDownload
  <2> HIDE DEF q
  <2> QED
    BY <1>c, <2>1, <2>2 DEF local
<1>10. CASE Apply(m)
  <2>1. s.target \in manifests[m] /\ \A n \in Machine \ {m} : head'[n] = head[n]
    BY <1>10, <1>a DEF Apply, At, SetHead, TypeInv, TypeOK
  <2>2. Upload(m, s.target) \/ Goto(m, Idle)
    BY <1>10 DEF Apply
  <2> QED
    BY <1>10, <1>c, <1>d, <1>f, <2>1, <2>2 DEF Apply
<1>11. ASSUME NEW M \in manifests[m] \cup remoteManifests[remote[m]], Fetch(m, M)
       PROVE  ChainInv'
  <2> DEFINE q == FetchTip([Idle EXCEPT !.mode = "fetch"], M)
  <2>1. q.pc = "checkout"
    BY DEF FetchTip, Idle
  <2>2. Goto(m, q) /\ UNCHANGED << local, bucket >>
    BY <1>11 DEF Fetch
  <2> HIDE DEF q
  <2> QED
    BY <1>c, <2>1, <2>2 DEF local
<1>12. CASE EndFetch(m)
  BY <1>12, <1>c, <1>f DEF EndFetch, local
<1> QED
  BY <1>1, <1>2, <1>3, <1>4, <1>5, <1>6, <1>7, <1>8, <1>9, <1>10, <1>11, <1>12 DEF Download

\* The oldest manifest that is not uploaded yet has all its ancestors in the
\* bucket.
LEMMA OldestFirst ==
  ASSUME TypeInv, ChainInv, NEW m \in Machine, UploadManifest(m)
  PROVE  \E M \in proc[m].mans :
           /\ Chain(M) \subseteq ManifestsThere(m) \cup {M}
           /\ PutManifest(m, M)
           /\ Goto(m, [proc[m] EXCEPT !.mans = @ \ {M}])
<1> DEFINE s == proc[m]
<1>1. PICK M \in s.mans : /\ \A N \in s.mans : Len(M) <= Len(N)
                          /\ PutManifest(m, M)
                          /\ Goto(m, [s EXCEPT !.mans = @ \ {M}])
  BY DEF UploadManifest
<1>2. /\ s.pc = "upload" /\ s.target \in Manifest /\ M \in Manifest
      /\ s.mans \subseteq Chain(s.target)
      /\ Chain(s.target) \subseteq s.mans \cup ManifestsThere(m)
  BY DEF UploadManifest, At, Pushing, Process, TypeInv, TypeOK, ChainInv, Chained
<1>3. PICK i \in 1 .. Len(s.target) : M = Prefix(s.target, i)
  BY <1>2 DEF Chain
<1>4. Len(M) = i
  BY <1>2, <1>3, PrefixType
<1>5. ASSUME NEW k \in 1 .. i, k # i
      PROVE  Prefix(M, k) \in ManifestsThere(m)
  <2>1. Prefix(M, k) = Prefix(s.target, k) /\ k \in 1 .. Len(s.target)
    BY <1>2, <1>3, PrefixOfPrefix, PrefixWhole
  <2>2. Len(Prefix(M, k)) = k /\ k < i
    BY <1>2, <1>5, <2>1, PrefixType
  <2>3. Prefix(M, k) \notin s.mans
    BY <1>1, <1>4, <2>2
  <2> QED
    BY <1>2, <2>1, <2>3 DEF Chain
<1>6. Prefix(M, i) = M
  BY <1>2, <1>4, PrefixWhole
<1>7. Chain(M) \subseteq ManifestsThere(m) \cup {M}
  BY <1>4, <1>5, <1>6 DEF Chain
<1> QED
  BY <1>1, <1>7

\* The upload half: manifests go up oldest first, and what is skipped as known
\* is in the bucket, so checking it again changes nothing.
LEMMA UploadHalfChained ==
  ASSUME TypeInv, TipInv, ChainInv, NamesDiffer, NEW m \in Machine,
         \/ \E M \in manifests[m], force \in BOOLEAN : Push(m, M, force)
         \/ UploadStep(m) \/ Abort(m)
  PROVE  ChainInv'
<1> DEFINE s == proc[m]
<1>a. /\ s \in Process /\ remote[m] \in Bucket
      /\ NoDanglingParent /\ LocalClosed(m) /\ Chained(m) /\ Beliefs(m)
      /\ s.pc \in Pushing => s.target \in Manifest
  BY DEF TypeInv, TypeOK, ChainInv, TipInv
<1>b. \A p : Goto(m, p) => proc'[m] = p /\ \A n \in Machine \ {m} : proc'[n] = proc[n]
  BY DEF Goto, TypeInv, TypeOK
<1>c. ASSUME NEW p, Goto(m, p), BucketsGrow, ManifestsThere(m)' = ManifestsThere(m),
             UNCHANGED << manifests, head, remote, remoteManifests >>,
             \A n \in Machine \ {m} : cache'[n] = cache[n], Chained(m)'
      PROVE  ChainInv'
  <2>1. OnlyOf(m)
    BY <1>b, <1>c DEF OnlyOf
  <2>2. NoDanglingParent' /\ LocalClosed(m)'
    BY <1>a, <1>c DEF NoDanglingParent, LocalClosed
  <2> QED
    BY <1>c, <2>1, <2>2, ChainStepOf
<1>d. ASSUME UNCHANGED << remote, remoteBlobs, remoteManifests >>
      PROVE  BucketsGrow /\ ManifestsThere(m)' = ManifestsThere(m)
  BY <1>d DEF BucketsGrow, ManifestsThere
<1>1. ASSUME NEW M \in manifests[m], NEW force \in BOOLEAN, Push(m, M, force)
      PROVE  ChainInv'
  <2>1. Upload(m, M) /\ UNCHANGED << local, bucket >>
    BY <1>1 DEF Push
  <2>2. OnlyOf(m)
    BY <1>b, <2>1 DEF Upload, OnlyOf, local
  <2> QED
    BY <2>1, <2>2, UploadChained DEF local
<1>2. CASE ReadCovered(m)
  <2> DEFINE R == remoteHead[remote[m]]
             covered == IF R = NoManifest \/ R \notin manifests[m] THEN {}
                        ELSE TreeOf(R) \cup LocalChain(R, manifests[m])
             q == [s EXCEPT !.pc = "known", !.covered = covered]
  <2>1. Goto(m, q) /\ s.pc = "covered" /\ UNCHANGED << local, bucket >>
    BY <1>2 DEF ReadCovered, At
  <2> HIDE DEF covered
  <2>2. q.pc = "known" /\ q.target = s.target /\ q.chain = s.chain
    BY <1>a DEF Process
  <2> HIDE DEF q
  <2>3. ManifestsThere(m)' = ManifestsThere(m) /\ BucketsGrow
    BY <1>d, <2>1 DEF local, bucket
  <2>4. Chained(m)'
    BY <1>a, <1>b, <2>1, <2>2, <2>3 DEF Chained
  <2> QED
    BY <1>c, <2>1, <2>3, <2>4 DEF local, bucket
<1>3. CASE ReadKnown(m)
  <2> DEFINE blobs == Files(s.chain) \ KnownNames(m)
             mans  == s.chain \ KnownNames(m)
  <2>1. PICK cursor \in {cache[m].cursor} \cup {e.key : e \in NewEntries(m)} :
          Goto(m, [s EXCEPT !.pc = "upload", !.known = KnownNames(m),
                            !.cursor = cursor, !.novel = blobs \cup mans,
                            !.blobs = blobs, !.mans = mans])
    BY <1>3 DEF ReadKnown
  <2> DEFINE q == [s EXCEPT !.pc = "upload", !.known = KnownNames(m),
                            !.cursor = cursor, !.novel = blobs \cup mans,
                            !.blobs = blobs, !.mans = mans]
  <2>2. Goto(m, q) /\ s.pc = "known" /\ UNCHANGED << local, bucket >>
    BY <1>3, <2>1 DEF ReadKnown, At
  <2>3. /\ s.chain \subseteq Chain(s.target) /\ Chain(s.target) \subseteq Manifest
        /\ Chain(s.target) \subseteq s.chain \cup ManifestsThere(m)
    BY <1>a, <2>2, ChainType DEF Chained, Pushing
  <2>4. KnownNames(m) \cap Manifest \subseteq ManifestsThere(m)
    BY KnownThere
  <2>5. mans \subseteq Chain(s.target) /\ Chain(s.target) \subseteq mans \cup ManifestsThere(m)
    BY <2>3, <2>4
  <2> HIDE DEF blobs, mans
  <2>6. q.pc = "upload" /\ q.target = s.target /\ q.mans = mans
    BY <1>a DEF Process
  <2> HIDE DEF q
  <2>7. ManifestsThere(m)' = ManifestsThere(m) /\ BucketsGrow
    BY <1>d, <2>2 DEF local, bucket
  <2>8. Chained(m)'
    BY <1>b, <2>2, <2>5, <2>6, <2>7 DEF Chained
  <2> QED
    BY <1>c, <2>2, <2>7, <2>8 DEF local, bucket
<1>4. CASE UploadBlob(m) \/ EnsureBlob(m)
  <2>1. PICK blob \in s.blobs :
          /\ UNCHANGED remoteBlobs \/ PutBlob(m, blob)
          /\ Goto(m, [s EXCEPT !.blobs = @ \ {blob}])
    BY <1>4 DEF UploadBlob, EnsureBlob
  <2> DEFINE q == [s EXCEPT !.blobs = @ \ {blob}]
  <2>2. UNCHANGED << local, remoteManifests >>
    BY <1>4 DEF UploadBlob, EnsureBlob
  <2>3. BucketsGrow /\ ManifestsThere(m)' = ManifestsThere(m)
    BY <1>a, <2>1, <2>2 DEF PutBlob, BucketsGrow, ManifestsThere, local, TypeInv, TypeOK
  <2>4. q.pc = s.pc /\ q.target = s.target /\ q.mans = s.mans /\ q.chain = s.chain
    BY <1>a DEF Process
  <2>5. Goto(m, q)
    BY <2>1
  <2> HIDE DEF q
  <2>6. Chained(m)'
    BY <1>a, <1>b, <2>3, <2>4, <2>5 DEF Chained
  <2> QED
    BY <1>c, <2>2, <2>3, <2>5, <2>6 DEF local
<1>5. ASSUME NEW M \in s.mans, PutManifest(m, M),
             Chain(M) \subseteq ManifestsThere(m) \cup {M},
             Goto(m, [s EXCEPT !.mans = @ \ {M}]), s.pc \in {"upload", "ensure"},
             UNCHANGED << local, remoteBlobs >>
      PROVE  ChainInv'
  <2> DEFINE q == [s EXCEPT !.mans = @ \ {M}]
  <2>1. /\ ManifestsThere(m)' = ManifestsThere(m) \cup {M} /\ BucketsGrow
        /\ \A b \in Bucket : b # remote[m] => remoteManifests'[b] = remoteManifests[b]
    BY <1>a, <1>5 DEF PutManifest, BucketsGrow, ManifestsThere, local, TypeInv, TypeOK
  <2>2. q.pc = s.pc /\ q.target = s.target /\ q.mans = s.mans \ {M} /\ q.chain = s.chain
    BY <1>a DEF Process
  <2>3. Goto(m, q)
    BY <1>5
  <2> HIDE DEF q
  <2>4. Chained(m)'
    BY <1>a, <1>b, <1>5, <2>1, <2>2, <2>3 DEF Chained
  <2>5. NoDanglingParent'
    BY <1>a, <1>5, <2>1 DEF NoDanglingParent, ManifestsThere, local
  <2>6. LocalClosed(m)' /\ OnlyOf(m)
    BY <1>a, <1>b, <1>5, <2>1, <2>3 DEF LocalClosed, OnlyOf, local
  <2> QED
    BY <2>1, <2>4, <2>5, <2>6, ChainStepOf
<1>6. CASE UploadManifest(m)
  <2>1. PICK M \in s.mans :
          /\ Chain(M) \subseteq ManifestsThere(m) \cup {M}
          /\ PutManifest(m, M) /\ Goto(m, [s EXCEPT !.mans = @ \ {M}])
    BY <1>6, OldestFirst
  <2> QED
    BY <1>5, <1>6, <2>1 DEF UploadManifest, At
<1>7. CASE EnsureManifest(m)
  <2>1. PICK M \in s.mans : PutManifest(m, M) /\ Goto(m, [s EXCEPT !.mans = @ \ {M}])
    BY <1>7 DEF EnsureManifest
  <2>2. s.pc = "ensure" /\ UNCHANGED << local, remoteBlobs >>
    BY <1>7 DEF EnsureManifest, At
  <2>3. Chain(M) \subseteq ManifestsThere(m)
    BY <1>a, <2>2 DEF Chained, NoDanglingParent, ManifestsThere
  <2> QED
    BY <1>5, <2>1, <2>2, <2>3
<1>8. CASE StartEnsure(m)
  <2> DEFINE unchecked == s.known \ s.covered
             q == [s EXCEPT !.pc = "ensure", !.blobs = TreeOf(s.target) \cap unchecked,
                            !.mans = s.chain \cap unchecked]
  <2>1. s.chain \cap unchecked \subseteq ManifestsThere(m)
    BY <1>a DEF Beliefs, Process
  <2>2. Goto(m, q) /\ UNCHANGED << local, bucket >>
    BY <1>8 DEF StartEnsure
  <2> HIDE DEF unchecked
  <2>3. q.pc = "ensure" /\ q.mans = s.chain \cap unchecked
    BY <1>a DEF Process
  <2> HIDE DEF q
  <2>4. ManifestsThere(m)' = ManifestsThere(m) /\ BucketsGrow
    BY <1>d, <2>2 DEF local, bucket
  <2>5. Chained(m)'
    BY <1>b, <2>1, <2>2, <2>3, <2>4 DEF Chained
  <2> QED
    BY <1>c, <2>2, <2>4, <2>5 DEF local, bucket
<1>9. ASSUME NEW p, Goto(m, p), UNCHANGED << manifests, head, remote, remoteBlobs, remoteManifests >>,
             \A n \in Machine \ {m} : cache'[n] = cache[n],
             p.pc \notin {"covered", "known", "upload", "ensure"}
      PROVE  ChainInv'
  <2>1. Chained(m)'
    BY <1>b, <1>9 DEF Chained
  <2> QED
    BY <1>c, <1>d, <1>9, <2>1
<1>10. CASE WriteRemoteHead(m)
  <2> DEFINE q == [s EXCEPT !.pc = IF s.novel = {} THEN "cache" ELSE "log"]
  <2>1. q.pc \in {"cache", "log"}
    BY <1>a DEF Process
  <2>2. Goto(m, q) /\ UNCHANGED << local, remoteBlobs, remoteManifests >>
    BY <1>10 DEF WriteRemoteHead
  <2> HIDE DEF q
  <2> QED
    BY <1>9, <2>1, <2>2 DEF local
<1>11. CASE WriteLog(m)
  <2>1. PICK k \in 1 .. MaxLogKey :
          Goto(m, [s EXCEPT !.pc = "cache", !.cursor = k, !.known = @ \cup s.novel])
    BY <1>11 DEF WriteLog
  <2> DEFINE q == [s EXCEPT !.pc = "cache", !.cursor = k, !.known = @ \cup s.novel]
  <2>2. q.pc = "cache" /\ Goto(m, q)
    BY <1>a, <2>1 DEF Process
  <2> HIDE DEF q
  <2> QED
    BY <1>11, <1>9, <2>2 DEF WriteLog, local
<1>12. CASE WriteCache(m) \/ Abort(m)
  <2>1. Idle.pc = "idle"
    BY DEF Idle
  <2> QED
    BY <1>12, <1>9, <2>1 DEF WriteCache, Abort, local, bucket, TypeInv, TypeOK
<1> QED
  BY <1>1, <1>2, <1>3, <1>4, <1>6, <1>7, <1>8, <1>10, <1>11, <1>12 DEF UploadStep

LEMMA ChainStep ==
  ASSUME TypeInv, TipInv, ChainInv, NamesDiffer, [StayNext]_vars
  PROVE  ChainInv'
<1>1. CASE UNCHANGED vars
  BY <1>1 DEF vars, local, bucket, ChainInv, NoDanglingParent, LocalClosed, Chained,
     ManifestsThere
<1>2. ASSUME NEW m \in Machine,
             Begin(m) \/ Download(m) \/ UploadStep(m) \/ GCStep(m) \/ Abort(m)
      PROVE  ChainInv'
  BY <1>2, CommandChained, DownloadChained, UploadHalfChained DEF Begin, Command, Snapshot
<1>3. CASE \E m \in Machine, blob \in Blob : LoseObject(m, blob)
  BY <1>3, CommandChained
<1>4. CASE \E m \in Machine : CommitBeside(m)
  BY <1>4, CommandChained DEF CommitBeside
<1> QED
  BY <1>1, <1>2, <1>3, <1>4 DEF StayNext, NextLossy, NextBeside, Next

LEMMA ChainInit ==
  ASSUME Init
  PROVE  ChainInv
<1>1. NoDanglingParent
  BY DEF Init, NoDanglingParent
<1>2. ASSUME NEW m \in Machine
      PROVE  LocalClosed(m) /\ Chained(m)
  <2>1. proc[m] = Idle /\ manifests[m] = {}
    BY DEF Init
  <2> QED
    BY <2>1 DEF LocalClosed, Chained, Idle
<1> QED
  BY <1>1, <1>2 DEF ChainInv

LEMMA StayStep ==
  ASSUME NamesDiffer
  PROVE  TypeInv /\ TipInv /\ ChainInv /\ [StayNext]_vars => TypeInv' /\ TipInv' /\ ChainInv'
BY TypeStep, TipStep, ChainStep DEF StayNext, AnyNext, NextMove

\* As long as machines stay with their bucket, its HEAD can be checked out with
\* all its history, and no manifest in it ever lacks an ancestor: whichever
\* pushes are cut, and whatever local files are lost.
THEOREM Complete ==
  ASSUME NamesDiffer
  PROVE  SpecStay => [](HeadComplete /\ NoDanglingParent)
<1>1. Init => TypeInv /\ TipInv /\ ChainInv
  BY TypeInit, TipInit, ChainInit
<1>2. TypeInv /\ TipInv /\ ChainInv /\ [StayNext]_vars => TypeInv' /\ TipInv' /\ ChainInv'
  BY StayStep
<1>3. TipInv /\ ChainInv => HeadComplete /\ NoDanglingParent
  BY DEF TipInv, HeadUsable, TipThere, ChainInv, NoDanglingParent, HeadComplete
<1> QED
  BY <1>1, <1>2, <1>3, PTL DEF SpecStay

\* Oldest first: a reader of the bucket never finds a manifest without its parent.
COROLLARY NoneDangling ==
  ASSUME NamesDiffer
  PROVE  SpecStay => []NoDanglingParent
BY Complete, PTL

-----------------------------------------------------------------------------
(***************************************************************************)
(* Sync implements Archive.                                                *)
(***************************************************************************)

\* A blob goes up, or was there.
LEMMA BlobArchived ==
  ASSUME TypeInv, NEW m \in Machine, UploadBlob(m) \/ EnsureBlob(m)
  PROVE  [Readers!Next]_(Readers!archive)
<1>1. PICK blob \in proc[m].blobs : UNCHANGED remoteBlobs \/ PutBlob(m, blob)
  BY DEF UploadBlob, EnsureBlob
<1>2. blob \in Blob /\ remote[m] \in Bucket
  BY DEF TypeInv, TypeOK, Process
<1>3. UNCHANGED << remoteManifests, remoteHead >>
  BY DEF UploadBlob, EnsureBlob
<1>4. CASE PutBlob(m, blob)
  BY <1>2, <1>3, <1>4 DEF PutBlob, Readers!Next, Readers!AddBlob
<1>5. CASE UNCHANGED remoteBlobs
  BY <1>3, <1>5 DEF Readers!archive
<1> QED
  BY <1>1, <1>4, <1>5

\* A manifest goes up after its ancestors, or was there.
LEMMA ManifestArchived ==
  ASSUME TypeInv, ChainInv, NEW m \in Machine, UploadManifest(m) \/ EnsureManifest(m)
  PROVE  [Readers!Next]_(Readers!archive)
<1>1. remote[m] \in Bucket /\ remoteManifests \in [Bucket -> SUBSET Manifest]
  BY DEF TypeInv, TypeOK
<1>2. UNCHANGED << remoteBlobs, remoteHead >>
  BY DEF UploadManifest, EnsureManifest
<1>3. CASE UploadManifest(m)
  <2>1. PICK M \in proc[m].mans : /\ Chain(M) \subseteq ManifestsThere(m) \cup {M}
                                  /\ PutManifest(m, M)
    BY <1>3, OldestFirst
  <2>2. M \in remoteManifests'[remote[m]]
    BY <1>1, <2>1 DEF PutManifest
  <2>3. Readers!AddManifest(remote[m])
    BY <1>2, <2>1, <2>2 DEF Readers!AddManifest, Readers!Chain, Readers!Prefix, Chain, Prefix,
       PutManifest, ManifestsThere
  <2> QED
    BY <1>1, <2>3 DEF Readers!Next
<1>4. CASE EnsureManifest(m)
  <2>1. PICK M \in proc[m].mans : PutManifest(m, M)
    BY <1>4 DEF EnsureManifest
  <2>2. M \in ManifestsThere(m)
    BY <1>4 DEF EnsureManifest, At, ChainInv, Chained
  <2>3. UNCHANGED remoteManifests
    BY <1>1, <2>1, <2>2 DEF PutManifest, ManifestsThere
  <2> QED
    BY <1>2, <2>3 DEF Readers!archive
<1> QED
  BY <1>3, <1>4

\* HEAD moves to what is there whole.
LEMMA HeadArchived ==
  ASSUME TypeInv, TipInv, ChainInv, NEW m \in Machine, WriteRemoteHead(m)
  PROVE  [Readers!Next]_(Readers!archive)
<1> DEFINE M == proc[m].target
           b == remote[m]
<1>1. b \in Bucket /\ NoDanglingParent /\ Tip(m)
  BY DEF TypeInv, TypeOK, TipInv, ChainInv
<1>2. M \in remoteManifests[b] /\ TreeOf(M) \subseteq remoteBlobs[b]
  BY <1>1 DEF WriteRemoteHead, At, Tip, ManifestsThere, BlobsThere
<1>3. Chain(M) \subseteq remoteManifests[b]
  BY <1>1, <1>2 DEF NoDanglingParent
<1>4. Readers!Whole(b, M)
  BY <1>2, <1>3 DEF Readers!Whole, Readers!Chain, Readers!Prefix, Readers!TreeOf,
     Chain, Prefix, TreeOf
<1>5. Readers!Publish(b)
  BY <1>2, <1>4 DEF WriteRemoteHead, Readers!Publish
<1> QED
  BY <1>1, <1>5 DEF Readers!Next

\* Every other step leaves blobs/, manifests/ and HEAD of every bucket alone.
LEMMA ArchiveStep ==
  ASSUME TypeInv, TipInv, ChainInv, [StayNext]_vars
  PROVE  [Readers!Next]_(Readers!archive)
<1>1. ASSUME UNCHANGED << remoteBlobs, remoteManifests, remoteHead >>
      PROVE  [Readers!Next]_(Readers!archive)
  BY <1>1 DEF Readers!archive
<1>2. CASE UNCHANGED vars
  BY <1>1, <1>2 DEF vars, bucket
<1>3. ASSUME NEW m \in Machine, Begin(m) \/ Download(m) \/ GCStep(m) \/ Abort(m)
      PROVE  [Readers!Next]_(Readers!archive)
  <2>1. UNCHANGED bucket
    BY <1>3 DEF Begin, Snapshot, TakeSnapshot, Command, Checkout, Push, Fetch, Compare,
       Download, FetchManifest, Ahead, Behind, Diverged, DownloadBlob, Merge,
       FetchTarget, StartDownload, Apply, EndFetch, GCStep, GCKeep, GCList, GCDelete, GCEnd, Abort
  <2> QED
    BY <1>1, <2>1 DEF bucket
<1>4. ASSUME NEW m \in Machine, UploadStep(m)
      PROVE  [Readers!Next]_(Readers!archive)
  <2>1. CASE ReadCovered(m) \/ ReadKnown(m) \/ StartEnsure(m) \/ WriteLog(m) \/ WriteCache(m)
    BY <1>1, <2>1 DEF ReadCovered, ReadKnown, StartEnsure, WriteLog, WriteCache, bucket
  <2> QED
    BY <1>4, <2>1, BlobArchived, ManifestArchived, HeadArchived DEF UploadStep
<1>5. CASE \E m \in Machine, blob \in Blob : LoseObject(m, blob)
  BY <1>1, <1>5 DEF LoseObject, bucket
<1>6. CASE \E m \in Machine : CommitBeside(m)
  BY <1>1, <1>6 DEF CommitBeside, TakeSnapshot, bucket
<1> QED
  BY <1>2, <1>3, <1>4, <1>5, <1>6 DEF StayNext, NextLossy, NextBeside, Next

\* As long as machines stay with their bucket, whoever reads it sees what
\* Archive promises, whichever steps the machines interleave.
THEOREM Implements ==
  ASSUME NamesDiffer
  PROVE  SpecStay => ImplementsArchive
<1>1. Init => TypeInv /\ TipInv /\ ChainInv /\ Readers!Init
  BY TypeInit, TipInit, ChainInit DEF Init, Readers!Init, Readers!NoManifest, NoManifest
<1>2. TypeInv /\ TipInv /\ ChainInv /\ [StayNext]_vars => TypeInv' /\ TipInv' /\ ChainInv'
  BY StayStep
<1>3. TypeInv /\ TipInv /\ ChainInv /\ [StayNext]_vars => [Readers!Next]_(Readers!archive)
  BY ArchiveStep
<1> QED
  BY <1>1, <1>2, <1>3, PTL DEF SpecStay, ImplementsArchive, Readers!Spec
=============================================================================
