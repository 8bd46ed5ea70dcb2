----------------------------- MODULE DeltaProofs -----------------------------
(***************************************************************************)
(* That a delta rebuilds its manifest, and the properties of Keyframes:    *)
(* TypeOK and BasesThere whichever cycles are cut, NoDeltaOnDelta and      *)
(* KeyframesFull until one is.                                             *)
(***************************************************************************)
EXTENDS KeyframesInvariants, ChainLemmas, Delta

\* What downloadManifestObject rebuilds from a delta and its base is the manifest
\* that manifestUploadForm made the delta of, whatever changed between the two, so
\* that the SHA of a delta's object never fails to match for want of a change.
THEOREM DeltaRebuilds ==
  ASSUME NEW base \in Lists, NEW m \in Lists
  PROVE  ApplyDelta(base, MakeDelta(base, m)) = m
<1> DEFINE d == MakeDelta(base, m)
<1>1. PICK P \in SUBSET Path, Q \in SUBSET Path : base \in [P -> Entry] /\ m \in [Q -> Entry]
  BY DEF Lists
<1>2. DOMAIN base = P /\ DOMAIN m = Q
  BY <1>1
<1>3. /\ DOMAIN d.set = {q \in Q : ~ (q \in P /\ SameManifestFile(base[q], m[q]))}
      /\ \A p \in DOMAIN d.set : d.set[p] = m[p]
      /\ d.del = P \ Q
  BY <1>2 DEF MakeDelta
<1>4. (P \ d.del) \cup DOMAIN d.set = Q
  BY <1>3
<1>5. ASSUME NEW p \in Q
      PROVE  (IF p \in DOMAIN d.set THEN d.set[p] ELSE base[p]) = m[p]
  <2>1. CASE p \in DOMAIN d.set
    BY <1>3, <2>1
  <2>2. CASE p \notin DOMAIN d.set
    <3>1. p \in P /\ SameManifestFile(base[p], m[p])
      BY <1>3, <1>5, <2>2
    <3>2. base[p] \in Entry /\ m[p] \in Entry
      BY <1>1, <1>5, <3>1
    <3> QED
      BY <2>2, <3>1, <3>2 DEF SameManifestFile, Entry
  <2> QED
    BY <2>1, <2>2
<1>6. ApplyDelta(base, d) = [p \in Q |-> IF p \in DOMAIN d.set THEN d.set[p] ELSE base[p]]
  BY <1>2, <1>4 DEF ApplyDelta
<1>7. ApplyDelta(base, d) = [p \in Q |-> m[p]]
  BY <1>5, <1>6
<1> QED
  BY <1>1, <1>7

-----------------------------------------------------------------------------
(***************************************************************************)
(* Types.                                                                  *)
(***************************************************************************)

\* A base is a proper ancestor, and one of the manifests that it may be.
LEMMA NearestType ==
  ASSUME NEW M \in Manifest, NEW K
  PROVE  \/ NearestBase(M, K) = NoManifest
         \/ \E i \in 1 .. Len(M) - 1 :
              NearestBase(M, K) = Prefix(M, i) /\ Prefix(M, i) \in K
<1> DEFINE near  == {i \in Bases(M, K) : \A k \in Bases(M, K) : k <= i}
           small == {Prefix(M, i) : i \in {k \in near : Small(Prefix(M, k), M)}}
<1>1. CASE small = {}
  BY <1>1 DEF NearestBase
<1>2. CASE small # {}
  <2>1. NearestBase(M, K) \in small
    BY <1>2 DEF NearestBase
  <2>2. \A B \in small : \E i \in Bases(M, K) : B = Prefix(M, i)
    OBVIOUS
  <2> QED
    BY <2>1, <2>2 DEF Bases
<1> QED
  BY <1>1, <1>2

\* An ancestor of M other than M.
LEMMA ProperAncestor ==
  ASSUME NEW M \in Manifest, NEW i \in 1 .. Len(M) - 1
  PROVE  /\ i \in 1 .. Len(M)
         /\ Prefix(M, i) \in Manifest /\ Len(Prefix(M, i)) = i /\ i < Len(M)
         /\ Prefix(M, i) \in Chain(M) \ {M}
<1>1. i \in 1 .. Len(M) /\ i < Len(M)
  BY PrefixWhole
<1>2. Prefix(M, i) \in Manifest /\ Len(Prefix(M, i)) = i
  BY <1>1, PrefixType
<1> QED
  BY <1>1, <1>2 DEF Chain

\* The base that manifestUploadForm picks is one that the walk reaches.
LEMMA UploadBaseType ==
  ASSUME NEW m \in Machine, NEW M \in Manifest
  PROVE  \/ UploadBase(m, M) = NoManifest
         \/ \E i \in 1 .. Len(M) - 1 :
              /\ UploadBase(m, M) = Prefix(M, i)
              /\ Prefix(M, i) \in LocalChain(M, manifests[m] \cup {M})
<1> DEFINE K == keyframes[m] \cap LocalChain(M, manifests[m] \cup {M})
<1>1. UploadBase(m, M) = NearestBase(M, K)
  BY DEF UploadBase
<1>2. \/ NearestBase(M, K) = NoManifest
      \/ \E i \in 1 .. Len(M) - 1 : NearestBase(M, K) = Prefix(M, i) /\ Prefix(M, i) \in K
  <2> HIDE DEF K
  <2> QED BY NearestType
<1> QED
  BY <1>1, <1>2

\* A first snapshot.
LEMMA RootType ==
  ASSUME NEW l \in Listing
  PROVE  << l >> \in Manifest /\ Len(<< l >>) = 1
<1>1. << l >> \in Seq(Listing) /\ Len(<< l >>) = 1 /\ Len(<< >>) = 0
  OBVIOUS
<1> QED BY <1>1 DEF Manifest, NoManifest

LEMMA IdleType == Idle \in Process
BY DEF Idle, Process, Optional

LEMMA IdleSteady == Idle \in Process /\ Steady(Idle)
BY IdleType DEF Idle, Steady

LEMMA InitTypes ==
  ASSUME Fresh \/ Started \/ Moved
  PROVE  TypeInv
<1>1. ASSUME NEW G, NEW H \in Optional, NEW K \in SUBSET Manifest, Folders(G, H, K)
      PROVE  /\ manifests \in [Machine -> SUBSET Manifest]
             /\ keyframes \in [Machine -> SUBSET Manifest]
             /\ head \in [Machine -> Optional]
             /\ proc \in [Machine -> Process] /\ \A m \in Machine : Steady(proc[m])
             /\ kills \in 0 .. MaxKills
  <2>1. Chain(H) \subseteq Manifest
    <3>1. CASE H \in Manifest
      BY <3>1, ChainType
    <3>2. CASE H = NoManifest
      BY <3>2 DEF Chain, NoManifest
    <3> QED BY <3>1, <3>2 DEF Optional
  <2>2. NoManifest \in Optional
    BY DEF Optional
  <2>3. MaxKills \in Nat
    BY BoundsAssumption
  <2> QED
    BY <1>1, <2>1, <2>2, <2>3, IdleSteady DEF Folders, Idle, Steady
<1>2. ASSUME NEW m \in Machine, NEW t \in Tree
      PROVE  << [tree |-> t, by |-> m] >> \in Manifest
  <2>1. [tree |-> t, by |-> m] \in Listing
    BY KeyframesAssumption DEF Listing
  <2> QED BY <2>1, RootType
<1>3. ASSUME EmptyBucket
      PROVE  /\ cache \in [Machine -> SUBSET Manifest]
             /\ stored \subseteq Manifest \X Optional
             /\ \A o, p \in stored : o[1] = p[1] => o = p
             /\ remoteHead \in Optional
             /\ pushLog \subseteq SUBSET Manifest
  BY <1>3 DEF EmptyBucket, Optional
<1>4. CASE Fresh
  <2>1. NoManifest \in Optional
    BY DEF Optional
  <2> QED BY <1>1, <1>3, <1>4, <2>1 DEF Fresh, TypeOK, TypeInv
<1>5. CASE Started
  <2>1. PICK m \in Machine, t \in Tree :
          LET R == << [tree |-> t, by |-> m] >>
          IN  /\ Folders({m}, R, {R})
              /\ cache = [n \in Machine |-> IF n = m THEN {R} ELSE {}]
              /\ stored = {<< R, NoManifest >>} /\ remoteHead = R /\ pushLog = {{R}}
    BY <1>5 DEF Started
  <2> DEFINE R == << [tree |-> t, by |-> m] >>
  <2>2. R \in Manifest /\ R \in Optional /\ NoManifest \in Optional
    BY <1>2 DEF Optional
  <2> HIDE DEF R
  <2>3. Folders({m}, R, {R})
    BY <2>1 DEF R
  <2>4. /\ cache = [n \in Machine |-> IF n = m THEN {R} ELSE {}]
        /\ stored = {<< R, NoManifest >>} /\ remoteHead = R /\ pushLog = {{R}}
    BY <2>1 DEF R
  <2>5. {R} \in SUBSET Manifest
    BY <2>2
  <2>6. /\ stored \subseteq Manifest \X Optional
        /\ \A o, p \in stored : o[1] = p[1] => o = p
        /\ pushLog \subseteq SUBSET Manifest
        /\ cache \in [Machine -> SUBSET Manifest]
    BY <2>2, <2>4
  <2>7. /\ manifests \in [Machine -> SUBSET Manifest]
        /\ keyframes \in [Machine -> SUBSET Manifest]
        /\ head \in [Machine -> Optional]
        /\ proc \in [Machine -> Process] /\ \A n \in Machine : Steady(proc[n])
        /\ kills \in 0 .. MaxKills
    BY <1>1, <2>2, <2>3, <2>5
  <2> QED BY <2>2, <2>4, <2>6, <2>7 DEF TypeOK, TypeInv
<1>6. CASE Moved
  <2>1. PICK m \in Machine, s \in Tree, t \in Tree :
          LET R == << [tree |-> s, by |-> m] >>
              H == Append(R, [tree |-> t, by |-> m])
          IN  /\ Folders(Machine, H, {R} \cup (IF Small(R, H) THEN {} ELSE {H}))
              /\ EmptyBucket
    BY <1>6 DEF Moved
  <2> DEFINE R == << [tree |-> s, by |-> m] >>
             H == Append(R, [tree |-> t, by |-> m])
  <2>2. R \in Manifest
    BY <1>2
  <2>3. H \in Manifest
    <3>1. [tree |-> t, by |-> m] \in Listing
      BY KeyframesAssumption DEF Listing
    <3> QED BY <2>2, <3>1, AppendType
  <2>4. Folders(Machine, H, {R} \cup (IF Small(R, H) THEN {} ELSE {H})) /\ EmptyBucket
    BY <2>1
  <2> HIDE DEF R, H
  <2>5. {R} \cup (IF Small(R, H) THEN {} ELSE {H}) \in SUBSET Manifest /\ H \in Optional
    BY <2>2, <2>3 DEF Optional
  <2> QED BY <1>1, <1>3, <2>4, <2>5 DEF TypeOK, TypeInv
<1> QED
  BY <1>4, <1>5, <1>6


\* Steps of a process that touch only local files, and that touch only the bucket.
LEMMA LocalTypes ==
  ASSUME TypeInv, NEW m \in Machine, NEW p \in Process, Steady(p), Goto(m, p) \/ UNCHANGED proc,
         manifests' \in [Machine -> SUBSET Manifest],
         keyframes' \in [Machine -> SUBSET Manifest],
         head' \in [Machine -> Optional],
         cache' \in [Machine -> SUBSET Manifest],
         kills' \in 0 .. MaxKills,
         UNCHANGED bucket
  PROVE  TypeInv'
<1>1. proc' \in [Machine -> Process] /\ \A n \in Machine : proc'[n] \in {proc[n], p}
  BY DEF TypeInv, TypeOK, Goto
<1>2. ASSUME NEW n \in Machine
      PROVE  Steady(proc[n])'
  BY <1>1 DEF TypeInv, Steady
<1>3. TypeOK'
  BY <1>1 DEF TypeInv, TypeOK, bucket
<1> QED BY <1>2, <1>3 DEF TypeInv

LEMMA BucketTypes ==
  ASSUME TypeInv, NEW m \in Machine, NEW p \in Process, Steady(p), Goto(m, p),
         stored' \subseteq Manifest \X Optional,
         \A o, q \in stored' : o[1] = q[1] => o = q,
         remoteHead' \in Optional,
         pushLog' \subseteq SUBSET Manifest,
         UNCHANGED << local, kills >>
  PROVE  TypeInv'
<1>1. proc' \in [Machine -> Process] /\ \A n \in Machine : proc'[n] \in {proc[n], p}
  BY DEF TypeInv, TypeOK, Goto
<1>2. ASSUME NEW n \in Machine
      PROVE  Steady(proc[n])'
  BY <1>1 DEF TypeInv, Steady
<1>3. TypeOK'
  BY <1>1 DEF TypeInv, TypeOK, local
<1> QED BY <1>2, <1>3 DEF TypeInv

LEMMA TypesOf ==
  ASSUME TypeInv, NEW m \in Machine
  PROVE  /\ proc[m] \in Process
         /\ Steady(proc[m])
         /\ proc[m].target \in Optional /\ proc[m].sha \in Optional /\ proc[m].base \in Optional
         /\ proc[m].known \in SUBSET Manifest /\ proc[m].novel \in SUBSET Manifest
         /\ proc[m].todo \in SUBSET Manifest
         /\ manifests[m] \in SUBSET Manifest /\ keyframes[m] \in SUBSET Manifest
         /\ head[m] \in Optional /\ cache[m] \in SUBSET Manifest
BY DEF TypeInv, TypeOK, Process

LEMMA SnapshotType ==
  ASSUME NEW m \in Machine, NEW M \in Optional, NEW t \in Tree
  PROVE  /\ Append(M, [tree |-> t, by |-> m]) \in Manifest
         /\ Append(M, [tree |-> t, by |-> m]) \in Optional
<1>1. [tree |-> t, by |-> m] \in Listing
  BY KeyframesAssumption DEF Listing
<1> QED BY <1>1, AppendType DEF Optional

\* The steps of commit, comparison and fetch.
LEMMA FetchTypes ==
  ASSUME TypeInv, NEW m \in Machine,
         \/ Commit(m) \/ Compare(m) \/ Look(m) \/ FetchBase(m) \/ NoteArrival(m)
         \/ StoreManifest(m) \/ Ahead(m) \/ Behind(m) \/ Diverged(m)
  PROVE  TypeInv'
<1>1. /\ manifests \in [Machine -> SUBSET Manifest] /\ keyframes \in [Machine -> SUBSET Manifest]
      /\ head \in [Machine -> Optional] /\ cache \in [Machine -> SUBSET Manifest]
      /\ remoteHead \in Optional /\ NoManifest \in Optional /\ Manifest \subseteq Optional
      /\ kills \in 0 .. MaxKills
  BY DEF TypeInv, TypeOK, Optional
<1> DEFINE p == proc[m]
<1>2. /\ p \in Process /\ Steady(p) /\ p.target \in Optional /\ p.sha \in Optional /\ p.base \in Optional
  BY TypesOf
<1>3. ASSUME Commit(m)
      PROVE  TypeInv'
  <2>1. PICK t \in Tree : LET M == Append(head[m], [tree |-> t, by |-> m])
                          IN  Learn(m, {M}) /\ SetHead(m, M)
    BY <1>3 DEF Commit
  <2> DEFINE M == Append(head[m], [tree |-> t, by |-> m])
  <2>2. M \in Manifest /\ M \in Optional
    BY <1>1, SnapshotType
  <2>3. Learn(m, {M}) /\ SetHead(m, M)
    BY <2>1
  <2> HIDE DEF M
  <2>4. manifests' \in [Machine -> SUBSET Manifest] /\ head' \in [Machine -> Optional]
    BY <1>1, <2>2, <2>3 DEF Learn, SetHead
  <2> QED BY <1>1, <1>2, <1>3, <2>4, LocalTypes DEF Commit
<1>4. ASSUME Compare(m)
      PROVE  TypeInv'
  <2> DEFINE q == IF remoteHead = NoManifest
                  THEN [Idle EXCEPT !.pc = "known", !.target = head[m]]
                  ELSE [Idle EXCEPT !.pc = "fetch", !.target = remoteHead]
  <2>1. q \in Process /\ Steady(q)
    <3>1. head[m] \in Optional /\ (remoteHead = NoManifest => head[m] # NoManifest)
      BY <1>1, <1>4 DEF Compare
    <3>2. CASE remoteHead = NoManifest
      BY <3>1, <3>2, IdleType DEF Process, Idle, Steady
    <3>3. CASE remoteHead # NoManifest
      BY <1>1, <3>3, IdleType DEF Process, Idle, Steady
    <3> QED BY <3>2, <3>3
  <2>2. Goto(m, q)
    BY <1>4 DEF Compare
  <2> HIDE DEF q
  <2> QED BY <1>1, <1>4, <2>1, <2>2, LocalTypes DEF Compare, local
<1>5. ASSUME Look(m)
      PROVE  TypeInv'
  <2>1. PICK o \in stored :
          Goto(m, [proc[m] EXCEPT
                     !.pc = IF o[2] \in manifests[m] \cup {NoManifest} THEN "note" ELSE "base",
                     !.sha = o[1], !.base = o[2]])
    BY <1>5 DEF Look
  <2> DEFINE q == [proc[m] EXCEPT
                     !.pc = IF o[2] \in manifests[m] \cup {NoManifest} THEN "note" ELSE "base",
                     !.sha = o[1], !.base = o[2]]
  <2>2. o[1] \in Optional /\ o[2] \in Optional /\ o[1] # NoManifest
    BY <1>1 DEF TypeInv, TypeOK, Manifest
  <2>3. q \in Process /\ Steady(q)
    BY <1>2, <1>5, <2>2 DEF Process, Steady, Look, At
  <2>4. Goto(m, q)
    BY <2>1
  <2> HIDE DEF q
  <2> QED BY <1>1, <1>5, <2>3, <2>4, LocalTypes DEF Look, local
<1>6. ASSUME FetchBase(m)
      PROVE  TypeInv'
  <2>1. CASE << p.base, NoManifest >> \in stored
    <3> DEFINE q == [proc[m] EXCEPT !.pc = "note"]
    <3>1. q \in Process /\ Steady(q)
      BY <1>2, <1>6 DEF Process, Steady, FetchBase, At
    <3>2. Goto(m, q) /\ Learn(m, {p.base})
      BY <1>6, <2>1 DEF FetchBase
    <3> HIDE DEF q
    <3>3. p.base \in Manifest
      BY <2>1 DEF TypeInv, TypeOK
    <3>4. manifests' \in [Machine -> SUBSET Manifest]
      BY <1>1, <3>2, <3>3 DEF Learn
    <3> QED BY <1>1, <1>6, <3>1, <3>2, <3>4, LocalTypes DEF FetchBase
  <2>2. CASE << p.base, NoManifest >> \notin stored
    <3>1. Goto(m, Idle) /\ UNCHANGED manifests
      BY <1>6, <2>2 DEF FetchBase
    <3> QED BY <1>1, <1>6, <3>1, IdleSteady, LocalTypes DEF FetchBase
  <2> QED BY <2>1, <2>2
<1>7. ASSUME NoteArrival(m)
      PROVE  TypeInv'
  <2> DEFINE q == [proc[m] EXCEPT !.pc = "store"]
             M == IF p.base = NoManifest THEN p.sha ELSE p.base
  <2>1. q \in Process /\ Steady(q) /\ M \in Manifest
    BY <1>2, <1>7 DEF Process, Steady, NoteArrival, At, Optional
  <2>2. Goto(m, q) /\ Note(m, M)
    BY <1>7 DEF NoteArrival
  <2> HIDE DEF q, M
  <2>3. keyframes' \in [Machine -> SUBSET Manifest]
    BY <1>1, <2>1, <2>2 DEF Note
  <2> QED BY <1>1, <1>7, <2>1, <2>2, <2>3, LocalTypes DEF NoteArrival
<1>8. ASSUME StoreManifest(m)
      PROVE  TypeInv'
  <2> DEFINE q == [proc[m] EXCEPT !.pc = "fetch"]
  <2>1. q \in Process /\ Steady(q) /\ p.sha \in Manifest
    BY <1>2, <1>8 DEF Process, Steady, StoreManifest, At, Optional
  <2>2. Goto(m, q) /\ Learn(m, {p.sha})
    BY <1>8 DEF StoreManifest
  <2> HIDE DEF q
  <2>3. manifests' \in [Machine -> SUBSET Manifest]
    BY <1>1, <2>1, <2>2 DEF Learn
  <2> QED BY <1>1, <1>8, <2>1, <2>2, <2>3, LocalTypes DEF StoreManifest
<1>9. ASSUME Ahead(m)
      PROVE  TypeInv'
  <2> DEFINE q == [Idle EXCEPT !.pc = "known", !.target = head[m]]
  <2>1. head[m] \in Optional /\ head[m] # NoManifest
    BY <1>1, <1>9 DEF Ahead
  <2>2. q \in Process /\ Steady(q) /\ Goto(m, q)
    BY <1>9, <2>1, IdleType DEF Process, Idle, Steady, Ahead
  <2> HIDE DEF q
  <2> QED BY <1>1, <1>9, <2>2, LocalTypes DEF Ahead, local
<1>10. ASSUME Behind(m)
       PROVE  TypeInv'
  <2>1. head' \in [Machine -> Optional]
    BY <1>1, <1>2, <1>10 DEF Behind, SetHead
  <2> QED BY <1>1, <1>10, <2>1, IdleSteady, LocalTypes DEF Behind
<1>11. ASSUME Diverged(m)
       PROVE  TypeInv'
  <2>1. CASE HasCommonAncestor(head[m], p.target, manifests[m])
    <3>1. PICK t \in Tree :
            LET M == Append(p.target, [tree |-> t, by |-> m])
            IN  /\ Learn(m, {M}) /\ SetHead(m, M)
                /\ Goto(m, [Idle EXCEPT !.pc = "known", !.target = M])
      BY <1>11, <2>1 DEF Diverged
    <3> DEFINE M == Append(p.target, [tree |-> t, by |-> m])
               q == [Idle EXCEPT !.pc = "known", !.target = M]
    <3>2. M \in Manifest /\ M \in Optional
      BY <1>2, SnapshotType
    <3>3. Learn(m, {M}) /\ SetHead(m, M) /\ Goto(m, q)
      BY <3>1
    <3> HIDE DEF M
    <3>4. q \in Process /\ Steady(q)
      BY <3>2, IdleType DEF Process, Idle, Steady, Manifest
    <3> HIDE DEF q
    <3>5. manifests' \in [Machine -> SUBSET Manifest] /\ head' \in [Machine -> Optional]
      BY <1>1, <3>2, <3>3 DEF Learn, SetHead
    <3> QED BY <1>1, <1>11, <3>3, <3>4, <3>5, LocalTypes DEF Diverged
  <2>2. CASE ~ HasCommonAncestor(head[m], p.target, manifests[m])
    <3>1. Goto(m, Idle) /\ UNCHANGED << manifests, head >>
      BY <1>11, <2>2 DEF Diverged
    <3> QED BY <1>1, <1>11, <3>1, IdleSteady, LocalTypes DEF Diverged
  <2> QED BY <2>1, <2>2
<1> QED
  BY <1>3, <1>4, <1>5, <1>6, <1>7, <1>8, <1>9, <1>10, <1>11

\* The steps of a push.
LEMMA PushTypes ==
  ASSUME TypeInv, NEW m \in Machine,
         \/ ReadKnown(m) \/ Upload(m) \/ NoteUpload(m)
         \/ WriteRemoteHead(m) \/ WriteLog(m) \/ WriteCache(m) \/ Kill(m)
  PROVE  TypeInv'
<1> DEFINE p == proc[m]
<1>1. /\ manifests \in [Machine -> SUBSET Manifest] /\ keyframes \in [Machine -> SUBSET Manifest]
      /\ head \in [Machine -> Optional] /\ cache \in [Machine -> SUBSET Manifest]
      /\ stored \subseteq Manifest \X Optional
      /\ \A o, q \in stored : o[1] = q[1] => o = q
      /\ remoteHead \in Optional /\ NoManifest \in Optional /\ Manifest \subseteq Optional
      /\ pushLog \subseteq SUBSET Manifest /\ kills \in 0 .. MaxKills
  BY DEF TypeInv, TypeOK, Optional
<1>2. /\ p \in Process /\ Steady(p) /\ p.target \in Optional
      /\ p.sha \in Optional /\ p.known \in SUBSET Manifest /\ p.novel \in SUBSET Manifest
      /\ p.todo \in SUBSET Manifest
      /\ manifests[m] \in SUBSET Manifest /\ cache[m] \in SUBSET Manifest
  BY TypesOf
<1>3. ASSUME ReadKnown(m)
      PROVE  TypeInv'
  <2> DEFINE novel == LocalChain(p.target, manifests[m]) \ Known(m)
             q == [p EXCEPT !.pc = "upload", !.known = Known(m), !.novel = novel, !.todo = novel]
  <2>1. Known(m) \in SUBSET Manifest
    BY <1>1 DEF Known, Names
  <2>2. p.target # NoManifest
    BY <1>2, <1>3 DEF ReadKnown, At, Steady
  <2>3. novel \in SUBSET Manifest
    BY <1>2, <2>2, LocalChainType DEF Optional
  <2>4. Goto(m, q)
    BY <1>3 DEF ReadKnown
  <2> HIDE DEF novel
  <2>5. q \in Process /\ Steady(q)
    BY <1>2, <2>1, <2>2, <2>3 DEF Process, Steady
  <2> HIDE DEF q
  <2> QED BY <1>1, <1>3, <2>4, <2>5, LocalTypes DEF ReadKnown, local
<1>4. ASSUME Upload(m)
      PROVE  TypeInv'
  <2>1. PICK M \in p.todo :
          LET base == UploadBase(m, M)
          IN  /\ stored' = {o \in stored : o[1] # M} \cup {<< M, base >>}
              /\ Goto(m, [p EXCEPT !.pc = IF base = NoManifest THEN "uploaded" ELSE @,
                                   !.sha = M, !.todo = @ \ {M}])
    BY <1>4 DEF Upload
  <2> DEFINE base == UploadBase(m, M)
             q == [p EXCEPT !.pc = IF base = NoManifest THEN "uploaded" ELSE @,
                            !.sha = M, !.todo = @ \ {M}]
  <2>2. M \in Manifest
    BY <1>2
  <2>3. base \in Optional
    <3>1. CASE base = NoManifest
      BY <1>1, <3>1
    <3>2. CASE base # NoManifest
      <4>1. PICK i \in 1 .. Len(M) - 1 : base = Prefix(M, i)
        BY <2>2, <3>2, UploadBaseType
      <4> QED BY <1>1, <2>2, <4>1, ProperAncestor
    <3> QED BY <3>1, <3>2
  <2>4. stored' = {o \in stored : o[1] # M} \cup {<< M, base >>} /\ Goto(m, q)
    BY <2>1
  <2> HIDE DEF base
  <2>5. q \in Process /\ Steady(q)
    <3>1. M \in Optional /\ M # NoManifest /\ p.todo \ {M} \in SUBSET Manifest
      BY <1>1, <1>2, <2>2 DEF Manifest
    <3>2. p.pc = "upload"
      BY <1>4 DEF Upload, At
    <3>3. p.target # NoManifest
      BY <1>2, <3>2 DEF Steady
    <3>4. Steady(q)
      BY <1>2, <3>1, <3>3 DEF Steady, Process
    <3> QED BY <1>2, <3>1, <3>2, <3>4 DEF Process
  <2> HIDE DEF q
  <2>6. /\ stored' \subseteq Manifest \X Optional
        /\ \A o, r \in stored' : o[1] = r[1] => o = r
    BY <1>1, <2>2, <2>3, <2>4
  <2> QED BY <1>1, <1>4, <2>4, <2>5, <2>6, BucketTypes DEF Upload
<1>5. ASSUME NoteUpload(m)
      PROVE  TypeInv'
  <2> DEFINE q == [p EXCEPT !.pc = "upload"]
  <2>1. q \in Process /\ Steady(q) /\ p.sha \in Manifest
    BY <1>2, <1>5 DEF Process, Steady, NoteUpload, At, Optional
  <2>2. Goto(m, q) /\ Note(m, p.sha)
    BY <1>5 DEF NoteUpload
  <2> HIDE DEF q
  <2>3. keyframes' \in [Machine -> SUBSET Manifest]
    BY <1>1, <2>1, <2>2 DEF Note
  <2> QED BY <1>1, <1>5, <2>1, <2>2, <2>3, LocalTypes DEF NoteUpload
<1>6. ASSUME WriteRemoteHead(m)
      PROVE  TypeInv'
  <2> DEFINE q == [p EXCEPT !.pc = IF p.novel = {} THEN "cache" ELSE "log"]
  <2>1. q \in Process /\ Steady(q) /\ Goto(m, q)
    BY <1>2, <1>6 DEF Process, Steady, WriteRemoteHead, At
  <2> HIDE DEF q
  <2> QED BY <1>1, <1>2, <1>6, <2>1, BucketTypes DEF WriteRemoteHead
<1>7. ASSUME WriteLog(m)
      PROVE  TypeInv'
  <2> DEFINE q == [p EXCEPT !.pc = "cache"]
  <2>1. q \in Process /\ Steady(q) /\ Goto(m, q)
    BY <1>2, <1>7 DEF Process, Steady, WriteLog, At
  <2> HIDE DEF q
  <2>2. pushLog' \subseteq SUBSET Manifest
    BY <1>1, <1>2, <1>7 DEF WriteLog
  <2> QED BY <1>1, <1>7, <2>1, <2>2, BucketTypes DEF WriteLog
<1>8. ASSUME WriteCache(m)
      PROVE  TypeInv'
  <2>1. cache' \in [Machine -> SUBSET Manifest]
    BY <1>1, <1>2, <1>8 DEF WriteCache
  <2> QED BY <1>1, <1>8, <2>1, IdleSteady, LocalTypes DEF WriteCache
<1>9. ASSUME Kill(m)
      PROVE  TypeInv'
  <2>1. kills' \in 0 .. MaxKills
    BY <1>1, <1>9, BoundsAssumption DEF Kill
  <2> QED BY <1>1, <1>9, <2>1, IdleSteady, LocalTypes DEF Kill, local
<1> QED
  BY <1>3, <1>4, <1>5, <1>6, <1>7, <1>8, <1>9

LEMMA TypeStep ==
  ASSUME TypeInv, [Next]_vars
  PROVE  TypeInv'
<1>1. ASSUME NEW m \in Machine, Cycle(m) \/ Kill(m)
      PROVE  TypeInv'
  BY <1>1, FetchTypes, PushTypes DEF Cycle
<1>2. ASSUME UNCHANGED vars
      PROVE  TypeInv'
  <2>1. ASSUME NEW m \in Machine
        PROVE  Steady(proc[m])'
    BY <1>2 DEF vars, TypeInv, Steady
  <2>2. TypeOK'
    BY <1>2 DEF vars, local, bucket, TypeInv, TypeOK
  <2> QED BY <2>1, <2>2 DEF TypeInv
<1> QED
  BY <1>1, <1>2 DEF Next


-----------------------------------------------------------------------------
(***************************************************************************)
(* What a base is, whichever pushes are cut.                               *)
(***************************************************************************)

\* A walk that reaches B from M, and M from T, reaches B from T.
LEMMA WalkThrough ==
  ASSUME NEW T \in Manifest, NEW S, NEW M \in LocalChain(T, S), NEW B \in LocalChain(M, S)
  PROVE  B \in LocalChain(T, S)
<1>1. PICK i \in 1 .. Len(T) : M = Prefix(T, i) /\ LocalFrom(T, i, S)
  BY DEF LocalChain
<1>2. M \in Manifest /\ Len(M) = i
  BY <1>1, PrefixType
<1>3. PICK k \in 1 .. i : B = Prefix(M, k) /\ LocalFrom(M, k, S)
  BY <1>2 DEF LocalChain
<1>4. k \in 1 .. Len(T) /\ Len(T) \in Nat
  BY PrefixWhole
<1>5. \A j \in 1 .. i : Prefix(M, j) = Prefix(T, j)
  BY <1>1, PrefixOfPrefix
<1>6. LocalFrom(T, k, S)
  <2> SUFFICES ASSUME NEW j \in k .. Len(T)
               PROVE  Prefix(T, j) \in S
    BY DEF LocalFrom
  <2>1. CASE j \in k .. i
    BY <1>2, <1>3, <1>5, <2>1 DEF LocalFrom
  <2>2. CASE j \in i .. Len(T)
    BY <1>1, <2>2 DEF LocalFrom
  <2> QED BY <1>4, <2>1, <2>2
<1> QED
  BY <1>3, <1>4, <1>5, <1>6 DEF LocalChain

\* No machine's list is disturbed by another machine, nor by a bucket that grows.
LEMMA ListedKept ==
  ASSUME TypeInv, LogInv, NEW m \in Machine, NEW p, Goto(m, p) \/ UNCHANGED proc,
         \A n \in Machine \ {m} : manifests'[n] = manifests[n] /\ cache'[n] = cache[n],
         Names(stored) \subseteq Names(stored)',
         UNION pushLog' \subseteq Names(stored)', BasesThere', Listed(m)'
  PROVE  LogInv'
<1>1. ASSUME NEW n \in Machine \ {m}
      PROVE  Listed(n)'
  <2>1. proc'[n] = proc[n] /\ manifests'[n] = manifests[n] /\ cache'[n] = cache[n]
    BY DEF TypeInv, TypeOK, Goto
  <2>2. Listed(n)
    BY DEF LogInv
  <2> QED BY <2>1, <2>2 DEF Listed
<1> QED
  BY <1>1 DEF LogInv

\* Steps that leave the bucket alone, of a machine that has nothing listed.
LEMMA LogQuiet ==
  ASSUME TypeInv, LogInv, NEW m \in Machine, NEW p, Goto(m, p) \/ UNCHANGED proc,
         proc'[m].pc \notin {"upload", "uploaded", "log", "cache"},
         \A n \in Machine \ {m} : manifests'[n] = manifests[n],
         UNCHANGED << cache, bucket >>
  PROVE  LogInv'
<1>1. Names(stored)' = Names(stored)
  BY DEF Names, bucket
<1>2. BasesThere'
  BY <1>1 DEF LogInv, BasesThere, bucket
<1>3. Listed(m)'
  BY <1>1 DEF LogInv, Listed
<1> QED
  BY <1>1, <1>2, <1>3, ListedKept DEF LogInv, bucket

LEMMA FetchLog ==
  ASSUME TypeInv, LogInv, NEW m \in Machine,
         \/ Commit(m) \/ Compare(m) \/ Look(m) \/ FetchBase(m) \/ NoteArrival(m)
         \/ StoreManifest(m) \/ Ahead(m) \/ Behind(m) \/ Diverged(m) \/ Kill(m)
  PROVE  LogInv'
<1>1. proc \in [Machine -> Process] /\ manifests \in [Machine -> SUBSET Manifest]
  BY DEF TypeInv, TypeOK
<1>2. UNCHANGED << cache, bucket >>
  BY DEF Commit, Compare, Look, FetchBase, NoteArrival, StoreManifest, Ahead, Behind,
         Diverged, Kill, local
<1>3. \A n \in Machine \ {m} : manifests'[n] = manifests[n]
  <2>1. UNCHANGED manifests \/ \E S : Learn(m, S)
    BY DEF Commit, Compare, Look, FetchBase, NoteArrival, StoreManifest, Ahead, Behind,
           Diverged, Kill, local
  <2> QED BY <1>1, <2>1 DEF Learn
<1>4. \/ UNCHANGED proc /\ proc[m].pc = "idle"
      \/ \E p : Goto(m, p) /\ p.pc \in {"idle", "known", "fetch", "base", "note", "store"}
  <2>1. CASE Commit(m)
    BY <2>1 DEF Commit, At
  <2>2. CASE Compare(m)
    <3> DEFINE p == IF remoteHead = NoManifest
                    THEN [Idle EXCEPT !.pc = "known", !.target = head[m]]
                    ELSE [Idle EXCEPT !.pc = "fetch", !.target = remoteHead]
    <3>1. Goto(m, p)
      BY <2>2 DEF Compare
    <3>2. p.pc \in {"known", "fetch"}
      BY DEF Idle
    <3> HIDE DEF p
    <3> QED BY <3>1, <3>2
  <2>3. CASE Look(m)
    <3>1. PICK o \in stored :
            Goto(m, [proc[m] EXCEPT
                       !.pc = IF o[2] \in manifests[m] \cup {NoManifest} THEN "note" ELSE "base",
                       !.sha = o[1], !.base = o[2]])
      BY <2>3 DEF Look
    <3> DEFINE p == [proc[m] EXCEPT
                       !.pc = IF o[2] \in manifests[m] \cup {NoManifest} THEN "note" ELSE "base",
                       !.sha = o[1], !.base = o[2]]
    <3>2. p.pc \in {"note", "base"}
      BY <1>1 DEF Process
    <3>3. Goto(m, p)
      BY <3>1
    <3> HIDE DEF p
    <3> QED BY <3>2, <3>3
  <2>4. CASE FetchBase(m) \/ NoteArrival(m) \/ StoreManifest(m)
    <3>1. PICK pc \in {"note", "store", "fetch"} :
            Goto(m, [proc[m] EXCEPT !.pc = pc]) \/ Goto(m, Idle)
      BY <2>4 DEF FetchBase, NoteArrival, StoreManifest
    <3> DEFINE p == [proc[m] EXCEPT !.pc = pc]
    <3>2. p.pc = pc /\ Idle.pc = "idle"
      BY <1>1 DEF Process, Idle
    <3>3. Goto(m, p) \/ Goto(m, Idle)
      BY <3>1
    <3> HIDE DEF p
    <3> QED BY <3>2, <3>3
  <2>5. CASE Ahead(m) \/ Behind(m) \/ Diverged(m) \/ Kill(m)
    <3>1. PICK M : Goto(m, [Idle EXCEPT !.pc = "known", !.target = M]) \/ Goto(m, Idle)
      BY <2>5 DEF Ahead, Behind, Diverged, Kill
    <3> DEFINE p == [Idle EXCEPT !.pc = "known", !.target = M]
    <3>2. p.pc = "known" /\ Idle.pc = "idle"
      BY DEF Idle
    <3>3. Goto(m, p) \/ Goto(m, Idle)
      BY <3>1
    <3> HIDE DEF p
    <3> QED BY <3>2, <3>3
  <2> QED BY <2>1, <2>2, <2>3, <2>4, <2>5
<1>5. proc'[m].pc \notin {"upload", "uploaded", "log", "cache"}
  BY <1>1, <1>4 DEF Goto
<1> QED
  BY <1>2, <1>3, <1>4, <1>5, LogQuiet

\* An upload adds one name, or none.
LEMMA NamesOfUpload ==
  ASSUME NEW M, NEW base, stored' = {o \in stored : o[1] # M} \cup {<< M, base >>}
  PROVE  Names(stored)' = Names(stored) \cup {M}
<1>1. << M, base >> \in stored' /\ << M, base >>[1] = M
  OBVIOUS
<1>2. Names(stored)' \subseteq Names(stored) \cup {M}
  BY <1>1 DEF Names
<1>3. \A o \in stored : o[1] = M \/ o \in stored'
  OBVIOUS
<1>4. Names(stored) \cup {M} \subseteq Names(stored)'
  BY <1>1, <1>3 DEF Names
<1> QED
  BY <1>2, <1>4

\* An uploaded manifest is a delta of what was uploaded before.
LEMMA UploadLog ==
  ASSUME TypeInv, LogInv, NEW m \in Machine, Upload(m)
  PROVE  LogInv'
<1> DEFINE p == proc[m]
<1>1. PICK M \in p.todo :
        /\ \A N \in p.todo : Len(M) <= Len(N)
        /\ LET base == UploadBase(m, M)
           IN  /\ stored' = {o \in stored : o[1] # M} \cup {<< M, base >>}
               /\ Goto(m, [p EXCEPT !.pc = IF base = NoManifest THEN "uploaded" ELSE @,
                                    !.sha = M, !.todo = @ \ {M}])
  BY DEF Upload
<1> DEFINE base == UploadBase(m, M)
           q == [p EXCEPT !.pc = IF base = NoManifest THEN "uploaded" ELSE @,
                          !.sha = M, !.todo = @ \ {M}]
<1>2. stored' = {o \in stored : o[1] # M} \cup {<< M, base >>} /\ Goto(m, q)
  BY <1>1
<1>3. /\ p \in Process /\ Steady(p) /\ p.pc = "upload" /\ p.target \in Manifest
      /\ p.todo \subseteq Manifest /\ M \in Manifest
  BY TypesOf DEF Upload, At, Steady, Optional
<1>4. Listed(m)
  BY DEF LogInv
<1>5. UNCHANGED << manifests, cache, pushLog >>
  BY DEF Upload, local
<1>6. Names(stored)' = Names(stored) \cup {M}
  BY <1>2, NamesOfUpload
<1>7. base \in {NoManifest} \cup ((Chain(M) \ {M}) \cap Names(stored)')
  <2>1. CASE base = NoManifest
    BY <2>1
  <2>2. CASE base # NoManifest
    <3>1. PICK i \in 1 .. Len(M) - 1 :
            base = Prefix(M, i) /\ Prefix(M, i) \in LocalChain(M, manifests[m] \cup {M})
      BY <1>3, <2>2, UploadBaseType
    <3>2. base \in Chain(M) \ {M} /\ Len(base) < Len(M)
      BY <1>3, <3>1, ProperAncestor
    <3>3. M \in LocalChain(p.target, manifests[m])
      BY <1>3, <1>4 DEF Listed
    <3>4. manifests[m] \cup {M} = manifests[m]
      BY <1>3, <3>3, LocalChainType
    <3>5. base \in LocalChain(p.target, manifests[m])
      BY <1>3, <3>1, <3>3, <3>4, WalkThrough
    <3>6. base \notin p.todo
      <4>1. Len(M) \in Nat /\ Len(base) \in Nat
        BY <1>3, <3>1, ProperAncestor
      <4> QED BY <1>1, <3>2, <4>1
    <3>7. base \in Names(stored)
      BY <1>3, <1>4, <3>5, <3>6 DEF Listed
    <3> QED BY <1>6, <3>2, <3>7
  <2> QED BY <2>1, <2>2
<1>8. BasesThere'
  <2> SUFFICES ASSUME NEW o \in stored'
               PROVE  o[2] \in {NoManifest} \cup ((Chain(o[1]) \ {o[1]}) \cap Names(stored)')
    BY DEF BasesThere
  <2> HIDE DEF base
  <2>1. CASE o \in stored
    <3>1. o[2] \in {NoManifest} \cup ((Chain(o[1]) \ {o[1]}) \cap Names(stored))
      BY <2>1 DEF LogInv, BasesThere
    <3> QED BY <1>6, <3>1
  <2>2. CASE o = << M, base >>
    BY <1>7, <2>2
  <2> QED BY <1>2, <2>1, <2>2
<1>9. Listed(m)'
  <2>1. /\ q.pc \in {"upload", "uploaded"} /\ q.target = p.target /\ q.known = p.known
        /\ q.novel = p.novel /\ q.todo = p.todo \ {M}
    <3> HIDE DEF base
    <3> QED BY <1>3 DEF Process
  <2>2. proc'[m] = q
    BY <1>2 DEF Goto, TypeInv, TypeOK
  <2> HIDE DEF q, base
  <2> QED BY <1>3, <1>4, <1>5, <1>6, <2>1, <2>2 DEF Listed
<1> QED
  BY <1>2, <1>5, <1>6, <1>8, <1>9, ListedKept DEF LogInv

LEMMA PushLog ==
  ASSUME TypeInv, LogInv, NEW m \in Machine,
         \/ ReadKnown(m) \/ NoteUpload(m)
         \/ WriteRemoteHead(m) \/ WriteLog(m) \/ WriteCache(m)
  PROVE  LogInv'
<1> DEFINE p == proc[m]
<1>1. /\ p \in Process /\ proc \in [Machine -> Process]
      /\ cache \in [Machine -> SUBSET Manifest]
      /\ BasesThere /\ UNION pushLog \subseteq Names(stored) /\ Listed(m)
  BY DEF TypeInv, TypeOK, LogInv
<1>2. Names(stored)' = Names(stored) /\ UNCHANGED << stored, manifests >>
  BY DEF ReadKnown, NoteUpload, WriteRemoteHead, WriteLog, WriteCache, local, bucket, Names
<1>3. BasesThere'
  BY <1>1, <1>2 DEF BasesThere
<1>4. ASSUME ReadKnown(m)
      PROVE  LogInv'
  <2> DEFINE novel == LocalChain(p.target, manifests[m]) \ Known(m)
             q == [p EXCEPT !.pc = "upload", !.known = Known(m), !.novel = novel, !.todo = novel]
  <2>1. Known(m) \subseteq Names(stored)
    BY <1>1 DEF Known, Listed
  <2>2. Goto(m, q)
    BY <1>4 DEF ReadKnown
  <2>3. q.pc = "upload" /\ q.known = Known(m) /\ q.novel = novel /\ q.todo = novel
        /\ q.target = p.target
    <3> HIDE DEF novel
    <3> QED BY <1>1 DEF Process
  <2> HIDE DEF q
  <2>4. proc'[m] = q
    BY <1>1, <2>2 DEF Goto
  <2>5. UNCHANGED << cache, pushLog >>
    BY <1>4 DEF ReadKnown, local, bucket
  <2>6. Listed(m)'
    BY <1>1, <1>2, <2>1, <2>3, <2>4, <2>5 DEF Listed
  <2> QED BY <1>1, <1>2, <1>3, <2>2, <2>5, <2>6, ListedKept
<1>5. ASSUME NoteUpload(m)
      PROVE  LogInv'
  <2> DEFINE q == [p EXCEPT !.pc = "upload"]
  <2>1. Goto(m, q) /\ p.pc = "uploaded"
    BY <1>5 DEF NoteUpload, At
  <2>2. q.pc = "upload" /\ q.known = p.known /\ q.novel = p.novel /\ q.todo = p.todo
        /\ q.target = p.target
    BY <1>1 DEF Process
  <2> HIDE DEF q
  <2>3. proc'[m] = q
    BY <1>1, <2>1 DEF Goto
  <2>4. UNCHANGED << cache, pushLog >>
    BY <1>5 DEF NoteUpload, bucket
  <2>5. Listed(m)'
    BY <1>1, <1>2, <2>1, <2>2, <2>3, <2>4 DEF Listed
  <2> QED BY <1>1, <1>2, <1>3, <2>1, <2>4, <2>5, ListedKept
<1>6. ASSUME WriteRemoteHead(m)
      PROVE  LogInv'
  <2> DEFINE q == [p EXCEPT !.pc = IF p.novel = {} THEN "cache" ELSE "log"]
  <2>1. Goto(m, q) /\ p.pc = "upload" /\ p.todo = {}
    BY <1>6 DEF WriteRemoteHead, At
  <2>2. q.pc \in {"cache", "log"} /\ q.known = p.known /\ q.novel = p.novel
    BY <1>1 DEF Process
  <2> HIDE DEF q
  <2>3. proc'[m] = q
    BY <1>1, <2>1 DEF Goto
  <2>4. UNCHANGED << cache, pushLog >>
    BY <1>6 DEF WriteRemoteHead, local
  <2>5. Listed(m)'
    BY <1>1, <1>2, <2>1, <2>2, <2>3, <2>4 DEF Listed
  <2> QED BY <1>1, <1>2, <1>3, <2>1, <2>4, <2>5, ListedKept
<1>7. ASSUME WriteLog(m)
      PROVE  LogInv'
  <2> DEFINE q == [p EXCEPT !.pc = "cache"]
  <2>1. Goto(m, q) /\ p.pc = "log" /\ pushLog' = pushLog \cup {p.novel}
    BY <1>7 DEF WriteLog, At
  <2>2. q.pc = "cache" /\ q.known = p.known /\ q.novel = p.novel
    BY <1>1 DEF Process
  <2> HIDE DEF q
  <2>3. proc'[m] = q
    BY <1>1, <2>1 DEF Goto
  <2>4. UNCHANGED cache
    BY <1>7 DEF WriteLog, local
  <2>5. Listed(m)'
    BY <1>1, <1>2, <2>1, <2>2, <2>3, <2>4 DEF Listed
  <2>6. UNION pushLog' \subseteq Names(stored)'
    BY <1>1, <1>2, <2>1 DEF Listed
  <2> QED BY <1>1, <1>2, <1>3, <2>1, <2>4, <2>5, <2>6, ListedKept
<1>8. ASSUME WriteCache(m)
      PROVE  LogInv'
  <2>1. Goto(m, Idle) /\ p.pc = "cache" /\ UNCHANGED pushLog
    BY <1>8 DEF WriteCache, At, bucket
  <2>2. proc'[m].pc = "idle"
    BY <1>1, <2>1 DEF Goto, Idle
  <2>3. /\ cache'[m] \subseteq Names(stored)
        /\ \A n \in Machine \ {m} : cache'[n] = cache[n]
    BY <1>1, <1>8, <2>1 DEF WriteCache, Listed
  <2>4. Listed(m)'
    BY <1>2, <2>2, <2>3 DEF Listed
  <2> QED BY <1>1, <1>2, <1>3, <2>1, <2>3, <2>4, ListedKept
<1> QED
  BY <1>4, <1>5, <1>6, <1>7, <1>8

LEMMA LogStep ==
  ASSUME TypeInv, LogInv, [Next]_vars
  PROVE  LogInv'
<1>1. ASSUME NEW m \in Machine, Cycle(m) \/ Kill(m)
      PROVE  LogInv'
  BY <1>1, FetchLog, UploadLog, PushLog DEF Cycle
<1>2. ASSUME UNCHANGED vars
      PROVE  LogInv'
  BY <1>2 DEF vars, local, bucket, LogInv, BasesThere, Listed, Names
<1> QED
  BY <1>1, <1>2 DEF Next

LEMMA InitLog ==
  ASSUME Fresh \/ Started \/ Moved
  PROVE  LogInv
<1>1. CASE Fresh \/ Moved
  <2>1. EmptyBucket /\ \A m \in Machine : proc[m] = Idle
    BY <1>1 DEF Fresh, Moved, Folders
  <2>2. stored = {} /\ pushLog = {} /\ \A m \in Machine : cache[m] = {}
    BY <2>1 DEF EmptyBucket
  <2> QED BY <2>1, <2>2 DEF LogInv, BasesThere, Listed, Idle
<1>2. CASE Started
  <2>1. PICK m \in Machine, t \in Tree :
          LET R == << [tree |-> t, by |-> m] >>
          IN  /\ Folders({m}, R, {R})
              /\ cache = [n \in Machine |-> IF n = m THEN {R} ELSE {}]
              /\ stored = {<< R, NoManifest >>} /\ remoteHead = R /\ pushLog = {{R}}
    BY <1>2 DEF Started
  <2> DEFINE R == << [tree |-> t, by |-> m] >>
  <2>2. /\ \A n \in Machine : proc[n] = Idle
        /\ cache = [n \in Machine |-> IF n = m THEN {R} ELSE {}]
        /\ stored = {<< R, NoManifest >>} /\ pushLog = {{R}}
    BY <2>1 DEF Folders
  <2> HIDE DEF R
  <2>3. Names(stored) = {R} /\ \A o \in stored : o[2] = NoManifest
    BY <2>2 DEF Names
  <2>4. UNION pushLog \subseteq Names(stored) /\ BasesThere
    BY <2>2, <2>3 DEF BasesThere
  <2>5. \A n \in Machine : cache[n] \subseteq Names(stored)
    BY <2>2, <2>3
  <2>6. \A n \in Machine : proc[n].pc = "idle"
    BY <2>2 DEF Idle
  <2> QED BY <2>4, <2>5, <2>6 DEF LogInv, Listed
<1> QED
  BY <1>1, <1>2

\* The specification with everything that may happen.
SpecAny == (Fresh \/ Started \/ Moved) /\ [][Next]_vars

\* Every variable keeps its type, and what a push lists as uploaded is there.
THEOREM LogAny == SpecAny => [](TypeInv /\ LogInv)
<1>1. Fresh \/ Started \/ Moved => TypeInv /\ LogInv
  BY InitTypes, InitLog
<1>2. (TypeInv /\ LogInv) /\ [Next]_vars => (TypeInv /\ LogInv)'
  BY TypeStep, LogStep
<1> QED
  BY <1>1, <1>2, PTL DEF SpecAny

-----------------------------------------------------------------------------
(***************************************************************************)
(* Which manifests are full, until a cycle is cut.                         *)
(***************************************************************************)

\* The base of M depends on no other manifests than its ancestors.
LEMMA NearestSame ==
  ASSUME NEW M, NEW K, NEW L,
         \A i \in 1 .. Len(M) - 1 : Prefix(M, i) \in K <=> Prefix(M, i) \in L
  PROVE  NearestBase(M, K) = NearestBase(M, L)
<1>1. Bases(M, K) = Bases(M, L)
  BY DEF Bases
<1> QED
  BY <1>1 DEF NearestBase

LEMMA FullNames == Full \subseteq Names(stored)
BY DEF Full

\* A full manifest is no delta.
LEMMA FullAlone ==
  ASSUME TypeInv, NEW o \in stored, o[1] \in Full
  PROVE  o[2] = NoManifest
<1>1. << o[1], NoManifest >> \in stored /\ << o[1], NoManifest >>[1] = o[1]
  BY DEF Full
<1>2. o = << o[1], NoManifest >>
  BY <1>1 DEF TypeInv, TypeOK
<1> QED
  BY <1>2

\* The base of a stored delta is full.
LEMMA BaseFull ==
  ASSUME TypeInv, NEW S, NEW K, UncutInv(S, K), NEW o \in stored
  PROVE  o[2] = NoManifest \/ o[2] \in Full
<1>1. o[2] = NearestBase(o[1], Full) /\ o[1] \in Manifest
  BY DEF UncutInv, BucketForm, TypeInv, TypeOK
<1> QED
  BY <1>1, NearestType

\* Steps that change nothing that is stored.
LEMMA UncutQuiet ==
  ASSUME TypeInv, NEW S, NEW K, UncutInv(S, K), NEW m \in Machine,
         \A n \in Machine \ {m} :
           /\ proc'[n] = proc[n] /\ manifests'[n] = manifests[n]
           /\ keyframes'[n] = keyframes[n] /\ head'[n] = head[n],
         UNCHANGED stored,
         remoteHead' = remoteHead \/ remoteHead' # NoManifest,
         manifests[m] \subseteq manifests'[m],
         Knows(m, S, K)', Follows(m)'
  PROVE  UncutInv(S, K)'
<1>1. Names(stored)' = Names(stored) /\ Full' = Full
  BY DEF Names, Full
<1>2. BucketForm(S, K)'
  <2>1. ASSUME NEW M \in Names(stored)
        PROVE  M \in manifests'[M[Len(M)].by]
    <3>1. M \in manifests[M[Len(M)].by]
      BY DEF UncutInv, BucketForm
    <3>2. M[Len(M)].by \in Machine
      <4>1. M \in Manifest
        BY DEF Names, TypeInv, TypeOK
      <4>2. M \in Seq(Listing) /\ Len(M) \in 1 .. Len(M)
        BY <4>1, PrefixWhole DEF Manifest
      <4>3. M[Len(M)] \in Listing
        BY <4>2
      <4> QED BY <4>3 DEF Listing
    <3> QED BY <3>1, <3>2
  <2> QED BY <1>1, <2>1 DEF UncutInv, BucketForm
<1>3. ASSUME NEW n \in Machine \ {m}
      PROVE  Knows(n, S, K)' /\ Follows(n)'
  <2>1. Knows(n, S, K) /\ Follows(n)
    BY DEF UncutInv
  <2>2. Knows(n, S, K)'
    BY <1>1, <2>1 DEF Knows, At
  <2>3. Follows(n)'
    BY <2>1 DEF Follows, At, Pushing
  <2> QED BY <2>2, <2>3
<1>4. Shared(S, K)'
  BY DEF UncutInv, Shared
<1> QED
  BY <1>2, <1>3, <1>4 DEF UncutInv

\* A manifest that m takes: if the bucket has it, m has taken it before.
LEMMA TakeStep ==
  ASSUME TypeInv, NEW S, NEW K, UncutInv(S, K), NEW m \in Machine,
         NEW B \in Optional, NEW t \in Tree, NEW p \in Process,
         Learn(m, {Append(B, [tree |-> t, by |-> m])}),
         SetHead(m, Append(B, [tree |-> t, by |-> m])),
         UNCHANGED << keyframes, cache, bucket >>,
         remoteHead # NoManifest \/ B = head[m],
         \/ UNCHANGED proc /\ At(m, "idle")
         \/ /\ Goto(m, p) /\ p.pc = "known" /\ p.target = Append(B, [tree |-> t, by |-> m])
            /\ B # NoManifest => Chain(B) \subseteq manifests[m]
            /\ proc[m].pc \notin {"note", "uploaded"}
  PROVE  UncutInv(S, K)'
<1> DEFINE l == [tree |-> t, by |-> m]
           M == Append(B, l)
<1>1. l \in Listing
  BY KeyframesAssumption DEF Listing
<1>2. M \in Manifest /\ Len(M) = Len(B) + 1 /\ M[Len(M)].by = m
  <2>1. M \in Manifest /\ Len(M) = Len(B) + 1
    BY <1>1, AppendType DEF Optional
  <2>2. M[Len(B) + 1] = l
    BY <1>1, AppendTree DEF Optional
  <2> QED BY <2>1, <2>2
<1>3. Chain(M) = {M} \cup IF B = NoManifest THEN {} ELSE Chain(B)
  BY <1>1, AppendChain DEF Optional
<1> HIDE DEF M
<1>4. Learn(m, {M}) /\ SetHead(m, M)
  BY DEF M
<1>5. /\ proc \in [Machine -> Process] /\ manifests \in [Machine -> SUBSET Manifest]
      /\ head \in [Machine -> Optional]
  BY DEF TypeInv, TypeOK
<1>6. /\ manifests'[m] = manifests[m] \cup {M} /\ head'[m] = M
      /\ UNCHANGED << stored, remoteHead, keyframes >>
      /\ \A n \in Machine \ {m} :
           proc'[n] = proc[n] /\ manifests'[n] = manifests[n] /\ head'[n] = head[n]
  BY <1>4, <1>5 DEF Learn, SetHead, Goto, bucket
<1>7. Names(stored)' = Names(stored) /\ Full' = Full
  BY <1>6 DEF Names, Full
<1>8. /\ Knows(m, S, K) /\ Follows(m)
      /\ M \in Names(stored) => M \in manifests[m]
  BY <1>2 DEF UncutInv, BucketForm
<1>9. Knows(m, S, K)'
  <2>1. ASSUME NEW N \in manifests'[m] \cap Full
        PROVE  \/ N \in keyframes'[m]
               \/ At(m, "note")' /\ N = proc'[m].base
               \/ At(m, "uploaded")' /\ N = proc'[m].sha
    <3>1. N \in manifests[m]
      BY <1>6, <1>8, FullNames
    <3>2. ~ At(m, "note") /\ ~ At(m, "uploaded")
      BY DEF At
    <3>3. N \in keyframes[m]
      BY <1>8, <3>1, <3>2 DEF Knows
    <3> QED BY <1>6, <3>3
  <2> QED BY <1>2, <1>6, <1>7, <1>8, <2>1 DEF Knows
<1>10. remoteHead = NoManifest => Chain(M) \subseteq manifests'[m]
  BY <1>3, <1>6, <1>8 DEF Follows
<1>11. Follows(m)'
  <2>1. CASE UNCHANGED proc /\ At(m, "idle")
    BY <1>6, <1>10, <2>1 DEF Follows, At, Pushing
  <2>2. CASE /\ Goto(m, p) /\ p.pc = "known" /\ p.target = M
             /\ B # NoManifest => Chain(B) \subseteq manifests[m]
    <3>1. proc'[m].pc = "known" /\ proc'[m].target = M
      BY <1>5, <2>2 DEF Goto
    <3>2. Chain(M) \subseteq manifests'[m]
      BY <1>3, <1>6, <2>2
    <3> QED BY <1>6, <3>1, <3>2 DEF Follows, At, Pushing
  <2> QED BY <2>1, <2>2 DEF M
<1> QED
  BY <1>6, <1>9, <1>11, UncutQuiet

LEMMA NothingMissing ==
  ASSUME NEW M \in Manifest, NEW S, MissingFrom(M, S) = {}
  PROVE  Chain(M) \subseteq S
BY DEF MissingFrom, Chain

\* A walk that reaches A from D, when all of A's chain is local.
LEMMA AheadLocal ==
  ASSUME NEW A \in Manifest, NEW D \in Manifest, NEW S,
         IsAncestor(A, D, S), Chain(A) \subseteq S
  PROVE  Chain(D) \subseteq S
<1>1. PICK i \in Named(D, S) : A = Prefix(D, i)
  BY DEF IsAncestor
<1>2. i \in 1 .. Len(D) /\ LocalFrom(D, i + 1, S) /\ Len(A) = i
  BY <1>1, PrefixType DEF Named
<1> SUFFICES ASSUME NEW j \in 1 .. Len(D)
             PROVE  Prefix(D, j) \in S
  BY DEF Chain
<1>3. CASE j \in 1 .. i
  <2>1. Prefix(A, j) = Prefix(D, j)
    BY <1>1, <1>2, <1>3, PrefixOfPrefix
  <2>2. Prefix(A, j) \in Chain(A)
    BY <1>2, <1>3 DEF Chain
  <2> QED BY <2>1, <2>2
<1>4. CASE j \in i + 1 .. Len(D)
  BY <1>2, <1>4 DEF LocalFrom
<1> QED
  BY <1>2, <1>3, <1>4, PrefixWhole

LEMMA CompareStep ==
  ASSUME TypeInv, NEW S, NEW K, UncutInv(S, K), NEW m \in Machine,
         \/ Commit(m) \/ Compare(m) \/ Ahead(m) \/ Behind(m) \/ Diverged(m)
  PROVE  UncutInv(S, K)'
<1> DEFINE p == proc[m]
<1>1. /\ proc \in [Machine -> Process] /\ manifests \in [Machine -> SUBSET Manifest]
      /\ keyframes \in [Machine -> SUBSET Manifest]
      /\ head \in [Machine -> Optional] /\ remoteHead \in Optional
      /\ p \in Process /\ Steady(p) /\ p.target \in Optional /\ head[m] \in Optional
  BY TypesOf DEF TypeInv, TypeOK
<1>2. Knows(m, S, K) /\ Follows(m)
  BY DEF UncutInv
<1>3. ASSUME Fetched(m)
      PROVE  /\ p.pc = "fetch" /\ p.target \in Manifest /\ remoteHead # NoManifest
             /\ head[m] # NoManifest => Chain(p.target) \subseteq manifests[m]
  <2>1. p.pc = "fetch" /\ Wanted(m) = {}
    BY <1>3 DEF Fetched, At
  <2>2. p.target \in Manifest /\ remoteHead # NoManifest
    BY <1>1, <1>2, <2>1 DEF Steady, Optional, Follows
  <2>3. head[m] # NoManifest => MissingFrom(p.target, manifests[m]) = {}
    BY <2>1 DEF Wanted
  <2> QED BY <2>1, <2>2, <2>3, NothingMissing
<1>4. ASSUME NEW q \in Process, Goto(m, q), UNCHANGED << manifests, keyframes, stored, remoteHead >>,
             \A n \in Machine \ {m} : head'[n] = head[n],
             proc[m].pc \in {"idle", "fetch"}, Follows(m)'
      PROVE  UncutInv(S, K)'
  <2>1. Full' = Full /\ Names(stored)' = Names(stored)
    BY <1>4 DEF Full, Names
  <2>2. proc' = [proc EXCEPT ![m] = q]
    BY <1>4 DEF Goto
  <2>3. Knows(m, S, K)'
    BY <1>2, <1>4, <2>1 DEF Knows, At
  <2>4. \A n \in Machine \ {m} : proc'[n] = proc[n]
    BY <1>1, <2>2
  <2> QED BY <1>4, <2>3, <2>4, UncutQuiet
<1>5. ASSUME Commit(m)
      PROVE  UncutInv(S, K)'
  <2>1. PICK t \in Tree : LET M == Append(head[m], [tree |-> t, by |-> m])
                          IN  Learn(m, {M}) /\ SetHead(m, M)
    BY <1>5 DEF Commit
  <2>2. At(m, "idle") /\ UNCHANGED << keyframes, cache, proc, bucket >>
    BY <1>5 DEF Commit
  <2> QED BY <1>1, <2>1, <2>2, TakeStep
<1>6. ASSUME Compare(m)
      PROVE  UncutInv(S, K)'
  <2> DEFINE q == IF remoteHead = NoManifest
                  THEN [Idle EXCEPT !.pc = "known", !.target = head[m]]
                  ELSE [Idle EXCEPT !.pc = "fetch", !.target = remoteHead]
  <2>1. /\ Goto(m, q) /\ proc[m].pc = "idle"
        /\ UNCHANGED << manifests, keyframes, stored, remoteHead, head >>
    BY <1>6 DEF Compare, At, local, bucket
  <2>2. /\ q \in Process
        /\ remoteHead = NoManifest => q.pc = "known" /\ q.target = head[m]
        /\ remoteHead # NoManifest => q.pc = "fetch"
    BY <1>1, IdleType DEF Process, Idle
  <2> HIDE DEF q
  <2>3. proc'[m] = q
    BY <1>1, <2>1 DEF Goto
  <2>4. Follows(m)'
    <3>1. CASE remoteHead = NoManifest
      BY <1>2, <2>1, <2>2, <2>3, <3>1 DEF Follows, At, Pushing
    <3>2. CASE remoteHead # NoManifest
      BY <1>2, <2>1, <2>2, <2>3, <3>2 DEF Follows, At, Pushing
    <3> QED BY <3>1, <3>2
  <2> QED BY <1>4, <2>1, <2>2, <2>4
<1>7. ASSUME Ahead(m)
      PROVE  UncutInv(S, K)'
  <2> DEFINE q == [Idle EXCEPT !.pc = "known", !.target = head[m]]
  <2>1. /\ Goto(m, q) /\ Fetched(m) /\ head[m] # NoManifest
        /\ IsAncestor(p.target, head[m], manifests[m])
        /\ UNCHANGED << manifests, keyframes, stored, remoteHead, head >>
    BY <1>7 DEF Ahead, local, bucket
  <2>2. q \in Process /\ q.pc = "known" /\ q.target = head[m]
    BY <1>1, IdleType DEF Process, Idle
  <2> HIDE DEF q
  <2>3. proc'[m] = q
    BY <1>1, <2>1 DEF Goto
  <2>4. Chain(head[m]) \subseteq manifests[m]
    BY <1>1, <1>3, <2>1, AheadLocal DEF Optional
  <2>5. Follows(m)'
    BY <2>1, <2>2, <2>3, <2>4 DEF Follows, At, Pushing
  <2> QED BY <1>3, <1>4, <2>1, <2>2, <2>5
<1>8. ASSUME Behind(m)
      PROVE  UncutInv(S, K)'
  <2>1. /\ Goto(m, Idle) /\ Fetched(m) /\ head' = [head EXCEPT ![m] = p.target]
        /\ UNCHANGED << manifests, keyframes, stored, remoteHead >>
    BY <1>8 DEF Behind, SetHead, bucket
  <2>2. proc'[m].pc = "idle"
    BY <1>1, <2>1 DEF Goto, Idle
  <2>3. Follows(m)'
    BY <1>3, <2>1, <2>2 DEF Follows, At, Pushing
  <2>4. \A n \in Machine \ {m} : head'[n] = head[n]
    BY <1>1, <2>1
  <2> QED BY <1>3, <1>4, <2>1, <2>3, <2>4, IdleType
<1>9. ASSUME Diverged(m)
      PROVE  UncutInv(S, K)'
  <2>1. Fetched(m) /\ head[m] # NoManifest /\ UNCHANGED << keyframes, cache, bucket >>
    BY <1>9 DEF Diverged
  <2>2. CASE HasCommonAncestor(head[m], p.target, manifests[m])
    <3>1. PICK t \in Tree :
            LET M == Append(p.target, [tree |-> t, by |-> m])
            IN  /\ Learn(m, {M}) /\ SetHead(m, M)
                /\ Goto(m, [Idle EXCEPT !.pc = "known", !.target = M])
      BY <1>9, <2>2 DEF Diverged
    <3> DEFINE M == Append(p.target, [tree |-> t, by |-> m])
               q == [Idle EXCEPT !.pc = "known", !.target = M]
    <3>2. q \in Process /\ q.pc = "known" /\ q.target = M
      <4>1. M \in Optional
        BY <1>1, SnapshotType
      <4> HIDE DEF M
      <4> QED BY <4>1, IdleType DEF Process, Idle
    <3>3. Learn(m, {M}) /\ SetHead(m, M) /\ Goto(m, q)
      BY <3>1
    <3> HIDE DEF q
    <3> QED BY <1>1, <1>3, <2>1, <3>2, <3>3, TakeStep
  <2>3. CASE ~ HasCommonAncestor(head[m], p.target, manifests[m])
    <3>1. Goto(m, Idle) /\ UNCHANGED << manifests, head >>
      BY <1>9, <2>3 DEF Diverged
    <3>2. proc'[m].pc = "idle" /\ UNCHANGED << stored, remoteHead >>
      BY <1>1, <2>1, <3>1 DEF Goto, Idle, bucket
    <3>3. Follows(m)'
      BY <1>2, <3>1, <3>2 DEF Follows, At, Pushing
    <3> QED BY <1>3, <1>4, <2>1, <3>1, <3>2, <3>3, IdleType
  <2> QED BY <2>2, <2>3
<1> QED
  BY <1>5, <1>6, <1>7, <1>8, <1>9

\* An object arrives: its base, its line in the keyframes file, its manifest.
LEMMA ArrivalStep ==
  ASSUME TypeInv, NEW S, NEW K, UncutInv(S, K), NEW m \in Machine,
         \/ Look(m) \/ FetchBase(m) \/ NoteArrival(m) \/ StoreManifest(m)
  PROVE  UncutInv(S, K)'
<1> DEFINE p == proc[m]
<1>1. /\ proc \in [Machine -> Process] /\ manifests \in [Machine -> SUBSET Manifest]
      /\ keyframes \in [Machine -> SUBSET Manifest]
      /\ p \in Process /\ Steady(p) /\ manifests[m] \in SUBSET Manifest
  BY TypesOf DEF TypeInv, TypeOK
<1>2. Knows(m, S, K) /\ Follows(m) /\ S \cap Full \subseteq K
  BY DEF UncutInv, BucketForm
<1>3. UNCHANGED << head, stored, remoteHead >> /\ Full' = Full /\ Names(stored)' = Names(stored)
  BY DEF Look, FetchBase, NoteArrival, StoreManifest, local, bucket, Full, Names
<1>4. ASSUME NEW q, Goto(m, q), UNCHANGED manifests \/ \E X : Learn(m, X),
             UNCHANGED keyframes \/ \E X : Note(m, X),
             Knows(m, S, K)', Follows(m)'
      PROVE  UncutInv(S, K)'
  <2>1. \A n \in Machine \ {m} : proc'[n] = proc[n]
    BY <1>1, <1>4 DEF Goto
  <2>2. /\ manifests[m] \subseteq manifests'[m]
        /\ \A n \in Machine \ {m} : manifests'[n] = manifests[n]
    BY <1>1, <1>4 DEF Learn
  <2>3. \A n \in Machine \ {m} : keyframes'[n] = keyframes[n]
    BY <1>1, <1>4 DEF Note
  <2> QED BY <1>3, <1>4, <2>1, <2>2, <2>3, UncutQuiet
<1>5. ASSUME Look(m)
      PROVE  UncutInv(S, K)'
  <2>1. PICK o \in stored :
          Goto(m, [p EXCEPT
                     !.pc = IF o[2] \in manifests[m] \cup {NoManifest} THEN "note" ELSE "base",
                     !.sha = o[1], !.base = o[2]])
    BY <1>5 DEF Look
  <2> DEFINE q == [p EXCEPT
                     !.pc = IF o[2] \in manifests[m] \cup {NoManifest} THEN "note" ELSE "base",
                     !.sha = o[1], !.base = o[2]]
  <2>2. q.pc \in {"note", "base"} /\ q.sha = o[1] /\ q.base = o[2]
    BY <1>1 DEF Process
  <2>3. o = << o[1], o[2] >>
    BY DEF TypeInv, TypeOK
  <2>4. Goto(m, q) /\ p.pc = "fetch" /\ UNCHANGED << manifests, keyframes >>
    BY <1>5, <2>1 DEF Look, At, local
  <2> HIDE DEF q
  <2>5. proc'[m] = q
    BY <1>1, <2>4 DEF Goto
  <2>6. Knows(m, S, K)'
    BY <1>2, <1>3, <2>4 DEF Knows, At
  <2>7. Follows(m)'
    BY <1>2, <1>3, <2>2, <2>3, <2>4, <2>5 DEF Follows, At, Pushing
  <2> QED BY <1>4, <2>4, <2>6, <2>7
<1>6. ASSUME FetchBase(m)
      PROVE  UncutInv(S, K)'
  <2>1. p.pc = "base" /\ UNCHANGED keyframes
    BY <1>6 DEF FetchBase, At
  <2>2. CASE << p.base, NoManifest >> \in stored
    <3> DEFINE q == [p EXCEPT !.pc = "note"]
    <3>1. Goto(m, q) /\ Learn(m, {p.base})
      BY <1>6, <2>2 DEF FetchBase
    <3>2. q.pc = "note" /\ q.base = p.base /\ q.sha = p.sha
      BY <1>1 DEF Process
    <3> HIDE DEF q
    <3>3. proc'[m] = q /\ manifests'[m] = manifests[m] \cup {p.base}
      BY <1>1, <3>1 DEF Goto, Learn
    <3>4. p.base \in Names(stored)
      <4>1. << p.base, NoManifest >>[1] = p.base
        OBVIOUS
      <4> QED BY <2>2, <4>1 DEF Names
    <3>5. Knows(m, S, K)'
      BY <1>2, <1>3, <2>1, <3>2, <3>3, <3>4 DEF Knows, At
    <3>6. Follows(m)'
      BY <1>2, <1>3, <2>1, <3>2, <3>3 DEF Follows, At, Pushing
    <3> QED BY <1>4, <2>1, <3>1, <3>5, <3>6
  <2>3. CASE << p.base, NoManifest >> \notin stored
    <3>1. Goto(m, Idle) /\ UNCHANGED manifests
      BY <1>6, <2>3 DEF FetchBase
    <3>2. proc'[m].pc = "idle"
      BY <1>1, <3>1 DEF Goto, Idle
    <3>3. Knows(m, S, K)'
      BY <1>2, <1>3, <2>1, <3>1 DEF Knows, At
    <3>4. Follows(m)'
      BY <1>2, <1>3, <2>1, <3>1, <3>2 DEF Follows, At, Pushing
    <3> QED BY <1>4, <2>1, <3>1, <3>3, <3>4
  <2> QED BY <2>2, <2>3
<1>7. ASSUME NoteArrival(m)
      PROVE  UncutInv(S, K)'
  <2> DEFINE q == [p EXCEPT !.pc = "store"]
             X == IF p.base = NoManifest THEN p.sha ELSE p.base
  <2>1. p.pc = "note" /\ UNCHANGED manifests /\ Goto(m, q) /\ Note(m, X)
    BY <1>7 DEF NoteArrival, At
  <2>2. q.pc = "store" /\ q.base = p.base /\ q.sha = p.sha
    BY <1>1 DEF Process
  <2> HIDE DEF q
  <2>3. proc'[m] = q /\ keyframes'[m] = keyframes[m] \cup {X}
    BY <1>1, <2>1 DEF Goto, Note
  <2>4. << p.sha, p.base >> \in stored
    BY <1>2, <2>1 DEF Follows
  <2>5. X \in Full
    <3>1. CASE p.base = NoManifest
      <4>1. << p.sha, NoManifest >>[1] = p.sha
        OBVIOUS
      <4> QED BY <2>4, <3>1, <4>1 DEF Full, Names
    <3>2. CASE p.base # NoManifest
      <4>1. << p.sha, p.base >>[2] = p.base
        OBVIOUS
      <4> QED BY <2>4, <3>2, <4>1, BaseFull
    <3> QED BY <3>1, <3>2
  <2>6. ASSUME NEW M \in manifests[m] \cap Full
        PROVE  M \in keyframes'[m]
    <3>1. M # NoManifest
      BY <1>1 DEF Manifest
    <3> QED BY <1>2, <2>1, <2>3, <3>1 DEF Knows, At
  <2> HIDE DEF X
  <2>7. Knows(m, S, K)'
    BY <1>2, <1>3, <2>1, <2>3, <2>5, <2>6 DEF Knows
  <2>8. Follows(m)'
    BY <1>2, <1>3, <2>1, <2>2, <2>3, <2>4 DEF Follows, At, Pushing, X
  <2> QED BY <1>4, <2>1, <2>7, <2>8
<1>8. ASSUME StoreManifest(m)
      PROVE  UncutInv(S, K)'
  <2> DEFINE q == [p EXCEPT !.pc = "fetch"]
  <2>1. p.pc = "store" /\ UNCHANGED keyframes /\ Goto(m, q) /\ Learn(m, {p.sha})
    BY <1>8 DEF StoreManifest, At
  <2>2. q.pc = "fetch"
    BY <1>1 DEF Process
  <2> HIDE DEF q
  <2>3. proc'[m] = q /\ manifests'[m] = manifests[m] \cup {p.sha}
    BY <1>1, <2>1 DEF Goto, Learn
  <2>4. << p.sha, p.base >> \in stored
    BY <1>2, <2>1 DEF Follows
  <2>5. << p.sha, p.base >>[1] = p.sha /\ << p.sha, p.base >>[2] = p.base
    OBVIOUS
  <2>6. p.sha \in Names(stored)
    BY <2>4, <2>5 DEF Names
  <2>7. p.sha \in Full => p.base = NoManifest
    BY <2>4, <2>5, FullAlone
  <2>8. p.sha \in Full => p.sha \in keyframes[m]
    BY <1>2, <2>1, <2>7 DEF Follows, At
  <2>9. Knows(m, S, K)'
    BY <1>2, <1>3, <2>1, <2>3, <2>6, <2>8 DEF Knows, At
  <2>10. Follows(m)'
    BY <1>2, <1>3, <2>1, <2>2, <2>3 DEF Follows, At, Pushing
  <2> QED BY <1>4, <2>1, <2>9, <2>10
<1> QED
  BY <1>5, <1>6, <1>7, <1>8

\* A push, but for the uploads.
LEMMA ListStep ==
  ASSUME TypeInv, NEW S, NEW K, UncutInv(S, K), NEW m \in Machine,
         \/ ReadKnown(m) \/ NoteUpload(m)
         \/ WriteRemoteHead(m) \/ WriteLog(m) \/ WriteCache(m)
  PROVE  UncutInv(S, K)'
<1> DEFINE p == proc[m]
<1>1. /\ proc \in [Machine -> Process] /\ keyframes \in [Machine -> SUBSET Manifest]
      /\ p \in Process /\ Steady(p)
  BY TypesOf DEF TypeInv, TypeOK
<1>2. Knows(m, S, K) /\ Follows(m) /\ S \cap Full \subseteq K
  BY DEF UncutInv, BucketForm
<1>3. /\ UNCHANGED << manifests, head, stored >>
      /\ Full' = Full /\ Names(stored)' = Names(stored)
  BY DEF ReadKnown, NoteUpload, WriteRemoteHead, WriteLog, WriteCache, local, bucket, Full, Names
<1>4. ASSUME NEW q, Goto(m, q), UNCHANGED keyframes, UNCHANGED remoteHead \/ remoteHead' # NoManifest,
             p.pc \notin {"note", "uploaded"}, q.pc \in {"idle", "upload", "log", "cache"},
             q.pc = "idle" \/ (q.target = p.target /\ Pushing(m))
      PROVE  UncutInv(S, K)'
  <2>1. proc'[m] = q /\ \A n \in Machine \ {m} : proc'[n] = proc[n]
    BY <1>1, <1>4 DEF Goto
  <2>2. Knows(m, S, K)'
    BY <1>2, <1>3, <1>4 DEF Knows, At
  <2>3. Follows(m)'
    BY <1>2, <1>3, <1>4, <2>1 DEF Follows, At, Pushing
  <2> QED BY <1>3, <1>4, <2>1, <2>2, <2>3, UncutQuiet
<1>5. ASSUME ReadKnown(m)
      PROVE  UncutInv(S, K)'
  <2>1. PICK X, Y : Goto(m, [p EXCEPT !.pc = "upload", !.known = X, !.novel = Y, !.todo = Y])
    BY <1>5 DEF ReadKnown
  <2> DEFINE q == [p EXCEPT !.pc = "upload", !.known = X, !.novel = Y, !.todo = Y]
  <2>2. q.pc = "upload" /\ q.target = p.target
    BY <1>1 DEF Process
  <2>3. Goto(m, q) /\ p.pc = "known" /\ UNCHANGED << keyframes, remoteHead >>
    BY <1>5, <2>1 DEF ReadKnown, At, local, bucket
  <2> HIDE DEF q
  <2> QED BY <1>4, <2>2, <2>3 DEF Pushing
<1>6. ASSUME NoteUpload(m)
      PROVE  UncutInv(S, K)'
  <2> DEFINE q == [p EXCEPT !.pc = "upload"]
  <2>1. p.pc = "uploaded" /\ Goto(m, q) /\ Note(m, p.sha) /\ UNCHANGED remoteHead
    BY <1>6 DEF NoteUpload, At, bucket
  <2>2. q.pc = "upload" /\ q.target = p.target
    BY <1>1 DEF Process
  <2> HIDE DEF q
  <2>3. /\ proc'[m] = q /\ keyframes'[m] = keyframes[m] \cup {p.sha}
        /\ \A n \in Machine \ {m} : proc'[n] = proc[n] /\ keyframes'[n] = keyframes[n]
    BY <1>1, <2>1 DEF Goto, Note
  <2>4. p.sha \in Full
    <3>1. << p.sha, NoManifest >> \in stored /\ << p.sha, NoManifest >>[1] = p.sha
      BY <1>2, <2>1 DEF Follows, At
    <3> QED BY <3>1 DEF Full, Names
  <2>5. Knows(m, S, K)'
    BY <1>2, <1>3, <2>1, <2>3, <2>4 DEF Knows, At
  <2>6. Follows(m)'
    BY <1>2, <1>3, <2>1, <2>2, <2>3 DEF Follows, At, Pushing
  <2> QED BY <1>3, <2>1, <2>3, <2>5, <2>6, UncutQuiet
<1>7. ASSUME WriteRemoteHead(m)
      PROVE  UncutInv(S, K)'
  <2> DEFINE q == [p EXCEPT !.pc = IF p.novel = {} THEN "cache" ELSE "log"]
  <2>1. p.pc = "upload" /\ Goto(m, q) /\ UNCHANGED keyframes /\ remoteHead' = p.target
    BY <1>7 DEF WriteRemoteHead, At, local
  <2>2. q.pc \in {"cache", "log"} /\ q.target = p.target
    BY <1>1 DEF Process
  <2>3. p.target # NoManifest
    BY <1>1, <2>1 DEF Steady
  <2> HIDE DEF q
  <2> QED BY <1>4, <2>1, <2>2, <2>3 DEF Pushing
<1>8. ASSUME WriteLog(m)
      PROVE  UncutInv(S, K)'
  <2> DEFINE q == [p EXCEPT !.pc = "cache"]
  <2>1. p.pc = "log" /\ Goto(m, q) /\ UNCHANGED << keyframes, remoteHead >>
    BY <1>8 DEF WriteLog, At, local
  <2>2. q.pc = "cache" /\ q.target = p.target
    BY <1>1 DEF Process
  <2> HIDE DEF q
  <2> QED BY <1>4, <2>1, <2>2 DEF Pushing
<1>9. ASSUME WriteCache(m)
      PROVE  UncutInv(S, K)'
  <2>1. p.pc = "cache" /\ Goto(m, Idle) /\ UNCHANGED << keyframes, remoteHead >>
    BY <1>9 DEF WriteCache, At, bucket
  <2>2. Idle.pc = "idle"
    BY DEF Idle
  <2> QED BY <1>4, <2>1, <2>2
<1> QED
  BY <1>5, <1>6, <1>7, <1>8, <1>9

\* What a push that is not cut uploads: its list is all that the bucket lacks of its
\* chain, and the form it gives a manifest is the one that any machine would.
LEMMA UploadForm ==
  ASSUME TypeInv, LogInv, NEW S, NEW K, UncutInv(S, K),
         NEW m \in Machine, At(m, "upload"), NEW M \in proc[m].todo,
         \A N \in proc[m].todo : Len(M) <= Len(N)
  PROVE  /\ M \in Manifest /\ M \in manifests[m]
         /\ \A i \in 1 .. Len(M) - 1 : Prefix(M, i) \in Names(stored)
         /\ UploadBase(m, M) = NearestBase(M, Full)
<1> DEFINE p == proc[m]
           T == p.target
<1>1. /\ T \in Manifest /\ p.pc = "upload" /\ p.todo \subseteq Manifest
      /\ manifests[m] \in SUBSET Manifest
  BY TypesOf DEF At, Steady, Optional
<1>2. Knows(m, S, K) /\ Follows(m) /\ Listed(m) /\ K \cap Names(stored) \subseteq Full
  BY DEF UncutInv, BucketForm, LogInv
<1>3. Chain(T) \subseteq manifests[m]
  BY <1>1, <1>2 DEF Follows, Pushing
<1>4. LocalChain(T, manifests[m]) = Chain(T)
  BY <1>3 DEF LocalChain, LocalFrom, Chain
<1>5. PICK k \in 1 .. Len(T) : M = Prefix(T, k)
  BY <1>1, <1>2, <1>4 DEF Listed, Chain
<1>6. M \in Manifest /\ M \in manifests[m] /\ Len(M) = k
  BY <1>1, <1>3, <1>5, PrefixType DEF Chain
<1>7. ASSUME NEW i \in 1 .. Len(M)
      PROVE  Prefix(M, i) \in Chain(T)
  <2>1. Prefix(M, i) = Prefix(T, i) /\ i \in 1 .. Len(T)
    BY <1>1, <1>5, <1>6, <1>7, PrefixOfPrefix, PrefixWhole
  <2> QED BY <2>1 DEF Chain
<1>8. ASSUME NEW i \in 1 .. Len(M) - 1
      PROVE  Prefix(M, i) \in Names(stored)
  <2>1. Len(Prefix(M, i)) = i /\ i < Len(M) /\ i \in 1 .. Len(M) /\ Len(M) \in Nat
    BY <1>6, ProperAncestor, PrefixWhole
  <2>2. Prefix(M, i) \notin p.todo
    BY <2>1
  <2>3. Prefix(M, i) \in LocalChain(T, manifests[m])
    BY <1>4, <1>7, <2>1
  <2> QED BY <1>1, <1>2, <2>2, <2>3 DEF Listed
<1> DEFINE L == keyframes[m] \cap LocalChain(M, manifests[m] \cup {M})
<1>9. ASSUME NEW i \in 1 .. Len(M) - 1
      PROVE  Prefix(M, i) \in L <=> Prefix(M, i) \in Full
  <2>1. i \in 1 .. Len(M)
    BY <1>6, ProperAncestor
  <2>2. Prefix(M, i) \in LocalChain(M, manifests[m] \cup {M})
    <3>1. \A j \in i .. Len(M) : Prefix(M, j) \in manifests[m]
      BY <1>3, <1>7, <2>1
    <3> QED BY <2>1, <3>1 DEF LocalChain, LocalFrom
  <2>3. Prefix(M, i) \in keyframes[m] => Prefix(M, i) \in Full
    BY <1>2, <1>8 DEF Knows
  <2>4. Prefix(M, i) \in Full => Prefix(M, i) \in keyframes[m]
    <3>1. Prefix(M, i) \in manifests[m]
      BY <1>3, <1>7, <2>1
    <3> QED BY <1>1, <1>2, <3>1 DEF Knows, At
  <2> QED BY <2>2, <2>3, <2>4
<1>10. UploadBase(m, M) = NearestBase(M, Full)
  <2>1. UploadBase(m, M) = NearestBase(M, L)
    BY DEF UploadBase
  <2> HIDE DEF L
  <2> QED BY <1>9, <2>1, NearestSame
<1> QED
  BY <1>6, <1>8, <1>10

\* A manifest of the shared ones was once full if it would be full now.
LEMMA SharedForm ==
  ASSUME TypeInv, NEW S, NEW K, UncutInv(S, K), NEW M \in S, M \in Manifest,
         \A i \in 1 .. Len(M) - 1 : Prefix(M, i) \in Names(stored)
  PROVE  M \in K <=> NearestBase(M, Full) = NoManifest
<1>1. Shared(S, K) /\ K \cap Names(stored) \subseteq Full /\ S \cap Full \subseteq K
  BY DEF UncutInv, BucketForm
<1>2. ASSUME NEW i \in 1 .. Len(M) - 1
      PROVE  Prefix(M, i) \in K <=> Prefix(M, i) \in Full
  <2>1. Prefix(M, i) \in S
    BY <1>1, ProperAncestor DEF Shared
  <2> QED BY <1>1, <2>1
<1>3. NearestBase(M, K) = NearestBase(M, Full)
  BY <1>2, NearestSame
<1> QED
  BY <1>1, <1>3 DEF Shared

\* A manifest that the bucket did not have goes up.
LEMMA NewUpload ==
  ASSUME TypeInv, NEW S, NEW K, UncutInv(S, K), NEW m \in Machine, NEW q,
         At(m, "upload"), NEW M \in Manifest, M \in manifests[m], M \notin Names(stored),
         \A i \in 1 .. Len(M) - 1 : Prefix(M, i) \in Names(stored),
         stored' = stored \cup {<< M, NearestBase(M, Full) >>},
         Goto(m, q), q.target = proc[m].target, q.sha = M,
         q.pc = IF NearestBase(M, Full) = NoManifest THEN "uploaded" ELSE "upload",
         UNCHANGED << manifests, keyframes, head, remoteHead >>
  PROVE  UncutInv(S, K)'
<1> DEFINE base == NearestBase(M, Full)
<1>1. /\ Shared(S, K) /\ BucketForm(S, K)
      /\ \A n \in Machine : Knows(n, S, K) /\ Follows(n)
  BY DEF UncutInv
<1>2. proc'[m] = q /\ \A n \in Machine \ {m} : proc'[n] = proc[n]
  BY DEF TypeInv, TypeOK, Goto
<1>3. << M, base >>[1] = M /\ << M, base >>[2] = base
  OBVIOUS
<1> HIDE DEF base
<1>4. stored' = stored \cup {<< M, base >>}
  BY DEF base
<1>5. Names(stored)' = Names(stored) \cup {M}
  BY <1>3, <1>4 DEF Names
<1>6. Full' = Full \cup IF base = NoManifest THEN {M} ELSE {}
  <2>1. ASSUME NEW N
        PROVE  << N, NoManifest >> \in stored' <=>
                 << N, NoManifest >> \in stored \/ (N = M /\ base = NoManifest)
    BY <1>4
  <2>2. \A N : << N, NoManifest >> \in stored => N \in Names(stored)
    <3>1. \A N : << N, NoManifest >>[1] = N
      OBVIOUS
    <3> QED BY <3>1 DEF Names
  <2> QED BY <1>5, <2>1, <2>2 DEF Full
<1>7. M \in S => (M \in K <=> base = NoManifest)
  BY SharedForm DEF base
<1>8. ASSUME NEW N \in Names(stored)'
      PROVE  NearestBase(N, Full') = NearestBase(N, Full)
  <2>1. N \in Manifest
    BY <1>5 DEF Names, TypeInv, TypeOK
  <2>2. ASSUME NEW i \in 1 .. Len(N) - 1
        PROVE  Prefix(N, i) # M
    <3>1. CASE N = M
      BY <2>1, <3>1, ProperAncestor
    <3>2. CASE N \in Names(stored)
      BY <1>1, <2>1, <3>2, ProperAncestor DEF BucketForm
    <3> QED BY <1>5, <3>1, <3>2
  <2> QED BY <1>6, <2>2, NearestSame
<1>9. BucketForm(S, K)'
  <2>1. ASSUME NEW N \in Names(stored)'
        PROVE  Chain(N) \subseteq Names(stored)'
    <3>1. CASE N = M
      <4>1. ASSUME NEW i \in 1 .. Len(M)
            PROVE  Prefix(M, i) \in Names(stored) \cup {M}
        <5>1. i \in 1 .. Len(M) - 1 \/ i = Len(M)
          BY PrefixWhole
        <5> QED BY <5>1, PrefixWhole
      <4> QED BY <1>5, <3>1, <4>1 DEF Chain
    <3>2. CASE N \in Names(stored)
      BY <1>1, <1>5, <3>2 DEF BucketForm
    <3> QED BY <1>5, <3>1, <3>2
  <2>2. ASSUME NEW o \in stored'
        PROVE  o[2] = NearestBase(o[1], Full')
    <3>1. o[1] \in Names(stored)'
      BY DEF Names
    <3>2. o[2] = NearestBase(o[1], Full)
      BY <1>1, <1>3, <1>4 DEF BucketForm, base
    <3> QED BY <1>8, <3>1, <3>2
  <2>3. K \cap Names(stored)' \subseteq Full' /\ S \cap Full' \subseteq K
    BY <1>1, <1>5, <1>6, <1>7 DEF BucketForm, Shared
  <2>4. M \in manifests[M[Len(M)].by]
    <3>1. CASE M[Len(M)].by = m
      BY <3>1
    <3>2. CASE M \in S
      <4>1. M[Len(M)].by \in Machine
        <5>1. M \in Seq(Listing) /\ Len(M) \in 1 .. Len(M)
          BY PrefixWhole DEF Manifest
        <5>2. M[Len(M)] \in Listing
          BY <5>1
        <5> QED BY <5>2 DEF Listing
      <4> QED BY <1>1, <3>2, <4>1 DEF Knows
    <3> QED BY <1>1, <3>1, <3>2 DEF Knows
  <2> QED BY <1>1, <1>5, <2>1, <2>2, <2>3, <2>4 DEF BucketForm
<1>10. ASSUME NEW n \in Machine
       PROVE  Knows(n, S, K)'
  <2>1. ASSUME NEW N \in manifests[n] \cap Full'
        PROVE  \/ N \in keyframes[n]
               \/ At(n, "note")' /\ N = proc'[n].base
               \/ At(n, "uploaded")' /\ N = proc'[n].sha
    <3>1. CASE N \in Full
      <4>1. CASE n = m
        BY <1>1, <3>1, <4>1 DEF Knows, At
      <4>2. CASE n # m
        BY <1>1, <1>2, <3>1, <4>2 DEF Knows, At
      <4> QED BY <4>1, <4>2
    <3>2. CASE N = M /\ base = NoManifest /\ n = m
      BY <1>2, <3>2 DEF At, base
    <3>3. CASE N = M /\ base = NoManifest /\ n # m
      <4>1. M \in S
        BY <1>1, <3>3 DEF Knows
      <4> QED BY <1>1, <1>7, <3>3, <4>1 DEF Knows
    <3> QED BY <1>6, <3>1, <3>2, <3>3
  <2> QED BY <1>1, <1>5, <1>6, <2>1 DEF Knows
<1>11. ASSUME NEW n \in Machine \ {m}
       PROVE  Follows(n)'
  BY <1>1, <1>2, <1>4 DEF Follows, At, Pushing
<1>12. Follows(m)'
  <2>1. Chain(q.target) \subseteq manifests[m]
    BY <1>1 DEF Follows, Pushing, At
  <2>2. q.pc = "uploaded" => << M, NoManifest >> \in stored'
    BY <1>4 DEF base
  <2>3. q.pc \in {"upload", "uploaded"}
    OBVIOUS
  <2> QED BY <1>1, <1>2, <2>1, <2>2, <2>3 DEF Follows, At, Pushing
<1>13. Shared(S, K)'
  BY <1>1 DEF Shared
<1> QED
  BY <1>9, <1>10, <1>11, <1>12, <1>13 DEF UncutInv

LEMMA UploadStep ==
  ASSUME TypeInv, LogInv, NEW S, NEW K, UncutInv(S, K), NEW m \in Machine, Upload(m)
  PROVE  UncutInv(S, K)'
<1> DEFINE p == proc[m]
<1>1. PICK M \in p.todo :
        /\ \A N \in p.todo : Len(M) <= Len(N)
        /\ LET base == UploadBase(m, M)
           IN  /\ stored' = {o \in stored : o[1] # M} \cup {<< M, base >>}
               /\ Goto(m, [p EXCEPT !.pc = IF base = NoManifest THEN "uploaded" ELSE @,
                                    !.sha = M, !.todo = @ \ {M}])
  BY DEF Upload
<1> DEFINE base == NearestBase(M, Full)
           q == [p EXCEPT !.pc = IF base = NoManifest THEN "uploaded" ELSE @,
                          !.sha = M, !.todo = @ \ {M}]
<1>2. At(m, "upload") /\ UNCHANGED << manifests, keyframes, head, remoteHead >>
  BY DEF Upload, local
<1>3. /\ M \in Manifest /\ M \in manifests[m]
      /\ \A i \in 1 .. Len(M) - 1 : Prefix(M, i) \in Names(stored)
      /\ UploadBase(m, M) = base
  BY <1>1, <1>2, UploadForm
<1>4. stored' = {o \in stored : o[1] # M} \cup {<< M, base >>} /\ Goto(m, q)
  BY <1>1, <1>3
<1>5. /\ q.pc = IF base = NoManifest THEN "uploaded" ELSE "upload"
      /\ q.target = p.target /\ q.sha = M
  <2>1. p \in Process /\ p.pc = "upload"
    BY <1>2, TypesOf DEF At
  <2> HIDE DEF base
  <2> QED BY <2>1 DEF Process
<1> HIDE DEF q
<1>6. CASE M \in Names(stored)
  <2>1. PICK o \in stored : o[1] = M
    BY <1>6 DEF Names
  <2>2. o = << M, base >>
    <3>1. o[2] = base
      BY <2>1 DEF UncutInv, BucketForm
    <3>2. o = << o[1], o[2] >>
      BY DEF TypeInv, TypeOK
    <3> QED BY <2>1, <3>1, <3>2
  <2> HIDE DEF base
  <2>3. UNCHANGED stored
    <3>1. \A r \in stored : r[1] = M => r = o
      BY <2>1 DEF TypeInv, TypeOK
    <3> QED BY <1>4, <2>1, <2>2, <3>1
  <2>4. Names(stored)' = Names(stored) /\ Full' = Full
    BY <2>3 DEF Names, Full
  <2>5. Knows(m, S, K) /\ Follows(m)
    BY DEF UncutInv
  <2>6. proc'[m] = q /\ \A n \in Machine \ {m} : proc'[n] = proc[n]
    BY <1>4 DEF TypeInv, TypeOK, Goto
  <2>7. Knows(m, S, K)'
    BY <1>2, <2>4, <2>5 DEF Knows, At
  <2>8. Follows(m)'
    BY <1>2, <1>5, <2>1, <2>2, <2>3, <2>5, <2>6 DEF Follows, At, Pushing
  <2> QED BY <1>2, <2>3, <2>6, <2>7, <2>8, UncutQuiet
<1>7. CASE M \notin Names(stored)
  <2>1. {o \in stored : o[1] # M} = stored
    BY <1>7 DEF Names
  <2>2. stored' = stored \cup {<< M, base >>}
    BY <1>4, <2>1
  <2> QED BY <1>2, <1>3, <1>4, <1>5, <1>7, <2>2, NewUpload
<1> QED
  BY <1>6, <1>7

LEMMA UncutStep ==
  ASSUME TypeInv, LogInv, NEW S, NEW K, UncutInv(S, K), [Next]_vars, kills' = 0
  PROVE  UncutInv(S, K)'
<1>1. ASSUME NEW m \in Machine, Cycle(m)
      PROVE  UncutInv(S, K)'
  BY <1>1, CompareStep, ArrivalStep, ListStep, UploadStep DEF Cycle
<1>2. ASSUME UNCHANGED vars
      PROVE  UncutInv(S, K)'
  <2>1. Names(stored)' = Names(stored) /\ Full' = Full
    BY <1>2 DEF vars, bucket, Names, Full
  <2>2. BucketForm(S, K)' /\ Shared(S, K)'
    BY <1>2, <2>1 DEF vars, local, bucket, UncutInv, BucketForm, Shared
  <2>3. ASSUME NEW m \in Machine
        PROVE  Knows(m, S, K)' /\ Follows(m)'
    BY <1>2, <2>1 DEF vars, local, bucket, UncutInv, Knows, Follows, At, Pushing
  <2> QED BY <2>2, <2>3 DEF UncutInv
<1>3. ~ \E m \in Machine : Kill(m)
  BY BoundsAssumption DEF Kill, TypeInv, TypeOK
<1> QED
  BY <1>1, <1>2, <1>3 DEF Next

\* Two shared snapshots, and what their machines know of them.
LEMMA TwoShared ==
  ASSUME NEW R \in Manifest, NEW H \in Manifest, Len(R) = 1, Len(H) = 2, Prefix(H, 1) = R,
         NEW K, K = {R} \cup (IF Small(R, H) THEN {} ELSE {H})
  PROVE  Shared(Chain(H), K)
<1>1. Chain(H) = {R, H} /\ Prefix(H, 2) = H /\ R # H /\ R # NoManifest /\ H # NoManifest
  <2>1. Prefix(H, 2) = H /\ 1 .. Len(H) = {1, 2}
    <3>1. Prefix(H, Len(H)) = H
      BY PrefixWhole
    <3>2. 1 .. 2 = {1, 2}
      OBVIOUS
    <3> QED BY <3>1, <3>2
  <2> QED BY <2>1 DEF Chain, Manifest
<1>2. Chain(R) = {R}
  <2>1. Prefix(R, 1) = R /\ 1 .. Len(R) = {1}
    BY PrefixWhole
  <2> QED BY <2>1 DEF Chain
<1>3. NearestBase(R, K) = NoManifest
  <2>1. 1 .. Len(R) - 1 = {}
    OBVIOUS
  <2>2. Bases(R, K) = {}
    BY <2>1 DEF Bases
  <2> QED BY <2>2 DEF NearestBase
<1>4. NearestBase(H, K) = NoManifest <=> ~ Small(R, H)
  <2>1. Bases(H, K) = {1}
    <3>1. 1 .. Len(H) - 1 = {1} /\ Len(H) - 1 <= MaxWalk
      BY KeyframesAssumption
    <3> QED BY <3>1 DEF Bases
  <2> DEFINE near  == {i \in Bases(H, K) : \A k \in Bases(H, K) : k <= i}
             small == {Prefix(H, i) : i \in {k \in near : Small(Prefix(H, k), H)}}
  <2>2. near = {1}
    BY <2>1
  <2>3. small = IF Small(R, H) THEN {R} ELSE {}
    BY <2>2
  <2>4. NearestBase(H, K) = IF small = {} THEN NoManifest ELSE CHOOSE B \in small : TRUE
    BY DEF NearestBase
  <2> HIDE DEF small
  <2> QED BY <1>1, <2>3, <2>4
<1> QED
  BY <1>1, <1>2, <1>3, <1>4 DEF Shared

LEMMA InitUncut ==
  ASSUME Fresh \/ Started \/ Moved
  PROVE  \E S, K : UncutInv(S, K)
<1>1. ASSUME NEW S, NEW K, EmptyBucket, Shared(S, K),
             \A m \in Machine : S = manifests[m] /\ keyframes[m] = K,
             \A m \in Machine : proc[m] = Idle /\ Chain(head[m]) \subseteq manifests[m]
      PROVE  UncutInv(S, K)
  <2>1. stored = {} /\ remoteHead = NoManifest
    BY <1>1 DEF EmptyBucket
  <2>2. Names(stored) = {} /\ Full = {}
    BY <2>1 DEF Names, Full
  <2>3. BucketForm(S, K)
    BY <2>1, <2>2 DEF BucketForm
  <2>4. \A m \in Machine : proc[m].pc = "idle"
    BY <1>1 DEF Idle
  <2>5. \A m \in Machine : Knows(m, S, K)
    BY <1>1, <2>2 DEF Knows, Shared
  <2>6. \A m \in Machine : Follows(m)
    BY <1>1, <2>4 DEF Follows, At, Pushing
  <2> QED BY <1>1, <2>3, <2>5, <2>6 DEF UncutInv
<1>2. CASE Fresh
  <2>1. Shared({}, {})
    BY DEF Shared
  <2>2. \A m \in Machine :
          manifests[m] = {} /\ keyframes[m] = {} /\ head[m] = NoManifest /\ proc[m] = Idle
    BY <1>2 DEF Fresh, Folders
  <2>3. Chain(NoManifest) = {}
    BY DEF Chain, NoManifest
  <2>4. EmptyBucket
    BY <1>2 DEF Fresh
  <2> QED BY <1>1, <2>1, <2>2, <2>3, <2>4
<1>3. CASE Started
  <2>1. PICK m \in Machine, t \in Tree :
          LET R == << [tree |-> t, by |-> m] >>
          IN  /\ Folders({m}, R, {R})
              /\ cache = [n \in Machine |-> IF n = m THEN {R} ELSE {}]
              /\ stored = {<< R, NoManifest >>} /\ remoteHead = R /\ pushLog = {{R}}
    BY <1>3 DEF Started
  <2> DEFINE R == << [tree |-> t, by |-> m] >>
  <2>2. R \in Manifest /\ Len(R) = 1 /\ R[1].by = m
    <3>1. [tree |-> t, by |-> m] \in Listing
      BY KeyframesAssumption DEF Listing
    <3> QED BY <3>1, RootType
  <2>3. /\ Folders({m}, R, {R})
        /\ stored = {<< R, NoManifest >>} /\ remoteHead = R
    BY <2>1
  <2> HIDE DEF R
  <2>4. R # NoManifest /\ Chain(R) = {R}
    <3>1. Prefix(R, 1) = R /\ 1 .. Len(R) = {1}
      <4>1. Prefix(R, Len(R)) = R
        BY <2>2, PrefixWhole
      <4> QED BY <2>2, <4>1
    <3> QED BY <2>2, <3>1 DEF Chain, Manifest
  <2>5. Names(stored) = {R} /\ Full = {R}
    BY <2>3 DEF Names, Full
  <2>6. NearestBase(R, Full) = NoManifest
    <3>1. 1 .. Len(R) - 1 = {}
      BY <2>2
    <3>2. Bases(R, Full) = {}
      BY <3>1 DEF Bases
    <3> QED BY <3>2 DEF NearestBase
  <2>7. \A n \in Machine : /\ manifests[n] = (IF n = m THEN {R} ELSE {})
                           /\ keyframes[n] = (IF n = m THEN {R} ELSE {})
                           /\ proc[n].pc = "idle"
    BY <2>3, <2>4 DEF Folders, Idle
  <2>8. BucketForm({}, {})
    <3>1. R[Len(R)].by = m /\ R \in manifests[m]
      BY <2>2, <2>7
    <3>2. \A o \in stored : o[1] = R /\ o[2] = NoManifest
      BY <2>3
    <3> QED BY <2>4, <2>5, <2>6, <3>1, <3>2 DEF BucketForm
  <2>9. \A n \in Machine : Knows(n, {}, {})
    BY <2>2, <2>5, <2>7 DEF Knows
  <2>10. \A n \in Machine : Follows(n)
    BY <2>3, <2>4, <2>7 DEF Follows, At, Pushing
  <2> QED BY <2>8, <2>9, <2>10 DEF UncutInv, Shared
<1>4. CASE Moved
  <2>1. PICK m \in Machine, s \in Tree, t \in Tree :
          LET R == << [tree |-> s, by |-> m] >>
              H == Append(R, [tree |-> t, by |-> m])
          IN  /\ Folders(Machine, H, {R} \cup (IF Small(R, H) THEN {} ELSE {H}))
              /\ EmptyBucket
    BY <1>4 DEF Moved
  <2> DEFINE R == << [tree |-> s, by |-> m] >>
             l == [tree |-> t, by |-> m]
             H == Append(R, l)
             K == {R} \cup (IF Small(R, H) THEN {} ELSE {H})
  <2>2. l \in Listing /\ [tree |-> s, by |-> m] \in Listing
    BY KeyframesAssumption DEF Listing
  <2>3. R \in Manifest /\ Len(R) = 1
    BY <2>2, RootType
  <2> HIDE DEF R, l
  <2>4. H \in Manifest /\ Len(H) = 2 /\ Prefix(H, 1) = R
    <3>1. H \in Manifest /\ Len(H) = Len(R) + 1
      BY <2>2, <2>3, AppendType
    <3>2. Prefix(H, Len(R)) = R
      BY <2>2, <2>3, AppendParent
    <3> QED BY <2>3, <3>1, <3>2
  <2>5. Folders(Machine, H, K) /\ EmptyBucket
    BY <2>1 DEF R, l
  <2> HIDE DEF H
  <2>6. Shared(Chain(H), K)
    BY <2>3, <2>4, TwoShared
  <2> HIDE DEF K
  <2>7. \A n \in Machine : manifests[n] = Chain(H) /\ keyframes[n] = K /\ head[n] = H /\ proc[n] = Idle
    BY <2>5 DEF Folders
  <2> QED BY <1>1, <2>5, <2>6, <2>7
<1> QED
  BY <1>2, <1>3, <1>4

\* Where the keyframes of the bucket and of the machines are.
LEMMA UncutImplies ==
  ASSUME TypeInv, kills = 0 => \E S, K : UncutInv(S, K)
  PROVE  NoDeltaOnDelta /\ KeyframesFull
<1> SUFFICES ASSUME kills = 0, NEW S, NEW K, UncutInv(S, K)
             PROVE  NoDeltaOnDelta /\ KeyframesFull
  BY DEF NoDeltaOnDelta, KeyframesFull
<1>1. ASSUME NEW o \in stored
      PROVE  o[2] = NoManifest \/ << o[2], NoManifest >> \in stored
  BY BaseFull DEF Full
<1>2. ASSUME NEW m \in Machine, NEW o \in stored, o[1] \in keyframes[m]
      PROVE  o[2] = NoManifest
  <2>1. o[1] \in Names(stored)
    BY DEF Names
  <2>2. o[1] \in Full
    BY <1>2, <2>1 DEF UncutInv, BucketForm, Knows
  <2> QED BY <2>2, FullAlone
<1> QED
  BY <1>1, <1>2 DEF NoDeltaOnDelta, KeyframesFull

\* Every variable keeps its type: a push or a fetch never names a manifest that is
\* none, in whatever order machines run and wherever they die.
THEOREM KeyframeTypes == SpecAny => []TypeOK
<1>1. TypeInv /\ LogInv => TypeOK
  BY DEF TypeInv
<1> QED
  BY <1>1, LogAny, PTL

\* What a delta is a delta of is in the bucket as well, whichever pushes are cut
\* (uploadManifestChainAndSetHead, manifestUploadForm).
THEOREM BasesStored == SpecAny => []BasesThere
<1>1. TypeInv /\ LogInv => BasesThere
  BY DEF LogInv
<1> QED
  BY <1>1, LogAny, PTL

\* Until a cycle is cut, a delta never refers to another delta, and what the
\* keyframes file lists may be taken as a base, on every machine.
THEOREM Keyframe == SpecAny => [](NoDeltaOnDelta /\ KeyframesFull)
<1> DEFINE Inv == TypeInv /\ LogInv /\ (kills = 0 => \E S, K : UncutInv(S, K))
<1>1. Fresh \/ Started \/ Moved => Inv
  BY InitTypes, InitLog, InitUncut
<1>2. Inv /\ [Next]_vars => Inv'
  <2> SUFFICES ASSUME Inv, [Next]_vars
               PROVE  Inv'
    OBVIOUS
  <2>1. TypeInv' /\ LogInv'
    BY TypeStep, LogStep
  <2>2. ASSUME kills' = 0
        PROVE  \E S, K : UncutInv(S, K)'
    <3>1. kills = 0
      <4>1. ASSUME NEW m \in Machine, Cycle(m)
            PROVE  kills' = kills
        <5>1. Commit(m) \/ Compare(m) => kills' = kills
          BY DEF Commit, Compare
        <5>2. Look(m) \/ FetchBase(m) \/ NoteArrival(m) \/ StoreManifest(m) => kills' = kills
          BY DEF Look, FetchBase, NoteArrival, StoreManifest
        <5>3. Ahead(m) \/ Behind(m) \/ Diverged(m) => kills' = kills
          BY DEF Ahead, Behind, Diverged
        <5>4. ReadKnown(m) \/ Upload(m) \/ NoteUpload(m) => kills' = kills
          BY DEF ReadKnown, Upload, NoteUpload
        <5>5. WriteRemoteHead(m) \/ WriteLog(m) \/ WriteCache(m) => kills' = kills
          BY DEF WriteRemoteHead, WriteLog, WriteCache
        <5> QED BY <4>1, <5>1, <5>2, <5>3, <5>4, <5>5 DEF Cycle
      <4>2. kills \in Nat
        BY BoundsAssumption DEF TypeInv, TypeOK
      <4>3. CASE \E m \in Machine : Cycle(m) \/ Kill(m)
        <5>1. ASSUME NEW m \in Machine, Kill(m)
              PROVE  FALSE
          BY <2>2, <4>2, <5>1 DEF Kill
        <5> QED BY <2>2, <4>1, <4>3, <5>1
      <4>4. CASE UNCHANGED vars
        BY <2>2, <4>4 DEF vars
      <4> QED BY <4>3, <4>4 DEF Next
    <3>2. PICK S, K : UncutInv(S, K)
      BY <3>1
    <3> QED BY <2>2, <3>2, UncutStep
  <2> QED BY <2>1, <2>2
<1>3. Inv => NoDeltaOnDelta /\ KeyframesFull
  BY UncutImplies
<1> HIDE DEF Inv
<1> QED
  BY <1>1, <1>2, <1>3, PTL DEF SpecAny

\* Until a cycle is cut, a delta never refers to another delta.
COROLLARY DeltasOfKeyframes == SpecAny => []NoDeltaOnDelta
BY Keyframe, PTL

\* Until then, the keyframes file never lists a manifest that the bucket has as a
\* delta.
COROLLARY ListedAreFull == SpecAny => []KeyframesFull
BY Keyframe, PTL
=============================================================================
