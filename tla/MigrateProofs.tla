---------------------------- MODULE MigrateProofs ----------------------------
(***************************************************************************)
(* HeadUsable and KnownManifestsThere when machines migrate.               *)
(***************************************************************************)
EXTENDS SyncTipProofs, Migrate

\* How far the migration of machine m has come with HEAD of its bucket: what is not
\* in the other bucket yet is on its lists.
Copied(m) ==
  LET R == remoteHead[remote[m]]
      g == mig[m]
  IN  /\ g \in Migration /\ \A b, c \in g.to : b = c
      /\ g.pc # "idle" => At(m, "idle")
      /\ g.pc = "list" /\ R # NoManifest => TreeOf(R) \subseteq g.blobs
      /\ g.pc = "copy" /\ R # NoManifest =>
           \A b \in g.to : /\ R \in g.mans \cup remoteManifests[b]
                           /\ TreeOf(R) \subseteq g.blobs \cup remoteBlobs[b]

MigrateInv ==
  /\ DOMAIN mig = Machine
  /\ \A m \in Machine : Copied(m)

\* Of the buckets, a migration only sees that they grow; of HEAD, that it rests.
LEMMA CopiedStep ==
  ASSUME TypeInv, NEW m \in Machine, Copied(m), BucketsGrow,
         mig'[m] = mig[m], remote'[m] = remote[m], At(m, "idle") => At(m, "idle")',
         mig[m].pc # "idle" => remoteHead'[remote[m]] = remoteHead[remote[m]]
  PROVE  Copied(m)'
<1>1. \A b \in mig[m].to : /\ remoteBlobs[b] \subseteq remoteBlobs'[b]
                           /\ remoteManifests[b] \subseteq remoteManifests'[b]
  BY DEF Copied, Migration, BucketsGrow
<1> QED
  BY <1>1 DEF Copied, Migration

\* The steps of Sync never take an object from a bucket, and a machine that migrates
\* takes none of them.
LEMMA SyncGrows ==
  ASSUME TypeInv, NEW m \in Machine, Step(m)
  PROVE  /\ BucketsGrow
         /\ \A n \in Machine \ {m} : proc'[n] = proc[n] /\ remote'[n] = remote[n]
<1>1. CASE Begin(m) \/ CommitBeside(m)
  BY <1>1 DEF Begin, Snapshot, CommitBeside, TakeSnapshot, Command, Checkout, Push, Fetch,
     Compare, Upload, Goto, FetchTip, BucketsGrow, bucket, local, TypeInv, TypeOK
<1>2. CASE GCStep(m)
  BY <1>2 DEF GCStep, GCKeep, GCList, GCDelete, GCEnd, BucketsGrow, bucket, local
<1>3. CASE Abort(m) \/ (\E blob \in Blob : LoseObject(m, blob)) \/ \E b \in Bucket : RemoteSet(m, b)
  BY <1>3 DEF Abort, LoseObject, RemoteSet, Goto, BucketsGrow, bucket, local, TypeInv, TypeOK
<1>4. CASE Download(m)
  <2>1. UNCHANGED << remote, bucket >>
    BY <1>4 DEF Download, FetchManifest, Ahead, Behind, Diverged, DownloadBlob, Merge,
       FetchTarget, StartDownload, Apply, EndFetch, local
  <2>2. \E p : Goto(m, p) \/ UNCHANGED proc
    BY <1>4 DEF Download, FetchManifest, Ahead, Behind, Diverged, DownloadBlob, Merge,
       FetchTarget, StartDownload, Apply, EndFetch, Upload
  <2> QED
    BY <2>1, <2>2 DEF Goto, BucketsGrow, bucket, TypeInv, TypeOK
<1>5. CASE UploadStep(m)
  <2>1. UNCHANGED remote
    BY <1>5 DEF UploadStep, ReadCovered, ReadKnown, UploadBlob, UploadManifest, StartEnsure,
       EnsureBlob, EnsureManifest, WriteRemoteHead, WriteLog, WriteCache, local
  <2>2. \E p : Goto(m, p)
    BY <1>5 DEF UploadStep, ReadCovered, ReadKnown, UploadBlob, UploadManifest, StartEnsure,
       EnsureBlob, EnsureManifest, WriteRemoteHead, WriteLog, WriteCache
  <2>3. UNCHANGED remoteBlobs \/ \E blob : PutBlob(m, blob)
    BY <1>5 DEF UploadStep, ReadCovered, ReadKnown, UploadBlob, UploadManifest, StartEnsure,
       EnsureBlob, EnsureManifest, WriteRemoteHead, WriteLog, WriteCache, bucket
  <2>4. UNCHANGED remoteManifests \/ \E M : PutManifest(m, M)
    BY <1>5 DEF UploadStep, ReadCovered, ReadKnown, UploadBlob, UploadManifest, StartEnsure,
       EnsureBlob, EnsureManifest, WriteRemoteHead, WriteLog, WriteCache, bucket
  <2>5. BucketsGrow
    BY <2>3, <2>4 DEF PutBlob, PutManifest, BucketsGrow, TypeInv, TypeOK
  <2> QED
    BY <2>1, <2>2, <2>5 DEF Goto, TypeInv, TypeOK
<1> QED
  BY <1>1, <1>2, <1>3, <1>4, <1>5 DEF Step

\* A migration changes buckets by adding to them, and machines by moving its own.
LEMMA MigrateGrows ==
  ASSUME TypeInv, MigrateInv, NEW m \in Machine, MigrateStep(m)
  PROVE  /\ BucketsGrow
         /\ UNCHANGED << manifests, objects, head, proc, gc, pushLog >>
         /\ DOMAIN mig' = Machine
         /\ \A n \in Machine \ {m} : mig'[n] = mig[n] /\ remote'[n] = remote[n] /\ cache'[n] = cache[n]
<1>1. CASE UNCHANGED vars
  <2>1. \E g : mig' = [mig EXCEPT ![m] = g]
    <3>1. ASSUME NEW b \in Bucket, ListBlobs(m, b)
          PROVE  \E g : mig' = [mig EXCEPT ![m] = g]
      BY <3>1 DEF ListBlobs
    <3>2. CASE ListManifests(m)
      BY <3>2 DEF ListManifests
    <3>3. CASE CopyBlob(m) \/ CopyManifest(m)
      BY <3>3 DEF CopyBlob, CopyManifest
    <3>4. CASE CopyHead(m) \/ EndMigrate(m) \/ AbortMigrate(m)
      BY <3>4 DEF CopyHead, EndMigrate, AbortMigrate
    <3> QED BY <3>1, <3>2, <3>3, <3>4 DEF MigrateStep
  <2> QED BY <1>1, <2>1 DEF vars, local, bucket, BucketsGrow, MigrateInv
<1>2. CASE CopyBlob(m)
  BY <1>2 DEF CopyBlob, local, BucketsGrow, MigrateInv, TypeInv, TypeOK
<1>3. CASE CopyManifest(m)
  BY <1>3 DEF CopyManifest, local, BucketsGrow, MigrateInv, TypeInv, TypeOK
<1>4. CASE CopyHead(m)
  BY <1>4 DEF CopyHead, local, BucketsGrow, MigrateInv
<1>5. CASE EndMigrate(m)
  BY <1>5 DEF EndMigrate, bucket, BucketsGrow, MigrateInv, TypeInv, TypeOK
<1> QED
  BY <1>1, <1>2, <1>3, <1>4, <1>5 DEF MigrateStep, ListBlobs, ListManifests, AbortMigrate

\* HEAD of the other bucket is written last, and what it needs is there by then; the
\* machine arrives there without the cache.
LEMMA MigrateSound ==
  ASSUME NamesDiffer, TypeInv, TipInv, MigrateInv, NEW m \in Machine, MigrateStep(m)
  PROVE  TypeInv' /\ TipInv'
<1>a. /\ Sound(m) /\ Copied(m) /\ BucketsGrow
      /\ UNCHANGED << manifests, objects, head, proc, gc, pushLog >>
      /\ \A n \in Machine \ {m} : remote'[n] = remote[n] /\ cache'[n] = cache[n]
  BY MigrateGrows DEF TipInv, Sound, MigrateInv
<1>b. OnlyOf(m)
  BY <1>a DEF OnlyOf
<1>1. CASE UNCHANGED vars
  BY <1>1, TypeStep, TipStep
<1>2. CASE CopyBlob(m) \/ CopyManifest(m)
  <2>1. UNCHANGED << local, remoteHead, pushLog >>
    BY <1>2 DEF CopyBlob, CopyManifest
  <2>2. Sound(m)'
    BY <1>a, <2>1, Bystander DEF local
  <2>3. TypeOK'
    <3>1. /\ mig[m].to \subseteq Bucket
          /\ mig[m].blobs \subseteq Blob /\ mig[m].mans \subseteq Manifest
      BY <1>a DEF Copied, Migration
    <3>2. \/ UNCHANGED remoteBlobs
          \/ \E b \in Bucket, blob \in Blob :
               remoteBlobs' = [remoteBlobs EXCEPT ![b] = @ \cup {blob}]
      <4>1. CASE CopyBlob(m)
        <5>1. PICK b \in mig[m].to, blob \in mig[m].blobs :
                /\ remoteBlobs' = [remoteBlobs EXCEPT ![b] = @ \cup {blob}]
                /\ mig' = [mig EXCEPT ![m].blobs = @ \ {blob}]
          BY <4>1 DEF CopyBlob
        <5> QED BY <3>1, <5>1
      <4>2. CASE CopyManifest(m)
        BY <4>2 DEF CopyManifest
      <4> QED BY <1>2, <4>1, <4>2
    <3>3. \/ UNCHANGED remoteManifests
          \/ \E b \in Bucket, M \in Manifest :
               remoteManifests' = [remoteManifests EXCEPT ![b] = @ \cup {M}]
      <4>1. CASE CopyManifest(m)
        <5>1. PICK b \in mig[m].to, M \in mig[m].mans :
                /\ remoteManifests' = [remoteManifests EXCEPT ![b] = @ \cup {M}]
                /\ mig' = [mig EXCEPT ![m].mans = @ \ {M}]
          BY <4>1 DEF CopyManifest
        <5> QED BY <3>1, <5>1
      <4>2. CASE CopyBlob(m)
        BY <4>2 DEF CopyBlob
      <4> QED BY <1>2, <4>1, <4>2
    <3>4. remoteBlobs' \in [Bucket -> SUBSET Blob]
      BY <3>2 DEF TypeInv, TypeOK
    <3>5. remoteManifests' \in [Bucket -> SUBSET Manifest]
      BY <3>3 DEF TypeInv, TypeOK
    <3> QED BY <1>a, <2>1, <3>4, <3>5 DEF local, TypeInv, TypeOK
  <2> QED
    BY <1>a, <1>b, <2>1, <2>2, <2>3, StepOf DEF TypeInv
<1>3. CASE CopyHead(m)
  <2>1. UNCHANGED << local, remoteBlobs, remoteManifests >>
    BY <1>3 DEF CopyHead
  <2>2. Sound(m)'
    BY <1>a, <2>1, Bystander DEF local
  <2>3. ASSUME NEW b \in mig[m].to, remoteHead[remote[m]] # NoManifest,
               remoteHead' = [remoteHead EXCEPT ![b] = remoteHead[remote[m]]]
        PROVE  TypeOK' /\ HeadUsable'
    <3> DEFINE R == remoteHead[remote[m]]
    <3>1. b \in Bucket /\ R \in Manifest
      BY <1>a, <2>3 DEF Copied, Migration, TypeInv, TypeOK
    <3>2. TipThere(b, R)
      BY <1>3, <1>a, <2>3 DEF CopyHead, Migrating, Copied, Migration, TipThere
    <3>3. \A c \in Bucket : remoteHead'[c] = IF c = b THEN R ELSE remoteHead[c]
      BY <2>3, <3>1 DEF TypeInv, TypeOK
    <3>4. HeadUsable'
      BY <2>1, <3>2, <3>3 DEF TipInv, HeadUsable, TipThere
    <3>5. remoteHead' \in [Bucket -> Manifest \cup {NoManifest}]
      BY <2>3, <3>1 DEF TypeInv, TypeOK
    <3> QED
      BY <1>a, <2>1, <3>4, <3>5 DEF local, TypeInv, TypeOK
  <2>4. ASSUME UNCHANGED remoteHead
        PROVE  TypeOK' /\ HeadUsable'
    <3>1. TypeOK'
      BY <1>a, <2>1, <2>4 DEF local, TypeInv, TypeOK
    <3>2. HeadUsable'
      BY <2>1, <2>4 DEF TipInv, HeadUsable, TipThere
    <3> QED BY <3>1, <3>2
  <2>5. TypeOK' /\ HeadUsable'
    <3>1. \/ UNCHANGED remoteHead
          \/ /\ remoteHead[remote[m]] # NoManifest
             /\ \E b \in mig[m].to :
                  remoteHead' = [remoteHead EXCEPT ![b] = remoteHead[remote[m]]]
      BY <1>3 DEF CopyHead
    <3> QED BY <2>3, <2>4, <3>1
  <2>6. LogTrue'
    BY <1>a, <2>1 DEF TipInv, LogTrue
  <2> QED
    BY <1>a, <1>b, <2>2, <2>5, <2>6, WholeStep DEF TypeInv
<1>4. CASE EndMigrate(m)
  <2>1. PICK b \in Bucket : remote' = [remote EXCEPT ![m] = b]
    <3>1. mig[m].to \subseteq Bucket
      BY <1>a DEF Copied, Migration
    <3> QED BY <1>4, <3>1 DEF EndMigrate
  <2>2. cache' = [cache EXCEPT ![m] = EmptyCache] /\ UNCHANGED bucket
    BY <1>4 DEF EndMigrate
  <2>3. TypeInv'
    BY <1>a, <2>1, <2>2 DEF TypeInv, TypeOK, bucket, EmptyCache, Cache
  <2>4. cache'[m] = EmptyCache
    BY <2>2 DEF TypeInv, TypeOK
  <2>5. proc[m].pc = "idle" /\ proc[m].known = {} /\ proc[m].covered = {}
    BY <1>4, <1>a DEF EndMigrate, Migrating, Copied, Migration, Sound, Beliefs, At
  <2>6. Local(m)' /\ Beliefs(m)' /\ Tip(m)'
    BY <1>a, <2>4, <2>5 DEF Sound, Local, Beliefs, Tip, EmptyCache, At
  <2> QED
    BY <1>a, <1>b, <2>2, <2>3, <2>6, StepOf DEF Sound, bucket
<1> QED
  BY <1>1, <1>2, <1>3, <1>4 DEF MigrateStep, ListBlobs, ListManifests, AbortMigrate

\* What is taken off a list is in the other bucket.
LEMMA MigrateCopies ==
  ASSUME TypeInv, TipInv, MigrateInv, HeadsRest, NEW m \in Machine, MigrateStep(m)
  PROVE  MigrateInv'
<1> DEFINE R == remoteHead[remote[m]]
           g == mig[m]
           h == mig'[m]
<1>a. /\ BucketsGrow /\ UNCHANGED proc /\ DOMAIN mig' = Machine
      /\ \A n \in Machine \ {m} : mig'[n] = mig[n] /\ remote'[n] = remote[n]
  BY MigrateGrows
<1>b. Copied(m) /\ remote[m] \in Bucket /\ DOMAIN mig = Machine
  BY DEF MigrateInv, TypeInv, TypeOK
<1>1. \A n \in Machine \ {m} : Copied(n)'
  <2> TAKE n \in Machine \ {m}
  <2>1. mig[n].pc # "idle" => remoteHead'[remote[n]] = remoteHead[remote[n]]
    BY DEF HeadsRest, Migrating
  <2> QED
    BY <1>a, <2>1, CopiedStep DEF MigrateInv, At
<1>2. ASSUME h \in Migration, \A b, c \in h.to : b = c, h.pc # "idle" => At(m, "idle"),
             h.pc \in {"list", "copy"} => UNCHANGED << remote, remoteHead >>,
             h.pc = "list" /\ R # NoManifest => TreeOf(R) \subseteq h.blobs,
             h.pc = "copy" /\ R # NoManifest =>
               \A b \in h.to : /\ R \in h.mans \cup remoteManifests'[b]
                               /\ TreeOf(R) \subseteq h.blobs \cup remoteBlobs'[b]
      PROVE  Copied(m)'
  BY <1>2, <1>a DEF Copied, At
<1>3. Copied(m)'
  <2>1. ASSUME NEW b \in Bucket, ListBlobs(m, b)
        PROVE  Copied(m)'
    <3>1. h = [NoMigration EXCEPT !.pc = "list", !.to = {b}, !.blobs = remoteBlobs[remote[m]]]
      BY <1>b, <2>1 DEF ListBlobs
    <3>2. remoteBlobs[remote[m]] \in SUBSET Blob
      BY <1>b DEF TypeInv, TypeOK
    <3>3. /\ h \in Migration /\ h.pc = "list" /\ h.to = {b}
          /\ h.blobs = remoteBlobs[remote[m]]
      <4> DEFINE k == [NoMigration EXCEPT !.pc = "list"]
                 l == [k EXCEPT !.to = {b}]
      <4>1. k \in Migration /\ k.pc = "list"
        BY DEF NoMigration, Migration
      <4>2. l = [k EXCEPT !.to = {b}] /\ h = [l EXCEPT !.blobs = remoteBlobs[remote[m]]]
        BY <3>1
      <4> HIDE DEF k
      <4>3. l \in Migration /\ l.pc = "list" /\ l.to = {b}
        BY <4>1 DEF Migration
      <4> HIDE DEF l
      <4> QED BY <3>2, <4>2, <4>3 DEF Migration
    <3>4. R # NoManifest => TreeOf(R) \subseteq remoteBlobs[remote[m]]
      BY <1>b DEF TipInv, HeadUsable, TipThere
    <3>5. UNCHANGED << remote, remoteHead >> /\ At(m, "idle")
      BY <2>1 DEF ListBlobs, vars, local, bucket
    <3> QED BY <1>2, <3>3, <3>4, <3>5
  <2>2. CASE ListManifests(m)
    <3>1. /\ mig' = [mig EXCEPT ![m].pc = "copy", ![m].mans = remoteManifests[remote[m]]]
          /\ UNCHANGED << remote, remoteHead, remoteBlobs >> /\ g.pc = "list"
      BY <2>2 DEF ListManifests, Migrating, vars, local, bucket
    <3>2. remoteManifests[remote[m]] \in SUBSET Manifest
      BY <1>b DEF TypeInv, TypeOK
    <3>3. /\ h \in Migration /\ h.pc = "copy" /\ h.to = g.to /\ h.blobs = g.blobs
          /\ h.mans = remoteManifests[remote[m]]
      <4> DEFINE k == [g EXCEPT !.pc = "copy"]
      <4>1. h = [k EXCEPT !.mans = remoteManifests[remote[m]]]
        BY <1>b, <3>1
      <4>2. g \in Migration
        BY <1>b DEF Copied
      <4>3. k \in Migration /\ k.pc = "copy" /\ k.to = g.to /\ k.blobs = g.blobs
        BY <4>2 DEF Migration
      <4> HIDE DEF k
      <4> QED BY <3>2, <4>1, <4>3 DEF Migration
    <3>4. R # NoManifest => R \in h.mans /\ TreeOf(R) \subseteq h.blobs
      BY <1>b, <3>1, <3>3 DEF Copied, TipInv, HeadUsable, TipThere
    <3>5. At(m, "idle") /\ \A b, c \in h.to : b = c
      BY <1>b, <3>1, <3>3 DEF Copied
    <3> QED BY <1>2, <3>1, <3>3, <3>4, <3>5
  <2>3. CASE CopyBlob(m)
    <3>1. PICK b \in g.to, blob \in g.blobs :
            /\ remoteBlobs' = [remoteBlobs EXCEPT ![b] = @ \cup {blob}]
            /\ mig' = [mig EXCEPT ![m].blobs = @ \ {blob}]
      BY <2>3 DEF CopyBlob
    <3>2. /\ h \in Migration /\ h.pc = g.pc /\ h.to = g.to /\ h.mans = g.mans
          /\ h.blobs = g.blobs \ {blob}
      BY <1>b, <3>1 DEF Copied, Migration
    <3>3. blob \in remoteBlobs'[b] /\ remoteBlobs[b] \subseteq remoteBlobs'[b]
      BY <1>b, <3>1 DEF Copied, Migration, TypeInv, TypeOK
    <3>4. UNCHANGED << remote, remoteHead, remoteManifests >> /\ g.pc = "copy"
      BY <2>3 DEF CopyBlob, local, Migrating
    <3>5. At(m, "idle") /\ \A c \in g.to : c = b
      BY <1>b, <3>4 DEF Copied
    <3>6. R # NoManifest => R \in g.mans \cup remoteManifests[b] /\ TreeOf(R) \subseteq g.blobs \cup remoteBlobs[b]
      BY <1>b, <3>4 DEF Copied
    <3> QED BY <1>2, <3>2, <3>3, <3>4, <3>5, <3>6
  <2>4. CASE CopyManifest(m)
    <3>1. PICK b \in g.to, M \in g.mans :
            /\ remoteManifests' = [remoteManifests EXCEPT ![b] = @ \cup {M}]
            /\ mig' = [mig EXCEPT ![m].mans = @ \ {M}]
      BY <2>4 DEF CopyManifest
    <3>2. /\ h \in Migration /\ h.pc = g.pc /\ h.to = g.to /\ h.blobs = g.blobs
          /\ h.mans = g.mans \ {M}
      BY <1>b, <3>1 DEF Copied, Migration
    <3>3. M \in remoteManifests'[b] /\ remoteManifests[b] \subseteq remoteManifests'[b]
      BY <1>b, <3>1 DEF Copied, Migration, TypeInv, TypeOK
    <3>4. UNCHANGED << remote, remoteHead, remoteBlobs >> /\ g.pc = "copy"
      BY <2>4 DEF CopyManifest, local, Migrating
    <3>5. At(m, "idle") /\ \A c \in g.to : c = b
      BY <1>b, <3>4 DEF Copied
    <3>6. R # NoManifest => R \in g.mans \cup remoteManifests[b] /\ TreeOf(R) \subseteq g.blobs \cup remoteBlobs[b]
      BY <1>b, <3>4 DEF Copied
    <3> QED BY <1>2, <3>2, <3>3, <3>4, <3>5, <3>6
  <2>5. CASE CopyHead(m)
    <3>1. mig' = [mig EXCEPT ![m].pc = "config"] /\ g.pc = "copy"
      BY <2>5 DEF CopyHead, Migrating
    <3>2. h \in Migration /\ h.pc = "config" /\ h.to = g.to
      BY <1>b, <3>1 DEF Copied, Migration
    <3>3. At(m, "idle") /\ \A b, c \in g.to : b = c
      BY <1>b, <3>1 DEF Copied
    <3> QED BY <1>2, <3>2, <3>3
  <2>6. CASE EndMigrate(m) \/ AbortMigrate(m)
    <3>1. h = NoMigration
      BY <1>b, <2>6 DEF EndMigrate, AbortMigrate
    <3>2. h \in Migration /\ h.pc = "idle" /\ h.to = {}
      BY <3>1 DEF NoMigration, Migration
    <3> QED BY <1>2, <3>2
  <2> QED BY <2>1, <2>2, <2>3, <2>4, <2>5, <2>6 DEF MigrateStep
<1> QED
  BY <1>a, <1>1, <1>3 DEF MigrateInv

\* Whatever machines do beside a migration, as long as HEAD of its bucket rests.
LEMMA BesideStep ==
  ASSUME NamesDiffer, TypeInv, TipInv, MigrateInv, HeadsRest,
         NEW m \in Machine, Migrating(m, "idle"), Step(m), UNCHANGED mig
  PROVE  TypeInv' /\ TipInv' /\ MigrateInv'
<1>1. AnyNext
  BY DEF Step, AnyNext, NextMove, NextLossy, NextBeside, Next
<1>2. TypeInv' /\ TipInv'
  BY <1>1, TypeStep, TipStep
<1>3. Copied(m)'
  BY DEF MigrateInv, Copied, Migrating
<1>4. ASSUME NEW n \in Machine \ {m}
      PROVE  Copied(n)'
  <2>1. /\ BucketsGrow /\ mig'[n] = mig[n] /\ remote'[n] = remote[n]
        /\ At(n, "idle") => At(n, "idle")'
    BY SyncGrows DEF At
  <2>2. mig[n].pc # "idle" => remoteHead'[remote[n]] = remoteHead[remote[n]]
    BY DEF HeadsRest, Migrating
  <2> QED
    BY <2>1, <2>2, CopiedStep DEF MigrateInv
<1> QED
  BY <1>2, <1>3, <1>4 DEF MigrateInv

\* Machines may leave a bucket by copying it, at any moment and however often, and a
\* migration may be cut anywhere: no bucket gets a HEAD without its objects, and
\* no machine takes a manifest for uploaded that its bucket lacks; as long as nobody
\* moves HEAD of a bucket while it is being copied (cmdRemoteMigrate).
THEOREM MigrationUsable ==
  ASSUME NamesDiffer
  PROVE  SpecMigrate => [](HeadUsable /\ KnownManifestsThere)
<1> DEFINE Inv == TypeInv /\ TipInv /\ MigrateInv
<1>1. Init /\ mig = [m \in Machine |-> NoMigration] => Inv
  <2> SUFFICES ASSUME Init, mig = [m \in Machine |-> NoMigration]
               PROVE  Inv
    OBVIOUS
  <2>1. \A m \in Machine : mig[m] = NoMigration
    OBVIOUS
  <2>2. MigrateInv
    BY <2>1 DEF MigrateInv, Copied, NoMigration, Migration
  <2> QED BY <2>2, TypeInit, TipInit
<1>2. Inv /\ [NextMigrate /\ HeadsRest]_allVars => Inv'
  <2> SUFFICES ASSUME Inv, [NextMigrate /\ HeadsRest]_allVars
               PROVE  Inv'
    OBVIOUS
  <2>1. CASE UNCHANGED allVars
    <3>1. UNCHANGED vars /\ UNCHANGED mig
      BY <2>1 DEF allVars
    <3>2. TypeInv' /\ TipInv'
      BY <3>1, TypeStep, TipStep
    <3>3. MigrateInv'
      BY <3>1 DEF vars, local, bucket, MigrateInv, Copied, At
    <3> QED BY <3>2, <3>3
  <2>2. ASSUME NEW m \in Machine, MigrateStep(m), HeadsRest
        PROVE  Inv'
    BY <2>2, MigrateSound, MigrateCopies
  <2>3. ASSUME NEW m \in Machine, Migrating(m, "idle"), Step(m), UNCHANGED mig, HeadsRest
        PROVE  Inv'
    BY <2>3, BesideStep
  <2> QED
    BY <2>1, <2>2, <2>3 DEF NextMigrate
<1>3. Inv => HeadUsable /\ KnownManifestsThere
  BY DEF TipInv, KnownManifestsThere, Beliefs, ManifestsThere
<1> HIDE DEF Inv
<1> QED
  BY <1>1, <1>2, <1>3, PTL DEF SpecMigrate
=============================================================================
