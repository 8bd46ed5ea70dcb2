------------------------------ MODULE Migrate ------------------------------
(***************************************************************************)
(* `remote migrate` (cmdRemoteMigrate): the objects of a machine's bucket  *)
(* are copied to another one, then HEAD, and the machine moves there.      *)
(* Sync goes on beside it, except that the machine runs nothing else.      *)
(***************************************************************************)
EXTENDS Sync

VARIABLE mig   \* mig[m]: the migration that machine m runs

allVars == << vars, mig >>

NoMigration == [pc |-> "idle", to |-> {}, blobs |-> {}, mans |-> {}]
Migration   == [pc : {"idle", "list", "copy", "config"}, to : SUBSET Bucket,
                blobs : SUBSET Blob, mans : SUBSET Manifest]

Migrating(m, pc) == mig[m].pc = pc

\* The listing of blobs/, then that of manifests/.
ListBlobs(m, b) ==
  /\ At(m, "idle") /\ gc[m].pc = "idle" /\ Migrating(m, "idle")
  /\ b # remote[m]
  /\ mig' = [mig EXCEPT ![m] = [NoMigration EXCEPT !.pc = "list", !.to = {b},
                                                   !.blobs = remoteBlobs[remote[m]]]]
  /\ UNCHANGED vars

ListManifests(m) ==
  /\ Migrating(m, "list")
  /\ mig' = [mig EXCEPT ![m].pc = "copy", ![m].mans = remoteManifests[remote[m]]]
  /\ UNCHANGED vars

\* parallelFor over both lists.  An object that is there already is left alone.
CopyBlob(m) ==
  /\ Migrating(m, "copy")
  /\ \E b \in mig[m].to, blob \in mig[m].blobs :
       remoteBlobs' = [remoteBlobs EXCEPT ![b] = @ \cup {blob}]
       /\ mig' = [mig EXCEPT ![m].blobs = @ \ {blob}]
  /\ UNCHANGED << local, proc, gc, remoteManifests, remoteHead, pushLog >>

CopyManifest(m) ==
  /\ Migrating(m, "copy")
  /\ \E b \in mig[m].to, M \in mig[m].mans :
       remoteManifests' = [remoteManifests EXCEPT ![b] = @ \cup {M}]
       /\ mig' = [mig EXCEPT ![m].mans = @ \ {M}]
  /\ UNCHANGED << local, proc, gc, remoteBlobs, remoteHead, pushLog >>

\* HEAD is read now, not with the listings, and replaces the other bucket's.  If
\* there is none, or it cannot be read, the migration goes on without it.
CopyHead(m) ==
  /\ Migrating(m, "copy") /\ mig[m].blobs = {} /\ mig[m].mans = {}
  /\ \/ UNCHANGED remoteHead
     \/ \E b \in mig[m].to :
          /\ remoteHead[remote[m]] # NoManifest
          /\ remoteHead' = [remoteHead EXCEPT ![b] = remoteHead[remote[m]]]
  /\ mig' = [mig EXCEPT ![m].pc = "config"]
  /\ UNCHANGED << local, proc, gc, remoteBlobs, remoteManifests, pushLog >>

\* The config names the new bucket, and the push-log cache goes.
EndMigrate(m) ==
  /\ Migrating(m, "config")
  /\ \E b \in mig[m].to : remote' = [remote EXCEPT ![m] = b]
  /\ cache' = [cache EXCEPT ![m] = EmptyCache]
  /\ mig' = [mig EXCEPT ![m] = NoMigration]
  /\ UNCHANGED << manifests, objects, head, proc, gc, bucket >>

\* A request fails, or the process dies.
AbortMigrate(m) ==
  /\ ~ Migrating(m, "idle")
  /\ mig' = [mig EXCEPT ![m] = NoMigration]
  /\ UNCHANGED vars

MigrateStep(m) ==
  \/ \E b \in Bucket : ListBlobs(m, b)
  \/ ListManifests(m) \/ CopyBlob(m) \/ CopyManifest(m) \/ CopyHead(m)
  \/ EndMigrate(m) \/ AbortMigrate(m)

\* Everything else on machine m.
Step(m) ==
  \/ Begin(m) \/ Download(m) \/ UploadStep(m) \/ GCStep(m) \/ Abort(m) \/ CommitBeside(m)
  \/ \E blob \in Blob : LoseObject(m, blob)
  \/ \E b \in Bucket : RemoteSet(m, b)

\* Nobody moves HEAD of a bucket that is being copied.  Nothing in the code sees to
\* that: it is what the user must.
HeadsRest ==
  \A m \in Machine : ~ Migrating(m, "idle") => remoteHead'[remote[m]] = remoteHead[remote[m]]

\* Any machines migrate, beside whatever the others do.
NextMigrate ==
  \E m \in Machine : MigrateStep(m) \/ (Migrating(m, "idle") /\ Step(m) /\ UNCHANGED mig)

SpecMigrate ==
  Init /\ mig = [m \in Machine |-> NoMigration] /\ [][NextMigrate /\ HeadsRest]_allVars
=============================================================================
