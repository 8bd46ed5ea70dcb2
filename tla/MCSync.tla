------------------------------- MODULE MCSync -------------------------------
(***************************************************************************)
(* Instances of Sync for TLC: where they start, and which of Sync's steps  *)
(* they interleave.                                                        *)
(***************************************************************************)
EXTENDS Sync, TLC

CONSTANTS x, y, z, home, me

\* Trees of one file with one of two, or three, contents.
OneFile    == {{x}, {y}}
ThreeKinds == {{x}, {y}, {z}}

\* A folder with one file, and a copy made inside it that has .blobs/ with it:
\* the copied manifest is a file like any other, named by the same SHA.
CopiedManifest == << [tree |-> {x}, by |-> me] >>
FileAndCopy    == {x, CopiedManifest}
WithCopy       == {{x}, FileAndCopy}

\* Contents have no order and no meaning, nor have machines.
Blobs            == Permutations(Blob)
MachinesAndBlobs == Permutations(Machine) \cup Permutations(Blob)

\* A machine that has taken and pushed the snapshots of M.
Synced(M) == [manifests |-> Chain(M), objects |-> TreeOf(M), head |-> M]
\* A machine right after init.
Fresh     == [manifests |-> {}, objects |-> {}, head |-> NoManifest]

\* Bucket `home` holds history M, pushed by machine `by`; the folders named in
\* `synced` are in step with it and the others are new.
Holding(M, by, synced) ==
  LET folder == [m \in Machine |-> IF m \in synced THEN Synced(M) ELSE Fresh]
      names  == Chain(M) \cup Files(Chain(M))
      At1(full, empty) == [b \in Bucket |-> IF b = home THEN full ELSE empty]
  IN  /\ manifests = [m \in Machine |-> folder[m].manifests]
      /\ objects = [m \in Machine |-> folder[m].objects]
      /\ head = [m \in Machine |-> folder[m].head]
      /\ cache = [m \in Machine |-> IF m = by /\ m \in synced
                                    THEN [cursor |-> 1, known |-> names] ELSE EmptyCache]
      /\ remote = [m \in Machine |-> home]
      /\ proc = [m \in Machine |-> Idle]
      /\ gc = [m \in Machine |-> NoGC]
      /\ remoteBlobs = At1(names \cap Blob, {})
      /\ remoteManifests = At1(Chain(M), {})
      /\ remoteHead = At1(M, NoManifest)
      /\ pushLog = At1({[key |-> 1, names |-> names]}, {})

\* The machines have agreed on one snapshot.
InitShared ==
  \E by \in Machine, t \in Tree : Holding(<< [tree |-> t, by |-> by] >>, by, Machine)

\* Two snapshots are in the bucket, of another machine if there is one; machine
\* `me` has them or is new.
InitClone ==
  \E by \in Machine, t, u \in Tree, synced \in {{}, Machine} :
    /\ t # u /\ (by = me => Machine = {me})
    /\ Holding(<< [tree |-> t, by |-> by], [tree |-> u, by |-> by] >>, by, synced)

\* The cycle of watch, and nothing else, on every machine.
Cycle(m) == Snapshot(m) \/ Compare(m, "sync") \/ Download(m) \/ UploadStep(m)

NextWatch == \E m \in Machine : Cycle(m) \/ Abort(m)
SpecWatch == InitShared /\ [][NextWatch]_vars

\* Every command but remote set, and gc beside it; pull <sha> of a snapshot that is
\* not local.  A new folder takes its first snapshot only after it has caught up with
\* the bucket, so that all histories are related.
NextCommands ==
  \E m \in {me} :
    \/ head[m] # NoManifest /\ Snapshot(m)
    \/ \E M \in manifests[m] : Checkout(m, M) \/ \E force \in BOOLEAN : Push(m, M, force)
    \/ \E M \in remoteManifests[remote[m]] \ manifests[m] : Fetch(m, M)
    \/ \E mode \in {"sync", "pull"} : Compare(m, mode)
    \/ Download(m) \/ UploadStep(m) \/ GCStep(m) \/ Abort(m)
SpecCommands == InitClone /\ [][NextCommands]_vars

\* Every command but gc, with lost objects and a second bucket.
NextMoving ==
  \E m \in {me} :
    \/ head[m] # NoManifest /\ Snapshot(m)
    \/ Command(m) \/ Download(m) \/ UploadStep(m) \/ Abort(m)
    \/ \E blob \in Blob : LoseObject(m, blob)
    \/ \E b \in Bucket : RemoteSet(m, b)
SpecMoving == (InitShared \/ InitClone) /\ [][NextMoving]_vars

\* watch on every machine, and commit in another terminal of machine `me`.
NextTerminals == \E m \in Machine : Cycle(m) \/ (m = me /\ CommitBeside(m))
SpecTerminals == InitShared /\ [][NextTerminals]_vars

\* watch on every machine, when no request fails: the poll ticker keeps
\* starting cycles and a cycle runs to its end.  Snapshots are the user's.
SyncStep(m) == Compare(m, "sync") \/ Download(m) \/ UploadStep(m)
NextSteady  == \E m \in Machine : Snapshot(m) \/ SyncStep(m)
SpecSteady  == InitShared /\ [][NextSteady]_vars /\ \A m \in Machine : WF_vars(SyncStep(m))
=============================================================================
