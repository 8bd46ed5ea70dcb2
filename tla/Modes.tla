------------------------------- MODULE Modes -------------------------------
(***************************************************************************)
(* The mode and the mtime of a file: what a snapshot, a merge and an apply *)
(* make of them on devices that all run watch.                             *)
(*                                                                         *)
(* One file, of constant size, that is always there; every path of a       *)
(* folder goes the same way.  A cycle is one step, and brings a device in  *)
(* step with the bucket: Sync and Folder are about cycles that do not.     *)
(***************************************************************************)
EXTENDS Naturals

CONSTANTS Device, Sha, Mode,
          MaxChanges   \* bound: times that users touch the file

VARIABLES
  disk,    \* disk[d]: the file of device d
  head,    \* head[d]: its entry in the snapshot that HEAD of d names
  bucket,  \* its entry in the snapshot that HEAD of the bucket names
  behind,  \* devices whose HEAD is an ancestor of the bucket's
  clock    \* times that users have touched the file

vars == << disk, head, bucket, behind, clock >>

\* ManifestFile, and what stat and a hash tell of a file.
Entry == [sha : Sha, mode : Mode, time : Nat]

TypeOK ==
  /\ disk \in [Device -> Entry] /\ head \in [Device -> Entry] /\ bucket \in Entry
  /\ behind \subseteq Device
  /\ clock \in Nat

\* All are in step.
Init ==
  /\ bucket \in [sha : Sha, mode : Mode, time : {0}]
  /\ head = [d \in Device |-> bucket]
  /\ disk = head
  /\ behind = {}
  /\ clock = 0

-----------------------------------------------------------------------------
Touch(d, e) ==
  /\ clock < MaxChanges
  /\ clock' = clock + 1
  /\ disk' = [disk EXCEPT ![d] = e]
  /\ UNCHANGED << head, bucket, behind >>

\* External: the user writes the file, anew or with what it has.
Write(d) == \E c \in Sha, m \in Mode : Touch(d, [sha |-> c, mode |-> m, time |-> clock + 1])

\* External: or changes its mode only, which leaves the mtime alone.
Chmod(d) == \E m \in Mode : Touch(d, [disk[d] EXCEPT !.mode = m])

\* snapshotWorkingTree: a file with the size and the mtime of HEAD's entry is not
\* looked at, its mode included.
Found(d) == IF disk[d].time = head[d].time THEN head[d] ELSE disk[d]

\* manifestFilesEqual: mtimes may differ, modes may not.
Dirty(d) == Found(d).sha # head[d].sha \/ Found(d).mode # head[d].mode

Snapshot(d) == IF Dirty(d) THEN Found(d) ELSE head[d]

\* autoMerge: of two entries with the same content the bucket's.
Merged(a, r, l) == IF a.sha = r.sha /\ r.sha # l.sha THEN l ELSE r

\* applyManifestSafely: a file whose content stays keeps its mode and mtime, too.
Applied(d, from, to) == IF from.sha = to.sha THEN disk[d] ELSE to

Push(d, e) ==
  /\ bucket' = e
  /\ behind' = IF Dirty(d) THEN Device \ {d} ELSE behind

Ahead(d) ==
  /\ d \notin behind
  /\ head' = [head EXCEPT ![d] = Snapshot(d)]
  /\ Push(d, Snapshot(d))
  /\ UNCHANGED << disk, clock >>

Behind(d) ==
  /\ d \in behind /\ ~ Dirty(d)
  /\ head' = [head EXCEPT ![d] = bucket]
  /\ disk' = [disk EXCEPT ![d] = Applied(d, head[d], bucket)]
  /\ behind' = behind \ {d}
  /\ UNCHANGED << bucket, clock >>

\* The snapshot that was in step, head[d], is the common ancestor.
Diverged(d) ==
  /\ d \in behind /\ Dirty(d)
  /\ LET e == Merged(head[d], bucket, Snapshot(d))
     IN  /\ head' = [head EXCEPT ![d] = e]
         /\ disk' = [disk EXCEPT ![d] = Applied(d, Snapshot(d), e)]
         /\ Push(d, e)
  /\ UNCHANGED clock

\* syncOnce.
Cycle(d) == Ahead(d) \/ Behind(d) \/ Diverged(d)

Next == \E d \in Device : Write(d) \/ Chmod(d) \/ Cycle(d)

\* The poll ticker of cmdWatch keeps starting cycles on every device.
Spec == Init /\ [][Next]_vars /\ \A d \in Device : WF_vars(Cycle(d))

-----------------------------------------------------------------------------
(***************************************************************************)
(* Properties.                                                             *)
(***************************************************************************)

\* As long as no two writes have the same mtime, the fast path of
\* snapshotWorkingTree misses no edit: a snapshot lists the content that the file
\* has, although applies set mtimes to those of entries of other devices.
EditsSeen == \A d \in Device : Found(d).sha = disk[d].sha

\* Once the users leave the file alone, the cycles of watch come to rest: they
\* find a clean tree, and snapshotWorkingTree commits nothing ("Clean-tree syncs
\* are no-ops").
Rests == <>[](\A d \in Device : ~ Dirty(d))
=============================================================================
