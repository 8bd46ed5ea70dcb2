--------------------------- MODULE SyncInvariants ---------------------------
(***************************************************************************)
(* Why the bucket's HEAD is complete, its history kept and no snapshot     *)
(* dropped: what holds at every step of every process, for every number of *)
(* machines, buckets and contents.  The five invariants are inductive,     *)
(* each relative to the ones before it.                                    *)
(***************************************************************************)
EXTENDS Sync

\* No file of a folder has the bytes of a manifest.  The push-log and the sets
\* covered and known mix the names of blobs and of manifests.
NamesDiffer == Blob \cap Manifest = {}

BlobsThere(m)     == remoteBlobs[remote[m]]
ManifestsThere(m) == remoteManifests[remote[m]]

Pushing == {"covered", "known", "upload", "ensure", "log", "cache"}

\* A push has a manifest to push, and a download one to apply.
TypeInv ==
  /\ TypeOK
  /\ \A m \in Machine :
       proc[m].pc \in Pushing \cup {"download"} => proc[m].target \in Manifest

-----------------------------------------------------------------------------
(***************************************************************************)
(* The tip of a push, whatever happens to the rest of its chain.           *)
(***************************************************************************)

\* What a machine holds: HEAD and the manifests a process works on are local.
Local(m) ==
  /\ head[m] \in manifests[m] \cup {NoManifest}
  /\ proc[m].local \in manifests[m] \cup {NoManifest}
  /\ proc[m].pc \in {"fetchBlobs", "download"} => proc[m].target \in manifests[m]

\* What a machine believes of the bucket is true of manifests, and what it read
\* of the bucket's HEAD is true of blobs too; nothing is believed between runs.
Beliefs(m) ==
  /\ (cache[m].known \cup proc[m].known) \cap Manifest \subseteq ManifestsThere(m)
  /\ proc[m].covered \cap Blob \subseteq BlobsThere(m)
  /\ At(m, "idle") => proc[m].known = {} /\ proc[m].covered = {}

\* How far a push has come with its tip.
Tip(m) ==
  LET p == proc[m] IN
  /\ p.pc \in {"covered", "known"} => p.target \in p.chain
  /\ p.pc = "upload" =>
       /\ p.target \in p.mans \cup ManifestsThere(m)
       /\ TreeOf(p.target) \subseteq p.blobs \cup p.known \cup BlobsThere(m)
       /\ p.novel \cap Manifest \subseteq p.mans \cup ManifestsThere(m)
  /\ p.pc \in {"ensure", "log"} => p.novel \cap Manifest \subseteq ManifestsThere(m)
  /\ p.pc = "ensure" =>
       /\ p.target \in ManifestsThere(m)
       /\ TreeOf(p.target) \subseteq p.blobs \cup BlobsThere(m)

LogTrue ==
  \A b \in Bucket : \A e \in pushLog[b] : e.names \cap Manifest \subseteq remoteManifests[b]

TipInv == HeadUsable /\ LogTrue /\ \A m \in Machine : Local(m) /\ Beliefs(m) /\ Tip(m)

-----------------------------------------------------------------------------
(***************************************************************************)
(* The chains, when every machine stays with its bucket.                   *)
(***************************************************************************)

\* What a machine lacks of a history that it knows, the bucket has.
LocalClosed(m) ==
  \A M \in manifests[m] : Chain(M) \subseteq manifests[m] \cup ManifestsThere(m)

\* How far a push has come with its chain.
Chained(m) ==
  LET p == proc[m] IN
  /\ p.pc \in {"covered", "known"} =>
       /\ p.chain \subseteq Chain(p.target)
       /\ Chain(p.target) \subseteq p.chain \cup ManifestsThere(m)
  /\ p.pc = "upload" =>
       /\ p.mans \subseteq Chain(p.target)
       /\ Chain(p.target) \subseteq p.mans \cup ManifestsThere(m)
  /\ p.pc = "ensure" => p.mans \subseteq ManifestsThere(m)

ChainInv == NoDanglingParent /\ \A m \in Machine : LocalClosed(m) /\ Chained(m)

-----------------------------------------------------------------------------
(***************************************************************************)
(* The blobs of the older snapshots, when besides no local file is lost.   *)
(***************************************************************************)

\* What a machine believes of its bucket's blobs, and what gc took from a listing.
BlobBeliefs(m) ==
  /\ (cache[m].known \cup proc[m].known) \cap Blob \subseteq BlobsThere(m)
  /\ gc[m].delete \subseteq BlobsThere(m)

\* How far a push has come with the files of its chain; and a merge has two sides.
Filed(m) ==
  LET p == proc[m] IN
  /\ p.pc = "fetchBlobs" => p.local # NoManifest
  /\ p.pc \in {"covered", "known", "upload"} => p.chain \subseteq manifests[m]
  /\ p.pc = "upload" =>
       /\ p.mans \subseteq p.chain
       /\ p.blobs \subseteq Files(p.chain)
       /\ Files(p.chain) \subseteq p.blobs \cup BlobsThere(m)
       /\ p.novel \cap Blob \subseteq p.blobs \cup BlobsThere(m)
  /\ p.pc \in {"ensure", "log"} => p.novel \cap Blob \subseteq BlobsThere(m)

LogTrueOfBlobs ==
  \A b \in Bucket : \A e \in pushLog[b] : e.names \cap Blob \subseteq remoteBlobs[b]

HistoryInv ==
  /\ HistoryKept /\ VersionsRecoverable /\ LogTrueOfBlobs
  /\ \A m \in Machine : BlobBeliefs(m) /\ Filed(m)

-----------------------------------------------------------------------------
(***************************************************************************)
(* HEAD, when nothing is committed beside a cycle.                         *)
(***************************************************************************)

\* Until it moves HEAD, a cycle or a pull finds it where it compared it, and what
\* it moves to is a descendant or a merge.
HeadRests(m) ==
  LET p == proc[m] IN
  /\ p.pc \in {"fetch", "fetchBlobs"} => p.mode # "fetch"
  /\ p.pc \in {"fetch", "fetchBlobs", "checkout", "download"} /\ p.mode # "fetch" =>
       head[m] = p.local
  /\ p.pc \in {"checkout", "download"} /\ p.mode # "fetch" =>
       p.local \in {NoManifest} \cup Chain(p.target) \/ MergeOf(m, p.target, p.local)

HeadInv == \A m \in Machine : HeadRests(m)
=============================================================================
