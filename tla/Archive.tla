------------------------------ MODULE Archive ------------------------------
(***************************************************************************)
(* What a bucket promises to whoever reads it: blobs and manifests are     *)
(* only added, a manifest only when its ancestors are there, and HEAD only *)
(* moves to a manifest whose files are there.  How machines achieve that   *)
(* without ever seeing each other is Sync's business.                      *)
(***************************************************************************)
EXTENDS Chains

CONSTANT Bucket

VARIABLES remoteBlobs, remoteManifests, remoteHead

archive == << remoteBlobs, remoteManifests, remoteHead >>

\* M can be downloaded whole from bucket b.
Whole(b, M) ==
  Chain(M) \subseteq remoteManifests[b] /\ TreeOf(M) \subseteq remoteBlobs[b]

\* The bucket may be in use already.
Init ==
  \A b \in Bucket :
    /\ \A M \in remoteManifests[b] : Chain(M) \subseteq remoteManifests[b]
    /\ remoteHead[b] # NoManifest => Whole(b, remoteHead[b])

AddBlob(b) ==
  /\ \E blob \in Blob : remoteBlobs' = [remoteBlobs EXCEPT ![b] = @ \cup {blob}]
  /\ UNCHANGED << remoteManifests, remoteHead >>

AddManifest(b) ==
  /\ \E M \in remoteManifests'[b] :
       /\ remoteManifests' = [remoteManifests EXCEPT ![b] = @ \cup {M}]
       /\ Chain(M) \ {M} \subseteq remoteManifests[b]
  /\ UNCHANGED << remoteBlobs, remoteHead >>

Publish(b) ==
  /\ \E M \in remoteManifests[b] :
       Whole(b, M) /\ remoteHead' = [remoteHead EXCEPT ![b] = M]
  /\ UNCHANGED << remoteBlobs, remoteManifests >>

Next == \E b \in Bucket : AddBlob(b) \/ AddManifest(b) \/ Publish(b)

Spec == Init /\ [][Next]_archive
=============================================================================
