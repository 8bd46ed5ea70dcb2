------------------------------- MODULE Chains -------------------------------
(***************************************************************************)
(* Snapshot histories, and the questions shasync asks of them.             *)
(*                                                                         *)
(* A manifest is named by the SHA-256 of its bytes and its bytes hold the  *)
(* SHA of its parent, so a name stands for the whole history that led to   *)
(* it.  A manifest is therefore modelled as that history: the nonempty     *)
(* sequence of snapshots from the root to itself.  Its parent is the       *)
(* sequence without its last element, and a collision of two manifests is  *)
(* impossible by construction, as it is by hashing.  NoManifest stands for *)
(* the empty string that HEAD, parent_sha and the remote HEAD hold when    *)
(* there is no manifest.                                                   *)
(*                                                                         *)
(* What a snapshot holds is abstracted to the set of blobs its files have  *)
(* (tree) and to the machine that took it (by): created_at and the message *)
(* make the snapshots that two machines take of equal trees different.     *)
(*                                                                         *)
(* Every walk in the code goes from a manifest to its parent and stops at  *)
(* the first one that is not in the local manifests/ directory, so the     *)
(* walks below take the set S of the manifests that are local.             *)
(***************************************************************************)
EXTENDS Naturals, Sequences

CONSTANTS Blob,     \* contents of files, named by their SHA
          Machine   \* folders with a .blobs/ store, one per device

Listing  == [tree : SUBSET Blob, by : Machine]

NoManifest == << >>
Manifest == Seq(Listing) \ {NoManifest}

\* The ancestor of M that is i snapshots long; M itself for i = Len(M).
Prefix(M, i) == [j \in 1 .. i |-> M[j]]

\* Every ancestor of M, M included: the manifest chain that HEAD needs.
Chain(M) == {Prefix(M, i) : i \in 1 .. Len(M)}

\* The blobs of the files that manifest M lists.
TreeOf(M) == M[Len(M)].tree

\* And those of all the manifests in S.
Files(S) == UNION {TreeOf(M) : M \in S}

\* Everything between M (included) and its i-th ancestor is in S.
LocalFrom(M, i, S) == \A j \in i .. Len(M) : Prefix(M, j) \in S

\* The part of M's chain that a walk over the local manifests reads.
LocalChain(M, S) ==
  {Prefix(M, i) : i \in {k \in 1 .. Len(M) : LocalFrom(M, k, S)}}

\* The lengths of the ancestors that a walk from M names: it names the parent
\* of every manifest that it can read.
Named(M, S) == {i \in 1 .. Len(M) : LocalFrom(M, i + 1, S)}

\* isAncestor: A appears in the chain of D as far as that chain is local.
IsAncestor(A, D, S) ==
  A # NoManifest /\ \E i \in Named(D, S) : A = Prefix(D, i)

\* findCommonAncestor: the manifests of B's chain that A's chain also names, as
\* their lengths in B.  The walk from B stops at the longest of them.
CommonAncestors(A, B, S) ==
  {i \in Named(B, S) : \E k \in Named(A, S) : Prefix(A, k) = Prefix(B, i)}

HasCommonAncestor(A, B, S) == CommonAncestors(A, B, S) # {}

\* The part of B's chain since it parted from A's.
SinceFork(A, B, S) ==
  {Prefix(B, i) : i \in {j \in 1 .. Len(B) : \A k \in CommonAncestors(A, B, S) : k < j}}

\* The lengths of the ancestors of M that are not in S.
MissingFrom(M, S) == {i \in 1 .. Len(M) : Prefix(M, i) \notin S}

=============================================================================
