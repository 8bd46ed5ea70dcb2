---------------------------- MODULE ChainLemmas ----------------------------
(***************************************************************************)
(* What the walks of Chains give, whatever manifests are local.            *)
(***************************************************************************)
EXTENDS Chains, TLAPS

\* A manifest's ancestors are manifests, and M itself is the last of them.
LEMMA PrefixType ==
  ASSUME NEW M \in Manifest, NEW i \in 1 .. Len(M)
  PROVE  /\ Prefix(M, i) \in Manifest
         /\ Len(Prefix(M, i)) = i
         /\ \A j \in 1 .. i : Prefix(M, i)[j] = M[j]
BY DEF Prefix, Manifest, NoManifest

LEMMA PrefixWhole ==
  ASSUME NEW M \in Manifest
  PROVE  /\ Len(M) \in Nat \ {0}
         /\ Prefix(M, Len(M)) = M
         /\ M \in Chain(M)
BY DEF Prefix, Manifest, NoManifest, Chain

\* An ancestor of an ancestor is an ancestor.
LEMMA PrefixOfPrefix ==
  ASSUME NEW M \in Manifest, NEW i \in 1 .. Len(M), NEW k \in 1 .. i
  PROVE  Prefix(Prefix(M, i), k) = Prefix(M, k)
BY PrefixType DEF Prefix, Manifest

LEMMA ChainType ==
  ASSUME NEW M \in Manifest
  PROVE  Chain(M) \subseteq Manifest
BY PrefixType DEF Chain

LEMMA TreeType ==
  ASSUME NEW M \in Manifest
  PROVE  TreeOf(M) \subseteq Blob
<1>1. M \in Seq(Listing) /\ Len(M) \in 1 .. Len(M)
  BY PrefixWhole DEF Manifest
<1>2. M[Len(M)] \in Listing
  BY <1>1
<1> QED BY <1>2 DEF TreeOf, Listing

LEMMA FilesType ==
  ASSUME NEW S \in SUBSET Manifest
  PROVE  Files(S) \subseteq Blob
BY TreeType DEF Files

\* A walk over local manifests stays in the chain.
LEMMA LocalChainType ==
  ASSUME NEW M \in Manifest, NEW S
  PROVE  LocalChain(M, S) \subseteq Chain(M) \cap S
BY DEF LocalChain, LocalFrom, Chain

\* What such a walk does not reach has a descendant, or is itself, outside S.
LEMMA BeyondLocalChain ==
  ASSUME NEW M \in Manifest, NEW S, NEW i \in 1 .. Len(M),
         Prefix(M, i) \notin LocalChain(M, S)
  PROVE  \E j \in i .. Len(M) : Prefix(M, j) \notin S
BY DEF LocalChain, LocalFrom

\* What a snapshot after M is: its chain is M's and itself.
LEMMA AppendType ==
  ASSUME NEW M \in Manifest \cup {NoManifest}, NEW l \in Listing
  PROVE  /\ Append(M, l) \in Manifest
         /\ Len(Append(M, l)) = Len(M) + 1
<1>1. M \in Seq(Listing)
  <2>1. << >> \in Seq(Listing)
    OBVIOUS
  <2> QED BY <2>1 DEF Manifest, NoManifest
<1>2. Append(M, l) \in Seq(Listing) /\ Len(Append(M, l)) = Len(M) + 1 /\ Len(M) \in Nat
  BY <1>1
<1>3. Append(M, l) # << >>
  BY <1>2, Len(<< >>) = 0
<1> QED BY <1>2, <1>3 DEF Manifest, NoManifest

LEMMA AppendTree ==
  ASSUME NEW M \in Manifest \cup {NoManifest}, NEW l \in Listing
  PROVE  TreeOf(Append(M, l)) = l.tree /\ Append(M, l)[Len(M) + 1] = l
<1>1. M \in Seq(Listing)
  <2>1. << >> \in Seq(Listing)
    OBVIOUS
  <2> QED BY <2>1 DEF Manifest, NoManifest
<1>2. Append(M, l)[Len(M) + 1] = l /\ Len(Append(M, l)) = Len(M) + 1
  BY <1>1
<1> QED BY <1>2 DEF TreeOf

\* And M is its parent.
LEMMA AppendParent ==
  ASSUME NEW M \in Manifest, NEW l \in Listing
  PROVE  Prefix(Append(M, l), Len(M)) = M
<1>1. M \in Seq(Listing)
  BY DEF Manifest
<1>2. \A i \in 1 .. Len(M) : Append(M, l)[i] = M[i]
  BY <1>1
<1>3. Prefix(Append(M, l), Len(M)) = Prefix(M, Len(M))
  BY <1>2 DEF Prefix
<1> QED BY <1>3, PrefixWhole

LEMMA AppendChain ==
  ASSUME NEW M \in Manifest \cup {NoManifest}, NEW l \in Listing
  PROVE  Chain(Append(M, l)) =
           {Append(M, l)} \cup IF M = NoManifest THEN {} ELSE Chain(M)
<1> DEFINE C == Append(M, l)
<1>1. C \in Manifest /\ Len(C) = Len(M) + 1 /\ Len(M) \in Nat
  BY AppendType DEF Manifest, NoManifest
<1>2. \A i \in 1 .. Len(M) : Prefix(C, i) = Prefix(M, i)
  BY <1>1 DEF Prefix, Manifest, NoManifest
<1>3. Prefix(C, Len(C)) = C
  BY <1>1, PrefixWhole
<1>4. Len(NoManifest) = 0
  BY DEF NoManifest
<1>5. 1 .. Len(C) = 1 .. Len(M) \cup {Len(C)}
  BY <1>1
<1>6. Chain(C) = {Prefix(M, i) : i \in 1 .. Len(M)} \cup {C}
  <2> HIDE DEF C
  <2> QED BY <1>2, <1>3, <1>5 DEF Chain
<1> QED
  BY <1>1, <1>4, <1>6 DEF Chain
=============================================================================
