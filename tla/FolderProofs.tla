---------------------------- MODULE FolderProofs ----------------------------
(***************************************************************************)
(* What autoMerge keeps, for all trees; and the safety properties of       *)
(* Folder, with any user, other devices, pulls and kills: TypeOK,          *)
(* StopsOnlyForEdits and SavedKept.                                        *)
(***************************************************************************)
EXTENDS FolderInvariants, FiniteSetTheorems, TLAPS

-----------------------------------------------------------------------------
(***************************************************************************)
(* Names and trees.                                                        *)
(***************************************************************************)

LEMMA NameType ==
  ASSUME NEW n \in FileName
  PROVE  n[1] \in Path /\ n[2] \in Seq(Nat) /\ Len(n[2]) \in Nat
<1>1. n[1] \in Path /\ n[2] \in Seq(Nat)
  BY DEF FileName
<1> QED BY <1>1

LEMMA OriginalType == Original \subseteq FileName
<1>1. << >> \in Seq(Nat)
  OBVIOUS
<1> QED BY <1>1 DEF Original, FileName

LEMMA CopyType ==
  ASSUME NEW n \in FileName, NEW s \in Nat
  PROVE  /\ CopyOf(n, s) \in FileName
         /\ CopyOf(n, s)[1] = n[1]
         /\ CopyOf(n, s)[2] = Append(n[2], s)
         /\ Len(CopyOf(n, s)[2]) = Len(n[2]) + 1
         /\ CopyOf(n, s)[2][Len(n[2]) + 1] = s
         /\ \A k \in 1 .. Len(n[2]) : CopyOf(n, s)[2][k] = n[2][k]
<1>1. n[1] \in Path /\ n[2] \in Seq(Nat)
  BY NameType
<1>2. /\ Append(n[2], s) \in Seq(Nat) /\ Len(Append(n[2], s)) = Len(n[2]) + 1
      /\ Append(n[2], s)[Len(n[2]) + 1] = s
      /\ \A k \in 1 .. Len(n[2]) : Append(n[2], s)[k] = n[2][k]
  BY <1>1
<1>3. CopyOf(n, s)[1] = n[1] /\ CopyOf(n, s)[2] = Append(n[2], s)
  BY DEF CopyOf
<1>4. CopyOf(n, s) \in FileName
  BY <1>1, <1>2 DEF CopyOf, FileName
<1> QED BY <1>2, <1>3, <1>4

\* Two names with one copy are one name.
LEMMA CopyInjective ==
  ASSUME NEW m \in FileName, NEW n \in FileName, NEW s \in Nat, CopyOf(m, s) = CopyOf(n, s)
  PROVE  m = n
<1>1. m[1] = n[1] /\ Append(m[2], s) = Append(n[2], s)
  BY CopyType
<1>2. m[2] \in Seq(Nat) /\ n[2] \in Seq(Nat)
  BY NameType
<1>3. Len(m[2]) = Len(n[2])
  BY CopyType
<1>4. \A k \in 1 .. Len(m[2]) : m[2][k] = n[2][k]
  BY <1>3, CopyType
<1>5. m[2] = n[2]
  <2> DEFINE a == m[2]
             b == n[2]
  <2>1. a \in Seq(Nat) /\ b \in Seq(Nat) /\ Len(a) = Len(b) /\ \A k \in 1 .. Len(a) : a[k] = b[k]
    BY <1>2, <1>3, <1>4
  <2> HIDE DEF a, b
  <2>2. a = b
    BY <2>1
  <2> QED BY <2>2 DEF a, b
<1>6. \A p, q \in FileName : p[1] = q[1] /\ p[2] = q[2] => p = q
  <2> SUFFICES ASSUME NEW p \in FileName, NEW q \in FileName, p[1] = q[1], p[2] = q[2]
               PROVE  p = q
    OBVIOUS
  <2>1. p \in Path \X Seq(Nat) /\ q \in Path \X Seq(Nat)
    BY DEF FileName
  <2>2. PICK a \in Path, b \in Seq(Nat) : p = << a, b >>
    BY <2>1
  <2>3. PICK d \in Path, e \in Seq(Nat) : q = << d, e >>
    BY <2>1
  <2>4. a = d /\ b = e
    BY <2>2, <2>3
  <2> QED BY <2>2, <2>3, <2>4
<1> QED BY <1>1, <1>5, <1>6

LEMMA FileType ==
  ASSUME NEW t \in Trees, NEW f \in t
  PROVE  f[1] \in FileName /\ f[2] \in Edit /\ f = << f[1], f[2] >>
BY DEF Trees

LEMMA VersionIs ==
  ASSUME NEW t \in Trees, NEW n, NEW c
  PROVE  c \in Version(t, n) <=> << n, c >> \in t
BY DEF Version, Trees

LEMMA VersionOne ==
  ASSUME NEW t \in Trees, OneEach(t), NEW n, NEW c \in Version(t, n)
  PROVE  Version(t, n) = {c} /\ n \in FileName /\ c \in Edit
<1>1. \A d \in Version(t, n) : << n, d >> \in t
  BY VersionIs
<1>2. << n, c >> \in t
  BY <1>1
<1>3. \A d \in Version(t, n) : d = c
  BY <1>1, <1>2 DEF OneEach
<1>4. n \in FileName /\ c \in Edit
  BY <1>2 DEF Trees
<1> QED BY <1>3, <1>4

LEMMA PutType ==
  ASSUME NEW t \in Trees, OneEach(t), NEW n \in FileName, NEW c \in Edit
  PROVE  /\ Put(t, n, c) \in Trees /\ OneEach(Put(t, n, c))
         /\ << n, c >> \in Put(t, n, c)
         /\ Put(t, n, c) \subseteq t \cup {<< n, c >>}
BY DEF Put, Trees, OneEach

LEMMA DropType ==
  ASSUME NEW t \in Trees, OneEach(t), NEW n
  PROVE  Drop(t, n) \in Trees /\ OneEach(Drop(t, n)) /\ Drop(t, n) \subseteq t
BY DEF Drop, Trees, OneEach

\* A change writes one file, or none.
LEMMA ChangeType ==
  ASSUME NEW t \in Trees, OneEach(t), NEW c \in Edit, NEW u \in Changes(t, c)
  PROVE  /\ u \in Trees /\ OneEach(u)
         /\ \A f \in u : f \in t \/ (f[2] = c /\ f[1] \in NamesOf(t) \cup Original)
<1>1. PICK n \in NamesOf(t) \cup Original : u = Put(t, n, c) \/ u = Drop(t, n)
  BY DEF Changes
<1>2. n \in FileName
  BY OriginalType, FileType DEF NamesOf
<1>3. CASE u = Put(t, n, c)
  <2>1. u \in Trees /\ OneEach(u) /\ u \subseteq t \cup {<< n, c >>}
    BY <1>2, <1>3, PutType
  <2>2. << n, c >>[1] = n /\ << n, c >>[2] = c
    OBVIOUS
  <2>3. ASSUME NEW f \in u, f \notin t
        PROVE  f[2] = c /\ f[1] = n
    BY <2>1, <2>2, <2>3
  <2> QED BY <2>1, <2>3
<1>4. CASE u = Drop(t, n)
  BY <1>4, DropType
<1> QED BY <1>1, <1>3, <1>4

LEMMA GoodSubset ==
  ASSUME NEW s \in Nat, NEW t, Good(t, s), NEW u \in SUBSET t
  PROVE  Good(u, s)
BY DEF Good, OneEach, Trees

LEMMA GoodLater ==
  ASSUME NEW s \in Nat, NEW t, Good(t, s)
  PROVE  Good(t, s + 1)
<1>1. ASSUME NEW f \in t
      PROVE  /\ Len(f[1][2]) <= s + 1
             /\ \A k \in 1 .. Len(f[1][2]) : f[1][2][k] < s + 1
  <2>1. f[1] \in FileName
    BY FileType DEF Good
  <2>2. f[1][2] \in Seq(Nat) /\ Len(f[1][2]) \in Nat
    BY <2>1, NameType
  <2>3. \A k \in 1 .. Len(f[1][2]) : f[1][2][k] \in Nat
    BY <2>2
  <2> QED BY <2>2, <2>3 DEF Good
<1> QED BY <1>1 DEF Good

LEMMA GoodChange ==
  ASSUME NEW s \in Nat, NEW t, Good(t, s), NEW c \in Edit, NEW u \in Changes(t, c)
  PROVE  Good(u, s)
<1>1. u \in Trees /\ OneEach(u)
  BY ChangeType DEF Good
<1>2. ASSUME NEW f \in u
      PROVE  /\ Len(f[1][2]) <= s
             /\ \A k \in 1 .. Len(f[1][2]) : f[1][2][k] < s
  <2>1. f \in t \/ f[1] \in NamesOf(t) \/ f[1] \in Original
    BY ChangeType DEF Good
  <2>2. ASSUME f[1] \in NamesOf(t)
        PROVE  \E g \in t : g[1] = f[1]
    BY <2>2 DEF NamesOf
  <2>3. CASE f \in t \/ f[1] \in NamesOf(t)
    BY <2>2, <2>3 DEF Good
  <2>4. CASE f[1] \in Original
    <3>1. f[1][2] = << >>
      BY <2>4 DEF Original
    <3>2. Len(f[1][2]) = 0
      BY <3>1
    <3> QED BY <3>2
  <2> QED BY <2>1, <2>3, <2>4
<1> QED BY <1>1, <1>2 DEF Good

-----------------------------------------------------------------------------
(***************************************************************************)
(* The merge.                                                              *)
(***************************************************************************)

\* Every version that the remote side has and the ancestor does not is in the
\* merge at its own name: autoMerge never moves a remote file aside.
THEOREM RemoteKept ==
  ASSUME NEW a \in Trees, NEW r \in Trees, NEW l \in Trees, NEW s,
         NEW n \in FileName, NEW c \in Version(r, n), Version(a, n) # Version(r, n)
  PROVE  << n, c >> \in AutoMerge(a, r, l, s)
<1>1. << n, c >> \in r
  BY DEF Version, Trees
<1>2. Taken(a, r, l, n) = Version(r, n)
  BY DEF Taken
<1> QED
  BY <1>1, <1>2 DEF AutoMerge, Originals

\* Every version that the local side has and the ancestor does not is in the
\* merge, at its own name or as the conflict copy of it: no edit is lost by
\* autoMerge, whatever the remote side did to that file.
THEOREM LocalKept ==
  ASSUME NEW a \in Trees, NEW r \in Trees, NEW l \in Trees, NEW s,
         NEW n \in FileName, NEW c \in Version(l, n), Version(a, n) # Version(l, n)
  PROVE  \E m \in {n, CopyOf(n, s)} : << m, c >> \in AutoMerge(a, r, l, s)
<1>0. << n, c >> \in l
  BY DEF Version, Trees
<1>1. CASE InConflict(a, r, l, n)
  <2>1. << n, c >> \in {g \in l : InConflict(a, r, l, g[1])}
    BY <1>0, <1>1
  <2>2. << CopyOf(n, s), c >> \in Copies(a, r, l, s)
    BY <2>1 DEF Copies
  <2> QED
    BY <2>2 DEF AutoMerge
<1>2. CASE ~ InConflict(a, r, l, n)
  <2>1. Taken(a, r, l, n) = Version(l, n)
    BY <1>2 DEF InConflict, Taken
  <2> QED
    BY <1>0, <2>1 DEF AutoMerge, Originals
<1> QED
  BY <1>1, <1>2

\* autoMerge makes nothing up: every content of the merge comes from one of the two
\* sides, so all its blobs are local once fetchBlobsForChain has the remote's.
THEOREM NothingMadeUp ==
  ASSUME NEW a \in Trees, NEW r \in Trees, NEW l \in Trees, NEW s
  PROVE  ContentsOf(AutoMerge(a, r, l, s)) \subseteq ContentsOf(r) \cup ContentsOf(l)
<1> SUFFICES ASSUME NEW f \in AutoMerge(a, r, l, s)
             PROVE  f[2] \in ContentsOf(r) \cup ContentsOf(l)
  BY DEF ContentsOf
<1>1. CASE f \in Originals(a, r, l)
  BY <1>1 DEF Originals, ContentsOf
<1>2. CASE f \in Copies(a, r, l, s)
  <2>1. PICK g \in l : f = << CopyOf(g[1], s), g[2] >>
    BY <1>2 DEF Copies
  <2> QED
    BY <2>1 DEF ContentsOf
<1> QED
  BY <1>1, <1>2 DEF AutoMerge

\* The merge of trees is a tree: no name is given two contents, because the name of
\* a copy ends with the time of this merge, which is later than those of all copies
\* there are.
THEOREM MergeIsTree ==
  ASSUME NEW s \in Nat, NEW a \in Trees, NEW r, NEW l, Good(r, s), Good(l, s)
  PROVE  Good(AutoMerge(a, r, l, s), s + 1)
<1> DEFINE M == AutoMerge(a, r, l, s)
<1>1. r \in Trees /\ l \in Trees /\ OneEach(r) /\ OneEach(l)
  BY DEF Good
<1>2. ASSUME NEW f \in Originals(a, r, l)
      PROVE  f \in r \cup l /\ f[2] \in Taken(a, r, l, f[1])
  BY DEF Originals
<1>3. ASSUME NEW f \in Copies(a, r, l, s)
      PROVE  \E g \in l : f = << CopyOf(g[1], s), g[2] >>
  BY DEF Copies
<1>4. ASSUME NEW f \in M
      PROVE  /\ f \in FileName \X Edit
             /\ Len(f[1][2]) <= s + 1
             /\ \A k \in 1 .. Len(f[1][2]) : f[1][2][k] < s + 1
  <2>1. CASE f \in Originals(a, r, l)
    BY <1>2, <2>1, GoodLater DEF Good, Trees
  <2>2. CASE f \in Copies(a, r, l, s)
    <3>1. PICK g \in l : f = << CopyOf(g[1], s), g[2] >>
      BY <1>3, <2>2
    <3>2. g[1] \in FileName /\ g[2] \in Edit
      BY <1>1, FileType
    <3>3. f[1] = CopyOf(g[1], s) /\ f \in FileName \X Edit
      BY <3>1, <3>2, CopyType
    <3>4. Len(f[1][2]) = Len(g[1][2]) + 1 /\ Len(g[1][2]) \in Nat
      BY <3>2, <3>3, CopyType, NameType
    <3>5. Len(g[1][2]) <= s /\ \A k \in 1 .. Len(g[1][2]) : g[1][2][k] < s
      BY DEF Good
    <3>6. ASSUME NEW k \in 1 .. Len(f[1][2])
          PROVE  f[1][2][k] < s + 1
      <4>1. CASE k = Len(g[1][2]) + 1
        BY <3>2, <3>3, <4>1, CopyType
      <4>2. CASE k \in 1 .. Len(g[1][2])
        <5>1. f[1][2][k] = g[1][2][k]
          BY <3>2, <3>3, <4>2, CopyType
        <5>2. g[1][2] \in Seq(Nat)
          BY <3>2, NameType
        <5>3. g[1][2][k] \in Nat
          BY <4>2, <5>2
        <5> QED BY <3>5, <4>2, <5>1, <5>3
      <4> DEFINE p == Len(g[1][2])
                 q == Len(f[1][2])
      <4>3. p \in Nat /\ q = p + 1 /\ k \in 1 .. q
        BY <3>4
      <4> HIDE DEF p, q
      <4>4. k = p + 1 \/ k \in 1 .. p
        BY <4>3
      <4> QED BY <4>1, <4>2, <4>4 DEF p
    <3>7. Len(f[1][2]) <= s + 1
      BY <3>4, <3>5
    <3> QED BY <3>3, <3>6, <3>7
  <2>3. f \in Originals(a, r, l) \/ f \in Copies(a, r, l, s)
    BY DEF AutoMerge
  <2> QED BY <2>1, <2>2, <2>3
<1>5. ASSUME NEW n, NEW c, NEW d,
             \/ c \in Version(r, n) /\ d \in Version(r, n)
             \/ c \in Version(l, n) /\ d \in Version(l, n)
      PROVE  c = d
  BY <1>1, <1>5, VersionOne
<1>6. ASSUME NEW f \in Originals(a, r, l), NEW g \in Originals(a, r, l), f[1] = g[1]
      PROVE  f[2] = g[2]
  <2>1. f[2] \in Taken(a, r, l, f[1]) /\ g[2] \in Taken(a, r, l, f[1])
    BY <1>2, <1>6
  <2> QED BY <1>5, <2>1 DEF Taken
<1>7. ASSUME NEW f \in Copies(a, r, l, s), NEW g \in Copies(a, r, l, s), f[1] = g[1]
      PROVE  f[2] = g[2]
  <2>1. PICK h \in l : f = << CopyOf(h[1], s), h[2] >>
    BY <1>3
  <2>2. PICK k \in l : g = << CopyOf(k[1], s), k[2] >>
    BY <1>3
  <2>3. h[1] \in FileName /\ k[1] \in FileName
    BY <1>1, FileType
  <2>a. \A x, y : << x, y >>[1] = x /\ << x, y >>[2] = y
    OBVIOUS
  <2>b. f[1] = CopyOf(h[1], s) /\ g[1] = CopyOf(k[1], s)
    BY <2>1, <2>2, <2>a
  <2>4. h[1] = k[1]
    BY <1>7, <2>3, <2>b, CopyInjective
  <2> QED BY <1>1, <2>1, <2>2, <2>4 DEF OneEach
<1>8. ASSUME NEW f \in Originals(a, r, l), NEW g \in Copies(a, r, l, s)
      PROVE  f[1] # g[1]
  <2>1. PICK h \in l : g = << CopyOf(h[1], s), h[2] >>
    BY <1>3
  <2>2. h[1] \in FileName
    BY <1>1, FileType
  <2>3. g[1][2][Len(h[1][2]) + 1] = s /\ Len(h[1][2]) + 1 \in 1 .. Len(g[1][2])
    BY <2>1, <2>2, CopyType, NameType
  <2>4. \A k \in 1 .. Len(f[1][2]) : f[1][2][k] < s
    BY <1>2 DEF Good
  <2> QED BY <2>3, <2>4
<1>9. OneEach(M)
  BY <1>6, <1>7, <1>8 DEF AutoMerge, OneEach
<1> HIDE DEF M
<1>10. M \in Trees
  BY <1>4 DEF Trees
<1>11. Good(M, s + 1)
  BY <1>4, <1>9, <1>10 DEF Good
<1> QED BY <1>11 DEF M

\* A bounded set of numbers that is not empty has a greatest one.
LEMMA Greatest ==
  ASSUME NEW U \in SUBSET Nat, NEW b \in Nat, U # {}, \A k \in U : k <= b
  PROVE  \E x \in U : \A k \in U : k <= x
<1> DEFINE R == StrictSubsetOrdering(Nat)
           F == FiniteSubsetsOf(Nat)
           T == {k + 1 .. b : k \in U}
<1>1. IsWellFoundedOn(R, F)
  BY FS_StrictSubsetOrderingWellFounded
<1>2. T # {}
  OBVIOUS
<1>3. T \subseteq F
  <2> SUFFICES ASSUME NEW k \in U PROVE k + 1 .. b \in F
    OBVIOUS
  <2>1. IsFiniteSet(k + 1 .. b)
    BY FS_Interval
  <2> QED BY <2>1 DEF FiniteSubsetsOf
<1>4. \A x, y \in F : x \subseteq y /\ x # y => << x, y >> \in R
  BY DEF StrictSubsetOrdering, FiniteSubsetsOf
<1> HIDE DEF R, F
<1>5. PICK t \in T : \A y \in T : << y, t >> \notin R
  BY <1>1, <1>2, <1>3, WFMin
<1>6. PICK x \in U : t = x + 1 .. b
  OBVIOUS
<1>7. ASSUME NEW k \in U, k > x PROVE FALSE
  <2>1. k + 1 .. b \in T
    OBVIOUS
  <2>2. k + 1 .. b \subseteq x + 1 .. b
    BY <1>7
  <2>3. k \in x + 1 .. b /\ k \notin k + 1 .. b
    BY <1>7
  <2> HIDE DEF T
  <2> QED BY <2>1, <2>2, <2>3, <1>3, <1>4, <1>5, <1>6
<1> QED BY <1>7

-----------------------------------------------------------------------------
(***************************************************************************)
(* Histories.                                                              *)
(***************************************************************************)

LEMMA ChainIs ==
  ASSUME NEW M \in Manifest \cup {NoManifest}
  PROVE  /\ M \in Seq(Listing) /\ Len(M) \in Nat
         /\ M = NoManifest <=> Len(M) = 0
         /\ \A i \in 1 .. Len(M) :
              M[i] \in Listing /\ M[i].tree \in Trees /\ M[i].by \in Author
<1>1. M \in Seq(Listing)
  <2>1. << >> \in Seq(Listing)
    OBVIOUS
  <2> QED BY <2>1 DEF Manifest, NoManifest
<1>2. M = << >> <=> Len(M) = 0
  BY <1>1
<1>3. ASSUME NEW i \in 1 .. Len(M)
      PROVE  M[i] \in Listing /\ M[i].tree \in Trees /\ M[i].by \in Author
  <2>1. M[i] \in Listing
    BY <1>1
  <2> QED BY <2>1 DEF Listing, Trees
<1> QED BY <1>1, <1>2, <1>3 DEF NoManifest

LEMMA PrefixIs ==
  ASSUME NEW M \in Manifest, NEW i \in 1 .. Len(M)
  PROVE  /\ Prefix(M, i) \in Manifest
         /\ Len(Prefix(M, i)) = i
         /\ \A j \in 1 .. i : Prefix(M, i)[j] = M[j]
         /\ TreeOf(Prefix(M, i)) = M[i].tree
BY DEF Prefix, Manifest, NoManifest, TreeOf

LEMMA AppendIs ==
  ASSUME NEW M \in Manifest \cup {NoManifest}, NEW t \in Trees, NEW by \in Author
  PROVE  LET N == Append(M, [tree |-> t, by |-> by])
         IN  /\ N \in Manifest
             /\ Len(N) = Len(M) + 1
             /\ \A j \in 1 .. Len(M) : N[j] = M[j]
             /\ N[Len(M) + 1].tree = t
             /\ TreeOf(N) = t
<1> DEFINE l == [tree |-> t, by |-> by]
<1>1. l \in Listing /\ l.tree = t
  BY DEF Listing, Trees
<1>2. M \in Seq(Listing) /\ Len(M) \in Nat
  BY ChainIs
<1> HIDE DEF l
<1>3. /\ Append(M, l) \in Seq(Listing) /\ Len(Append(M, l)) = Len(M) + 1
      /\ \A j \in 1 .. Len(M) : Append(M, l)[j] = M[j]
      /\ Append(M, l)[Len(M) + 1] = l
  BY <1>1, <1>2
<1>4. Append(M, l) # << >>
  BY <1>2, <1>3, Len(<< >>) = 0
<1>5. TreeOf(Append(M, l)) = t
  BY <1>1, <1>3 DEF TreeOf
<1> QED BY <1>1, <1>3, <1>4, <1>5 DEF Manifest, NoManifest, l

LEMMA GoodNone ==
  ASSUME NEW s \in Nat
  PROVE  Good({}, s) /\ GoodChain(NoManifest, s)
<1>1. Len(NoManifest) = 0
  BY DEF NoManifest
<1>2. 1 .. 0 = {}
  OBVIOUS
<1> QED BY <1>1, <1>2 DEF Good, GoodChain, Trees, OneEach

LEMMA GoodTree ==
  ASSUME NEW M \in Manifest, NEW s \in Nat, GoodChain(M, s)
  PROVE  Good(TreeOf(M), s)
<1>1. Len(M) \in 1 .. Len(M)
  BY ChainIs DEF Manifest
<1> QED BY <1>1 DEF GoodChain, TreeOf

LEMMA GoodPrefix ==
  ASSUME NEW M \in Manifest, NEW s \in Nat, GoodChain(M, s), NEW i \in 1 .. Len(M)
  PROVE  GoodChain(Prefix(M, i), s) /\ Good(TreeOf(Prefix(M, i)), s)
<1>1. /\ Len(Prefix(M, i)) = i /\ \A j \in 1 .. i : Prefix(M, i)[j] = M[j]
      /\ TreeOf(Prefix(M, i)) = M[i].tree
  BY PrefixIs
<1>2. \A j \in 1 .. i : j \in 1 .. Len(M)
  BY ChainIs
<1>3. \A j \in 1 .. Len(Prefix(M, i)) : Good(Prefix(M, i)[j].tree, s)
  BY <1>1, <1>2 DEF GoodChain
<1> QED BY <1>1, <1>3 DEF GoodChain

LEMMA GoodAppend ==
  ASSUME NEW M \in Manifest \cup {NoManifest}, NEW s \in Nat, GoodChain(M, s),
         NEW t, Good(t, s), NEW by \in Author
  PROVE  GoodChain(Append(M, [tree |-> t, by |-> by]), s)
<1> DEFINE N == Append(M, [tree |-> t, by |-> by])
<1>1. /\ Len(N) = Len(M) + 1 /\ Len(M) \in Nat
      /\ \A j \in 1 .. Len(M) : N[j] = M[j]
      /\ N[Len(M) + 1].tree = t
  BY AppendIs, ChainIs DEF Good
<1> HIDE DEF N
<1>2. \A j \in 1 .. Len(N) : Good(N[j].tree, s)
  BY <1>1 DEF GoodChain
<1> QED BY <1>2 DEF GoodChain, N

LEMMA GoodChainLater ==
  ASSUME NEW M, NEW s \in Nat, GoodChain(M, s)
  PROVE  GoodChain(M, s + 1)
BY GoodLater DEF GoodChain

-----------------------------------------------------------------------------
(***************************************************************************)
(* Types.                                                                  *)
(***************************************************************************)

LEMMA HeadTreeGood ==
  ASSUME StoreInv
  PROVE  Good(HeadTree, stamp)
BY GoodNone, GoodTree DEF StoreInv, HeadTree

LEMMA TypeInvImplies == TypeInv => TypeOK
<1> SUFFICES ASSUME TypeInv PROVE TypeOK
  OBVIOUS
<1>1. Good(HeadTree, stamp) /\ Good(TreeOf(remoteHead), stamp)
  BY HeadTreeGood, GoodTree DEF TypeInv, StoreInv
<1> QED BY <1>1 DEF TypeOK, TypeInv, StoreInv, ProcInv, Good

LEMMA DifferingType ==
  ASSUME NEW t \in Trees, NEW u \in Trees
  PROVE  Differing(t, u) \subseteq FileName
BY FileType DEF Differing, NamesOf

LEMMA IdleIs ==
  /\ Idle \in Process
  /\ Idle.pc = "idle" /\ ~ Idle.pull /\ Idle.snap = {} /\ Idle.target = NoManifest
  /\ Idle.todo = {} /\ ~ Idle.edited /\ ~ Idle.merged
BY DEF Idle, Process, Trees

LEMMA IdleType ==
  ASSUME stamp' \in Nat, proc' = Idle
  PROVE  ProcInv'
<1>1. Good({}, stamp') /\ GoodChain(NoManifest, stamp')
  BY GoodNone
<1>2. Good(proc.snap, stamp)' /\ GoodChain(proc.target, stamp)'
  BY <1>1, IdleIs DEF Good, GoodChain
<1> QED BY <1>2, IdleIs DEF ProcInv, HasTarget, Applying, At
LEMMA InitType == Init => TypeInv
<1> SUFFICES ASSUME Init PROVE TypeInv
  OBVIOUS
<1>1. PICK t \in SUBSET (Original \X {<< "there", 0 >>}) :
        remoteHead = << [tree |-> t, by |-> "there"] >>
  BY DEF Init
<1>2. << "there", 0 >> \in Edit /\ "there" \in Author
  BY DEF Edit, Author
<1>3. t \in Trees /\ OneEach(t)
  <2>1. \A f \in t : f[1] \in FileName /\ f[2] = << "there", 0 >> /\ f = << f[1], f[2] >>
    BY OriginalType
  <2> QED BY <1>2, <2>1 DEF Trees, OneEach
<1>4. ASSUME NEW f \in t
      PROVE  Len(f[1][2]) <= 0 /\ \A k \in 1 .. Len(f[1][2]) : f[1][2][k] < 0
  <2>1. f[1] \in Original
    OBVIOUS
  <2>2. f[1][2] = << >>
    BY <2>1 DEF Original
  <2> DEFINE e == f[1][2]
  <2>3. Len(e) = 0 /\ 1 .. 0 = {}
    BY <2>2
  <2> QED BY <2>3
<1>5. Good(t, 0)
  BY <1>3, <1>4 DEF Good
<1> DEFINE l == [tree |-> t, by |-> "there"]
<1>6. l \in Listing /\ l.tree = t
  BY <1>2, <1>3 DEF Listing, Trees
<1> HIDE DEF l
<1>7. remoteHead \in Manifest /\ Len(remoteHead) = 1 /\ remoteHead[1].tree = t
  BY <1>1, <1>6 DEF l, Manifest, NoManifest
<1>8. GoodChain(remoteHead, 0)
  BY <1>5, <1>7 DEF GoodChain
<1>9. head \in Manifest \cup {NoManifest} /\ GoodChain(head, 0)
  BY <1>7, <1>8, GoodNone DEF Init
<1>10. Good(disk, 0)
  BY <1>5, <1>7, <1>9, GoodNone DEF Init, HeadTree, TreeOf
<1>11. count \in [edits : 0 .. MaxEdits, moves : 0 .. MaxMoves,
                  pulls : 0 .. MaxPulls, kills : 0 .. MaxKills]
  BY BoundsAssumption DEF Init
<1>12. StoreInv
  BY <1>7, <1>8, <1>9, <1>10, <1>11 DEF Init, StoreInv
<1>13. Good(Idle.snap, 0) /\ GoodChain(Idle.target, 0)
  BY GoodNone, IdleIs
<1>14. ProcInv
  BY <1>13, IdleIs DEF Init, ProcInv, HasTarget, Applying, At
<1> QED BY <1>12, <1>14 DEF TypeInv

LEMMA SaveType ==
  ASSUME TypeInv, Save
  PROVE  TypeInv'
<1> DEFINE c == << "here", count.edits >>
<1>1. PICK t \in Changes(disk, c) :
        /\ disk' = t
        /\ saved' = (saved \ ContentsOf(disk \ t)) \cup ({c} \cap ContentsOf(t))
  BY DEF Save
<1>2. count.edits \in Nat /\ count.edits + 1 \in 0 .. MaxEdits
  BY BoundsAssumption DEF Save, TypeInv, StoreInv
<1>3. c \in {"here"} \X Nat /\ c \in Edit
  BY <1>2 DEF Edit, Author
<1>4. saved' \subseteq {"here"} \X Nat
  BY <1>1, <1>3 DEF TypeInv, StoreInv
<1>5. Good(t, stamp)
  BY <1>3, GoodChange DEF TypeInv, StoreInv
<1>6. count' \in [edits : 0 .. MaxEdits, moves : 0 .. MaxMoves,
                  pulls : 0 .. MaxPulls, kills : 0 .. MaxKills]
  BY <1>2 DEF Save, TypeInv, StoreInv
<1>7. StoreInv'
  BY <1>1, <1>4, <1>5, <1>6 DEF Save, StoreInv, TypeInv
<1>8. proc' = [proc EXCEPT !.edited = ~ At("idle")] /\ HeadTree' = HeadTree
  BY DEF Save, HeadTree
<1>9. ProcInv'
  BY <1>8 DEF Save, ProcInv, TypeInv, Process, HasTarget, Applying, At
<1> QED BY <1>7, <1>9 DEF TypeInv

LEMMA RemoteMovesType ==
  ASSUME TypeInv, RemoteMoves
  PROVE  TypeInv'
<1> DEFINE c == << "there", count.moves + 1 >>
<1>1. PICK i \in 1 .. Len(remoteHead) : \E t \in Changes(TreeOf(Prefix(remoteHead, i)), c) :
        /\ remoteHead' = Append(Prefix(remoteHead, i), [tree |-> t, by |-> "there"])
        /\ saved' = saved \ ContentsOf(TreeOf(Prefix(remoteHead, i)) \ t)
  BY DEF RemoteMoves
<1> DEFINE M == Prefix(remoteHead, i)
<1>2. PICK t \in Changes(TreeOf(M), c) :
        /\ remoteHead' = Append(M, [tree |-> t, by |-> "there"])
        /\ saved' = saved \ ContentsOf(TreeOf(M) \ t)
  BY <1>1
<1>3. count.moves \in Nat /\ count.moves + 1 \in 0 .. MaxMoves
  BY BoundsAssumption DEF RemoteMoves, TypeInv, StoreInv
<1>4. c \in Edit /\ "there" \in Author
  BY <1>3 DEF Edit, Author
<1>5. M \in Manifest /\ GoodChain(M, stamp) /\ Good(TreeOf(M), stamp)
  BY PrefixIs, GoodPrefix DEF TypeInv, StoreInv
<1> HIDE DEF M, c
<1>6. Good(t, stamp)
  BY <1>4, <1>5, GoodChange DEF TypeInv, StoreInv
<1>7. remoteHead' \in Manifest /\ GoodChain(remoteHead', stamp)
  BY <1>2, <1>4, <1>5, <1>6, AppendIs, GoodAppend DEF TypeInv, StoreInv, Good
<1>8. count' \in [edits : 0 .. MaxEdits, moves : 0 .. MaxMoves,
                  pulls : 0 .. MaxPulls, kills : 0 .. MaxKills]
  BY <1>3 DEF RemoteMoves, TypeInv, StoreInv
<1>9. StoreInv'
  BY <1>2, <1>7, <1>8 DEF RemoteMoves, StoreInv, TypeInv
<1>10. HeadTree' = HeadTree /\ proc' = proc /\ stamp' = stamp
  BY DEF RemoteMoves, HeadTree
<1>11. ProcInv'
  BY <1>10 DEF ProcInv, TypeInv, HasTarget, Applying, At
<1> QED BY <1>9, <1>11 DEF TypeInv

\* A step of the cycle that leaves the folder and all histories alone.
LEMMA StoreSame ==
  ASSUME StoreInv, UNCHANGED << disk, head, remoteHead, stamp, saved, count >>
  PROVE  StoreInv' /\ HeadTree' = HeadTree
BY DEF StoreInv, HeadTree

LEMMA BeginType ==
  ASSUME TypeInv, NEW pull \in BOOLEAN, Start(pull), StoreInv'
  PROVE  ProcInv'
<1>1. proc' = [Idle EXCEPT !.pc = "scan", !.pull = pull, !.todo = NamesOf(disk)]
  BY DEF Start
<1>2. NamesOf(disk) \subseteq FileName
  BY FileType DEF NamesOf, TypeInv, StoreInv, Good
<1>3. proc' \in Process /\ proc'.snap = {} /\ proc'.target = NoManifest /\ proc'.pc = "scan"
  BY <1>1, <1>2, IdleIs DEF Process
<1>4. stamp' \in Nat
  BY DEF StoreInv
<1>5. Good(proc.snap, stamp)' /\ GoodChain(proc.target, stamp)'
  BY <1>3, <1>4, GoodNone DEF Good, GoodChain
<1>6. NamesOf(proc'.snap) = {}
  BY <1>3 DEF NamesOf
<1>7. (NamesOf(proc.snap) \cap proc.todo = {})'
  BY <1>6 DEF NamesOf
<1> QED BY <1>3, <1>5, <1>7 DEF ProcInv, HasTarget, Applying, At
\* What the snapshot reads of a name is the one content that is there.
LEMMA ScanSnap ==
  ASSUME TypeInv, At("scan"), NEW n \in proc.todo, Version(disk, n) # {},
         proc' = [proc EXCEPT !.snap = @ \cup ({n} \X Version(disk, n)), !.todo = @ \ {n}]
  PROVE  \E c \in Edit : /\ n \in FileName /\ << n, c >> \in disk
                         /\ Version(disk, n) = {c} /\ n \notin NamesOf(proc.snap)
                         /\ proc'.snap = proc.snap \cup {<< n, c >>}
                         /\ proc'.todo = proc.todo \ {n}
<1>1. PICK c \in Version(disk, n) : TRUE
  OBVIOUS
<1>2. disk \in Trees /\ OneEach(disk)
  BY DEF TypeInv, StoreInv, Good
<1>3. Version(disk, n) = {c} /\ n \in FileName /\ c \in Edit
  BY <1>2, VersionOne
<1>4. << n, c >> \in disk
  BY <1>2, <1>3, VersionIs
<1>5. {n} \X {c} = {<< n, c >>}
  OBVIOUS
<1>6. proc'.snap = proc.snap \cup {<< n, c >>} /\ proc'.todo = proc.todo \ {n}
  BY <1>3, <1>5 DEF TypeInv, ProcInv, Process
<1> QED BY <1>3, <1>4, <1>6 DEF TypeInv, ProcInv

LEMMA ScanType ==
  ASSUME TypeInv, NEW n \in proc.todo, Scan(n)
  PROVE  TypeInv'
<1>1. StoreInv' /\ HeadTree' = HeadTree /\ stamp' = stamp /\ stamp \in Nat
  BY StoreSame DEF Scan, TypeInv, StoreInv
<1>2. CASE Version(disk, n) = {}
  <2>1. proc' = Idle
    BY <1>2 DEF Scan
  <2> QED BY <1>1, <2>1, IdleType DEF TypeInv
<1>3. CASE Version(disk, n) # {}
  <2>1. proc' = [proc EXCEPT !.snap = @ \cup ({n} \X Version(disk, n)), !.todo = @ \ {n}]
    BY <1>3 DEF Scan
  <2>2. At("scan")
    BY DEF Scan
  <2>3. PICK c \in Edit : /\ n \in FileName /\ << n, c >> \in disk
                          /\ Version(disk, n) = {c} /\ n \notin NamesOf(proc.snap)
                          /\ proc'.snap = proc.snap \cup {<< n, c >>}
                          /\ proc'.todo = proc.todo \ {n}
    BY <1>3, <2>1, <2>2, ScanSnap
  <2>4. \A f \in proc.snap : f[1] # n
    BY <2>3 DEF NamesOf
  <2>5. << n, c >>[1] = n /\ << n, c >>[2] = c
    OBVIOUS
  <2>6. Good(proc'.snap, stamp)
    <3>1. /\ Len(n[2]) <= stamp
          /\ \A k \in 1 .. Len(n[2]) : n[2][k] < stamp
      BY <2>3, <2>5 DEF TypeInv, StoreInv, Good
    <3>2. Good(proc.snap, stamp)
      BY DEF TypeInv, ProcInv
    <3>3. proc'.snap \in Trees
      BY <2>3, <3>2 DEF Good, Trees
    <3>4. OneEach(proc'.snap)
      BY <2>3, <2>4, <2>5, <3>2 DEF Good, OneEach
    <3>5. ASSUME NEW f \in proc'.snap
          PROVE  /\ Len(f[1][2]) <= stamp
                 /\ \A k \in 1 .. Len(f[1][2]) : f[1][2][k] < stamp
      <4>1. CASE f \in proc.snap
        BY <3>2, <4>1 DEF Good
      <4>2. CASE f = << n, c >>
        <5>1. f[1] = n
          BY <4>2
        <5> QED BY <3>1, <5>1
      <4> QED BY <2>3, <4>1, <4>2
    <3> QED BY <3>3, <3>4, <3>5 DEF Good
  <2>7. NamesOf(proc'.snap) \cap proc'.todo = {}
    <3> SUFFICES ASSUME NEW f \in proc'.snap PROVE f[1] \notin proc'.todo
      BY DEF NamesOf
    <3>1. CASE f \in proc.snap
      BY <2>2, <2>3, <3>1 DEF TypeInv, ProcInv, NamesOf
    <3>2. CASE f = << n, c >>
      BY <2>3, <2>5, <3>2
    <3> QED BY <2>3, <3>1, <3>2
  <2>8. proc' \in Process /\ proc'.pc = "scan"
    <3>1. proc'.snap \in Trees /\ proc'.todo \subseteq FileName
      BY <2>3, <2>6 DEF Good, TypeInv, ProcInv, Process
    <3> QED BY <2>1, <2>2, <3>1 DEF TypeInv, ProcInv, Process, At
  <2>9. proc'.target = proc.target
    BY <2>1 DEF TypeInv, ProcInv, Process
  <2>10. Good(proc.snap, stamp)' /\ GoodChain(proc.target, stamp)'
    BY <1>1, <2>6, <2>9 DEF TypeInv, ProcInv, Good, GoodChain
  <2>11. (NamesOf(proc.snap) \cap proc.todo = {})'
    BY <2>7 DEF NamesOf
  <2>12. ProcInv'
    BY <2>8, <2>10, <2>11 DEF ProcInv, HasTarget, Applying, At
  <2> QED BY <1>1, <2>12 DEF TypeInv
<1> QED BY <1>2, <1>3

LEMMA EndScanType ==
  ASSUME TypeInv, EndScan
  PROVE  TypeInv'
<1>2. "here" \in Author
  BY DEF Author
<1>3. head' \in Manifest \cup {NoManifest} /\ GoodChain(head', stamp)
  <2>1. CASE proc.snap = HeadTree
    BY <2>1 DEF EndScan, TypeInv, StoreInv
  <2>2. CASE proc.snap # HeadTree
    <3>1. head' = Append(head, [tree |-> proc.snap, by |-> "here"])
      BY <2>2 DEF EndScan
    <3>2. Good(proc.snap, stamp)
      BY DEF TypeInv, ProcInv
    <3> QED BY <1>2, <3>1, <3>2, AppendIs, GoodAppend DEF TypeInv, StoreInv, Good
  <2> QED BY <2>1, <2>2
<1>4. StoreInv'
  BY <1>3 DEF EndScan, TypeInv, StoreInv
<1>5. proc' = [proc EXCEPT !.pc = "compare", !.snap = {}] /\ stamp' = stamp /\ stamp \in Nat
  BY DEF EndScan, Scanned, TypeInv, StoreInv
<1>6. proc' \in Process /\ proc'.snap = {} /\ proc'.target = proc.target /\ proc'.pc = "compare"
  BY <1>5 DEF TypeInv, ProcInv, Process, Trees
<1>7. Good(proc.snap, stamp)' /\ GoodChain(proc.target, stamp)'
  BY <1>5, <1>6, GoodNone DEF TypeInv, ProcInv, Good, GoodChain
<1>8. ProcInv'
  BY <1>6, <1>7 DEF ProcInv, HasTarget, Applying, At
<1> QED BY <1>4, <1>8 DEF TypeInv

LEMMA StartApplyType ==
  ASSUME TypeInv, At("compare"), stamp' \in Nat, Good(proc.snap, stamp'), HeadTree' = HeadTree,
         HeadTree \in Trees,
         NEW M \in Manifest, GoodChain(M, stamp'), NEW merged \in BOOLEAN, StartApply(M, merged)
  PROVE  ProcInv'
<1>1. TreeOf(M) \in Trees
  BY GoodTree DEF Good
<1>2. Differing(HeadTree, TreeOf(M)) \subseteq FileName
  BY <1>1, DifferingType
<1>3. /\ proc' \in Process /\ proc'.snap = proc.snap /\ proc'.target = M
      /\ proc'.todo = Differing(HeadTree, TreeOf(M)) /\ proc'.pc \in {"checkout", "apply"}
  BY <1>2 DEF StartApply, TypeInv, ProcInv, Process
<1>4. Good(proc.snap, stamp)' /\ GoodChain(proc.target, stamp)'
  BY <1>3 DEF Good, GoodChain
<1>5. M # NoManifest
  BY DEF Manifest
<1>6. (proc.todo \subseteq Differing(HeadTree, TreeOf(proc.target)))'
  BY <1>3 DEF Differing, NamesOf, Version, TreeOf
<1> QED BY <1>3, <1>4, <1>5, <1>6 DEF ProcInv, HasTarget, Applying, At
LEMMA ComparedType ==
  ASSUME TypeInv, UpToDate \/ Ahead \/ Behind
  PROVE  TypeInv'
<1>1. StoreInv' /\ HeadTree' = HeadTree /\ stamp' = stamp /\ stamp \in Nat
  BY StoreSame DEF UpToDate, Ahead, Behind, Compared, TypeInv, StoreInv
<1>2. CASE proc' = Idle
  BY <1>1, <1>2, IdleType DEF TypeInv
<1>3. CASE Ahead /\ proc' # Idle
  <2>1. proc' = [proc EXCEPT !.pc = "push", !.target = head]
    BY <1>3 DEF Ahead
  <2>2. head \in Manifest
    <3>1. \E i \in 1 .. Len(head) : TRUE
      BY <1>3 DEF Ahead, IsAncestor, Named
    <3>2. head # NoManifest
      <4>1. head \in Manifest \cup {NoManifest}
        BY DEF TypeInv, StoreInv
      <4> QED BY <3>1, <4>1, ChainIs
    <3> QED BY <3>2 DEF TypeInv, StoreInv
  <2>3. /\ proc' \in Process /\ proc'.snap = proc.snap /\ proc'.target = head
        /\ proc'.pc = "push"
    BY <2>1, <2>2 DEF TypeInv, ProcInv, Process
  <2>4. Good(proc.snap, stamp)' /\ GoodChain(proc.target, stamp)'
    BY <1>1, <2>3 DEF TypeInv, StoreInv, ProcInv, Good, GoodChain
  <2>5. head # NoManifest
    BY <2>2 DEF Manifest
  <2>6. ProcInv'
    BY <2>3, <2>4, <2>5 DEF ProcInv, HasTarget, Applying, At
  <2> QED BY <1>1, <2>6 DEF TypeInv
<1>4. CASE Behind
  <2>1. Good(HeadTree, stamp)
    BY HeadTreeGood DEF TypeInv
  <2>2. ProcInv'
    BY <1>1, <1>4, <2>1, StartApplyType DEF Behind, TypeInv, StoreInv, ProcInv, Good
  <2> QED BY <1>1, <2>2 DEF TypeInv
<1> QED BY <1>2, <1>3, <1>4 DEF UpToDate

\* The merge that Diverged makes, of the longest common ancestor.
LEMMA DivergedMerge ==
  ASSUME TypeInv, Diverged, proc' # Idle
  PROVE  \E i \in CommonAncestors(head, remoteHead, Known) :
           /\ head \in Manifest /\ i \in 1 .. Len(remoteHead)
           /\ \A k \in CommonAncestors(head, remoteHead, Known) : k <= i
           /\ disk = HeadTree
           /\ stamp' = stamp + 1
           /\ StartApply(Append(remoteHead,
                [tree |-> AutoMerge(TreeOf(Prefix(remoteHead, i)), TreeOf(remoteHead),
                                    HeadTree, stamp),
                 by |-> "here"]), TRUE)
<1>1. head \in Manifest
  BY DEF Diverged, TypeInv, StoreInv
<1>2. disk = HeadTree /\ Related
  BY DEF Diverged
<1>3. CommonAncestors(head, remoteHead, Known) \subseteq 1 .. Len(remoteHead)
  BY DEF CommonAncestors, Named
<1> QED BY <1>1, <1>2, <1>3 DEF Diverged

LEMMA DivergedType ==
  ASSUME TypeInv, Diverged
  PROVE  TypeInv'
<1>1. stamp \in Nat /\ stamp' \in {stamp, stamp + 1}
  BY DEF Diverged, TypeInv, StoreInv
<1>2. /\ Good(disk, stamp') /\ Good(proc.snap, stamp') /\ GoodChain(head, stamp')
      /\ GoodChain(remoteHead, stamp') /\ stamp' \in Nat
  BY <1>1, GoodLater, GoodChainLater DEF TypeInv, StoreInv, ProcInv
<1>3. UNCHANGED << disk, head, remoteHead, saved, count >> /\ HeadTree' = HeadTree
  BY DEF Diverged, Compared, HeadTree
<1>4. StoreInv'
  <2>1. Good(disk, stamp)' /\ GoodChain(head, stamp)' /\ GoodChain(remoteHead, stamp)'
    BY <1>2, <1>3 DEF Good, GoodChain
  <2> QED BY <1>2, <1>3, <2>1 DEF TypeInv, StoreInv
<1>5. CASE proc' = Idle
  BY <1>2, <1>4, <1>5, IdleType DEF TypeInv
<1>6. CASE proc' # Idle
  <2>1. PICK i \in CommonAncestors(head, remoteHead, Known) :
           /\ head \in Manifest /\ i \in 1 .. Len(remoteHead)
           /\ \A k \in CommonAncestors(head, remoteHead, Known) : k <= i
           /\ disk = HeadTree
           /\ stamp' = stamp + 1
           /\ StartApply(Append(remoteHead,
                [tree |-> AutoMerge(TreeOf(Prefix(remoteHead, i)), TreeOf(remoteHead),
                                    HeadTree, stamp),
                 by |-> "here"]), TRUE)
    BY <1>6, DivergedMerge
  <2> DEFINE a == TreeOf(Prefix(remoteHead, i))
             r == TreeOf(remoteHead)
             T == AutoMerge(a, r, HeadTree, stamp)
             M == Append(remoteHead, [tree |-> T, by |-> "here"])
  <2>2. a \in Trees /\ Good(r, stamp) /\ Good(HeadTree, stamp)
    BY <2>1, GoodPrefix, GoodTree, HeadTreeGood DEF TypeInv, StoreInv, Good
  <2> HIDE DEF a, r
  <2>3. Good(T, stamp')
    BY <1>1, <2>1, <2>2, MergeIsTree
  <2>4. "here" \in Author
    BY DEF Author
  <2> HIDE DEF T
  <2>5. M \in Manifest /\ GoodChain(M, stamp')
    BY <1>2, <2>3, <2>4, AppendIs, GoodAppend DEF Good, TypeInv, StoreInv
  <2>6. StartApply(M, TRUE)
    BY <2>1 DEF M, T, a, r
  <2> HIDE DEF M
  <2>7. At("compare") /\ HeadTree \in Trees
    BY <2>2 DEF Diverged, Good
  <2>8. ProcInv'
    BY <1>2, <1>3, <2>5, <2>6, <2>7, StartApplyType
  <2> QED BY <1>4, <2>8 DEF TypeInv
<1> QED BY <1>5, <1>6

LEMMA LookType ==
  ASSUME TypeInv, Look \/ (\E n \in proc.todo : Check(n) \/ Stop(n))
  PROVE  TypeInv'
<1>1. StoreInv' /\ HeadTree' = HeadTree /\ stamp' = stamp /\ stamp \in Nat
  BY StoreSame DEF Look, Check, Stop, TypeInv, StoreInv
<1>2. CASE proc' = Idle
  BY <1>1, <1>2, IdleType DEF TypeInv
<1>3. CASE Look /\ proc' # Idle
  <2>1. At("checkout") /\ proc' = [proc EXCEPT !.pc = "replace"]
    BY <1>3 DEF Look, Goto
  <2>2. ProcInv'
    BY <1>1, <2>1 DEF TypeInv, ProcInv, Process, HasTarget, Applying, At
  <2> QED BY <1>1, <2>2 DEF TypeInv
<1>4. CASE \E n \in proc.todo : Check(n)
  <2>1. PICK n \in proc.todo : Check(n)
    BY <1>4
  <2>2. At("apply") /\ proc' = [proc EXCEPT !.pc = "unlink", !.path = n]
    BY <2>1 DEF Check
  <2>3. ProcInv'
    BY <1>1, <2>2 DEF TypeInv, ProcInv, Process, HasTarget, Applying, At
  <2> QED BY <1>1, <2>3 DEF TypeInv
<1>5. \A n \in proc.todo : Stop(n) => proc' = Idle
  BY DEF Stop
<1> QED BY <1>2, <1>3, <1>4, <1>5

\* What a path of the target has is a file.
LEMMA WantType ==
  ASSUME TypeInv, HasTarget, NEW n, NEW c \in Want(n)
  PROVE  n \in FileName /\ c \in Edit /\ Good({<< n, c >>}, stamp) /\ Want(n) = {c}
<1>1. Good(TreeOf(proc.target), stamp)
  BY GoodTree DEF TypeInv, StoreInv, ProcInv, Process
<1>2. << n, c >> \in TreeOf(proc.target)
  BY <1>1, VersionIs DEF Want, Good
<1>3. Good({<< n, c >>}, stamp)
  BY <1>1, <1>2, GoodSubset DEF TypeInv, StoreInv
<1> QED BY <1>1, <1>3, VersionOne DEF Want, Good

LEMMA GoodPut ==
  ASSUME NEW s \in Nat, NEW t, Good(t, s), NEW n \in FileName, NEW c \in Edit,
         Good({<< n, c >>}, s)
  PROVE  Good(Put(t, n, c), s)
<1>1. Put(t, n, c) \in Trees /\ OneEach(Put(t, n, c)) /\ Put(t, n, c) \subseteq t \cup {<< n, c >>}
  BY PutType DEF Good
<1>2. \A f \in t \cup {<< n, c >>} : /\ Len(f[1][2]) <= s
                                    /\ \A k \in 1 .. Len(f[1][2]) : f[1][2][k] < s
  BY DEF Good
<1> QED BY <1>1, <1>2 DEF Good

LEMMA GoodDrop ==
  ASSUME NEW s \in Nat, NEW t, Good(t, s), NEW n
  PROVE  Good(Drop(t, n), s)
BY GoodSubset DEF Drop

LEMMA ReplaceDisk ==
  ASSUME TypeInv, Unlink \/ Place \/ (\E n \in proc.todo : Replace(n))
  PROVE  StoreInv' /\ HeadTree' = HeadTree /\ stamp' = stamp
<1>1. /\ UNCHANGED << head, remoteHead, stamp, saved, count >> /\ HeadTree' = HeadTree
      /\ HasTarget
  BY DEF Unlink, Place, Replace, HeadTree, HasTarget, Applying, At
<1>2. Good(disk', stamp)
  <2>1. Good(disk, stamp) /\ stamp \in Nat
    BY DEF TypeInv, StoreInv
  <2>2. CASE Unlink
    BY <2>1, <2>2, GoodDrop DEF Unlink
  <2>3. CASE Place
    <3>1. PICK c \in Want(proc.path) : disk' = Put(disk, proc.path, c)
      BY <2>3 DEF Place
    <3> QED BY <1>1, <2>1, <3>1, WantType, GoodPut
  <2>4. CASE \E n \in proc.todo : Replace(n)
    <3>1. PICK n \in proc.todo : Replace(n)
      BY <2>4
    <3>2. CASE Want(n) = {}
      BY <2>1, <3>1, <3>2, GoodDrop DEF Replace
    <3>3. CASE Want(n) # {}
      <4> DEFINE c == CHOOSE d \in Want(n) : TRUE
      <4>1. c \in Want(n)
        BY <3>3
      <4>2. disk' = Put(disk, n, c)
        BY <3>1, <3>3 DEF Replace
      <4> HIDE DEF c
      <4> QED BY <1>1, <2>1, <4>1, <4>2, WantType, GoodPut
    <3> QED BY <3>2, <3>3
  <2> QED BY <2>2, <2>3, <2>4
<1>3. Good(disk, stamp)' /\ GoodChain(head, stamp)' /\ GoodChain(remoteHead, stamp)'
  BY <1>1, <1>2 DEF Good, GoodChain, TypeInv, StoreInv
<1> QED BY <1>1, <1>3 DEF TypeInv, StoreInv

LEMMA ReplaceType ==
  ASSUME TypeInv, Unlink \/ Place \/ (\E n \in proc.todo : Replace(n))
  PROVE  TypeInv'
<1>1. StoreInv' /\ HeadTree' = HeadTree /\ stamp' = stamp
  BY ReplaceDisk
<1>2. CASE Unlink \/ Place
  <2>1. \/ proc' = [proc EXCEPT !.pc = "apply", !.todo = @ \ {proc.path}, !.path = NoName]
        \/ At("unlink") /\ proc' = [proc EXCEPT !.pc = "place"]
    BY <1>2 DEF Unlink, Place, Done, Goto
  <2>2. Applying
    BY <1>2 DEF Unlink, Place, Applying, At
  <2>3. /\ proc' \in Process /\ proc'.snap = proc.snap /\ proc'.target = proc.target
        /\ proc'.todo \subseteq proc.todo
        /\ proc'.pc = "apply" \/ (proc'.pc = "place" /\ proc'.path \in proc'.todo)
    <3>1. NoName \in FileName \cup {NoName}
      OBVIOUS
    <3>2. CASE At("unlink") /\ proc' = [proc EXCEPT !.pc = "place"]
      BY <3>2 DEF TypeInv, ProcInv, Process, At
    <3>3. CASE proc' = [proc EXCEPT !.pc = "apply", !.todo = @ \ {proc.path}, !.path = NoName]
      BY <3>1, <3>3 DEF TypeInv, ProcInv, Process
    <3> QED BY <2>1, <3>2, <3>3
  <2>4. ProcInv'
    BY <1>1, <2>2, <2>3 DEF TypeInv, ProcInv, HasTarget, Applying, At, Good, GoodChain
  <2> QED BY <1>1, <2>4 DEF TypeInv
<1>3. CASE \E n \in proc.todo : Replace(n)
  <2>1. PICK n \in proc.todo : Replace(n)
    BY <1>3
  <2>2. At("replace") /\ proc' = [proc EXCEPT !.todo = @ \ {n}]
    BY <2>1 DEF Replace
  <2>3. ProcInv'
    BY <1>1, <2>2 DEF TypeInv, ProcInv, Process, HasTarget, Applying, At
  <2> QED BY <1>1, <2>3 DEF TypeInv
<1> QED BY <1>2, <1>3

LEMMA EndApplyType ==
  ASSUME TypeInv, EndApply \/ Push
  PROVE  TypeInv'
<1>1. HasTarget /\ stamp' = stamp
  BY DEF EndApply, Push, Applied, HasTarget, Applying, At
<1>2. proc.target \in Manifest /\ GoodChain(proc.target, stamp) /\ stamp \in Nat
  BY <1>1 DEF TypeInv, StoreInv, ProcInv, Process
<1>3. StoreInv'
  BY <1>2 DEF EndApply, Push, TypeInv, StoreInv
<1>4. CASE proc' = Idle
  BY <1>1, <1>2, <1>3, <1>4, IdleType DEF TypeInv
<1>5. CASE proc' # Idle
  <2>1. proc' = [proc EXCEPT !.pc = "push"]
    BY <1>5 DEF EndApply, Push, Applied, Goto
  <2>2. ProcInv'
    BY <1>1, <2>1 DEF TypeInv, ProcInv, Process, HasTarget, Applying, At
  <2> QED BY <1>3, <2>2 DEF TypeInv
<1> QED BY <1>4, <1>5

LEMMA NextType ==
  ASSUME TypeInv, [Next]_vars
  PROVE  TypeInv'
<1>1. CASE Save BY <1>1, SaveType
<1>2. CASE RemoteMoves BY <1>2, RemoteMovesType
<1>3. CASE Begin
  <2>1. StoreInv'
    BY <1>3, StoreSame DEF Begin, TypeInv
  <2> QED BY <1>3, <2>1, BeginType DEF Begin, TypeInv
<1>4. CASE BeginPull
  <2>1. count.pulls + 1 \in 0 .. MaxPulls
    BY <1>4, BoundsAssumption DEF BeginPull, TypeInv, StoreInv
  <2>2. StoreInv'
    BY <1>4, <2>1 DEF BeginPull, TypeInv, StoreInv
  <2> QED BY <1>4, <2>2, BeginType DEF BeginPull, TypeInv
<1>5. CASE Snapshot BY <1>5, ScanType, EndScanType DEF Snapshot
<1>6. CASE UpToDate \/ Ahead \/ Behind BY <1>6, ComparedType
<1>7. CASE Diverged BY <1>7, DivergedType
<1>8. CASE Apply BY <1>8, LookType, ReplaceType, EndApplyType DEF Apply
<1>9. CASE Checkout BY <1>9, LookType, ReplaceType DEF Checkout
<1>10. CASE Push BY <1>10, EndApplyType
<1>11. CASE Abort
  <2>1. count.kills + 1 \in 0 .. MaxKills
    BY <1>11, BoundsAssumption DEF Abort, TypeInv, StoreInv
  <2>2. StoreInv'
    BY <1>11, <2>1 DEF Abort, TypeInv, StoreInv
  <2> QED BY <1>11, <2>2, IdleType DEF Abort, TypeInv, StoreInv
<1>12. CASE UNCHANGED vars
  BY <1>12 DEF vars, TypeInv, StoreInv, ProcInv, HasTarget, Applying, At, Good, GoodChain,
     HeadTree, Differing
<1> QED BY <1>1, <1>2, <1>3, <1>4, <1>5, <1>6, <1>7, <1>8, <1>9, <1>10, <1>11, <1>12 DEF Next, Cycle

\* No name ever has two files, in the folder or in any snapshot, and HEAD and the
\* bucket's HEAD are histories of such snapshots: conflict copies get names of their
\* own, however many merges there are, and a snapshot never reads a name twice.
THEOREM FolderTypes == Spec => []TypeOK
<1>1. TypeInv /\ [Next]_vars => TypeInv'
  BY NextType
<1> QED BY <1>1, InitType, TypeInvImplies, PTL DEF Spec
-----------------------------------------------------------------------------
(***************************************************************************)
(* An undisturbed cycle never stops.                                       *)
(***************************************************************************)

LEMMA PutIs ==
  ASSUME NoDirectories, NEW t, NEW n, NEW c
  PROVE  Put(t, n, c) = Drop(t, n) \cup {<< n, c >>}
<1>1. \A p, q : ~ Below(p, q)
  BY DEF Below, NoDirectories
<1> QED BY <1>1 DEF Put, Drop

LEMMA FlatPut ==
  ASSUME NoDirectories, NEW t \in Trees, NEW n, NEW c, NEW m
  PROVE  Version(Put(t, n, c), m) = IF m = n THEN {c} ELSE Version(t, m)
<1>2. Put(t, n, c) = Drop(t, n) \cup {<< n, c >>}
  BY PutIs
<1>3. << n, c >>[1] = n /\ << n, c >>[2] = c
  OBVIOUS
<1> DEFINE u == Put(t, n, c)
<1>4. \A f : f \in u <=> (f \in t /\ f[1] # n) \/ f = << n, c >>
  BY <1>2 DEF Drop
<1> HIDE DEF u
<1>5. CASE m = n
  <2>1. {g \in u : g[1] = m} = {<< n, c >>}
    BY <1>3, <1>4, <1>5
  <2>2. {f[2] : f \in {<< n, c >>}} = {c}
    BY <1>3
  <2> QED BY <1>2, <1>5, <2>1, <2>2 DEF Version, u
<1>6. CASE m # n
  <2>1. {g \in u : g[1] = m} = {g \in t : g[1] = m}
    BY <1>3, <1>4, <1>6
  <2> QED BY <1>2, <1>6, <2>1 DEF Version, u
<1> QED BY <1>5, <1>6

LEMMA DropVersion ==
  ASSUME NEW t, NEW n, NEW m
  PROVE  Version(Drop(t, n), m) = IF m = n THEN {} ELSE Version(t, m)
BY DEF Version, Drop

LEMMA SameVersions ==
  ASSUME NEW t \in Trees, NEW u \in Trees, \A n \in FileName : Version(t, n) = Version(u, n)
  PROVE  t = u
<1>1. \A f : f \in t => f = << f[1], f[2] >> /\ f[1] \in FileName
  BY FileType
<1>2. \A f : f \in u => f = << f[1], f[2] >> /\ f[1] \in FileName
  BY FileType
<1>3. \A f : f \in t => f \in u
  BY <1>1, VersionIs
<1>4. \A f : f \in u => f \in t
  BY <1>2, VersionIs
<1> QED BY <1>3, <1>4

LEMMA NoVersion ==
  ASSUME NEW t, NEW n, n \notin NamesOf(t)
  PROVE  Version(t, n) = {}
BY DEF Version, NamesOf

LEMMA TreeTypes ==
  ASSUME TypeInv
  PROVE  /\ disk \in Trees /\ HeadTree \in Trees /\ proc.snap \in Trees /\ proc \in Process
         /\ OneEach(disk) /\ OneEach(HeadTree) /\ OneEach(proc.snap)
         /\ HasTarget => TreeOf(proc.target) \in Trees /\ OneEach(TreeOf(proc.target))
BY HeadTreeGood, GoodTree DEF TypeInv, StoreInv, ProcInv, Process, Good

LEMMA NextRest ==
  ASSUME NoDirectories, TypeInv, RestInv, [Next]_vars
  PROVE  RestInv'
<1> USE DEF At
<1> SUFFICES ASSUME ~ proc'.edited
             PROVE  /\ proc'.pc = "scan" =>
                         \A n \in FileName \ proc'.todo : Version(proc'.snap, n) = Version(disk', n)
                    /\ proc'.pc = "compare" \/ proc'.pc = "checkout" => disk' = HeadTree'
                    /\ proc'.pc = "apply" =>
                         \A n \in proc'.todo : Version(disk', n) = Version(HeadTree', n)
                    /\ proc'.pc = "unlink" \/ proc'.pc = "place" =>
                         \A n \in proc'.todo \ {proc'.path} :
                           Version(disk', n) = Version(HeadTree', n)
  BY DEF RestInv, Was, Version
<1>a. TypeInv'
  BY NextType
<1>b. /\ proc \in Process /\ disk \in Trees /\ HeadTree \in Trees /\ proc.snap \in Trees
  BY TreeTypes
<1>1. CASE proc'.pc \in {"idle", "push", "replace"}
  BY <1>1
<1>2. CASE Save
  <2>1. proc' = [proc EXCEPT !.edited = ~ At("idle")]
    BY <1>2 DEF Save
  <2>2. proc'.pc = "idle"
    BY <2>1, <1>b DEF Process
  <2> QED BY <2>2
<1>3. CASE RemoteMoves \/ UNCHANGED vars
  <2>1. proc' = proc /\ disk' = disk /\ HeadTree' = HeadTree
    BY <1>3 DEF RemoteMoves, vars, HeadTree
  <2> QED BY <2>1 DEF RestInv, Was
<1>4. CASE Begin \/ BeginPull
  <2>1. PICK pull \in BOOLEAN :
          proc' = [Idle EXCEPT !.pc = "scan", !.pull = pull, !.todo = NamesOf(disk)]
    BY <1>4 DEF Begin, BeginPull, Start
  <2>2. proc'.pc = "scan" /\ proc'.snap = {} /\ proc'.todo = NamesOf(disk) /\ disk' = disk
    BY <1>4, <2>1, IdleIs DEF Begin, BeginPull, Process
  <2>3. \A n : Version({}, n) = {}
    BY DEF Version
  <2> QED BY <2>2, <2>3, NoVersion
<1>5. CASE \E n \in proc.todo : Scan(n)
  <2>1. PICK n \in proc.todo : Scan(n)
    BY <1>5
  <2>2. disk' = disk /\ At("scan")
    BY <2>1 DEF Scan
  <2>3. CASE Version(disk, n) = {}
    BY <2>1, <2>3, IdleIs DEF Scan
  <2>4. CASE Version(disk, n) # {}
    <3>1. proc' = [proc EXCEPT !.snap = @ \cup ({n} \X Version(disk, n)), !.todo = @ \ {n}]
      BY <2>1, <2>4 DEF Scan
    <3>2. PICK c \in Edit : /\ n \in FileName /\ << n, c >> \in disk
                            /\ Version(disk, n) = {c} /\ n \notin NamesOf(proc.snap)
                            /\ proc'.snap = proc.snap \cup {<< n, c >>}
                            /\ proc'.todo = proc.todo \ {n}
      BY <2>2, <2>4, <3>1, ScanSnap
    <3>3. proc'.pc = "scan" /\ ~ proc.edited
      BY <2>2, <3>1, <1>b DEF Process
    <3>4. \A f \in proc.snap : f[1] # n
      BY <3>2 DEF NamesOf
    <3>5. proc'.snap = Put(proc.snap, n, c)
      BY <3>2, <3>4, PutIs DEF Drop
    <3>6. ASSUME NEW m \in FileName \ proc'.todo
          PROVE  Version(proc'.snap, m) = Version(disk, m)
      <4>1. CASE m = n
        <5>1. Version(Put(proc.snap, n, c), n) = {c}
          BY <1>b, FlatPut
        <5> QED BY <4>1, <3>2, <3>5, <5>1
      <4>2. CASE m # n
        <5>1. Version(proc'.snap, m) = Version(proc.snap, m)
          BY <4>2, <3>5, <1>b, FlatPut
        <5>2. m \in FileName \ proc.todo
          BY <4>2, <3>2
        <5> QED BY <2>2, <3>3, <5>1, <5>2 DEF RestInv
      <4> QED BY <4>1, <4>2
    <3> QED BY <2>2, <3>3, <3>6
  <2> QED BY <2>3, <2>4
<1>6. CASE EndScan
  <2>1. At("scan") /\ proc.todo = {} /\ disk' = disk
        /\ proc' = [proc EXCEPT !.pc = "compare", !.snap = {}]
    BY <1>6 DEF EndScan, Scanned
  <2>2. ~ proc.edited /\ proc'.pc = "compare"
    BY <2>1, <1>b DEF Process
  <2>3. proc.snap = disk
    BY <2>1, <2>2, <1>b, SameVersions DEF RestInv
  <2>4. HeadTree' = proc.snap
    <3>1. CASE proc.snap = HeadTree
      BY <1>6, <3>1 DEF EndScan, HeadTree
    <3>2. CASE proc.snap # HeadTree
      <4>1. head' = Append(head, [tree |-> proc.snap, by |-> "here"])
        BY <1>6, <3>2 DEF EndScan
      <4>2. "here" \in Author
        BY DEF Author
      <4>3. head' \in Manifest /\ TreeOf(head') = proc.snap
        BY <4>1, <4>2, <1>b, AppendIs DEF TypeInv, StoreInv
      <4> QED BY <4>3 DEF HeadTree, Manifest
    <3> QED BY <3>1, <3>2
  <2> QED BY <2>1, <2>2, <2>3, <2>4
<1>7. CASE (UpToDate \/ Ahead \/ Behind \/ Diverged) /\ proc'.pc \in {"apply", "checkout"}
  <2>1. UNCHANGED << disk, head >> /\ HeadTree' = HeadTree /\ At("compare")
    BY <1>7 DEF UpToDate, Ahead, Behind, Diverged, Compared, HeadTree
  <2>2. \E M, merged : StartApply(M, merged)
    BY <1>7, <1>b, IdleIs DEF UpToDate, Ahead, Behind, Diverged, Process
  <2>3. PICK M, merged : StartApply(M, merged)
    BY <2>2
  <2>4. ~ proc.edited
    BY <2>3, <1>b DEF StartApply, Process
  <2>5. disk = HeadTree
    BY <2>1, <2>4 DEF RestInv
  <2> QED BY <1>7, <2>1, <2>5
<1>8. CASE UpToDate \/ Ahead \/ Behind \/ Diverged
  <2>1. proc' = Idle \/ proc' = [proc EXCEPT !.pc = "push", !.target = head]
        \/ \E M, merged : StartApply(M, merged)
    BY <1>8 DEF UpToDate, Ahead, Behind, Diverged
  <2>2. proc'.pc \in {"idle", "push", "apply", "checkout"}
    BY <2>1, <1>b, IdleIs DEF StartApply, Process
  <2> QED BY <1>1, <1>7, <1>8, <2>2
<1>9. CASE \E n \in proc.todo : Check(n) \/ Stop(n)
  <2>1. PICK n \in proc.todo : Check(n) \/ Stop(n)
    BY <1>9
  <2>2. /\ disk' = disk /\ HeadTree' = HeadTree /\ At("apply")
        /\ proc' = Idle \/ proc' = [proc EXCEPT !.pc = "unlink", !.path = n]
    BY <2>1 DEF Check, Stop, HeadTree
  <2>3. CASE proc' = Idle
    BY <2>3, IdleIs
  <2>4. CASE proc' = [proc EXCEPT !.pc = "unlink", !.path = n]
    <3>1. /\ proc'.pc = "unlink" /\ proc'.path = n /\ proc'.todo = proc.todo /\ ~ proc.edited
      BY <2>4, <1>b DEF Process
    <3> QED BY <2>2, <3>1 DEF RestInv, Was
  <2> QED BY <2>2, <2>3, <2>4
<1>10. CASE Unlink \/ Place
  <2>1. /\ HeadTree' = HeadTree
        /\ At("unlink") \/ At("place")
        /\ \/ proc' = [proc EXCEPT !.pc = "apply", !.todo = @ \ {proc.path}, !.path = NoName]
           \/ At("unlink") /\ proc' = [proc EXCEPT !.pc = "place"]
    BY <1>10, ReplaceDisk DEF Unlink, Place, Done, Goto
  <2>2. \/ disk' = Drop(disk, proc.path)
        \/ \E c : disk' = Put(disk, proc.path, c)
    BY <1>10 DEF Unlink, Place
  <2>3. \A m : m # proc.path => Version(disk', m) = Version(disk, m)
    BY <2>2, <1>b, DropVersion, FlatPut
  <2>4. ~ proc.edited
    BY <2>1, <1>b DEF Process
  <2>5. \A m \in proc.todo \ {proc.path} : Version(disk, m) = Version(HeadTree, m)
    BY <2>1, <2>4 DEF RestInv, Was
  <2>6. \/ proc'.pc = "apply" /\ proc'.todo = proc.todo \ {proc.path}
        \/ proc'.pc = "place" /\ proc'.todo = proc.todo /\ proc'.path = proc.path
    BY <2>1, <1>b DEF Process
  <2>7. \A m \in proc.todo \ {proc.path} : Version(disk', m) = Version(HeadTree', m)
    BY <2>1, <2>3, <2>5
  <2> QED BY <2>6, <2>7
<1>11. CASE EndApply \/ Push \/ Abort
  <2>1. proc' = Idle \/ proc' = [proc EXCEPT !.pc = "push"]
    BY <1>11 DEF EndApply, Push, Abort, Applied, Goto
  <2>2. proc'.pc \in {"idle", "push"}
    BY <2>1, <1>b, IdleIs DEF Process
  <2> QED BY <1>1, <2>2
<1>12. CASE Checkout
  <2>1. At("checkout") \/ At("replace")
    BY <1>12 DEF Checkout, Look, Replace
  <2>2. \/ proc' = Idle \/ proc' = [proc EXCEPT !.pc = "replace"]
        \/ At("replace") /\ \E n : proc' = [proc EXCEPT !.todo = @ \ {n}]
    BY <1>12 DEF Checkout, Look, Replace, Goto
  <2>3. proc'.pc \in {"idle", "replace"}
    BY <2>2, <1>b, IdleIs DEF Process
  <2> QED BY <1>1, <2>3
<1> QED BY <1>2, <1>3, <1>4, <1>5, <1>6, <1>8, <1>9, <1>10, <1>11, <1>12
        DEF Next, Cycle, Snapshot, Apply

\* Unless a path is a file here and a directory there, nothing makes an apply stop
\* halfway but a change of the user's during that cycle.
THEOREM StopsForEdits == ASSUME NoDirectories PROVE Spec => StopsOnlyForEdits
<1>1. Init => RestInv
  BY IdleIs DEF Init, RestInv, At
<1>2. TypeInv /\ RestInv /\ [Next]_vars => TypeInv' /\ RestInv'
  BY NextType, NextRest
<1>3. TypeInv /\ RestInv /\ [Next]_vars =>
        [proc.pc = "apply" /\ proc.todo # {} /\ proc'.pc = "idle" /\ count' = count
           => proc.edited]_vars
  <2> SUFFICES ASSUME TypeInv, RestInv, Next, proc.pc = "apply", proc.todo # {},
                      proc'.pc = "idle", count' = count, ~ proc.edited
               PROVE  FALSE
    BY Zenon
  <2>1. proc \in Process
    BY TreeTypes
  <2>2. ~ Save /\ ~ BeginPull /\ ~ Abort
    <3>1. count \in [edits : Nat, moves : Nat, pulls : Nat, kills : Nat]
      BY BoundsAssumption DEF TypeInv, StoreInv
    <3>2. Save => count'.edits = count.edits + 1
      BY <3>1 DEF Save
    <3>3. BeginPull => count'.pulls = count.pulls + 1
      BY <3>1 DEF BeginPull
    <3>4. Abort => count'.kills = count.kills + 1
      BY <3>1 DEF Abort
    <3>5. count.edits \in Nat /\ count.pulls \in Nat /\ count.kills \in Nat
      BY <3>1
    <3> QED BY <3>2, <3>3, <3>4, <3>5
  <2>3. ~ RemoteMoves /\ ~ Begin /\ ~ Snapshot /\ ~ UpToDate /\ ~ Ahead /\ ~ Behind /\ ~ Diverged
        /\ ~ Checkout /\ ~ Push /\ ~ Unlink /\ ~ Place /\ ~ EndApply
    BY DEF RemoteMoves, Begin, Snapshot, Scan, EndScan, Scanned, UpToDate, Ahead, Behind, Diverged,
           Checkout, Look, Replace, Push, Unlink, Place, EndApply, Applied, At
  <2>4. PICK n \in proc.todo : Check(n) \/ Stop(n)
    BY <2>2, <2>3 DEF Next, Cycle, Apply
  <2>5. ~ Check(n)
    BY <2>1 DEF Check, Process
  <2>6. ~ Matches(n)
    BY <2>4, <2>5 DEF Stop
  <2>7. Version(disk, n) = Was(n)
    BY DEF RestInv, At
  <2> QED BY <2>6, <2>7 DEF Matches, Below, NoDirectories
<1> QED BY <1>1, <1>2, <1>3, InitType, PTL DEF Spec, StopsOnlyForEdits
-----------------------------------------------------------------------------
(***************************************************************************)
(* What is carried from one tree to another.                               *)
(***************************************************************************)

LEMMA LaterTransitive ==
  ASSUME NEW m \in FileName, NEW n \in FileName, NEW o \in FileName, Later(m, n), Later(n, o)
  PROVE  Later(m, o)
<1>1. Len(m[2]) \in Nat /\ Len(n[2]) \in Nat /\ Len(o[2]) \in Nat
  BY NameType
<1> QED BY <1>1 DEF Later

LEMMA CarriedSelf ==
  ASSUME NEW t, NEW S
  PROVE  Carried(t, t, S)
BY DEF Carried, Later

LEMMA CarriedOn ==
  ASSUME NEW t \in Trees, NEW u \in Trees, NEW v \in Trees, NEW S,
         Carried(t, u, S), Carried(u, v, S)
  PROVE  Carried(t, v, S)
<1> SUFFICES ASSUME NEW f \in t, f[2] \in S
             PROVE  \E h \in v : h[2] = f[2] /\ Later(h[1], f[1])
  BY DEF Carried
<1>1. PICK g \in u : g[2] = f[2] /\ Later(g[1], f[1])
  BY DEF Carried
<1>2. PICK h \in v : h[2] = g[2] /\ Later(h[1], g[1])
  BY <1>1 DEF Carried
<1>3. f[1] \in FileName /\ g[1] \in FileName /\ h[1] \in FileName
  BY FileType
<1> QED BY <1>1, <1>2, <1>3, LaterTransitive

LEMMA KeptCarried ==
  ASSUME NEW t, NEW u, NEW S, Kept(t, u, S)
  PROVE  Carried(t, u, S)
BY DEF Kept, Carried, Later

\* Contents that matter no more, or that t does not have, change nothing.
LEMMA CarriedFewer ==
  ASSUME NEW t, NEW u, NEW S, NEW R, Carried(t, u, S), \A f \in t : f[2] \in R => f[2] \in S
  PROVE  Carried(t, u, R)
BY DEF Carried

LEMMA CarriesFewer ==
  ASSUME NEW M \in Manifest \cup {NoManifest}, NEW S, NEW R, Carries(M, S),
         \A i \in 1 .. Len(M) : \A f \in M[i].tree : f[2] \in R => f[2] \in S
  PROVE  Carries(M, R)
<1> SUFFICES ASSUME NEW j \in 1 .. Len(M), NEW i \in 1 .. j
             PROVE  Carried(M[i].tree, M[j].tree, R)
  BY DEF Carries
<1>1. Carried(M[i].tree, M[j].tree, S)
  BY DEF Carries
<1>2. i \in 1 .. Len(M)
  BY ChainIs
<1> QED BY <1>1, <1>2, CarriedFewer

LEMMA CarriesNone ==
  ASSUME NEW S
  PROVE  Carries(NoManifest, S)
<1>1. 1 .. Len(NoManifest) = {}
  BY DEF NoManifest
<1> QED BY <1>1 DEF Carries

LEMMA CarriesPrefix ==
  ASSUME NEW M \in Manifest, NEW i \in 1 .. Len(M), NEW S, Carries(M, S)
  PROVE  /\ Carries(Prefix(M, i), S)
         /\ Carried(TreeOf(Prefix(M, i)), TreeOf(M), S)
<1>1. /\ Len(Prefix(M, i)) = i /\ \A j \in 1 .. i : Prefix(M, i)[j] = M[j]
      /\ TreeOf(Prefix(M, i)) = M[i].tree
  BY PrefixIs
<1>2. Len(M) \in 1 .. Len(M) /\ i \in 1 .. Len(M) /\ \A j \in 1 .. i : j \in 1 .. Len(M)
  BY ChainIs
<1>3. Carries(Prefix(M, i), S)
  <2> SUFFICES ASSUME NEW j \in 1 .. i, NEW k \in 1 .. j
               PROVE  Carried(Prefix(M, i)[k].tree, Prefix(M, i)[j].tree, S)
    BY <1>1 DEF Carries
  <2>1. k \in 1 .. i
    BY <1>2
  <2>2. Carried(M[k].tree, M[j].tree, S)
    BY <1>2 DEF Carries
  <2> QED BY <1>1, <2>1, <2>2
<1>4. Carried(M[i].tree, M[Len(M)].tree, S)
  BY <1>2 DEF Carries
<1> QED BY <1>1, <1>3, <1>4 DEF TreeOf

\* A snapshot of what the last one carries on.
LEMMA CarriesAppend ==
  ASSUME NEW M \in Manifest \cup {NoManifest}, NEW S, Carries(M, S),
         NEW t \in Trees, NEW by \in Author,
         M # NoManifest => Carried(TreeOf(M), t, S)
  PROVE  Carries(Append(M, [tree |-> t, by |-> by]), S)
<1> DEFINE N == Append(M, [tree |-> t, by |-> by])
           e == Len(M)
<1>1. /\ Len(N) = e + 1 /\ \A j \in 1 .. e : N[j] = M[j]
      /\ N[e + 1].tree = t
  BY AppendIs
<1>2. e \in Nat /\ (M = NoManifest <=> e = 0)
  BY ChainIs
<1>3. ASSUME NEW i \in 1 .. e PROVE Carried(M[i].tree, t, S)
  <2>1. M # NoManifest /\ e \in 1 .. e
    BY <1>2
  <2>2. Carried(M[i].tree, TreeOf(M), S)
    BY <2>1 DEF Carries, TreeOf
  <2>3. M[i].tree \in Trees /\ TreeOf(M) \in Trees
    BY <2>1, ChainIs DEF TreeOf
  <2> QED BY <2>1, <2>2, <2>3, CarriedOn
<1> HIDE DEF N
<1> SUFFICES ASSUME NEW j \in 1 .. e + 1, NEW i \in 1 .. j
             PROVE  Carried(N[i].tree, N[j].tree, S)
  BY <1>1 DEF Carries, N
<1>4. CASE j = e + 1 /\ i = j
  BY <1>4, CarriedSelf
<1>5. CASE j = e + 1 /\ i \in 1 .. e
  BY <1>1, <1>3, <1>5
<1>6. CASE j \in 1 .. e
  <2>1. i \in 1 .. e
    BY <1>2, <1>6
  <2>2. Carried(M[i].tree, M[j].tree, S)
    BY <1>6 DEF Carries
  <2> QED BY <1>1, <1>6, <2>1, <2>2
<1> HIDE DEF e
<1> QED BY <1>2, <1>4, <1>5, <1>6

\* autoMerge carries on what it finds on either side, if that is what each side
\* has done since the ancestor: where it takes neither a name's remote nor its local
\* file, or only the other one, the version has moved to a later copy.
LEMMA MergeCarries ==
  ASSUME NEW s \in Nat, NEW a \in Trees, NEW r, NEW l, Good(r, s), Good(l, s),
         NEW S, Carried(a, r, S), Carried(a, l, S)
  PROVE  /\ Carried(r, AutoMerge(a, r, l, s), S)
         /\ Carried(l, AutoMerge(a, r, l, s), S)
<1> DEFINE T == AutoMerge(a, r, l, s)
<1>1. r \in Trees /\ l \in Trees /\ OneEach(r) /\ OneEach(l)
  BY DEF Good
<1>2. ASSUME NEW f \in r \cup l, f[2] \in S
      PROVE  \E h \in T : h[2] = f[2] /\ Later(h[1], f[1])
  <2> DEFINE G == {g \in r \cup l : g[2] = f[2] /\ Later(g[1], f[1])}
             U == {Len(g[1][2]) : g \in G}
  <2>1. \A g \in r \cup l : /\ g[1] \in FileName /\ g = << g[1], g[2] >>
                            /\ Len(g[1][2]) \in Nat /\ Len(g[1][2]) <= s
    BY <1>1, FileType, NameType DEF Good
  <2>2. U \in SUBSET Nat /\ \A k \in U : k <= s
    BY <2>1
  <2>3. f \in G
    BY DEF Later
  <2>4. U # {}
    BY <2>3
  <2>5. PICK x \in U : \A k \in U : k <= x
    <3> HIDE DEF U
    <3> QED BY <2>2, <2>4, Greatest
  <2>6. PICK g \in G : x = Len(g[1][2])
    OBVIOUS
  <2> DEFINE n == g[1]
             c == f[2]
  <2>7. g \in r \cup l /\ g[2] = c /\ Later(n, f[1]) /\ n \in FileName /\ g = << n, c >>
    BY <2>1, <2>6
  <2>8. ASSUME NEW h \in r \cup l, h[2] = c, Later(h[1], n)
        PROVE  h[1] = n
    <3>1. h[1] \in FileName /\ f[1] \in FileName
      BY <2>1
    <3>2. Later(h[1], f[1])
      BY <2>7, <2>8, <3>1, LaterTransitive
    <3>3. Len(h[1][2]) \in U
      BY <2>8, <3>2
    <3>4. Len(h[1][2]) <= Len(n[2])
      BY <2>5, <2>6, <3>3
    <3> QED BY <2>1, <2>7, <2>8, <3>4 DEF Later
  <2> HIDE DEF G, U, n, c
  <2>9. ASSUME NEW t \in {r, l}, NEW h \in t, h[2] = c, Later(h[1], n)
        PROVE  Version(t, n) = {c}
    <3>1. h[1] = n /\ h = << h[1], h[2] >>
      BY <2>1, <2>8, <2>9
    <3>2. c \in Version(t, n)
      BY <1>1, <2>9, <3>1, VersionIs
    <3> QED BY <1>1, <3>2, VersionOne
  <2>10. Later(n, n)
    BY DEF Later
  <2>11. g \in r => Version(r, n) = {c}
    BY <2>7, <2>9, <2>10 DEF n
  <2>12. g \in l => Version(l, n) = {c}
    BY <2>7, <2>9, <2>10 DEF n
  <2>13. Version(a, n) = {c} => Version(r, n) = {c} /\ Version(l, n) = {c}
    <3> SUFFICES ASSUME Version(a, n) = {c}
                 PROVE  Version(r, n) = {c} /\ Version(l, n) = {c}
      OBVIOUS
    <3>1. << n, c >> \in a /\ << n, c >>[1] = n /\ << n, c >>[2] = c /\ c \in S
      BY <1>2, VersionIs DEF c
    <3>2. \A t \in {r, l} : \E h \in t : h[2] = c /\ Later(h[1], n)
      BY <3>1 DEF Carried
    <3> QED BY <2>9, <3>2
  <2>14. \E h \in T : h[2] = c /\ Later(h[1], n)
    <3>1. CASE c \in Taken(a, r, l, n)
      <4>1. g[1] = n /\ g[2] = c
        BY <2>7 DEF n
      <4>2. g \in Originals(a, r, l)
        BY <2>7, <3>1, <4>1 DEF Originals
      <4> QED BY <2>10, <4>1, <4>2 DEF AutoMerge
    <3>2. CASE g \in l /\ InConflict(a, r, l, n)
      <4>1. << CopyOf(n, s), c >> \in Copies(a, r, l, s)
        <5>1. g[1] = n /\ g[2] = c
          BY <2>7 DEF n
        <5> QED BY <3>2, <5>1 DEF Copies
      <4>2. Later(CopyOf(n, s), n)
        <5>1. CopyOf(n, s)[1] = n[1] /\ Len(CopyOf(n, s)[2]) = Len(n[2]) + 1 /\ Len(n[2]) \in Nat
          BY <2>7, CopyType, NameType
        <5> QED BY <5>1 DEF Later
      <4>3. << CopyOf(n, s), c >>[1] = CopyOf(n, s) /\ << CopyOf(n, s), c >>[2] = c
        OBVIOUS
      <4> QED BY <4>1, <4>2, <4>3 DEF AutoMerge
    <3>3. c \in Taken(a, r, l, n) \/ (g \in l /\ InConflict(a, r, l, n))
      BY <2>7, <2>11, <2>12, <2>13 DEF Taken, InConflict
    <3> QED BY <3>1, <3>2, <3>3
  <2>15. PICK h \in T : h[2] = c /\ Later(h[1], n)
    BY <2>14
  <2>16. h[1] \in FileName /\ f[1] \in FileName
    <3>1. T \in Trees
      BY MergeIsTree DEF Good
    <3> QED BY <2>1, <3>1, FileType
  <2> QED BY <2>7, <2>15, <2>16, LaterTransitive DEF c
<1> QED BY <1>2 DEF Carried
-----------------------------------------------------------------------------
(***************************************************************************)
(* No saved version is lost.                                               *)
(***************************************************************************)

\* What SavedInv says of the state after a step.
LEMMA SavedNext ==
  ASSUME \A c \in saved' \cup ContentsOf(disk') \cup ContentsOf(proc'.snap) :
           Old(c, count'.edits),
         \A M \in {head', remoteHead', proc'.target} :
           OldChain(M, count'.edits) /\ Carries(M, saved'),
         proc'.pc # "replace" =>
           saved' \subseteq ContentsOf(disk') /\ Carried(HeadTree', disk', saved'),
         proc'.pc = "scan" =>
           /\ Kept(proc'.snap, disk', saved')
           /\ Carried(HeadTree', proc'.snap \cup {f \in disk' : f[1] \in proc'.todo}, saved'),
         proc'.pc = "compare" => Kept(HeadTree', disk', saved'),
         proc'.pc \in {"apply", "unlink", "place", "checkout", "replace"} =>
           Carried(HeadTree', TreeOf(proc'.target), saved'),
         proc'.pc \in {"apply", "unlink", "place", "checkout"} =>
           Kept({f \in TreeOf(proc'.target) : f[1] \notin proc'.todo}, disk', saved'),
         proc'.pc = "unlink" =>
           /\ proc'.path \in proc'.todo /\ \A m \in proc'.todo : ~ Sooner(m, proc'.path)
           /\ Version(disk', proc'.path) = Version(HeadTree', proc'.path),
         proc'.pc = "place" => Version(disk', proc'.path) = {},
         proc'.pc = "checkout" => proc'.todo = Differing(HeadTree', TreeOf(proc'.target)),
         proc'.pc = "replace" =>
           /\ saved' \subseteq ContentsOf(HeadTree')
           /\ \A n \in FileName :
                Version(disk', n) = IF n \in proc'.todo THEN Version(HeadTree', n)
                                    ELSE Version(TreeOf(proc'.target), n)
  PROVE  SavedInv'
<1> USE DEF At
<1>1. OldInv'
  BY DEF OldInv, OldChain, ContentsOf
<1>2. (\A M \in {head, remoteHead, proc.target} : Carries(M, saved))'
  BY DEF Carries, Carried
<1>3. (~ At("replace") => saved \subseteq ContentsOf(disk) /\ Carried(HeadTree, disk, saved))'
  BY DEF Carried, ContentsOf
<1>4. ScanInv'
  BY DEF ScanInv, Kept, Carried
<1>5. (At("compare") => Kept(HeadTree, disk, saved))'
  BY DEF Kept
<1>6. (Applying \/ At("checkout") \/ At("replace") =>
         Carried(HeadTree, TreeOf(proc.target), saved))'
  BY DEF Carried, Applying, TreeOf
<1>7. (Applying \/ At("checkout") =>
         Kept({f \in TreeOf(proc.target) : f[1] \notin proc.todo}, disk, saved))'
  BY DEF Kept, Applying, TreeOf
<1>8. (At("unlink") => Due(proc.path) /\ Version(disk, proc.path) = Was(proc.path))'
  BY DEF Due, Was, Version, Sooner
<1>9. (At("place") => Version(disk, proc.path) = {})'
  BY DEF Version
<1>10. (At("checkout") => proc.todo = Differing(HeadTree, TreeOf(proc.target)))'
  BY DEF Differing, TreeOf, Version, NamesOf
<1>11. (At("replace") =>
         /\ saved \subseteq ContentsOf(HeadTree)
         /\ \A n \in FileName :
              Version(disk, n) = IF n \in proc.todo THEN Was(n) ELSE Want(n))'
  BY DEF Version, Was, Want, TreeOf, ContentsOf
<1>12. ApplyInv'
  BY <1>5, <1>6, <1>7, <1>8, <1>9 DEF ApplyInv
<1>13. ReplaceInv'
  BY <1>10, <1>11 DEF ReplaceInv
<1> QED BY <1>1, <1>2, <1>3, <1>4, <1>12, <1>13 DEF SavedInv
LEMMA SavedIdle ==
  ASSUME TypeInv, SavedInv, UNCHANGED << disk, head, remoteHead, saved >>,
         count'.edits = count.edits, proc' = Idle, ~ At("replace")
  PROVE  SavedInv'
<1>1. proc'.pc = "idle" /\ proc'.snap = {} /\ proc'.target = NoManifest
  BY IdleIs
<1>2. HeadTree' = HeadTree
  BY DEF HeadTree
<1>3. ContentsOf({}) = {}
  BY DEF ContentsOf
<1>4. \A c \in saved' \cup ContentsOf(disk') \cup ContentsOf(proc'.snap) : Old(c, count'.edits)
  BY <1>1, <1>3 DEF SavedInv, OldInv
<1>5. OldChain(NoManifest, count.edits) /\ Carries(NoManifest, saved)
  <2>1. 1 .. Len(NoManifest) = {}
    BY DEF NoManifest
  <2> QED BY <2>1, CarriesNone DEF OldChain
<1>6. \A M \in {head', remoteHead', proc'.target} :
        OldChain(M, count'.edits) /\ Carries(M, saved')
  BY <1>1, <1>5 DEF SavedInv, OldInv
<1>7. saved' \subseteq ContentsOf(disk') /\ Carried(HeadTree', disk', saved')
  BY <1>2 DEF SavedInv
<1> QED BY <1>1, <1>4, <1>6, <1>7, SavedNext

\* Contents of a later change are not in a file of a snapshot.
LEMMA OldNotNew ==
  ASSUME NEW e \in Nat, NEW f, Old(f[2], e)
  PROVE  f[2] # << "here", e >> /\ Old(f[2], e + 1)
<1>1. << "here", e >>[1] = "here" /\ << "here", e >>[2] = e
  OBVIOUS
<1>2. ASSUME f[2] = << "here", e >> PROVE FALSE
  <2>1. f[2][1] = "here" /\ f[2][2] = e
    BY <1>1, <1>2
  <2> QED BY <2>1 DEF Old
<1> QED BY <1>2 DEF Old

LEMMA SaveSaved ==
  ASSUME TypeInv, SavedInv, Save
  PROVE  SavedInv'
<1> USE DEF At
<1> DEFINE e == count.edits
           c == << "here", e >>
<1>1. PICK t \in Changes(disk, c) :
        /\ t # disk
        /\ proc.pc = "unlink" \/ proc.pc = "place" =>
             Version(t, proc.path) = Version(disk, proc.path)
        /\ disk' = t
        /\ saved' = (saved \ ContentsOf(disk \ t)) \cup ({c} \cap ContentsOf(t))
  BY DEF Save
<1>2. /\ e \in Nat /\ count'.edits = e + 1 /\ proc.pc # "replace"
      /\ UNCHANGED << head, remoteHead >> /\ HeadTree' = HeadTree
  BY BoundsAssumption DEF Save, TypeInv, StoreInv, HeadTree
<1>3. c \in Edit
  BY <1>2 DEF Edit, Author
<1>4. /\ proc'.pc = proc.pc /\ proc'.snap = proc.snap /\ proc'.todo = proc.todo
      /\ proc'.target = proc.target /\ proc'.path = proc.path
  <2>1. proc' = [proc EXCEPT !.edited = ~ At("idle")]
    BY DEF Save
  <2> QED BY <2>1, TreeTypes DEF Process
<1> HIDE DEF e
<1>5. \A f : Old(f[2], e) => f[2] # c /\ Old(f[2], e + 1)
  BY <1>2, OldNotNew
<1>6. /\ \A f \in disk \cup proc.snap : Old(f[2], e)
      /\ \A M \in {head, remoteHead, proc.target} : \A i \in 1 .. Len(M) :
           \A f \in M[i].tree : Old(f[2], e)
  BY DEF SavedInv, OldInv, OldChain, ContentsOf, e
<1>7. \A x \in saved' : x \in saved \/ x = c
  BY <1>1
<1>8. \A f \in t : f \in disk \/ f[2] = c
  BY <1>1, <1>3, TreeTypes, ChangeType
<1>9. \A f : Old(f[2], e) /\ f[2] \in saved' => f[2] \in saved
  BY <1>5, <1>7
<1>10. Kept(disk, t, saved')
  <2> SUFFICES ASSUME NEW f \in disk, f[2] \in saved', f \notin t PROVE FALSE
    BY DEF Kept
  <2>1. f[2] \in saved /\ f[2] # c
    BY <1>5, <1>6, <1>9
  <2>2. f[2] \in ContentsOf(disk \ t)
    BY DEF ContentsOf
  <2> QED BY <1>1, <2>1, <2>2
<1>11. \A x \in saved' \cup ContentsOf(disk') \cup ContentsOf(proc'.snap) : Old(x, count'.edits)
  <2>1. Old(c, e + 1)
    BY <1>2 DEF Old
  <2>2. \A x \in saved : Old(x, e)
    BY DEF SavedInv, OldInv, e
  <2>3. \A x \in saved : Old(x, e + 1)
    BY <1>2, <2>2 DEF Old
  <2>4. \A f \in t : Old(f[2], e + 1)
    BY <1>5, <1>6, <1>8, <2>1
  <2>5. \A f \in proc.snap : Old(f[2], e + 1)
    BY <1>5, <1>6
  <2> QED BY <1>1, <1>2, <1>4, <1>7, <2>1, <2>3, <2>4, <2>5 DEF ContentsOf
<1>12. ASSUME NEW M \in {head, remoteHead, proc.target}
       PROVE  OldChain(M, e + 1) /\ Carries(M, saved')
  <2>1. OldChain(M, e + 1)
    BY <1>5, <1>6 DEF OldChain
  <2>2. M \in Manifest \cup {NoManifest} /\ Carries(M, saved)
    BY DEF TypeInv, StoreInv, ProcInv, Process, SavedInv
  <2>3. Carries(M, saved')
    BY <1>6, <1>9, <2>2, CarriesFewer
  <2> QED BY <2>1, <2>3
<1>13. \A M \in {head', remoteHead', proc'.target} :
         OldChain(M, count'.edits) /\ Carries(M, saved')
  BY <1>2, <1>4, <1>12
<1>14. /\ \A f \in HeadTree : Old(f[2], e)
       /\ proc.target # NoManifest => \A f \in TreeOf(proc.target) : Old(f[2], e)
  <2>1. \A M \in {head, proc.target} : M # NoManifest => Len(M) \in 1 .. Len(M)
    BY ChainIs DEF TypeInv, StoreInv, ProcInv, Process
  <2> QED BY <1>6, <2>1 DEF HeadTree, TreeOf
<1>15. disk \in Trees /\ t \in Trees /\ HeadTree \in Trees /\ proc.snap \in Trees
  BY <1>3, TreeTypes, ChangeType
<1>16. saved' \subseteq ContentsOf(disk') /\ Carried(HeadTree', disk', saved')
  <2>1. saved \subseteq ContentsOf(disk) /\ Carried(HeadTree, disk, saved)
    BY <1>2 DEF SavedInv
  <2>2. ASSUME NEW x \in saved' PROVE x \in ContentsOf(t)
    <3>1. CASE x \in saved /\ x \notin ContentsOf(disk \ t)
      BY <2>1, <3>1 DEF ContentsOf
    <3> QED BY <1>1, <3>1
  <2>3. Carried(HeadTree, disk, saved')
    BY <1>9, <1>14, <2>1, CarriedFewer
  <2>4. Carried(HeadTree, t, saved')
    BY <1>10, <1>15, <2>3, KeptCarried, CarriedOn
  <2> QED BY <1>1, <1>2, <2>2, <2>4
<1>17. ASSUME proc.pc = "scan"
       PROVE  /\ Kept(proc.snap, t, saved')
              /\ Carried(HeadTree, proc.snap \cup {f \in t : f[1] \in proc.todo}, saved')
  <2> DEFINE u == proc.snap \cup {f \in disk : f[1] \in proc.todo}
             v == proc.snap \cup {f \in t : f[1] \in proc.todo}
  <2>1. Kept(proc.snap, disk, saved) /\ Carried(HeadTree, u, saved)
    BY <1>17 DEF SavedInv, ScanInv
  <2>2. Kept(proc.snap, t, saved')
    BY <1>6, <1>9, <1>10, <2>1 DEF Kept
  <2>3. Kept(u, v, saved')
    BY <1>10 DEF Kept
  <2>4. Carried(HeadTree, u, saved')
    BY <1>9, <1>14, <2>1, CarriedFewer
  <2>5. u \in Trees /\ v \in Trees
    BY <1>15 DEF Trees
  <2> HIDE DEF u
  <2>6. Carried(HeadTree, v, saved')
    BY <1>15, <2>3, <2>4, <2>5, KeptCarried, CarriedOn
  <2> QED BY <2>2, <2>6
<1>18. proc.pc = "compare" => Kept(HeadTree, t, saved')
  BY <1>9, <1>10, <1>14 DEF SavedInv, ApplyInv, Kept
<1>19. ASSUME proc.pc \in {"apply", "unlink", "place", "checkout"}
       PROVE  /\ Carried(HeadTree, TreeOf(proc.target), saved')
              /\ Kept({f \in TreeOf(proc.target) : f[1] \notin proc.todo}, t, saved')
  <2>1. /\ Carried(HeadTree, TreeOf(proc.target), saved)
        /\ Kept({f \in TreeOf(proc.target) : f[1] \notin proc.todo}, disk, saved)
    BY <1>19 DEF SavedInv, ApplyInv, Applying
  <2>2. proc.target # NoManifest
    BY <1>19 DEF TypeInv, ProcInv, HasTarget, Applying
  <2>3. Carried(HeadTree, TreeOf(proc.target), saved')
    BY <1>9, <1>14, <2>1, CarriedFewer
  <2>4. Kept({f \in TreeOf(proc.target) : f[1] \notin proc.todo}, t, saved')
    BY <1>9, <1>10, <1>14, <2>1, <2>2 DEF Kept
  <2> QED BY <2>3, <2>4
<1>20. proc.pc = "unlink" =>
         /\ proc.path \in proc.todo /\ \A m \in proc.todo : ~ Sooner(m, proc.path)
         /\ Version(t, proc.path) = Version(HeadTree, proc.path)
  BY <1>1 DEF SavedInv, ApplyInv, Due, Was
<1>21. proc.pc = "place" => Version(t, proc.path) = {}
  BY <1>1 DEF SavedInv, ApplyInv
<1>22. proc.pc = "checkout" => proc.todo = Differing(HeadTree, TreeOf(proc.target))
  BY DEF SavedInv, ReplaceInv
<1> QED BY <1>1, <1>2, <1>4, <1>11, <1>13, <1>16, <1>17, <1>18, <1>19, <1>20, <1>21, <1>22,
           SavedNext
\* What SavedInv says of the histories there are.
LEMMA HistoryNow ==
  ASSUME TypeInv, SavedInv, NEW M \in {head, remoteHead, proc.target}
  PROVE  /\ M \in Manifest \cup {NoManifest} /\ Carries(M, saved)
         /\ OldChain(M, count.edits)
         /\ M # NoManifest => /\ M \in Manifest /\ TreeOf(M) \in Trees
                              /\ \A f \in TreeOf(M) : Old(f[2], count.edits)
<1>1. M \in Manifest \cup {NoManifest} /\ Carries(M, saved) /\ OldChain(M, count.edits)
  BY DEF TypeInv, StoreInv, ProcInv, Process, SavedInv, OldInv
<1>2. ASSUME M # NoManifest
      PROVE  TreeOf(M) \in Trees /\ \A f \in TreeOf(M) : Old(f[2], count.edits)
  <2>1. Len(M) \in 1 .. Len(M)
    BY <1>1, <1>2, ChainIs
  <2> QED BY <1>1, <2>1, ChainIs DEF TreeOf, OldChain
<1> QED BY <1>1, <1>2

LEMMA OldAppend ==
  ASSUME NEW M \in Manifest \cup {NoManifest}, NEW e, OldChain(M, e),
         NEW t \in Trees, \A f \in t : Old(f[2], e), NEW by \in Author
  PROVE  OldChain(Append(M, [tree |-> t, by |-> by]), e)
<1> DEFINE N == Append(M, [tree |-> t, by |-> by])
<1>1. /\ Len(N) = Len(M) + 1 /\ Len(M) \in Nat /\ \A j \in 1 .. Len(M) : N[j] = M[j]
      /\ N[Len(M) + 1].tree = t
  BY AppendIs, ChainIs
<1> HIDE DEF N
<1>2. \A j \in 1 .. Len(N) : j \in 1 .. Len(M) \/ j = Len(M) + 1
  BY <1>1
<1> QED BY <1>1, <1>2 DEF OldChain, N

\* Steps that leave files and histories alone.
LEMMA OldSame ==
  ASSUME SavedInv, UNCHANGED << disk, saved >>, count'.edits = count.edits,
         \A f \in proc'.snap : f \in proc.snap \/ f \in disk
  PROVE  \A c \in saved' \cup ContentsOf(disk') \cup ContentsOf(proc'.snap) :
           Old(c, count'.edits)
BY DEF SavedInv, OldInv, ContentsOf

LEMMA RemoteMovesSaved ==
  ASSUME TypeInv, SavedInv, RemoteMoves
  PROVE  SavedInv'
<1> USE DEF At
<1> DEFINE c == << "there", count.moves + 1 >>
           e == count.edits
<1>1. PICK i \in 1 .. Len(remoteHead) : \E t \in Changes(TreeOf(Prefix(remoteHead, i)), c) :
        /\ remoteHead' = Append(Prefix(remoteHead, i), [tree |-> t, by |-> "there"])
        /\ saved' = saved \ ContentsOf(TreeOf(Prefix(remoteHead, i)) \ t)
  BY DEF RemoteMoves
<1> DEFINE M == Prefix(remoteHead, i)
<1>2. PICK t \in Changes(TreeOf(M), c) :
        /\ remoteHead' = Append(M, [tree |-> t, by |-> "there"])
        /\ saved' = saved \ ContentsOf(TreeOf(M) \ t)
  BY <1>1
<1>3. /\ UNCHANGED << disk, head, proc >> /\ count'.edits = e /\ HeadTree' = HeadTree
      /\ count.moves + 1 \in Nat
  BY BoundsAssumption DEF RemoteMoves, TypeInv, StoreInv, HeadTree
<1>4. c \in Edit /\ "there" \in Author /\ Old(c, e)
  <2>1. c[1] = "there"
    OBVIOUS
  <2> QED BY <1>3, <2>1 DEF Edit, Author, Old
<1>5. remoteHead \in Manifest /\ Carries(remoteHead, saved) /\ OldChain(remoteHead, e)
  BY DEF TypeInv, StoreInv, SavedInv, OldInv
<1>6. /\ M \in Manifest /\ Carries(M, saved) /\ TreeOf(M) \in Trees /\ OneEach(TreeOf(M))
      /\ \A f \in TreeOf(M) : Old(f[2], e)
      /\ OldChain(M, e)
  <2>1. M \in Manifest /\ Carries(M, saved)
    BY <1>5, PrefixIs, CarriesPrefix
  <2>2. TreeOf(M) \in Trees /\ OneEach(TreeOf(M))
    BY GoodPrefix DEF TypeInv, StoreInv, Good
  <2>3. TreeOf(M) = remoteHead[i].tree /\ Len(M) = i /\ \A j \in 1 .. i : M[j] = remoteHead[j]
    BY <1>5, PrefixIs
  <2>4. \A j \in 1 .. i : j \in 1 .. Len(remoteHead)
    BY <1>5, ChainIs
  <2> HIDE DEF M
  <2>5. OldChain(M, e) /\ \A f \in TreeOf(M) : Old(f[2], e)
    BY <1>5, <2>3, <2>4 DEF OldChain
  <2> QED BY <2>1, <2>2, <2>5
<1> HIDE DEF M, c, e
<1>7. t \in Trees /\ \A f \in t : Old(f[2], e)
  BY <1>4, <1>6, ChangeType
<1>8. saved' \subseteq saved
  BY <1>2
<1>9. Kept(TreeOf(M), t, saved')
  <2> SUFFICES ASSUME NEW f \in TreeOf(M), f[2] \in saved', f \notin t PROVE FALSE
    BY DEF Kept
  <2>1. f[2] \in ContentsOf(TreeOf(M) \ t)
    BY DEF ContentsOf
  <2> QED BY <1>2, <2>1
<1>10. Carries(remoteHead', saved') /\ OldChain(remoteHead', e)
  <2>1. Carries(M, saved')
    BY <1>6, <1>8, CarriesFewer
  <2> QED BY <1>2, <1>4, <1>6, <1>7, <1>9, <2>1, KeptCarried, CarriesAppend, OldAppend
<1>11. \A N \in {head, proc.target} : OldChain(N, e) /\ Carries(N, saved')
  BY <1>8, HistoryNow, CarriesFewer DEF e
<1>12. \A N \in {head', remoteHead', proc'.target} :
         OldChain(N, count'.edits) /\ Carries(N, saved')
  BY <1>3, <1>10, <1>11
<1>13. \A x \in saved' \cup ContentsOf(disk') \cup ContentsOf(proc'.snap) :
         Old(x, count'.edits)
  BY <1>3, <1>8 DEF SavedInv, OldInv, e
<1>14. \A s, u : (Carried(s, u, saved) => Carried(s, u, saved'))
              /\ (Kept(s, u, saved) => Kept(s, u, saved'))
  BY <1>8 DEF Carried, Kept
<1>15. /\ proc.pc # "replace" => saved' \subseteq ContentsOf(disk) /\ Carried(HeadTree, disk, saved')
       /\ proc.pc = "scan" =>
           /\ Kept(proc.snap, disk, saved')
           /\ Carried(HeadTree, proc.snap \cup {f \in disk : f[1] \in proc.todo}, saved')
       /\ proc.pc = "compare" => Kept(HeadTree, disk, saved')
  BY <1>8, <1>14 DEF SavedInv, ScanInv, ApplyInv
<1>16. /\ proc.pc \in {"apply", "unlink", "place", "checkout", "replace"} =>
            Carried(HeadTree, TreeOf(proc.target), saved')
       /\ proc.pc \in {"apply", "unlink", "place", "checkout"} =>
            Kept({f \in TreeOf(proc.target) : f[1] \notin proc.todo}, disk, saved')
  BY <1>14 DEF SavedInv, ApplyInv, Applying
<1>17. /\ proc.pc = "unlink" =>
           /\ proc.path \in proc.todo /\ \A m \in proc.todo : ~ Sooner(m, proc.path)
           /\ Version(disk, proc.path) = Version(HeadTree, proc.path)
       /\ proc.pc = "place" => Version(disk, proc.path) = {}
       /\ proc.pc = "checkout" => proc.todo = Differing(HeadTree, TreeOf(proc.target))
       /\ proc.pc = "replace" =>
           /\ saved' \subseteq ContentsOf(HeadTree)
           /\ \A n \in FileName :
                Version(disk, n) = IF n \in proc.todo THEN Version(HeadTree, n)
                                    ELSE Version(TreeOf(proc.target), n)
  BY <1>8 DEF SavedInv, ApplyInv, ReplaceInv, Due, Was, Want
<1> QED BY <1>3, <1>12, <1>13, <1>15, <1>16, <1>17, SavedNext

LEMMA BeginSaved ==
  ASSUME TypeInv, SavedInv, Begin \/ BeginPull
  PROVE  SavedInv'
<1> USE DEF At
<1>1. PICK pull \in BOOLEAN :
        proc' = [Idle EXCEPT !.pc = "scan", !.pull = pull, !.todo = NamesOf(disk)]
  BY DEF Begin, BeginPull, Start
<1>2. /\ UNCHANGED << disk, head, remoteHead, saved >> /\ count'.edits = count.edits
      /\ HeadTree' = HeadTree /\ proc.pc = "idle"
  BY DEF Begin, BeginPull, HeadTree, TypeInv, StoreInv
<1>3. /\ proc'.pc = "scan" /\ proc'.snap = {} /\ proc'.target = NoManifest
      /\ proc'.todo = NamesOf(disk)
  BY <1>1, IdleIs DEF Process
<1>4. OldChain(NoManifest, count.edits) /\ Carries(NoManifest, saved)
  <2>1. 1 .. Len(NoManifest) = {}
    BY DEF NoManifest
  <2> QED BY <2>1, CarriesNone DEF OldChain
<1>5. \A M \in {head', remoteHead', proc'.target} :
        OldChain(M, count'.edits) /\ Carries(M, saved')
  BY <1>2, <1>3, <1>4, HistoryNow
<1>6. saved \subseteq ContentsOf(disk) /\ Carried(HeadTree, disk, saved)
  BY <1>2 DEF SavedInv
<1>7. proc'.snap \cup {f \in disk' : f[1] \in proc'.todo} = disk
  BY <1>2, <1>3 DEF NamesOf
<1>8. Kept(proc'.snap, disk', saved')
  BY <1>3 DEF Kept
<1> QED BY <1>2, <1>3, <1>5, <1>6, <1>7, <1>8, OldSame, SavedNext

LEMMA ScanSaved ==
  ASSUME TypeInv, SavedInv, NEW n \in proc.todo, Scan(n)
  PROVE  SavedInv'
<1> USE DEF At
<1>1. /\ UNCHANGED << disk, head, remoteHead, saved >> /\ count'.edits = count.edits
      /\ HeadTree' = HeadTree /\ proc.pc = "scan"
  BY DEF Scan, HeadTree
<1>2. CASE Version(disk, n) = {}
  <2>1. proc' = Idle
    BY <1>2 DEF Scan
  <2> QED BY <1>1, <2>1, SavedIdle
<1>3. CASE Version(disk, n) # {}
  <2>1. proc' = [proc EXCEPT !.snap = @ \cup ({n} \X Version(disk, n)), !.todo = @ \ {n}]
    BY <1>3 DEF Scan
  <2>2. PICK c \in Edit : /\ n \in FileName /\ << n, c >> \in disk
                          /\ Version(disk, n) = {c} /\ n \notin NamesOf(proc.snap)
                          /\ proc'.snap = proc.snap \cup {<< n, c >>}
                          /\ proc'.todo = proc.todo \ {n}
    BY <1>1, <1>3, <2>1, ScanSnap
  <2>3. proc'.pc = "scan" /\ proc'.target = proc.target
    BY <1>1, <2>1, TreeTypes DEF Process
  <2>4. \A f \in disk : f[1] = n => f = << n, c >>
    <3> SUFFICES ASSUME NEW f \in disk, f[1] = n PROVE f = << n, c >>
      OBVIOUS
    <3>1. f[2] \in Version(disk, n) /\ f = << f[1], f[2] >>
      BY TreeTypes, FileType DEF Version
    <3> QED BY <2>2, <3>1
  <2> DEFINE u == proc.snap \cup {f \in disk : f[1] \in proc.todo}
             v == proc'.snap \cup {f \in disk : f[1] \in proc'.todo}
  <2>5. Kept(proc.snap, disk, saved) /\ Carried(HeadTree, u, saved)
    BY <1>1 DEF SavedInv, ScanInv
  <2>6. u \subseteq v
    BY <2>2, <2>4
  <2>7. Kept(proc'.snap, disk, saved) /\ Carried(HeadTree, v, saved)
    BY <2>2, <2>5, <2>6 DEF Kept, Carried
  <2>8. \A M \in {head', remoteHead', proc'.target} :
          OldChain(M, count'.edits) /\ Carries(M, saved')
    BY <1>1, <2>3, HistoryNow
  <2>9. saved \subseteq ContentsOf(disk) /\ Carried(HeadTree, disk, saved)
    BY <1>1 DEF SavedInv
  <2>10. \A f \in proc'.snap : f \in proc.snap \/ f \in disk
    BY <2>2
  <2> HIDE DEF u
  <2> QED BY <1>1, <2>3, <2>7, <2>8, <2>9, <2>10, OldSame, SavedNext
<1> QED BY <1>2, <1>3

LEMMA EndScanSaved ==
  ASSUME TypeInv, SavedInv, EndScan
  PROVE  SavedInv'
<1> USE DEF At
<1>1. /\ UNCHANGED << disk, remoteHead, saved, count >> /\ proc.pc = "scan" /\ proc.todo = {}
      /\ proc'.pc = "compare" /\ proc'.snap = {} /\ proc'.target = proc.target
  BY TreeTypes DEF EndScan, Scanned, Process
<1>2. Kept(proc.snap, disk, saved) /\ Carried(HeadTree, proc.snap, saved)
  <2>1. proc.snap \cup {f \in disk : f[1] \in proc.todo} = proc.snap
    BY <1>1
  <2> QED BY <1>1, <2>1 DEF SavedInv, ScanInv
<1>3. \A f \in proc.snap : Old(f[2], count.edits)
  BY DEF SavedInv, OldInv, ContentsOf
<1>4. HeadTree' = proc.snap /\ OldChain(head', count.edits) /\ Carries(head', saved)
  <2>1. CASE proc.snap = HeadTree
    BY <2>1, HistoryNow DEF EndScan, HeadTree
  <2>2. CASE proc.snap # HeadTree
    <3>1. head' = Append(head, [tree |-> proc.snap, by |-> "here"]) /\ "here" \in Author
      BY <2>2 DEF EndScan, Author
    <3>2. head \in Manifest \cup {NoManifest} /\ Carries(head, saved) /\ OldChain(head, count.edits)
      BY HistoryNow
    <3>3. head' \in Manifest /\ TreeOf(head') = proc.snap
      BY <3>1, <3>2, TreeTypes, AppendIs
    <3>4. head # NoManifest => Carried(TreeOf(head), proc.snap, saved)
      BY <1>2 DEF HeadTree
    <3>5. Carries(head', saved) /\ OldChain(head', count.edits)
      BY <1>3, <3>1, <3>2, <3>4, TreeTypes, CarriesAppend, OldAppend
    <3> QED BY <3>3, <3>5 DEF HeadTree, Manifest
  <2> QED BY <2>1, <2>2
<1>5. \A M \in {head', remoteHead', proc'.target} :
        OldChain(M, count'.edits) /\ Carries(M, saved')
  BY <1>1, <1>4, HistoryNow
<1>6. saved \subseteq ContentsOf(disk) /\ Carried(HeadTree', disk, saved)
  BY <1>1, <1>2, <1>4, KeptCarried DEF SavedInv
<1> QED BY <1>1, <1>2, <1>4, <1>5, <1>6, OldSame, SavedNext
\* An apply starts with all that differs to do; what does not differ is there.
LEMMA StartApplySaved ==
  ASSUME TypeInv, SavedInv, proc.pc = "compare",
         UNCHANGED << disk, head, remoteHead, saved, count >>,
         NEW M \in Manifest, TreeOf(M) \in Trees, Carries(M, saved), OldChain(M, count.edits),
         Carried(HeadTree, TreeOf(M), saved),
         NEW merged, StartApply(M, merged)
  PROVE  SavedInv'
<1> USE DEF At
<1>1. /\ proc'.pc \in {"checkout", "apply"} /\ proc'.snap = proc.snap /\ proc'.target = M
      /\ proc'.todo = Differing(HeadTree, TreeOf(M))
  BY TreeTypes DEF StartApply, Process
<1>2. HeadTree' = HeadTree
  BY DEF HeadTree
<1>3. Kept(HeadTree, disk, saved) /\ saved \subseteq ContentsOf(disk)
      /\ Carried(HeadTree, disk, saved)
  BY DEF SavedInv, ApplyInv
<1>4. Kept({f \in TreeOf(M) : f[1] \notin proc'.todo}, disk, saved)
  <2> SUFFICES ASSUME NEW f \in TreeOf(M), f[1] \notin proc'.todo, f[2] \in saved
               PROVE  f \in disk
    BY DEF Kept
  <2>1. f[1] \in NamesOf(TreeOf(M))
    BY DEF NamesOf
  <2>2. Version(HeadTree, f[1]) = Version(TreeOf(M), f[1])
    BY <1>1, <2>1 DEF Differing
  <2>3. f[2] \in Version(TreeOf(M), f[1]) /\ f = << f[1], f[2] >>
    BY FileType DEF Version
  <2>4. f \in HeadTree
    BY <2>2, <2>3, TreeTypes, VersionIs
  <2> QED BY <1>3, <2>4 DEF Kept
<1>5. \A N \in {head', remoteHead', proc'.target} :
        OldChain(N, count'.edits) /\ Carries(N, saved')
  BY <1>1, HistoryNow
<1>6. \A c \in saved' \cup ContentsOf(disk') \cup ContentsOf(proc'.snap) : Old(c, count'.edits)
  BY <1>1, OldSame
<1> QED BY <1>1, <1>2, <1>3, <1>4, <1>5, <1>6, SavedNext

LEMMA ComparedSaved ==
  ASSUME TypeInv, SavedInv, UpToDate \/ Ahead \/ Behind
  PROVE  SavedInv'
<1> USE DEF At
<1>1. /\ UNCHANGED << disk, head, remoteHead, saved, count >> /\ proc.pc = "compare"
      /\ HeadTree' = HeadTree
  BY DEF UpToDate, Ahead, Behind, Compared, HeadTree
<1>2. CASE proc' = Idle
  BY <1>1, <1>2, SavedIdle
<1>3. CASE Ahead /\ proc' # Idle
  <2>1. proc' = [proc EXCEPT !.pc = "push", !.target = head]
    BY <1>3 DEF Ahead
  <2>2. proc'.pc = "push" /\ proc'.target = head /\ proc'.snap = proc.snap
    BY <2>1, TreeTypes DEF Process
  <2>3. \A M \in {head', remoteHead', proc'.target} :
          OldChain(M, count'.edits) /\ Carries(M, saved')
    BY <1>1, <2>2, HistoryNow
  <2>4. saved \subseteq ContentsOf(disk) /\ Carried(HeadTree, disk, saved)
    BY <1>1 DEF SavedInv
  <2>5. \A c \in saved' \cup ContentsOf(disk') \cup ContentsOf(proc'.snap) : Old(c, count'.edits)
    BY <1>1, <2>2, OldSame
  <2> QED BY <1>1, <2>2, <2>3, <2>4, <2>5, SavedNext
<1>4. CASE Behind
  <2>1. remoteHead \in Manifest /\ remoteHead # NoManifest
    BY DEF TypeInv, StoreInv, Manifest
  <2>2. /\ TreeOf(remoteHead) \in Trees /\ Carries(remoteHead, saved)
        /\ OldChain(remoteHead, count.edits)
    BY <2>1, HistoryNow
  <2>3. Carried(HeadTree, TreeOf(remoteHead), saved)
    <3>1. CASE head = NoManifest
      BY <3>1 DEF HeadTree, Carried
    <3>2. CASE head # NoManifest
      <4>1. PICK i \in 1 .. Len(remoteHead) : head = Prefix(remoteHead, i)
        BY <1>4, <3>2 DEF Behind, IsAncestor, Named
      <4>2. Carried(TreeOf(head), TreeOf(remoteHead), saved)
        BY <2>1, <2>2, <4>1, CarriesPrefix
      <4> QED BY <3>2, <4>2 DEF HeadTree
    <3> QED BY <3>1, <3>2
  <2>4. StartApply(remoteHead, FALSE)
    BY <1>4 DEF Behind
  <2> QED BY <1>1, <2>1, <2>2, <2>3, <2>4, StartApplySaved
<1> QED BY <1>2, <1>3, <1>4 DEF UpToDate

LEMMA DivergedSaved ==
  ASSUME TypeInv, SavedInv, Diverged
  PROVE  SavedInv'
<1>1. UNCHANGED << disk, head, remoteHead, saved, count >> /\ proc.pc = "compare"
  BY DEF Diverged, Compared, At
<1>2. CASE proc' = Idle
  BY <1>1, <1>2, SavedIdle DEF At
<1>3. CASE proc' # Idle
  <2>1. PICK i \in CommonAncestors(head, remoteHead, Known) :
           /\ head \in Manifest /\ i \in 1 .. Len(remoteHead)
           /\ \A k \in CommonAncestors(head, remoteHead, Known) : k <= i
           /\ disk = HeadTree
           /\ stamp' = stamp + 1
           /\ StartApply(Append(remoteHead,
                [tree |-> AutoMerge(TreeOf(Prefix(remoteHead, i)), TreeOf(remoteHead),
                                    HeadTree, stamp),
                 by |-> "here"]), TRUE)
    BY <1>3, DivergedMerge
  <2> DEFINE a == TreeOf(Prefix(remoteHead, i))
             r == TreeOf(remoteHead)
             T == AutoMerge(a, r, HeadTree, stamp)
             M == Append(remoteHead, [tree |-> T, by |-> "here"])
  <2>2. a \in Trees /\ Good(r, stamp) /\ Good(HeadTree, stamp) /\ stamp \in Nat
    BY <2>1, GoodPrefix, GoodTree, HeadTreeGood DEF TypeInv, StoreInv, Good
  <2>3. /\ Carries(head, saved) /\ Carries(remoteHead, saved) /\ remoteHead \in Manifest
        /\ OldChain(remoteHead, count.edits) /\ head # NoManifest /\ remoteHead # NoManifest
    BY <2>1, HistoryNow DEF TypeInv, StoreInv, Manifest
  <2>4. Carried(a, r, saved)
    BY <2>1, <2>3, CarriesPrefix
  <2>5. Carried(a, HeadTree, saved)
    <3>1. PICK k \in 1 .. Len(head) : Prefix(head, k) = Prefix(remoteHead, i)
      BY DEF CommonAncestors, Named
    <3>2. Carried(TreeOf(Prefix(head, k)), TreeOf(head), saved)
      BY <2>1, <2>3, CarriesPrefix
    <3> QED BY <2>3, <3>1, <3>2 DEF HeadTree
  <2>6. \A f \in r \cup HeadTree : Old(f[2], count.edits)
    BY <2>3, HistoryNow DEF HeadTree
  <2> HIDE DEF a, r
  <2>7. T \in Trees
    BY <2>2, MergeIsTree DEF Good
  <2>8. Carried(r, T, saved) /\ Carried(HeadTree, T, saved)
    BY <2>2, <2>4, <2>5, MergeCarries
  <2>9. \A f \in T : Old(f[2], count.edits)
    <3>1. ContentsOf(T) \subseteq ContentsOf(r) \cup ContentsOf(HeadTree)
      BY <2>2, NothingMadeUp DEF Good
    <3> QED BY <2>6, <3>1 DEF ContentsOf
  <2>10. "here" \in Author
    BY DEF Author
  <2> HIDE DEF T
  <2>11. M \in Manifest /\ TreeOf(M) = T
    BY <2>3, <2>7, <2>10, AppendIs
  <2>12. OldChain(M, count.edits)
    BY <2>3, <2>7, <2>9, <2>10, OldAppend
  <2>13. Carries(M, saved)
    BY <2>3, <2>7, <2>8, <2>10, CarriesAppend DEF r
  <2>14. StartApply(M, TRUE)
    BY <2>1 DEF M, T, a, r
  <2> HIDE DEF M
  <2> QED BY <1>1, <2>7, <2>8, <2>11, <2>12, <2>13, <2>14, StartApplySaved
<1> QED BY <1>2, <1>3

LEMMA CheckSaved ==
  ASSUME TypeInv, SavedInv, NEW n \in proc.todo, Check(n) \/ Stop(n)
  PROVE  SavedInv'
<1> USE DEF At
<1>1. /\ UNCHANGED << disk, head, remoteHead, saved, count >> /\ proc.pc = "apply"
      /\ HeadTree' = HeadTree
  BY DEF Check, Stop, HeadTree
<1>2. CASE Stop(n)
  BY <1>1, <1>2, SavedIdle DEF Stop
<1>3. CASE Check(n)
  <2>1. proc' = [proc EXCEPT !.pc = "unlink", !.path = n] /\ Due(n) /\ Matches(n)
    BY <1>3 DEF Check
  <2>2. /\ proc'.pc = "unlink" /\ proc'.path = n /\ proc'.snap = proc.snap
        /\ proc'.target = proc.target /\ proc'.todo = proc.todo
    BY <2>1, TreeTypes DEF Process
  <2>3. \A M \in {head', remoteHead', proc'.target} :
          OldChain(M, count'.edits) /\ Carries(M, saved')
    BY <1>1, <2>2, HistoryNow
  <2>4. saved \subseteq ContentsOf(disk) /\ Carried(HeadTree, disk, saved)
    BY <1>1 DEF SavedInv
  <2>5. \A c \in saved' \cup ContentsOf(disk') \cup ContentsOf(proc'.snap) : Old(c, count'.edits)
    BY <1>1, <2>2, OldSame
  <2>6. /\ Carried(HeadTree, TreeOf(proc.target), saved)
        /\ Kept({f \in TreeOf(proc.target) : f[1] \notin proc.todo}, disk, saved)
    BY <1>1 DEF SavedInv, ApplyInv, Applying
  <2>7. /\ n \in proc.todo /\ \A m \in proc.todo : ~ Sooner(m, n)
        /\ Version(disk, n) = Version(HeadTree, n)
    BY <2>1 DEF Due, Matches, Was
  <2> QED BY <1>1, <2>2, <2>3, <2>4, <2>5, <2>6, <2>7, SavedNext
<1> QED BY <1>2, <1>3

\* A version whose file is removed is in the folder under the name of a later copy,
\* which was placed before.
LEMMA Unlinked ==
  ASSUME CopiesFirst, TypeInv, SavedInv, proc.pc = "unlink", NEW f \in disk, f[2] \in saved
  PROVE  \E g \in Drop(disk, proc.path) : g[2] = f[2] /\ Later(g[1], f[1])
<1> USE DEF At
<1> DEFINE p == proc.path
           T == TreeOf(proc.target)
<1>1. CASE f[1] # p
  BY <1>1 DEF Drop, Later
<1>2. CASE f[1] = p
  <2>1. /\ p \in proc.todo /\ \A m \in proc.todo : ~ Sooner(m, p)
        /\ Version(disk, p) = Version(HeadTree, p)
    BY DEF SavedInv, ApplyInv, Due, Was
  <2>2. Carried(HeadTree, T, saved) /\ Kept({g \in T : g[1] \notin proc.todo}, disk, saved)
    BY DEF SavedInv, ApplyInv, Applying
  <2>3. /\ HeadTree \in Trees /\ OneEach(HeadTree) /\ T \in Trees /\ OneEach(T)
        /\ p \in Differing(HeadTree, T)
    BY <2>1, TreeTypes DEF TypeInv, ProcInv, HasTarget, Applying
  <2>4. f[2] \in Version(HeadTree, p)
    BY <1>2, <2>1 DEF Version
  <2>5. << p, f[2] >> \in HeadTree /\ p \in FileName
    BY <2>3, <2>4, VersionOne, VersionIs
  <2>6. << p, f[2] >>[1] = p /\ << p, f[2] >>[2] = f[2]
    OBVIOUS
  <2>7. PICK g \in T : g[2] = f[2] /\ Later(g[1], p)
    BY <2>2, <2>5, <2>6 DEF Carried
  <2>8. g[1] \in FileName /\ g = << g[1], g[2] >>
    BY <2>3, FileType
  <2>9. g[1] # p
    <3> SUFFICES ASSUME g[1] = p PROVE FALSE
      OBVIOUS
    <3>1. f[2] \in Version(T, p)
      BY <2>3, <2>7, <2>8, VersionIs
    <3>2. Version(T, p) = {f[2]} /\ Version(HeadTree, p) = {f[2]}
      BY <2>3, <2>4, <3>1, VersionOne
    <3> QED BY <2>3, <3>2 DEF Differing
  <2>10. g[1][1] = p[1] /\ Len(g[1][2]) > Len(p[2])
    BY <2>7, <2>9 DEF Later
  <2>11. Sooner(g[1], p)
    <3>1. g[1][1] \in Extension
      BY <2>8, NameType DEF CopiesFirst
    <3> QED BY <2>10, <3>1 DEF Sooner
  <2>12. g[1] \notin proc.todo
    BY <2>1, <2>11
  <2>13. g \in disk
    BY <2>2, <2>7, <2>12 DEF Kept
  <2> QED BY <1>2, <2>7, <2>9, <2>13 DEF Drop
<1> QED BY <1>1, <1>2
LEMMA UnlinkSaved ==
  ASSUME CopiesFirst, TypeInv, SavedInv, Unlink
  PROVE  SavedInv'
<1> USE DEF At
<1> DEFINE p == proc.path
           T == TreeOf(proc.target)
<1>1. /\ UNCHANGED << head, remoteHead, saved, count >> /\ proc.pc = "unlink"
      /\ HeadTree' = HeadTree /\ disk' = Drop(disk, p)
  BY DEF Unlink, HeadTree
<1>2. /\ proc'.snap = proc.snap /\ proc'.target = proc.target
      /\ \/ proc'.pc = "place" /\ proc'.path = p /\ proc'.todo = proc.todo
         \/ proc'.pc = "apply" /\ proc'.todo = proc.todo \ {p} /\ Want(p) = {}
  <2>1. CASE Want(p) = {}
    <3>1. proc' = [proc EXCEPT !.pc = "apply", !.todo = @ \ {p}, !.path = NoName]
      BY <2>1 DEF Unlink, Done
    <3> QED BY <2>1, <3>1, TreeTypes DEF Process
  <2>2. CASE Want(p) # {}
    <3>1. proc' = [proc EXCEPT !.pc = "place"]
      BY <2>2 DEF Unlink, Goto
    <3> QED BY <3>1, TreeTypes DEF Process
  <2> QED BY <2>1, <2>2
<1>3. Carried(disk, disk', saved)
  BY <1>1, Unlinked DEF Carried
<1>4. saved \subseteq ContentsOf(disk) /\ Carried(HeadTree, disk, saved)
  BY <1>1 DEF SavedInv
<1>5. saved' \subseteq ContentsOf(disk')
  BY <1>1, <1>3, <1>4 DEF ContentsOf, Carried
<1>6. disk' \in Trees /\ disk' \subseteq disk
  BY <1>1, TreeTypes, DropType
<1>7. Carried(HeadTree', disk', saved')
  BY <1>1, <1>3, <1>4, <1>6, TreeTypes, CarriedOn
<1>8. /\ p \in proc.todo /\ Carried(HeadTree, T, saved)
      /\ Kept({f \in T : f[1] \notin proc.todo}, disk, saved)
  BY <1>1 DEF SavedInv, ApplyInv, Due, Applying
<1>9. Kept({f \in T : f[1] \notin proc'.todo}, disk', saved)
  <2> SUFFICES ASSUME NEW f \in T, f[1] \notin proc'.todo, f[2] \in saved
               PROVE  f \in disk'
    BY DEF Kept
  <2>1. f[2] \in Want(f[1])
    BY DEF Want, Version
  <2>2. f[1] # p /\ f[1] \notin proc.todo
    BY <1>2, <1>8, <2>1
  <2>3. f \in disk
    BY <1>8, <2>2 DEF Kept
  <2> QED BY <1>1, <2>2, <2>3 DEF Drop
<1>10. Version(disk', p) = {}
  BY <1>1, DropVersion
<1>11. \A M \in {head', remoteHead', proc'.target} :
         OldChain(M, count'.edits) /\ Carries(M, saved')
  BY <1>1, <1>2, HistoryNow
<1>12. \A c \in saved' \cup ContentsOf(disk') \cup ContentsOf(proc'.snap) : Old(c, count'.edits)
  BY <1>1, <1>2, <1>6 DEF SavedInv, OldInv, ContentsOf
<1> QED BY <1>1, <1>2, <1>5, <1>7, <1>8, <1>9, <1>10, <1>11, <1>12, SavedNext

LEMMA PlaceSaved ==
  ASSUME NoDirectories, TypeInv, SavedInv, Place
  PROVE  SavedInv'
<1> USE DEF At
<1> DEFINE p == proc.path
           T == TreeOf(proc.target)
<1>1. /\ UNCHANGED << head, remoteHead, saved, count >> /\ proc.pc = "place"
      /\ HeadTree' = HeadTree
  BY DEF Place, HeadTree
<1>2. PICK c \in Want(p) : disk' = Put(disk, p, c)
  BY DEF Place
<1>3. /\ proc'.snap = proc.snap /\ proc'.target = proc.target
      /\ proc'.pc = "apply" /\ proc'.todo = proc.todo \ {p}
  <2>1. proc' = [proc EXCEPT !.pc = "apply", !.todo = @ \ {p}, !.path = NoName]
    BY DEF Place, Done
  <2> QED BY <2>1, TreeTypes DEF Process
<1>4. /\ Version(disk, p) = {} /\ Carried(HeadTree, T, saved)
      /\ Kept({f \in T : f[1] \notin proc.todo}, disk, saved)
      /\ saved \subseteq ContentsOf(disk) /\ Carried(HeadTree, disk, saved)
  BY <1>1 DEF SavedInv, ApplyInv, Applying
<1>5. disk' = disk \cup {<< p, c >>}
  <2>1. disk' = Drop(disk, p) \cup {<< p, c >>}
    BY <1>2, PutIs
  <2>2. Drop(disk, p) = disk
    BY <1>4 DEF Drop, Version
  <2> QED BY <2>1, <2>2
<1>6. HasTarget /\ proc.target # NoManifest /\ T \in Trees
  BY <1>1, TreeTypes DEF HasTarget, Applying, TypeInv, ProcInv
<1>7. Want(p) = {c} /\ << p, c >> \in T
  BY <1>2, <1>6, WantType, VersionIs DEF Want
<1>8. Kept({f \in T : f[1] \notin proc'.todo}, disk', saved)
  <2> SUFFICES ASSUME NEW f \in T, f[1] \notin proc'.todo, f[2] \in saved
               PROVE  f \in disk'
    BY DEF Kept
  <2>1. CASE f[1] \notin proc.todo
    BY <1>4, <1>5, <2>1 DEF Kept
  <2>2. CASE f[1] = p
    <3>1. f[2] \in Want(p) /\ f = << f[1], f[2] >>
      BY <1>6, <2>2, FileType DEF Want, Version
    <3> QED BY <1>5, <1>7, <2>2, <3>1
  <2> QED BY <1>3, <2>1, <2>2
<1>9. \A M \in {head', remoteHead', proc'.target} :
        OldChain(M, count'.edits) /\ Carries(M, saved')
  BY <1>1, <1>3, HistoryNow
<1>10. \A x \in saved' \cup ContentsOf(disk') \cup ContentsOf(proc'.snap) : Old(x, count'.edits)
  <2>1. Old(c, count.edits)
    <3>1. << p, c >>[2] = c
      OBVIOUS
    <3> QED BY <1>6, <1>7, <3>1, HistoryNow
  <2>2. \A f \in disk' : f \in disk \/ f[2] = c
    BY <1>5
  <2> QED BY <1>1, <1>3, <2>1, <2>2 DEF SavedInv, OldInv, ContentsOf
<1>11. saved' \subseteq ContentsOf(disk') /\ Carried(HeadTree', disk', saved')
  BY <1>1, <1>4, <1>5 DEF ContentsOf, Carried
<1> QED BY <1>1, <1>3, <1>4, <1>8, <1>9, <1>10, <1>11, SavedNext

LEMMA EndApplySaved ==
  ASSUME TypeInv, SavedInv, EndApply \/ Push
  PROVE  SavedInv'
<1> USE DEF At
<1> DEFINE T == TreeOf(proc.target)
<1>1. /\ UNCHANGED << disk, saved, count >>
      /\ head' \in {head, proc.target} /\ remoteHead' \in {remoteHead, proc.target}
  BY DEF EndApply, Push
<1>2. /\ proc'.pc \in {"idle", "push"}
      /\ proc'.target \in {NoManifest, proc.target} /\ proc'.snap \in {{}, proc.snap}
  <2>1. proc' = Idle \/ proc' = [proc EXCEPT !.pc = "push"]
    BY DEF EndApply, Push, Applied, Goto
  <2> QED BY <2>1, IdleIs, TreeTypes DEF Process
<1>3. OldChain(NoManifest, count.edits) /\ Carries(NoManifest, saved)
  <2>1. 1 .. Len(NoManifest) = {}
    BY DEF NoManifest
  <2> QED BY <2>1, CarriesNone DEF OldChain
<1>4. \A M \in {head', remoteHead', proc'.target} :
        OldChain(M, count'.edits) /\ Carries(M, saved')
  BY <1>1, <1>2, <1>3, HistoryNow
<1>5. \A x \in saved' \cup ContentsOf(disk') \cup ContentsOf(proc'.snap) : Old(x, count'.edits)
  BY <1>1, <1>2 DEF SavedInv, OldInv, ContentsOf
<1>6. saved' \subseteq ContentsOf(disk') /\ Carried(HeadTree', disk', saved')
  <2>1. CASE Push
    <3>1. HeadTree' = HeadTree /\ proc.pc = "push"
      BY <2>1 DEF Push, HeadTree
    <3> QED BY <1>1, <3>1 DEF SavedInv
  <2>2. CASE EndApply
    <3>1. head' = proc.target /\ proc.todo = {} /\ proc.pc \in {"apply", "replace"}
      BY <2>2 DEF EndApply, Applied
    <3>2. T \in Trees /\ proc.target # NoManifest
      BY <3>1, TreeTypes DEF HasTarget, Applying, TypeInv, ProcInv
    <3>3. HeadTree' = T
      BY <3>1, <3>2 DEF HeadTree, TreeOf
    <3>4. CASE proc.pc = "apply"
      <4>1. saved \subseteq ContentsOf(disk) /\ Kept({f \in T : f[1] \notin proc.todo}, disk, saved)
        BY <3>4 DEF SavedInv, ApplyInv, Applying
      <4>2. Kept(T, disk, saved)
        BY <3>1, <4>1 DEF Kept
      <4> QED BY <1>1, <3>3, <4>1, <4>2, KeptCarried
    <3>5. CASE proc.pc = "replace"
      <4>1. /\ saved \subseteq ContentsOf(HeadTree) /\ Carried(HeadTree, T, saved)
            /\ \A n \in FileName : Version(disk, n) = Version(T, n)
        BY <3>1, <3>5 DEF SavedInv, ApplyInv, ReplaceInv, Want
      <4>2. disk = T
        BY <3>2, <4>1, TreeTypes, SameVersions
      <4>3. saved \subseteq ContentsOf(T)
        BY <4>1 DEF ContentsOf, Carried
      <4> QED BY <1>1, <3>3, <4>2, <4>3, CarriedSelf
    <3> QED BY <3>1, <3>4, <3>5
  <2> QED BY <2>1, <2>2
<1> QED BY <1>2, <1>4, <1>5, <1>6, SavedNext

LEMMA LookSaved ==
  ASSUME TypeInv, SavedInv, Look
  PROVE  SavedInv'
<1> USE DEF At
<1> DEFINE T == TreeOf(proc.target)
<1>1. /\ UNCHANGED << disk, head, remoteHead, saved, count >> /\ proc.pc = "checkout"
      /\ HeadTree' = HeadTree
  BY DEF Look, HeadTree
<1>2. CASE proc' = Idle
  BY <1>1, <1>2, SavedIdle
<1>3. CASE proc' # Idle
  <2>1. disk = HeadTree /\ proc' = [proc EXCEPT !.pc = "replace"]
    BY <1>3 DEF Look, Goto
  <2>2. /\ proc'.pc = "replace" /\ proc'.snap = proc.snap /\ proc'.target = proc.target
        /\ proc'.todo = proc.todo
    BY <2>1, TreeTypes DEF Process
  <2>3. /\ saved \subseteq ContentsOf(disk) /\ Carried(HeadTree, T, saved)
        /\ proc.todo = Differing(HeadTree, T)
    BY <1>1 DEF SavedInv, ApplyInv, ReplaceInv
  <2>4. ASSUME NEW n \in FileName
        PROVE  Version(disk, n) = IF n \in proc.todo THEN Version(HeadTree, n) ELSE Version(T, n)
    <3>1. CASE n \in NamesOf(HeadTree) \cup NamesOf(T)
      BY <2>1, <2>3, <3>1 DEF Differing
    <3>2. CASE n \notin NamesOf(HeadTree) \cup NamesOf(T)
      <4>1. Version(HeadTree, n) = {} /\ Version(T, n) = {}
        BY <3>2, NoVersion
      <4> QED BY <2>1, <4>1
    <3> QED BY <3>1, <3>2
  <2>5. \A M \in {head', remoteHead', proc'.target} :
          OldChain(M, count'.edits) /\ Carries(M, saved')
    BY <1>1, <2>2, HistoryNow
  <2>6. \A c \in saved' \cup ContentsOf(disk') \cup ContentsOf(proc'.snap) : Old(c, count'.edits)
    BY <1>1, <2>2, OldSame
  <2> QED BY <1>1, <2>1, <2>2, <2>3, <2>4, <2>5, <2>6, SavedNext
<1> QED BY <1>2, <1>3

LEMMA ReplaceSaved ==
  ASSUME NoDirectories, TypeInv, SavedInv, NEW n \in proc.todo, Replace(n)
  PROVE  SavedInv'
<1> USE DEF At
<1> DEFINE T == TreeOf(proc.target)
<1>1. /\ UNCHANGED << head, remoteHead, saved, count >> /\ proc.pc = "replace"
      /\ HeadTree' = HeadTree /\ proc' = [proc EXCEPT !.todo = @ \ {n}]
  BY DEF Replace, HeadTree
<1>2. /\ proc'.pc = "replace" /\ proc'.snap = proc.snap /\ proc'.target = proc.target
      /\ proc'.todo = proc.todo \ {n}
  BY <1>1, TreeTypes DEF Process
<1>3. /\ saved \subseteq ContentsOf(HeadTree) /\ Carried(HeadTree, T, saved)
      /\ \A m \in FileName :
           Version(disk, m) = IF m \in proc.todo THEN Version(HeadTree, m) ELSE Version(T, m)
  BY <1>1 DEF SavedInv, ApplyInv, ReplaceInv, Was, Want
<1>4. HasTarget /\ proc.target # NoManifest /\ T \in Trees
  BY <1>1, TreeTypes DEF HasTarget, Applying, TypeInv, ProcInv
<1>5. /\ \A m : Version(disk', m) = IF m = n THEN Version(T, n) ELSE Version(disk, m)
      /\ \A f \in disk' : f \in disk \/ f \in T
  <2>1. CASE Want(n) = {}
    <3>1. disk' = Drop(disk, n) /\ Version(T, n) = {}
      BY <2>1 DEF Replace, Want
    <3>2. \A m : Version(disk', m) = IF m = n THEN {} ELSE Version(disk, m)
      BY <3>1, DropVersion
    <3> QED BY <3>1, <3>2 DEF Drop
  <2>2. CASE Want(n) # {}
    <3> DEFINE c == CHOOSE d \in Want(n) : TRUE
    <3>1. c \in Want(n) /\ disk' = Put(disk, n, c)
      BY <2>2 DEF Replace
    <3> HIDE DEF c
    <3>2. Want(n) = {c} /\ << n, c >> \in T
      BY <1>4, <3>1, WantType, VersionIs DEF Want
    <3>3. \A m : Version(disk', m) = IF m = n THEN {c} ELSE Version(disk, m)
      BY <3>1, TreeTypes, FlatPut
    <3>4. disk' = Drop(disk, n) \cup {<< n, c >>}
      BY <3>1, PutIs
    <3> QED BY <3>2, <3>3, <3>4 DEF Want, Drop
  <2> QED BY <2>1, <2>2
<1>6. \A m \in FileName :
        Version(disk', m) = IF m \in proc'.todo THEN Version(HeadTree, m) ELSE Version(T, m)
  BY <1>2, <1>3, <1>5
<1>7. \A M \in {head', remoteHead', proc'.target} :
        OldChain(M, count'.edits) /\ Carries(M, saved')
  BY <1>1, <1>2, HistoryNow
<1>8. \A x \in saved' \cup ContentsOf(disk') \cup ContentsOf(proc'.snap) : Old(x, count'.edits)
  <2>1. \A f \in T : Old(f[2], count.edits)
    BY <1>4, HistoryNow
  <2> QED BY <1>1, <1>2, <1>5, <2>1 DEF SavedInv, OldInv, ContentsOf
<1> QED BY <1>1, <1>2, <1>3, <1>6, <1>7, <1>8, SavedNext

LEMMA InitSaved == Init => SavedInv
<1> SUFFICES ASSUME Init PROVE SavedInv
  OBVIOUS
<1>1. PICK t \in SUBSET (Original \X {<< "there", 0 >>}) :
        remoteHead = << [tree |-> t, by |-> "there"] >>
  BY DEF Init
<1>2. TypeInv
  BY InitType
<1> DEFINE l == [tree |-> t, by |-> "there"]
<1>3. Len(remoteHead) = 1 /\ remoteHead[1].tree = t
  BY <1>1
<1>4. \A f \in t : f[2] = << "there", 0 >>
  OBVIOUS
<1>5. \A f : f[2] = << "there", 0 >> => Old(f[2], 0)
  <2> SUFFICES ASSUME NEW f, f[2] = << "there", 0 >> PROVE Old(f[2], 0)
    OBVIOUS
  <2>1. f[2][1] = "there"
    OBVIOUS
  <2> QED BY <2>1 DEF Old
<1>6. OldChain(remoteHead, 0) /\ OldChain(NoManifest, 0)
  <2>1. 1 .. Len(NoManifest) = {} /\ 1 .. 1 = {1}
    BY DEF NoManifest
  <2> QED BY <1>3, <1>4, <1>5, <2>1 DEF OldChain
<1>7. disk = {} \/ disk = t
  BY <1>3 DEF Init, HeadTree, TreeOf
<1>8. saved = {} /\ count.edits = 0 /\ proc.pc = "idle" /\ proc.snap = {}
      /\ proc.target = NoManifest /\ head \in {NoManifest, remoteHead}
  BY IdleIs DEF Init
<1>9. OldInv
  BY <1>4, <1>5, <1>6, <1>7, <1>8 DEF OldInv, ContentsOf
<1>10. \A s, u : Carried(s, u, saved)
  BY <1>8 DEF Carried
<1>11. \A M : Carries(M, saved)
  BY <1>10 DEF Carries
<1> QED BY <1>8, <1>9, <1>10, <1>11
        DEF SavedInv, ScanInv, ApplyInv, ReplaceInv, At, Applying

LEMMA StutterSaved ==
  ASSUME TypeInv, SavedInv, UNCHANGED vars
  PROVE  SavedInv'
<1> USE DEF At
<1>1. UNCHANGED << disk, head, remoteHead, proc, saved, count >> /\ HeadTree' = HeadTree
  BY DEF vars, HeadTree
<1>2. \A c \in saved' \cup ContentsOf(disk') \cup ContentsOf(proc'.snap) : Old(c, count'.edits)
  BY <1>1, OldSame
<1>3. \A M \in {head', remoteHead', proc'.target} :
        OldChain(M, count'.edits) /\ Carries(M, saved')
  BY <1>1, HistoryNow
<1>4. /\ proc.pc # "replace" => saved \subseteq ContentsOf(disk) /\ Carried(HeadTree, disk, saved)
      /\ proc.pc = "scan" =>
           /\ Kept(proc.snap, disk, saved)
           /\ Carried(HeadTree, proc.snap \cup {f \in disk : f[1] \in proc.todo}, saved)
      /\ proc.pc = "compare" => Kept(HeadTree, disk, saved)
  BY DEF SavedInv, ScanInv, ApplyInv
<1>5. /\ proc.pc \in {"apply", "unlink", "place", "checkout", "replace"} =>
           Carried(HeadTree, TreeOf(proc.target), saved)
      /\ proc.pc \in {"apply", "unlink", "place", "checkout"} =>
           Kept({f \in TreeOf(proc.target) : f[1] \notin proc.todo}, disk, saved)
  BY DEF SavedInv, ApplyInv, Applying
<1>6. /\ proc.pc = "unlink" =>
           /\ proc.path \in proc.todo /\ \A m \in proc.todo : ~ Sooner(m, proc.path)
           /\ Version(disk, proc.path) = Version(HeadTree, proc.path)
      /\ proc.pc = "place" => Version(disk, proc.path) = {}
      /\ proc.pc = "checkout" => proc.todo = Differing(HeadTree, TreeOf(proc.target))
      /\ proc.pc = "replace" =>
           /\ saved \subseteq ContentsOf(HeadTree)
           /\ \A n \in FileName :
                Version(disk, n) = IF n \in proc.todo THEN Version(HeadTree, n)
                                   ELSE Version(TreeOf(proc.target), n)
  BY DEF SavedInv, ApplyInv, ReplaceInv, Due, Was, Want
<1> QED BY <1>1, <1>2, <1>3, <1>4, <1>5, <1>6, SavedNext

LEMMA NextSaved ==
  ASSUME CopiesFirst, NoDirectories, TypeInv, SavedInv, [Next]_vars
  PROVE  SavedInv'
<1>1. CASE Save BY <1>1, SaveSaved
<1>2. CASE RemoteMoves BY <1>2, RemoteMovesSaved
<1>3. CASE Begin \/ BeginPull BY <1>3, BeginSaved
<1>4. CASE Snapshot BY <1>4, ScanSaved, EndScanSaved DEF Snapshot
<1>5. CASE UpToDate \/ Ahead \/ Behind BY <1>5, ComparedSaved
<1>6. CASE Diverged BY <1>6, DivergedSaved
<1>7. CASE Apply BY <1>7, CheckSaved, UnlinkSaved, PlaceSaved, EndApplySaved DEF Apply
<1>8. CASE Checkout BY <1>8, LookSaved, ReplaceSaved DEF Checkout
<1>9. CASE Push BY <1>9, EndApplySaved
<1>10. CASE Abort
  <2>1. count'.edits = count.edits
    BY <1>10 DEF Abort, TypeInv, StoreInv
  <2> QED BY <1>10, <2>1, SavedIdle DEF Abort
<1>11. CASE UNCHANGED vars BY <1>11, StutterSaved
<1> QED BY <1>1, <1>2, <1>3, <1>4, <1>5, <1>6, <1>7, <1>8, <1>9, <1>10, <1>11 DEF Next, Cycle

\* No version that the user saved is lost, with any number of edits, snapshots of
\* other devices, pulls and kills, and with copies of copies: an apply removes a
\* saved version's file only when the version is in place under the name of a
\* later copy, and a merge drops a version only where the other side, or a copy,
\* carries it on.  It rests on the order of the names (a copy sorts before its
\* original) and on no path being a file here and a directory there.
THEOREM NoSavedVersionLost ==
  ASSUME CopiesFirst, NoDirectories
  PROVE  Spec => []SavedKept
<1>1. TypeInv /\ SavedInv /\ [Next]_vars => TypeInv' /\ SavedInv'
  BY NextType, NextSaved
<1>2. SavedInv => SavedKept
  BY DEF SavedInv, ReplaceInv, SavedKept, ContentsOf
<1> QED BY <1>1, <1>2, InitType, InitSaved, PTL DEF Spec
=============================================================================
