-------------------------- MODULE FolderInvariants --------------------------
(***************************************************************************)
(* The inductive invariants behind the properties of Folder.               *)
(***************************************************************************)
EXTENDS Folder

Applying == proc.pc \in {"apply", "unlink", "place"}
HasTarget == Applying \/ At("push") \/ At("checkout") \/ At("replace")

\* A tree has one file for each name, and only copies of the merges before s.
Good(t, s) ==
  /\ t \in Trees /\ OneEach(t)
  /\ \A f \in t : /\ Len(f[1][2]) <= s
                  /\ \A k \in 1 .. Len(f[1][2]) : f[1][2][k] < s

GoodChain(M, s) == \A i \in 1 .. Len(M) : Good(M[i].tree, s)

\* The files that there are, now and in every snapshot, are trees.
StoreInv ==
  /\ Good(disk, stamp)
  /\ head \in Manifest \cup {NoManifest} /\ GoodChain(head, stamp)
  /\ remoteHead \in Manifest /\ GoodChain(remoteHead, stamp)
  /\ stamp \in Nat
  /\ saved \subseteq {"here"} \X Nat
  /\ count \in [edits : 0 .. MaxEdits, moves : 0 .. MaxMoves,
                pulls : 0 .. MaxPulls, kills : 0 .. MaxKills]

\* So is what a cycle has at hand, because no worker reads a name twice and no merge
\* gives a copy a name that is there already; and an apply has a target.
ProcInv ==
  /\ proc \in Process
  /\ Good(proc.snap, stamp) /\ GoodChain(proc.target, stamp)
  /\ At("scan") => NamesOf(proc.snap) \cap proc.todo = {}
  /\ HasTarget => proc.target # NoManifest
  /\ Applying \/ At("checkout") \/ At("replace") =>
       proc.todo \subseteq Differing(HeadTree, TreeOf(proc.target))
  /\ At("unlink") \/ At("place") => proc.path \in proc.todo

TypeInv == StoreInv /\ ProcInv

-----------------------------------------------------------------------------
(***************************************************************************)
(* Why nothing stops a cycle but the user.                                 *)
(***************************************************************************)

\* Where the user has not changed anything during this cycle, the folder is as the
\* snapshot found it, but for what the apply has done.
RestInv ==
  ~ proc.edited =>
    /\ At("scan") => \A n \in FileName \ proc.todo : Version(proc.snap, n) = Version(disk, n)
    /\ At("compare") \/ At("checkout") => disk = HeadTree
    /\ At("apply") => \A n \in proc.todo : Version(disk, n) = Was(n)
    /\ At("unlink") \/ At("place") =>
         \A n \in proc.todo \ {proc.path} : Version(disk, n) = Was(n)

-----------------------------------------------------------------------------
(***************************************************************************)
(* Why no saved version is lost, if conflict copies are applied before     *)
(* their originals and no path is a file here and a directory there.       *)
(***************************************************************************)

CopiesFirst   == Extension = Path
NoDirectories == Inside = {}

\* Name n, or that of a copy of its file.
Later(m, n) == m = n \/ (m[1] = n[1] /\ Len(m[2]) > Len(n[2]))

\* What of S is in a file of s is in t, in that file or in a copy of it.
Carried(s, t, S) == \A f \in s : f[2] \in S => \E g \in t : g[2] = f[2] /\ Later(g[1], f[1])

\* So it is from any snapshot of a history to any later one.
Carries(M, S) == \A j \in 1 .. Len(M) : \A i \in 1 .. j : Carried(M[i].tree, M[j].tree, S)

\* What of S is in a file of s, t has in that very file.
Kept(s, t, S) == \A f \in s : f[2] \in S => f \in t

\* The user's next change has a content that is nowhere yet.
Old(c, next) == c[1] = "here" => c[2] \in 0 .. next - 1
OldChain(M, next) == \A i \in 1 .. Len(M) : \A f \in M[i].tree : Old(f[2], next)

OldInv ==
  /\ \A c \in saved \cup ContentsOf(disk) \cup ContentsOf(proc.snap) : Old(c, count.edits)
  /\ \A M \in {head, remoteHead, proc.target} : OldChain(M, count.edits)

\* What the snapshot has read, and what it will still find.
ScanInv ==
  At("scan") =>
    /\ Kept(proc.snap, disk, saved)
    /\ Carried(HeadTree, proc.snap \cup {f \in disk : f[1] \in proc.todo}, saved)

\* What an apply has done so far.
ApplyInv ==
  /\ At("compare") => Kept(HeadTree, disk, saved)
  /\ Applying \/ At("checkout") \/ At("replace") => Carried(HeadTree, TreeOf(proc.target), saved)
  /\ Applying \/ At("checkout") =>
       Kept({f \in TreeOf(proc.target) : f[1] \notin proc.todo}, disk, saved)
  /\ At("unlink") => Due(proc.path) /\ Version(disk, proc.path) = Was(proc.path)
  /\ At("place") => Version(disk, proc.path) = {}

\* A pull removes before it places; what it removes is in HEAD, and in its target.
ReplaceInv ==
  /\ At("checkout") => proc.todo = Differing(HeadTree, TreeOf(proc.target))
  /\ At("replace") =>
       /\ saved \subseteq ContentsOf(HeadTree)
       /\ \A n \in FileName :
            Version(disk, n) = IF n \in proc.todo THEN Was(n) ELSE Want(n)

SavedInv ==
  /\ OldInv
  /\ \A M \in {head, remoteHead, proc.target} : Carries(M, saved)
  /\ ~ At("replace") => saved \subseteq ContentsOf(disk) /\ Carried(HeadTree, disk, saved)
  /\ ScanInv /\ ApplyInv /\ ReplaceInv
=============================================================================
