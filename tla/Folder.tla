------------------------------- MODULE Folder -------------------------------
(***************************************************************************)
(* One folder with its files, a user who saves at any time, and the cycle  *)
(* of watch (syncOnce), or a pull (cmdPull), that moves the folder between *)
(* snapshots: the part of a cycle that Sync leaves out.                    *)
(*                                                                         *)
(* The bucket is its HEAD only, and what a cycle fetches arrives at once:  *)
(* Sync is about that.  Other devices are one environment that pushes      *)
(* snapshots on top of any snapshot of the bucket's history (a push that   *)
(* lost a race for HEAD overwrites what came between).                     *)
(* A snapshot reads file by file; applyManifestSafely goes path by path,   *)
(* each path in the steps check, unlink and place; and the process may     *)
(* die, or the user save a file, anywhere in between.                      *)
(***************************************************************************)
EXTENDS Naturals, Sequences

CONSTANTS Path,        \* names that the user and other devices give to files
          Extension,   \* those of them with an extension
          Inside,      \* << p, d >>: p is a path below directory d
          MaxEdits,    \* bound: changes the user makes
          MaxMoves,    \* bound: snapshots that other devices push
          MaxPulls,    \* bound: times the user runs pull
          MaxKills     \* bound: cycles that die

ASSUME FolderAssumption ==
  Extension \subseteq Path /\ Inside \subseteq Path \X Path
ASSUME BoundsAssumption == {MaxEdits, MaxMoves, MaxPulls, MaxKills} \subseteq Nat

\* A conflict copy is named after its original and the time of the merge, and may
\* itself be copied again.  No two merges have the same time.
FileName == Path \X Seq(Nat)
Original == Path \X {<< >>}
CopyOf(n, stamp) == << n[1], Append(n[2], stamp) >>

\* Every change brings a content of its own, named by who made it and when.
Author == {"here", "there"}
Edit   == Author \X Nat

INSTANCE ThreeWay WITH Name <- FileName, Content <- Edit, Copy <- CopyOf
INSTANCE Chains WITH Blob <- FileName \X Edit, Machine <- Author

VARIABLES
  disk,        \* the files of the folder
  head,        \* .blobs/HEAD
  remoteHead,  \* HEAD of the bucket
  proc,        \* the running cycle
  stamp,       \* the time: merges so far
  saved,       \* what the user has saved and nobody has replaced since
  count        \* changes of the user and of other devices, pulls, and kills

vars == << disk, head, remoteHead, proc, stamp, saved, count >>

NoName == << >>
Idle == [pc     |-> "idle",
         pull   |-> FALSE,       \* cmdPull, not a cycle of watch
         snap   |-> {},          \* the files that the snapshot has so far
         target |-> NoManifest,  \* snapshot being applied, then pushed
         merged |-> FALSE,       \* it is a merge to push afterwards
         todo   |-> {},          \* names still to read, or to apply
         path   |-> NoName,      \* the one that is being replaced
         edited |-> FALSE]       \* the user changed a file during this cycle

Process == [pc : {"idle", "scan", "compare", "apply", "unlink", "place", "push",
                  "checkout", "replace"},
            pull : BOOLEAN, snap : Trees,
            target : Manifest \cup {NoManifest}, merged : BOOLEAN,
            todo : SUBSET FileName, path : FileName \cup {NoName}, edited : BOOLEAN]

\* The files of HEAD; a new clone has none.
HeadTree == IF head = NoManifest THEN {} ELSE TreeOf(head)

TypeOK ==
  /\ disk \in Trees /\ OneEach(disk)
  /\ head \in Manifest \cup {NoManifest} /\ OneEach(HeadTree)
  /\ remoteHead \in Manifest /\ OneEach(TreeOf(remoteHead))
  /\ proc \in Process
  /\ stamp \in Nat
  /\ saved \subseteq {"here"} \X Nat
  /\ count \in [edits : 0 .. MaxEdits, moves : 0 .. MaxMoves,
                pulls : 0 .. MaxPulls, kills : 0 .. MaxKills]

\* The bucket holds one snapshot.  The folder is in step with it, or a new clone.
Init ==
  /\ \E t \in SUBSET (Original \X {<< "there", 0 >>}) :
       remoteHead = << [tree |-> t, by |-> "there"] >>
  /\ head \in {NoManifest, remoteHead}
  /\ disk = HeadTree
  /\ proc = Idle
  /\ stamp = 0
  /\ saved = {}
  /\ count = [edits |-> 0, moves |-> 0, pulls |-> 0, kills |-> 0]

At(pc)   == proc.pc = pc
Goto(pc) == proc' = [proc EXCEPT !.pc = pc]

-----------------------------------------------------------------------------
(***************************************************************************)
(* The user, and other devices.                                            *)
(***************************************************************************)

\* File m lies below n, if n is a directory.
Below(m, n) == n[2] = << >> /\ << m[1], n[1] >> \in Inside

\* A name is a file or a directory.
Put(t, n, c) ==
  {f \in t : f[1] # n /\ ~ Below(f[1], n) /\ ~ Below(n, f[1])} \cup {<< n, c >>}
Drop(t, n) == {f \in t : f[1] # n}

\* The trees that one change of a file makes of t.
Changes(t, c) ==
  UNION {{Put(t, n, c), Drop(t, n)} : n \in NamesOf(t) \cup Original}

\* External: the user writes or deletes a file, but not the very file that is
\* being replaced, between its check and its replacement, nor while the checkout
\* of a pull replaces files without a look at each.
Save ==
  /\ count.edits < MaxEdits
  /\ ~ At("replace")
  /\ LET c == << "here", count.edits >>
     IN  \E t \in Changes(disk, c) :
           /\ t # disk
           /\ At("unlink") \/ At("place") => Version(t, proc.path) = Version(disk, proc.path)
           /\ disk' = t
           /\ saved' = (saved \ ContentsOf(disk \ t)) \cup ({c} \cap ContentsOf(t))
  /\ proc' = [proc EXCEPT !.edited = ~ At("idle")]
  /\ count' = [count EXCEPT !.edits = @ + 1]
  /\ UNCHANGED << head, remoteHead, stamp >>

\* External: another device pushes a snapshot on top of one of the bucket's.  What
\* it replaces there is no longer the user's.
RemoteMoves ==
  /\ count.moves < MaxMoves
  /\ \E i \in 1 .. Len(remoteHead) :
       LET M == Prefix(remoteHead, i)
       IN  \E t \in Changes(TreeOf(M), << "there", count.moves + 1 >>) :
             /\ t # TreeOf(M)
             /\ remoteHead' = Append(M, [tree |-> t, by |-> "there"])
             /\ saved' = saved \ ContentsOf(TreeOf(M) \ t)
  /\ count' = [count EXCEPT !.moves = @ + 1]
  /\ UNCHANGED << disk, head, proc, stamp >>

-----------------------------------------------------------------------------
(***************************************************************************)
(* A cycle: snapshot, comparison, and what follows from it.                *)
(***************************************************************************)

\* ensureTreeCommitted begins with a walk that finds the names.
Start(pull) == proc' = [Idle EXCEPT !.pc = "scan", !.pull = pull, !.todo = NamesOf(disk)]

Begin ==
  /\ At("idle")
  /\ Start(FALSE)
  /\ UNCHANGED << disk, head, remoteHead, stamp, saved, count >>

BeginPull ==
  /\ At("idle")
  /\ count.pulls < MaxPulls
  /\ Start(TRUE)
  /\ count' = [count EXCEPT !.pulls = @ + 1]
  /\ UNCHANGED << disk, head, remoteHead, stamp, saved >>

\* Eight workers read the files that the walk found.  One that is gone by then ends
\* the cycle.
Scan(n) ==
  /\ At("scan")
  /\ n \in proc.todo
  /\ proc' = IF Version(disk, n) = {} THEN Idle
             ELSE [proc EXCEPT !.snap = @ \cup ({n} \X Version(disk, n)), !.todo = @ \ {n}]
  /\ UNCHANGED << disk, head, remoteHead, stamp, saved, count >>

Scanned == At("scan") /\ proc.todo = {} /\ proc' = [proc EXCEPT !.pc = "compare", !.snap = {}]

\* Mistaken EndScan: what the user saved is not made a snapshot.
EndScanUncommitted ==
  /\ Scanned
  /\ UNCHANGED << disk, head, remoteHead, stamp, saved, count >>

\* snapshotWorkingTree: HEAD moves if the files are not HEAD's.
EndScan ==
  /\ Scanned
  /\ head' = IF proc.snap = HeadTree THEN head
             ELSE Append(head, [tree |-> proc.snap, by |-> "here"])
  /\ UNCHANGED << disk, remoteHead, stamp, saved, count >>

\* fetchManifestChain has made both chains local.
Known == Chain(head) \cup Chain(remoteHead)

Compared == UNCHANGED << disk, head, remoteHead, saved, count >>

UpToDate ==
  /\ At("compare")
  /\ head = remoteHead
  /\ proc' = Idle
  /\ Compared /\ UNCHANGED stamp

\* A pull has nothing to do then.
Ahead ==
  /\ At("compare")
  /\ head # remoteHead
  /\ IsAncestor(remoteHead, head, Known)
  /\ proc' = IF proc.pull THEN Idle ELSE [proc EXCEPT !.pc = "push", !.target = head]
  /\ Compared /\ UNCHANGED stamp

\* The names whose files differ between two trees.
Differing(s, t) == {n \in NamesOf(s) \cup NamesOf(t) : Version(s, n) # Version(t, n)}

\* On to fetchAndCheckout, or to checkoutTarget.
StartApply(M, merged) ==
  proc' = [proc EXCEPT !.pc = IF proc.pull THEN "checkout" ELSE "apply",
                       !.target = M, !.merged = merged /\ ~ proc.pull,
                       !.todo = Differing(HeadTree, TreeOf(M))]

\* Also the first catch-up of a new clone.
Behind ==
  /\ At("compare")
  /\ head # remoteHead
  /\ head = NoManifest \/ IsAncestor(head, remoteHead, Known)
  /\ StartApply(remoteHead, FALSE)
  /\ Compared /\ UNCHANGED stamp

Related == HasCommonAncestor(head, remoteHead, Known)

\* doMerge, which refuses when the user has saved since the snapshot, and when the
\* histories are unrelated.
Diverged ==
  /\ At("compare")
  /\ head # NoManifest
  /\ ~ IsAncestor(remoteHead, head, Known)
  /\ ~ IsAncestor(head, remoteHead, Known)
  /\ IF disk = HeadTree /\ Related
     THEN \E i \in CommonAncestors(head, remoteHead, Known) :
            /\ \A k \in CommonAncestors(head, remoteHead, Known) : k <= i
            /\ LET base == TreeOf(Prefix(remoteHead, i))
                   tree == AutoMerge(base, TreeOf(remoteHead), HeadTree, stamp)
               IN  StartApply(Append(remoteHead, [tree |-> tree, by |-> "here"]), TRUE)
            /\ stamp' = stamp + 1
     ELSE proc' = Idle /\ UNCHANGED stamp
  /\ Compared

-----------------------------------------------------------------------------
(***************************************************************************)
(* applyManifestSafely: from HEAD's tree to the target's, name by name.    *)
(***************************************************************************)

\* The order of sort.Strings, as far as it matters: a copy's name has " (modified
\* ..." where the original's has its extension, or its end, and a directory's name
\* begins the names of what is below it.  Other names are taken in any order.
Sooner(m, n) ==
  \/ Below(n, m)
  \/ /\ m[1] = n[1]
     /\ IF m[1] \in Extension THEN Len(m[2]) > Len(n[2]) ELSE Len(m[2]) < Len(n[2])

Due(n) == n \in proc.todo /\ \A m \in proc.todo : ~ Sooner(m, n)

Was(n)  == Version(HeadTree, n)
Want(n) == Version(TreeOf(proc.target), n)

\* diskMatches: what is at n is n's file in HEAD, or nothing if it has none.  A
\* directory at n never matches, and below a file the look itself fails.
Matches(n) ==
  /\ Version(disk, n) = Was(n)
  /\ \A m \in NamesOf(disk) : ~ Below(m, n) /\ ~ Below(n, m)

Check(n) ==
  /\ At("apply")
  /\ Due(n)
  /\ Matches(n)
  /\ proc' = [proc EXCEPT !.pc = "unlink", !.path = n]
  /\ UNCHANGED << disk, head, remoteHead, stamp, saved, count >>

\* errLocalEditsDuringSync: the cycle ends, HEAD stays.
Stop(n) ==
  /\ At("apply")
  /\ Due(n)
  /\ ~ Matches(n)
  /\ proc' = Idle
  /\ UNCHANGED << disk, head, remoteHead, stamp, saved, count >>

Done(p, n) == [p EXCEPT !.pc = "apply", !.todo = @ \ {n}, !.path = NoName]

\* The old file goes; a file of the target is placed in a step of its own.
Unlink ==
  /\ At("unlink")
  /\ disk' = Drop(disk, proc.path)
  /\ IF Want(proc.path) = {} THEN proc' = Done(proc, proc.path) ELSE Goto("place")
  /\ UNCHANGED << head, remoteHead, stamp, saved, count >>

Place ==
  /\ At("place")
  /\ \E c \in Want(proc.path) : disk' = Put(disk, proc.path, c)
  /\ proc' = Done(proc, proc.path)
  /\ UNCHANGED << head, remoteHead, stamp, saved, count >>

\* Mistaken Look: "technically redundant", as the snapshot was just taken.
LookForced ==
  /\ At("checkout")
  /\ Goto("replace")
  /\ UNCHANGED << disk, head, remoteHead, stamp, saved, count >>

\* checkoutTarget without force: refused if there are uncommitted changes.
Look ==
  /\ At("checkout")
  /\ IF disk = HeadTree THEN Goto("replace") ELSE proc' = Idle
  /\ UNCHANGED << disk, head, remoteHead, stamp, saved, count >>

\* What the target does not have goes first, then its files are placed in order.
Replace(n) ==
  /\ At("replace")
  /\ n \in proc.todo
  /\ Want(n) # {} => Due(n) /\ \A m \in proc.todo : Want(m) # {}
  /\ disk' = IF Want(n) = {} THEN Drop(disk, n) ELSE Put(disk, n, CHOOSE c \in Want(n) : TRUE)
  /\ proc' = [proc EXCEPT !.todo = @ \ {n}]
  /\ UNCHANGED << head, remoteHead, stamp, saved, count >>

Applied ==
  /\ At("apply") \/ At("replace")
  /\ proc.todo = {}
  /\ IF proc.merged THEN Goto("push") ELSE proc' = Idle

\* Mistaken EndApply: HEAD stays.
EndApplyNoHead ==
  /\ Applied
  /\ UNCHANGED << disk, head, remoteHead, stamp, saved, count >>

\* Every name is done: HEAD moves, and watch pushes a merge.
EndApply ==
  /\ Applied
  /\ head' = proc.target
  /\ UNCHANGED << disk, remoteHead, stamp, saved, count >>

\* uploadManifestChainAndSetHead: the later of two pushes wins.
Push ==
  /\ At("push")
  /\ remoteHead' = proc.target
  /\ proc' = Idle
  /\ UNCHANGED << disk, head, stamp, saved, count >>

\* The process dies, or a request or a file operation fails, but not while a pull
\* replaces files: it removes all that has to go before it places anything, the local
\* version of a conflict before its copy, and does not keep SavedKept if it dies there.
Abort ==
  /\ ~ At("idle") /\ ~ At("replace")
  /\ count.kills < MaxKills
  /\ proc' = Idle
  /\ count' = [count EXCEPT !.kills = @ + 1]
  /\ UNCHANGED << disk, head, remoteHead, stamp, saved >>

-----------------------------------------------------------------------------
Snapshot == (\E n \in proc.todo : Scan(n)) \/ EndScan
Apply    == (\E n \in proc.todo : Check(n) \/ Stop(n)) \/ Unlink \/ Place \/ EndApply
Checkout == Look \/ \E n \in proc.todo : Replace(n)

Cycle == \/ Begin \/ Snapshot
         \/ UpToDate \/ Ahead \/ Behind \/ Diverged
         \/ Apply \/ Checkout \/ Push

Next == Save \/ RemoteMoves \/ BeginPull \/ Cycle \/ Abort

\* The poll ticker of cmdWatch keeps starting cycles, and a cycle runs to its end.
\* Nothing obliges the user, the other devices or a failure.
Spec == Init /\ [][Next]_vars /\ WF_vars(Cycle)

-----------------------------------------------------------------------------
(***************************************************************************)
(* Properties.                                                             *)
(***************************************************************************)

\* A version that the user saved, and that neither the user nor another device
\* has replaced, is in the folder or in the snapshot that HEAD names, so that the
\* next cycle carries it on: applyManifestSafely overwrites nothing that a
\* snapshot does not hold, and autoMerge keeps both versions of a conflict, also
\* when a cycle stops or dies between two paths.  checkoutTarget of a pull looks
\* first, and keeps them too.
SavedKept == saved \subseteq ContentsOf(disk \cup HeadTree)

\* Conflicts keep both versions: what SavedKept says, but a version may also be in
\* an older snapshot, of HEAD's chain or of the bucket's.
ConflictsKeepBoth ==
  saved \subseteq ContentsOf(disk \cup Files(Chain(head) \cup Chain(remoteHead)))

\* applyManifestSafely stops with errLocalEditsDuringSync, and the cycle ends with
\* paths left to do, only when the user did change a file during that cycle.
StopsOnlyForEdits ==
  [][proc.pc = "apply" /\ proc.todo # {} /\ proc'.pc = "idle" /\ count' = count
       => proc.edited]_vars

\* When users, devices and failures rest, the cycles of watch (syncOnce) bring the
\* folder, HEAD and the bucket to the same snapshot, from any half-applied state and
\* from any point at which a pull left off, unless a first sync was disturbed: what is
\* in the folder then becomes a root of its own (the ELSE of Diverged, for ever).
Settled == head = remoteHead /\ disk = HeadTree
Settles == <>[](Settled \/ (head # NoManifest /\ ~ Related))
=============================================================================
