----------------------------- MODULE Keyframes -----------------------------
(***************************************************************************)
(* The manifests of a bucket as keyframes, stored in full, and deltas      *)
(* against a keyframe, and the file .blobs/keyframes with which a machine  *)
(* remembers which manifests it knows to be full there (delta.go).         *)
(*                                                                         *)
(* This is Sync's cycle of watch seen from the manifests alone: no blobs,  *)
(* no working tree, no gc.  What Sync takes as one step, the arrival of a  *)
(* manifest or its upload, is here the files and requests it consists of,  *)
(* and the process may die, or a request fail, between any two of them.    *)
(* The machines' clocks agree: a push reads every push-log entry there is. *)
(***************************************************************************)
EXTENDS Chains

CONSTANTS Tree,        \* the trees that a snapshot may have, as sets of blobs
          MaxWalk,     \* deltaMaxWalk: how many parents are tried as a base
          MaxHistory,  \* bound: the longest history
          MaxKills     \* bound: cycles that die

ASSUME KeyframesAssumption == Tree \subseteq SUBSET Blob /\ MaxWalk \in Nat \ {0}
ASSUME BoundsAssumption == {MaxHistory, MaxKills} \subseteq Nat

VARIABLES
  manifests,   \* manifests[m]: .blobs/manifests/ of machine m
  keyframes,   \* keyframes[m]: .blobs/keyframes
  head,        \* head[m]: .blobs/HEAD
  cache,       \* cache[m]: .blobs/push-log-cache
  proc,        \* proc[m]: the running cycle
  stored,      \* the bucket's manifests/: each name with its delta's base, or
               \* with NoManifest when it is full
  remoteHead,  \* the bucket's HEAD
  pushLog,     \* the bucket's push-log/: one set of names per entry
  kills        \* cycles that have died

local  == << manifests, keyframes, head, cache >>
bucket == << stored, remoteHead, pushLog >>
vars   == << local, proc, bucket, kills >>

Optional == Manifest \cup {NoManifest}

Idle == [pc     |-> "idle",
         target |-> NoManifest,  \* manifest to fetch or to push
         sha    |-> NoManifest,  \* the one whose object is under way
         base   |-> NoManifest,  \* and its delta's base
         known  |-> {},          \* what the push-log and its cache list
         novel  |-> {},          \* what it does not list of the chain to push
         todo   |-> {}]          \* and is still to upload

Process == [pc : {"idle", "fetch", "base", "note", "store", "known", "upload",
                  "uploaded", "log", "cache"},
            target : Optional, sha : Optional, base : Optional,
            known : SUBSET Manifest, novel : SUBSET Manifest, todo : SUBSET Manifest]

Names(objects) == {o[1] : o \in objects}

TypeOK ==
  /\ manifests \in [Machine -> SUBSET Manifest]
  /\ keyframes \in [Machine -> SUBSET Manifest]
  /\ head \in [Machine -> Optional]
  /\ cache \in [Machine -> SUBSET Manifest]
  /\ proc \in [Machine -> Process]
  /\ stored \subseteq Manifest \X Optional
  /\ \A o, p \in stored : o[1] = p[1] => o = p
  /\ remoteHead \in Optional
  /\ pushLog \subseteq SUBSET Manifest
  /\ kills \in 0 .. MaxKills

\* The machines of G have the snapshots up to H and know the keyframes K; the others
\* are empty.
Folders(G, H, K) ==
  /\ manifests = [m \in Machine |-> IF m \in G THEN Chain(H) ELSE {}]
  /\ keyframes = [m \in Machine |-> IF m \in G THEN K ELSE {}]
  /\ head = [m \in Machine |-> IF m \in G THEN H ELSE NoManifest]
  /\ proc = [m \in Machine |-> Idle]
  /\ kills = 0

EmptyBucket ==
  /\ cache = [m \in Machine |-> {}]
  /\ stored = {} /\ remoteHead = NoManifest /\ pushLog = {}

\* Nobody has a snapshot yet.
Fresh == EmptyBucket /\ Folders({}, NoManifest, {})

\* A delta is much smaller than the manifest if much of the tree is the same.
Small(B, M) == TreeOf(B) \cap TreeOf(M) # {}

\* The first push, of one snapshot, is complete.
Started ==
  \E m \in Machine : \E t \in Tree :
    LET R == << [tree |-> t, by |-> m] >>
    IN  /\ Folders({m}, R, {R})
        /\ cache = [n \in Machine |-> IF n = m THEN {R} ELSE {}]
        /\ stored = {<< R, NoManifest >>} /\ remoteHead = R /\ pushLog = {{R}}

\* The machines share two snapshots and have left the bucket with these for an empty
\* one: `remote set` clears the push-log cache, but not the keyframes file.
Moved ==
  \E m \in Machine : \E s, t \in Tree :
    LET R == << [tree |-> s, by |-> m] >>
        H == Append(R, [tree |-> t, by |-> m])
    IN  /\ Folders(Machine, H, {R} \cup (IF Small(R, H) THEN {} ELSE {H}))
        /\ EmptyBucket

At(m, pc)  == proc[m].pc = pc
Goto(m, p) == proc' = [proc EXCEPT ![m] = p]
Learn(m, S)   == manifests' = [manifests EXCEPT ![m] = @ \cup S]
Note(m, M)    == keyframes' = [keyframes EXCEPT ![m] = @ \cup {M}]
SetHead(m, M) == head' = [head EXCEPT ![m] = M]

-----------------------------------------------------------------------------
(***************************************************************************)
(* A cycle: commit, comparison of the two HEADs, fetch of the chain.       *)
(***************************************************************************)

\* ensureTreeCommitted.
Commit(m) ==
  /\ At(m, "idle")
  /\ Len(head[m]) < MaxHistory
  /\ \E t \in Tree :
       LET M == Append(head[m], [tree |-> t, by |-> m])
       IN  Learn(m, {M}) /\ SetHead(m, M)
  /\ UNCHANGED << keyframes, cache, proc, bucket, kills >>

\* syncOnce: an empty bucket is pushed to, another HEAD is fetched.
Compare(m) ==
  /\ At(m, "idle")
  /\ remoteHead # head[m]
  /\ Goto(m, IF remoteHead = NoManifest
             THEN [Idle EXCEPT !.pc = "known", !.target = head[m]]
             ELSE [Idle EXCEPT !.pc = "fetch", !.target = remoteHead])
  /\ UNCHANGED << local, bucket, kills >>

\* The manifests to fetch, as their lengths: what is missing of the whole chain, but
\* with an empty HEAD the target alone.
Wanted(m) ==
  {i \in MissingFrom(proc[m].target, manifests[m]) :
     head[m] = NoManifest => i = Len(proc[m].target)}

\* downloadManifestObject: the object of the youngest arrives.  It is always there
\* (HeadComplete and NoDanglingParent of Sync).
Look(m) ==
  /\ At(m, "fetch")
  /\ \E i \in Wanted(m) : \E o \in stored :
       /\ \A k \in Wanted(m) : k <= i
       /\ o[1] = Prefix(proc[m].target, i)
       /\ Goto(m, [proc[m] EXCEPT
                     !.pc = IF o[2] \in manifests[m] \cup {NoManifest} THEN "note" ELSE "base",
                     !.sha = o[1], !.base = o[2]])
  /\ UNCHANGED << local, bucket, kills >>

\* The base of a delta is not local: it is stored first.  If it is a delta itself,
\* the cycle fails.
FetchBase(m) ==
  /\ At(m, "base")
  /\ IF << proc[m].base, NoManifest >> \in stored
     THEN Learn(m, {proc[m].base}) /\ Goto(m, [proc[m] EXCEPT !.pc = "note"])
     ELSE Goto(m, Idle) /\ UNCHANGED manifests
  /\ UNCHANGED << keyframes, head, cache, bucket, kills >>

\* Mistaken NoteArrival: a full manifest has no base to note.
NoteArrivalBase(m) ==
  /\ At(m, "note")
  /\ Note(m, proc[m].base)
  /\ Goto(m, [proc[m] EXCEPT !.pc = "store"])
  /\ UNCHANGED << manifests, head, cache, bucket, kills >>

\* addKeyframe, of the base or of the full manifest.
NoteArrival(m) ==
  /\ At(m, "note")
  /\ Note(m, IF proc[m].base = NoManifest THEN proc[m].sha ELSE proc[m].base)
  /\ Goto(m, [proc[m] EXCEPT !.pc = "store"])
  /\ UNCHANGED << manifests, head, cache, bucket, kills >>

StoreManifest(m) ==
  /\ At(m, "store")
  /\ Learn(m, {proc[m].sha})
  /\ Goto(m, [proc[m] EXCEPT !.pc = "fetch"])
  /\ UNCHANGED << keyframes, head, cache, bucket, kills >>

Fetched(m) == At(m, "fetch") /\ Wanted(m) = {}

Ahead(m) ==
  /\ Fetched(m)
  /\ head[m] # NoManifest /\ IsAncestor(proc[m].target, head[m], manifests[m])
  /\ Goto(m, [Idle EXCEPT !.pc = "known", !.target = head[m]])
  /\ UNCHANGED << local, bucket, kills >>

\* Fast-forward, or the first catch-up of an empty folder.
Behind(m) ==
  /\ Fetched(m)
  /\ head[m] = NoManifest \/ IsAncestor(head[m], proc[m].target, manifests[m])
  /\ SetHead(m, proc[m].target)
  /\ Goto(m, Idle)
  /\ UNCHANGED << manifests, keyframes, cache, bucket, kills >>

\* doMerge, checkout and push; unrelated histories end the cycle.
Diverged(m) ==
  /\ Fetched(m)
  /\ head[m] # NoManifest
  /\ ~ IsAncestor(proc[m].target, head[m], manifests[m])
  /\ ~ IsAncestor(head[m], proc[m].target, manifests[m])
  /\ IF HasCommonAncestor(head[m], proc[m].target, manifests[m])
     THEN /\ Len(proc[m].target) < MaxHistory
          /\ \E t \in Tree :
               LET M == Append(proc[m].target, [tree |-> t, by |-> m])
               IN  /\ Learn(m, {M}) /\ SetHead(m, M)
                   /\ Goto(m, [Idle EXCEPT !.pc = "known", !.target = M])
     ELSE Goto(m, Idle) /\ UNCHANGED << manifests, head >>
  /\ UNCHANGED << keyframes, cache, bucket, kills >>

-----------------------------------------------------------------------------
(***************************************************************************)
(* uploadManifestChainAndSetHead, and the form of each manifest.           *)
(***************************************************************************)

\* fetchKnownRemoteSHAs: without a push-log and a cache, what the bucket holds.
Known(m) ==
  IF pushLog = {} /\ cache[m] = {} THEN Names(stored) ELSE cache[m] \cup UNION pushLog

ReadKnown(m) ==
  /\ At(m, "known")
  /\ LET novel == LocalChain(proc[m].target, manifests[m]) \ Known(m)
     IN  Goto(m, [proc[m] EXCEPT !.pc = "upload", !.known = Known(m),
                                 !.novel = novel, !.todo = novel])
  /\ UNCHANGED << local, bucket, kills >>

\* The ancestors of M, as their lengths, that are in K and near enough for a base.
Bases(M, K) ==
  {i \in 1 .. Len(M) - 1 : Len(M) - i <= MaxWalk /\ Prefix(M, i) \in K}

\* The nearest of them if a delta of it is small, else none.
NearestBase(M, K) ==
  LET near  == {i \in Bases(M, K) : \A k \in Bases(M, K) : k <= i}
      small == {Prefix(M, i) : i \in {k \in near : Small(Prefix(M, k), M)}}
  IN  IF small = {} THEN NoManifest ELSE CHOOSE B \in small : TRUE

\* Mistaken UploadBase: the nearest ancestor, keyframe or not.
ParentBase(m, M) ==
  IF Len(M) > 1 /\ Prefix(M, Len(M) - 1) \in manifests[m]
     /\ Small(Prefix(M, Len(M) - 1), M)
  THEN Prefix(M, Len(M) - 1) ELSE NoManifest

\* manifestUploadForm: a delta of the nearest manifest of the keyframes file that the
\* walk over the local manifests reaches, if that is small, else full.
UploadBase(m, M) ==
  NearestBase(M, keyframes[m] \cap LocalChain(M, manifests[m] \cup {M}))

\* Mistaken Upload: newest first.
UploadNewest(m) ==
  /\ At(m, "upload")
  /\ \E M \in proc[m].todo :
       /\ \A N \in proc[m].todo : Len(M) >= Len(N)
       /\ LET base == UploadBase(m, M)
          IN  /\ stored' = {o \in stored : o[1] # M} \cup {<< M, base >>}
              /\ Goto(m, [proc[m] EXCEPT !.pc = IF base = NoManifest THEN "uploaded" ELSE @,
                                         !.sha = M, !.todo = @ \ {M}])
  /\ UNCHANGED << local, remoteHead, pushLog, kills >>

\* Mistaken Upload: whatever was uploaded is noted.
UploadNoted(m) ==
  /\ At(m, "upload")
  /\ \E M \in proc[m].todo :
       /\ \A N \in proc[m].todo : Len(M) <= Len(N)
       /\ stored' = {o \in stored : o[1] # M} \cup {<< M, UploadBase(m, M) >>}
       /\ Goto(m, [proc[m] EXCEPT !.pc = "uploaded", !.sha = M, !.todo = @ \ {M}])
  /\ UNCHANGED << local, remoteHead, pushLog, kills >>

\* uploadManifest, oldest first; a full one is then noted.
Upload(m) ==
  /\ At(m, "upload")
  /\ \E M \in proc[m].todo :
       /\ \A N \in proc[m].todo : Len(M) <= Len(N)
       /\ LET base == UploadBase(m, M)
          IN  /\ stored' = {o \in stored : o[1] # M} \cup {<< M, base >>}
              /\ Goto(m, [proc[m] EXCEPT !.pc = IF base = NoManifest THEN "uploaded" ELSE @,
                                         !.sha = M, !.todo = @ \ {M}])
  /\ UNCHANGED << local, remoteHead, pushLog, kills >>

NoteUpload(m) ==
  /\ At(m, "uploaded")
  /\ Note(m, proc[m].sha)
  /\ Goto(m, [proc[m] EXCEPT !.pc = "upload"])
  /\ UNCHANGED << manifests, head, cache, bucket, kills >>

\* writeRemoteHead: the later of two pushes wins.  An entry lists what was novel.
WriteRemoteHead(m) ==
  /\ At(m, "upload")
  /\ proc[m].todo = {}
  /\ remoteHead' = proc[m].target
  /\ Goto(m, [proc[m] EXCEPT !.pc = IF proc[m].novel = {} THEN "cache" ELSE "log"])
  /\ UNCHANGED << local, stored, pushLog, kills >>

WriteLog(m) ==
  /\ At(m, "log")
  /\ pushLog' = pushLog \cup {proc[m].novel}
  /\ Goto(m, [proc[m] EXCEPT !.pc = "cache"])
  /\ UNCHANGED << local, stored, remoteHead, kills >>

\* The cache is written only when there was an entry to read or to write.
WriteCache(m) ==
  /\ At(m, "cache")
  /\ cache' = [cache EXCEPT ![m] =
                 IF pushLog = {} THEN @ ELSE proc[m].known \cup proc[m].novel]
  /\ Goto(m, Idle)
  /\ UNCHANGED << manifests, keyframes, head, bucket, kills >>

\* The process dies, or a request or a file operation fails.
Kill(m) ==
  /\ ~ At(m, "idle")
  /\ kills < MaxKills
  /\ kills' = kills + 1
  /\ Goto(m, Idle)
  /\ UNCHANGED << local, bucket >>

-----------------------------------------------------------------------------
Cycle(m) ==
  \/ Commit(m) \/ Compare(m)
  \/ Look(m) \/ FetchBase(m) \/ NoteArrival(m) \/ StoreManifest(m)
  \/ Ahead(m) \/ Behind(m) \/ Diverged(m)
  \/ ReadKnown(m) \/ Upload(m) \/ NoteUpload(m)
  \/ WriteRemoteHead(m) \/ WriteLog(m) \/ WriteCache(m)

Next == \E m \in Machine : Cycle(m) \/ Kill(m)

\* From nothing; and after the first push to a bucket, or to an earlier one.
Spec       == Fresh /\ [][Next]_vars
SteadySpec == (Started \/ Moved) /\ [][Next]_vars

-----------------------------------------------------------------------------
(***************************************************************************)
(* Properties.                                                             *)
(***************************************************************************)

\* uploadManifestChainAndSetHead uploads oldest first and manifestUploadForm takes
\* an ancestor as the base, so what a delta is a delta of is in the bucket as well,
\* whichever pushes are cut: a chain of deltas always ends at a full manifest.
BasesThere ==
  \A o \in stored : o[2] \in {NoManifest} \cup ((Chain(o[1]) \ {o[1]}) \cap Names(stored))

\* A delta never refers to another delta: the base of every delta of the bucket
\* is there in full, so that a machine without it can read the delta, however
\* often a manifest is uploaded again by machines that know different keyframes.
\* It holds until a cycle is cut; that may break it, between the two steps of
\* uploadManifest.
NoDeltaOnDelta ==
  kills = 0 => \A o \in stored : o[2] = NoManifest \/ << o[2], NoManifest >> \in stored

\* What .blobs/keyframes lists is full in the bucket if the bucket has it at all, so
\* that it may be taken as a base: also when the list stems from an earlier bucket,
\* and whoever uploads a manifest again; until a cycle is cut.
KeyframesFull ==
  kills = 0 =>
    \A m \in Machine : \A o \in stored : o[1] \in keyframes[m] => o[2] = NoManifest
=============================================================================
