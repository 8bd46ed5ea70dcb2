------------------------- MODULE KeyframesInvariants -------------------------
(***************************************************************************)
(* The inductive invariants behind the properties of Keyframes.            *)
(***************************************************************************)
EXTENDS Keyframes

\* A running cycle has a target, and one that handles an object has its manifest.
Steady(p) ==
  /\ p.pc # "idle" => p.target # NoManifest
  /\ p.pc \in {"base", "note", "store", "uploaded"} => p.sha # NoManifest

TypeInv == TypeOK /\ \A m \in Machine : Steady(proc[m])

\* The manifests that the bucket has in full.
Full == {M \in Names(stored) : << M, NoManifest >> \in stored}

Pushing(m) == proc[m].pc \in {"known", "upload", "uploaded", "log", "cache"}

\* What m lists as uploaded is in the bucket, and so is what its push has done of
\* its list, which leaves nothing out that a walk from its target reaches.
Listed(m) ==
  /\ cache[m] \subseteq Names(stored)
  /\ proc[m].pc \in {"upload", "uploaded"} =>
       /\ proc[m].known \subseteq Names(stored)
       /\ proc[m].novel = LocalChain(proc[m].target, manifests[m]) \ proc[m].known
       /\ proc[m].todo \subseteq proc[m].novel
       /\ proc[m].novel \ proc[m].todo \subseteq Names(stored)
  /\ proc[m].pc \in {"log", "cache"} =>
       proc[m].known \cup proc[m].novel \subseteq Names(stored)

LogInv ==
  /\ BasesThere
  /\ UNION pushLog \subseteq Names(stored)
  /\ \A m \in Machine : Listed(m)

\* The snapshots S that the machines shared when the bucket was empty, and what
\* they knew of them: K is what they had once uploaded in full.
Shared(S, K) ==
  /\ K \subseteq S
  /\ \A M \in S : Chain(M) \subseteq S /\ (M \in K <=> NearestBase(M, K) = NoManifest)

\* Whether a manifest goes up in full depends on its ancestors alone, whoever sends
\* it; and it is sent by the machine that took it, or it was shared.
BucketForm(S, K) ==
  /\ \A M \in Names(stored) : Chain(M) \subseteq Names(stored)
  /\ \A o \in stored : o[2] = NearestBase(o[1], Full)
  /\ K \cap Names(stored) \subseteq Full
  /\ S \cap Full \subseteq K
  /\ \A M \in Names(stored) : M \in manifests[M[Len(M)].by]

\* A machine to which a manifest is local also knows whether it is full, but for the
\* moment between the arrival of either and its line in the keyframes file.
Knows(m, S, K) ==
  /\ S \subseteq manifests[m]
  /\ keyframes[m] \cap S = K
  /\ keyframes[m] \subseteq Full \cup K
  /\ \A M \in manifests[m] : M \in Names(stored) \cup S \/ M[Len(M)].by = m
  /\ \A M \in manifests[m] \cap Full :
       \/ M \in keyframes[m]
       \/ At(m, "note") /\ M = proc[m].base
       \/ At(m, "uploaded") /\ M = proc[m].sha

\* What a cycle knows of the object that it is fetching or has sent; and that the
\* chain it pushes is local.
Follows(m) ==
  /\ proc[m].pc \in {"base", "note", "store"} => << proc[m].sha, proc[m].base >> \in stored
  /\ At(m, "store") /\ proc[m].base = NoManifest => proc[m].sha \in keyframes[m]
  /\ At(m, "uploaded") => << proc[m].sha, NoManifest >> \in stored
  /\ proc[m].pc \in {"fetch", "base", "note", "store"} => remoteHead # NoManifest
  /\ remoteHead = NoManifest => Chain(head[m]) \subseteq manifests[m]
  /\ Pushing(m) => Chain(proc[m].target) \subseteq manifests[m]

UncutInv(S, K) ==
  /\ Shared(S, K)
  /\ BucketForm(S, K)
  /\ \A m \in Machine : Knows(m, S, K) /\ Follows(m)
=============================================================================
