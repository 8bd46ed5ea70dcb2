------------------------------- MODULE Delta -------------------------------
(***************************************************************************)
(* The list of files of a manifest as a delta, the changes from another    *)
(* manifest, and what a reader rebuilds from it (delta.go).  A list is a   *)
(* function from the paths that it has to their entries.                   *)
(***************************************************************************)
CONSTANTS Path, Sha, Size, Time, Mode

\* ManifestFile.  Nothing else is stored of a file.
Entry == [sha : Sha, size : Size, updatedAt : Time, mode : Mode]
Lists == UNION {[D -> Entry] : D \in SUBSET Path}

SameManifestFile(e, f) ==
  /\ e.sha = f.sha
  /\ e.size = f.size
  /\ e.updatedAt = f.updatedAt
  /\ e.mode = f.mode

\* The entries that base does not have, and the paths of base that m does not.
MakeDelta(base, m) ==
  [set |-> [p \in {q \in DOMAIN m : ~ (/\ q \in DOMAIN base
                                       /\ SameManifestFile(base[q], m[q]))} |-> m[p]],
   del |-> DOMAIN base \ DOMAIN m]

ApplyDelta(base, d) ==
  [p \in (DOMAIN base \ d.del) \cup DOMAIN d.set |->
     IF p \in DOMAIN d.set THEN d.set[p] ELSE base[p]]

=============================================================================
