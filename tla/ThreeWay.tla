------------------------------ MODULE ThreeWay ------------------------------
(***************************************************************************)
(* The three-way merge of autoMerge (sync.go).                             *)
(*                                                                         *)
(* The files of a manifest are a set of pairs << name, content >> with one *)
(* content for a name; a content stands for the SHA of a file's bytes,     *)
(* which is all that sameFile compares.  Modes, sizes and times are left   *)
(* out: they go along with the content.                                    *)
(***************************************************************************)
CONSTANTS Name, Content,
          Copy(_, _)   \* the name of the conflict copy of a file, in a merge

Trees == SUBSET (Name \X Content)

NamesOf(t)    == {f[1] : f \in t}
ContentsOf(t) == {f[2] : f \in t}

\* What a tree has at name n: one content, or none.  sameFile compares two of them.
Version(t, n) == {f[2] : f \in {g \in t : g[1] = n}}

\* One content for every name.
OneEach(t) == \A f, g \in t : f[1] = g[1] => f[2] = g[2]

\* Both sides moved away from the ancestor a, and not to the same place.
InConflict(a, r, l, n) ==
  /\ Version(r, n) # Version(l, n)
  /\ Version(a, n) # Version(l, n)
  /\ Version(a, n) # Version(r, n)

\* The side that a name's original file is taken from: local where the remote did
\* not touch it, remote everywhere else, in conflicts too.
Taken(a, r, l, n) == IF Version(a, n) = Version(r, n) THEN Version(l, n) ELSE Version(r, n)

Originals(a, r, l) ==
  {f \in r \cup l : f[2] \in Taken(a, r, l, f[1])}

\* Mistaken Copies: the local version keeps its name.
CopiesInPlace(a, r, l, stamp) == {g \in l : InConflict(a, r, l, g[1])}

\* The local version of a conflict, if there is one, under a name of its own.
Copies(a, r, l, stamp) ==
  {<< Copy(f[1], stamp), f[2] >> : f \in {g \in l : InConflict(a, r, l, g[1])}}

\* autoMerge of local tree l into remote tree r, whose common ancestor has tree a.
AutoMerge(a, r, l, stamp) == Originals(a, r, l) \cup Copies(a, r, l, stamp)

=============================================================================
