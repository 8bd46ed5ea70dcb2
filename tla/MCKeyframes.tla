---------------------------- MODULE MCKeyframes ----------------------------
(***************************************************************************)
(* Instances of Keyframes for TLC.                                         *)
(***************************************************************************)
EXTENDS Keyframes, TLC

CONSTANTS a, b, x, y

\* Snapshots of two kinds that are no small delta of one another.
TwoTrees == {{x}, {y}}

\* Machines differ in nothing but their name, and so do contents.
Alike == Permutations({a, b}) \cup Permutations({x, y})
=============================================================================
