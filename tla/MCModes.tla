------------------------------ MODULE MCModes ------------------------------
(***************************************************************************)
(* Instances of Modes for TLC.                                             *)
(***************************************************************************)
EXTENDS Modes

CONSTANTS a, b, x, y
=============================================================================
