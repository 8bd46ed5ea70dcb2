------------------------------ MODULE MCFolder ------------------------------
(***************************************************************************)
(* Instances of Folder for TLC.                                            *)
(***************************************************************************)
EXTENDS Folder

CONSTANTS dir, file

\* No path is below another one, or `file` is in directory `dir`.
Flat   == {}
Nested == {<< file, dir >>}
=============================================================================
