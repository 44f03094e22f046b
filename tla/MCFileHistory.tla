--------------------------- MODULE MCFileHistory ---------------------------
(***************************************************************************)
(* Two files for TLC, alike until one is there and the other is not.       *)
(***************************************************************************)
EXTENDS FileHistory, TLC

CONSTANTS a, b

MCFile == {a, b}
Symmetry == Permutations(MCFile)
=============================================================================
