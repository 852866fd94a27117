--------------------------- MODULE MCDefinitionSync ---------------------------
(* Model-checking instance of DefinitionSync.                               *)
EXTENDS DefinitionSync, TLC

Symmetry == Permutations(Sessions)
=============================================================================
