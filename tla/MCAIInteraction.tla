--------------------------- MODULE MCAIInteraction ---------------------------
(* AIInteraction on small instances; the constants are in the .cfg files.    *)
EXTENDS AIInteraction, TLC

Symmetry == Permutations(Prompts)
=============================================================================
