---------------------------- MODULE MCRecipeRun ----------------------------
(* Constants of the TLC runs of RecipeRun. *)
EXTENDS RecipeRun, TLC

\* The engine compares paths and bytes only for equality.
PathSymmetry == Permutations(Paths) \union Permutations(Bytes)
=============================================================================
