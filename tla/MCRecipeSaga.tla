---------------------------- MODULE MCRecipeSaga ----------------------------
(* Constants of the TLC runs of RecipeSaga. *)
EXTENDS RecipeSaga

ThreeSteps == 1..3
=============================================================================
