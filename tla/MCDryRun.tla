------------------------------ MODULE MCDryRun ------------------------------
(* Constants of the TLC runs of DryRun. *)
EXTENDS DryRun, TLC

\* Paths and bytes are compared only for equality.
FileSymmetry == Permutations(Paths) \union Permutations(Bytes)
=============================================================================
