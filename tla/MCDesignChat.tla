---------------------------- MODULE MCDesignChat ----------------------------
(* Constants of the TLC runs of DesignChat. *)
EXTENDS DesignChat, TLC

\* Designs are compared only for equality.
DesignSymmetry == Permutations(Designs)
=============================================================================
