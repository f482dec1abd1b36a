----------------------------- MODULE MCRegistry -----------------------------
(* Constants of the TLC runs of Registry. *)
EXTENDS Registry, TLC

CONSTANTS p1, t1, t2, s1, s2, c1, c2, h1, h2, r1, r2, w1

\* Distinct commits pack to distinct bytes.
DistinctHashes == [t \in Trees |-> IF t[2] = c1 THEN h1 ELSE h2]
\* Every tag starts at one commit.
AllAtC1 == [st \in Sources \X Tags |-> c1]
\* Handlers are interchangeable.
RequestSymmetry == Permutations(Requests)
=============================================================================
