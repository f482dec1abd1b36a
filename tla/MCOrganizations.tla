-------------------------- MODULE MCOrganizations --------------------------
(* Constants of the TLC run of Organizations. *)
EXTENDS Organizations, TLC

\* Handlers, ids, names and the users no publisher list names are compared only
\* for equality.
OrgSymmetry == Permutations(Packs) \union Permutations(Requests)
                 \union Permutations(OrgRequests) \union Permutations(Orgs)
                 \union Permutations(Users \ Publishers)
=============================================================================
