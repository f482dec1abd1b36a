-------------------------- MODULE MCRegistryClient --------------------------
(* Two registries, the second with an org-visible pack; three spellings of   *)
(* their URLs; one key each.                                                 *)
EXTENDS RegistryClient
CONSTANTS w1, w2, c1, A, B, kA, kB, none
MCWriters == {w1, w2}
MCClients == {c1}
MCUrls == {A, B}
MCKeys == {kA, kB}
MCIssuedBy == [k \in MCKeys |-> IF k = kA THEN A ELSE B]
MCForms == {"a", "a/", "b"}
MCNormalUrl == [f \in MCForms |-> IF f = "b" THEN B ELSE A]
MCProject == <<"a/", "b">>
MCPrivate == {B}
(* A user of both registries with both roles, one of them with a seed. *)
MCInitialRoots == {
  [roles |-> [r \in Roles |-> [model |-> 1, seed |-> IF r = "worker" THEN 1 ELSE none]],
   registries |-> [u \in MCUrls |-> IF u = A THEN kA ELSE kB]] }
=============================================================================
