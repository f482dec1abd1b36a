----------------------------- MODULE MCCatalog -----------------------------
(* Constants of the TLC run of Catalog. *)
EXTENDS Catalog, TLC

Version(prerelease) == [core |-> <<1, 0, 0>>, prerelease |-> prerelease]
Word(n) == [numeric |-> FALSE, rank |-> n]
Num(n) == [numeric |-> TRUE, rank |-> n]

\* 1.0.0, 1.0.0-2 and 1.0.0-rc: a release, a numeric and a word pre-release.
SomeVersions == {Version(<< >>), Version(<<Num(2)>>), Version(<<Word(1)>>)}

CatalogSymmetry == Permutations(Packs) \union Permutations(Users)
=============================================================================
