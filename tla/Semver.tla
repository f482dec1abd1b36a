------------------------------- MODULE Semver -------------------------------
(***************************************************************************)
(* The registry's version order (semver-compare.ts).  A version is a tag   *)
(* as published: a core of three numbers and a sequence of pre-release     *)
(* identifiers; what stripV and splitSemver take off it (a leading "v",    *)
(* build metadata) is not part of the model.  An identifier is numeric,    *)
(* with its value, or a word, with its place in the order of strings.      *)
(***************************************************************************)
EXTENDS Integers, Sequences, FiniteSetsExt

\* What splitSemver makes of a version.  The rank of a numeric identifier is what
\* parseInt returns, that of a word its place among the words that occur.
Ident == [numeric : BOOLEAN, rank : Int]
ParsedVersion == [core : [1..3 -> Nat], prerelease : Seq(Ident)]

CompareNat(a, b) == IF a < b THEN -1 ELSE IF a > b THEN 1 ELSE 0

\* Numbers come before words.
ComparePrereleaseIdents(a, b) ==
    IF a.numeric /\ b.numeric THEN CompareNat(a.rank, b.rank)
    ELSE IF a.numeric THEN -1 ELSE IF b.numeric THEN 1
    ELSE CompareNat(a.rank, b.rank)

\* The first place where two lists differ decides; 0 if none does.
FirstDifference(a, b) ==
    LET common == 1..(IF Len(a) < Len(b) THEN Len(a) ELSE Len(b))
        differ == {i \in common : ComparePrereleaseIdents(a[i], b[i]) # 0}
    IN  IF differ = {} THEN 0 ELSE ComparePrereleaseIdents(a[Min(differ)], b[Min(differ)])

\* A release is above its pre-releases; of two lists with a common beginning
\* the longer is above.
ComparePrereleaseLists(a, b) ==
    IF a = << >> \/ b = << >> THEN CompareNat(Len(b), Len(a))
    ELSE IF FirstDifference(a, b) # 0 THEN FirstDifference(a, b)
    ELSE CompareNat(Len(a), Len(b))

\* compareSemver: -1, 0 or 1.
CompareSemver(v, w) ==
    LET differ == {i \in 1..3 : v.core[i] # w.core[i]}
    IN  IF differ # {} THEN CompareNat(v.core[Min(differ)], w.core[Min(differ)])
        ELSE ComparePrereleaseLists(v.prerelease, w.prerelease)

\* (Mutant: the newest row.)
MaxSemverNewest(list) == 1

\* maxSemver: where the best of a non-empty list stands.  A loop keeps the
\* best so far and replaces it by what is above it.
MaxSemver(list) ==
    LET best[n \in 1..Len(list)] ==
            IF n = 1 THEN 1
            ELSE IF CompareSemver(list[n], list[best[n-1]]) > 0 THEN n ELSE best[n-1]
    IN  best[Len(list)]
=============================================================================
