--------------------------- MODULE RegistryState ---------------------------
(***************************************************************************)
(* The durable state of the registry (apps/registry) that the publish      *)
(* endpoint, the ingest worker and the unpublish endpoint share: the rows  *)
(* of `packs`, `pack_versions`, `artifacts` and `screening_results` in     *)
(* PGlite, the blobs of STORAGE_DIR, and the git repositories the packs    *)
(* come from.  The operators are the SQL statements.  PGlite runs inside   *)
(* the one server process, a query at a time: a statement is one step and  *)
(* handlers interleave only where they `await`.                            *)
(***************************************************************************)
EXTENDS Integers

CONSTANTS
    Packs,          \* (scope, name) pairs that may be published
    Tags,           \* git tags, which are also the versions
    Sources,        \* (repo, packPath) pairs a publish body may name
    Commits,        \* commit shas
    Hashes,         \* sha256 values of packed tarballs
    None,           \* no key, no tree, no hash
    HashOf,         \* [Sources \X Commits -> Hashes]: what packTarball returns
    FirstCommit,    \* [Sources \X Tags -> Commits]: where the tags start
    OfficialPacks,  \* packs whose scope is the official org
    VerifiedPacks,  \* packs listed in REGISTRY_VERIFIED_PACKS
    Requests,       \* HTTP handlers that can be in flight at once
    Workers,        \* polling loops started in the server process
    MaxSubmits,     \* bound: requests received
    MaxTagMoves,    \* bound: force-moves of a tag (0 = tags are immutable)
    MaxCrashes,     \* bound: kills of the server process
    MaxFaults       \* bound: statements or writes that throw

ASSUME RegistryAssumption ==
    /\ None \notin (Packs \X Tags) \union (Sources \X Commits) \union Hashes
    /\ HashOf \in [Sources \X Commits -> Hashes]
    /\ FirstCommit \in [Sources \X Tags -> Commits]
    /\ OfficialPacks \subseteq Packs
    /\ VerifiedPacks \subseteq Packs
    /\ {MaxSubmits, MaxTagMoves, MaxCrashes, MaxFaults} \subseteq Nat

VARIABLES
    pack,       \* rows of `packs`, by (scope, name)
    version,    \* rows of `pack_versions` with their artifacts and verdict
    older,      \* pairs of pending rows <<a, b>>: a.updated_at < b.updated_at
    stale,      \* ingesting rows whose updated_at is past the sweep threshold
    blob,       \* files of STORAGE_DIR, by hash
    tagCommit,  \* where the tags of the git repositories point now
    used        \* how much of each bound has been spent

dbVars == <<pack, version, older, stale, blob>>
storeVars == <<dbVars, tagCommit, used>>
-----------------------------------------------------------------------------
Keys == Packs \X Tags
Trees == Sources \X Commits

Visibilities == {"org", "public"}
CommunityTiers == {"community-unverified", "community-screened"}
Tiers == CommunityTiers \union {"official", "verified"}
Verdicts == {"screened", "unverified", "failed"}
Statuses == {"pending", "ingesting", "ready", "failed"}

\* `gen` stands for the row's uuid: every INSERT of the pack takes the next
\* one, so it stays in the model after the row is deleted.
PackRow == [state : {"none", "live", "removed"},
            gen : Nat,
            visibility : Visibilities,
            tier : Tiers]

NoPack(gen) == [state |-> "none", gen |-> gen, visibility |-> "public",
                tier |-> "community-unverified"]

\* A version row: `tree` is (manifest._publish, commit_sha).  `recorded` is a
\* history variable: the trees publishes have recorded on this row.
VersionRow == [status : Statuses \union {"none"},
               tree : Trees \union {None},
               hash : Hashes \union {None},
               artifacts : SUBSET Hashes,
               verdict : Verdicts \union {"none"},
               recorded : SUBSET Trees]

NoVersion == [status |-> "none", tree |-> None, hash |-> None,
              artifacts |-> {}, verdict |-> "none", recorded |-> {}]

Budgets == [submits : 0..MaxSubmits, moves : 0..MaxTagMoves,
            crashes : 0..MaxCrashes, faults : 0..MaxFaults]

StateTypeOK ==
    /\ pack \in [Packs -> PackRow]
    /\ version \in [Keys -> VersionRow]
    /\ older \subseteq Keys \X Keys
    /\ stale \subseteq Keys
    /\ blob \in [Hashes -> {"absent", "torn", "whole"}]
    /\ tagCommit \in [Sources \X Tags -> Commits]
    /\ used \in Budgets

StateInit ==
    /\ pack = [p \in Packs |-> NoPack(0)]
    /\ version = [k \in Keys |-> NoVersion]
    /\ older = {}
    /\ stale = {}
    /\ blob = [h \in Hashes |-> "absent"]
    /\ tagCommit = FirstCommit
    /\ used = [submits |-> 0, moves |-> 0, crashes |-> 0, faults |-> 0]
-----------------------------------------------------------------------------
PackExists(p) == pack[p].state # "none"
PackLive(p) == pack[p].state = "live"

\* The pack row with this id is still there.
SamePack(p, gen) == PackExists(p) /\ pack[p].gen = gen

\* The version row with this id is still there: it lives as long as its pack.
SameRow(k, gen) == SamePack(k[1], gen) /\ version[k].status # "none"

\* (Mutant: the clone takes the default branch, whatever it holds.)
CloneDefaultBranch(src, tag) == Commits

\* What `git clone --branch <tag>` may return for a source.
CloneAtTag(src, tag) == {tagCommit[<<src, tag>>]}

\* `used` after spending one unit of a bound: guards of the actions that the
\* environment takes a limited number of times.
Spend(what, limit) ==
    /\ used[what] < limit
    /\ used' = [used EXCEPT ![what] = @ + 1]

\* Writes `rows` to pack_versions, with updated_at = NOW() on the rows of S.
\* Rows that one statement stamps share their time.  The order is kept where
\* the code reads it: among pending rows (claim) and, against the threshold,
\* on ingesting rows (sweep).
WriteVersions(rows, S) ==
    LET pending == {k \in Keys : rows[k].status = "pending"}
    IN  /\ version' = rows
        /\ older' = {o \in pending \X pending :
                        o[1] \notin S /\ (o[2] \in S \/ o \in older)}
        /\ stale' = {k \in stale \ S : rows[k].status = "ingesting"}

\* UPDATE pack_versions SET status = 'pending', updated_at = NOW() on S.
ResetToPending(S) ==
    WriteVersions([k \in Keys |-> IF k \in S
                                    THEN [version[k] EXCEPT !.status = "pending"]
                                    ELSE version[k]],
                  S)

\* (Mutant: the foreign keys do not cascade.)
DeleteWithoutCascade(p) ==
    /\ pack' = IF pack[p].state = "removed"
                 THEN [pack EXCEPT ![p] = NoPack(pack[p].gen)] ELSE pack
    /\ UNCHANGED <<version, older, stale>>

\* DELETE of a tombstoned pack row; the foreign keys cascade to its versions,
\* artifacts and screening results.
DeleteTombstone(p) ==
    IF pack[p].state = "removed"
      THEN /\ pack' = [pack EXCEPT ![p] = NoPack(pack[p].gen)]
           /\ WriteVersions([k \in Keys |-> IF k[1] = p THEN NoVersion
                                                        ELSE version[k]], {})
      ELSE UNCHANGED <<pack, version, older, stale>>

\* (Mutant: the tier is set by the pack's name and not by its id.)
UpdateTierByName(p, gen, verdict) ==
    pack' = IF PackExists(p) /\ pack[p].tier \in CommunityTiers
              THEN [pack EXCEPT ![p].tier =
                       IF verdict = "screened" THEN "community-screened"
                                               ELSE "community-unverified"]
              ELSE pack

\* updatePackTierForVerdict: only community tiers move, and only on this row.
UpdateTier(p, gen, verdict) ==
    pack' = IF SamePack(p, gen) /\ pack[p].tier \in CommunityTiers
              THEN [pack EXCEPT ![p].tier =
                       IF verdict = "screened" THEN "community-screened"
                                               ELSE "community-unverified"]
              ELSE pack
-----------------------------------------------------------------------------
\* A maintainer force-moves a tag of a repository.
MoveTag ==
    /\ Spend("moves", MaxTagMoves)
    /\ \E s \in Sources, t \in Tags, c \in Commits :
          tagCommit' = [tagCommit EXCEPT ![<<s, t>>] = c]
    /\ UNCHANGED dbVars

\* The sweep threshold passes for a row that is still ingesting.
RowTurnsStale(k) ==
    /\ version[k].status = "ingesting"
    /\ stale' = stale \union {k}
    /\ UNCHANGED <<pack, version, older, blob, tagCommit, used>>
=============================================================================
