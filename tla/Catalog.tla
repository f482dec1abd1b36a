------------------------------ MODULE Catalog ------------------------------
(***************************************************************************)
(* The read endpoints of the registry (catalog/routes.ts).  A read is two  *)
(* to four statements with an await before each: the rows of the pack and  *)
(* the version, the caller's memberships, the rows that hang on the ids    *)
(* just read, the blobs.  Publishes, unpublishes, the ingest worker and    *)
(* changes of membership go on in between.  A reader is one request.       *)
(***************************************************************************)
EXTENDS Semver, SequencesExt

CONSTANTS
    Packs,          \* (scope, name) pairs
    Versions,       \* tags
    Users,          \* accounts; None is a caller without a credential
    Recipes,        \* recipe ids of the screened previews
    None,
    MaxRows,        \* bound: pack rows inserted
    MaxTags,        \* bound: versions published
    MaxLeaves,      \* bound: memberships ended
    MaxReads        \* bound: read requests received

ASSUME CatalogAssumption ==
    /\ None \notin Users \union Packs
    /\ Versions \subseteq ParsedVersion
    /\ {MaxRows, MaxTags, MaxLeaves, MaxReads} \subseteq Nat

VARIABLES
    row,        \* rows of packs, by pack; id is the uuid
    rows,       \* rows inserted so far
    tags,       \* versions published so far
    version,    \* rows of pack_versions of each pack row, in order of created_at
    preview,    \* (version, recipe) pairs of each pack row whose preview is shown:
                \* rendered or needs-llm, not failed or timed out
    member,     \* members of each pack's organization
    leaves,     \* memberships ended so far
    reader,     \* the request in progress
    reads,      \* requests received so far
    visible,    \* history: packs that were public, or whose organization the
                \* caller was in, at some moment of the request
    quiet       \* history: nothing has changed since the request came

dbVars == <<row, rows, tags, version, preview>>
vars == <<dbVars, member, leaves, reader, reads, visible, quiet>>

Kinds == {"list", "detail", "versions", "version", "previews", "preview", "download"}
OfVersion == {"version", "previews", "preview", "download"}
NoRow == [id |-> 0, visibility |-> "public", removed |-> FALSE]
Row(p) == row[p].id # 0

VersionsOf(id) == IF id = 0 THEN << >> ELSE version[id]
Has(id, v) == \E i \in DOMAIN VersionsOf(id) : VersionsOf(id)[i].tag = v
StatusOf(id, v) == LET all == VersionsOf(id)
                   IN IF Has(id, v) THEN all[CHOOSE i \in DOMAIN all : all[i].tag = v].status
                      ELSE "none"

\* The tags of the ready rows, in their order.
ReadyTags(id) ==
    LET all == VersionsOf(id)
        ready[n \in 0..Len(all)] ==
            IF n = 0 THEN << >>
            ELSE IF all[n].status = "ready" THEN Append(ready[n-1], all[n].tag) ELSE ready[n-1]
    IN  ready[Len(all)]

\* loadMemberSlugs, checkOrgMembership.
MemberNow(u, p) == u # None /\ u \in member[p]

Answer(status, shows) == [status |-> status, shows |-> shows]
NotFound == Answer(404, {})
Idle == [pc |-> "idle", kind |-> "list", user |-> None, pack |-> None, tag |-> None,
         recipe |-> None, id |-> 0, removed |-> FALSE, status |-> "none", slugs |-> {},
         answer |-> NotFound]
At(pc) == reader.pc = pc
Reply(a) == reader' = [reader EXCEPT !.pc = "done", !.answer = a]

\* The history of the request: what its caller could see, and whether anything
\* moved while it was served.
CallerSees == {p \in Packs : MemberNow(reader.user, p) \/ (Row(p) /\ row[p].visibility = "public")}
Watch ==
    /\ visible' = IF reader'.pc = "idle" THEN {}
                  ELSE visible \union CallerSees'
    /\ quiet' = (reader'.pc = "idle" \/ (quiet /\ <<dbVars, member>>' = <<dbVars, member>>))

\* A step of the database beside the reader, and a step of the reader.
Beside == UNCHANGED <<reader, reads>> /\ Watch
Reads == UNCHANGED <<dbVars, member, leaves, reads>> /\ Watch
-----------------------------------------------------------------------------
\* POST /v1/publish of a name that has no live row (a tombstone is deleted, and
\* what hangs on it goes with it), and of a further version.
PublishPack(p, visibility, v) ==
    /\ rows < MaxRows /\ tags < MaxTags
    /\ ~Row(p) \/ row[p].removed
    /\ rows' = rows + 1
    /\ row' = [row EXCEPT ![p] = [id |-> rows + 1, visibility |-> visibility, removed |-> FALSE]]
    /\ version' = [i \in DOMAIN version |->
                      IF i = rows + 1 THEN <<[tag |-> v, status |-> "pending"]>>
                      ELSE IF i = row[p].id THEN << >> ELSE version[i]]
    /\ preview' = [i \in DOMAIN preview |-> IF i = row[p].id THEN {} ELSE preview[i]]
    /\ tags' = tags + 1
    /\ UNCHANGED <<member, leaves>> /\ Beside

PublishVersion(p, v) ==
    /\ tags < MaxTags
    /\ Row(p) /\ ~row[p].removed /\ ~Has(row[p].id, v)
    /\ tags' = tags + 1
    /\ version' = [version EXCEPT ![row[p].id] = Append(@, [tag |-> v, status |-> "pending"])]
    /\ UNCHANGED <<row, rows, preview, member, leaves>> /\ Beside

\* The worker: markReady, with the previews to show, or markFailed.
Settle(p, v, status, shown) ==
    LET id == row[p].id IN
    /\ Row(p) /\ StatusOf(id, v) = "pending"
    /\ version' = [version EXCEPT ![id] =
                     [i \in DOMAIN @ |-> IF @[i].tag = v THEN [@[i] EXCEPT !.status = status] ELSE @[i]]]
    /\ preview' = [preview EXCEPT ![id] = @ \union ({v} \X shown)]
    /\ UNCHANGED <<row, rows, tags, member, leaves>> /\ Beside

\* DELETE /v1/packs/:scope/:name.
Unpublish(p) ==
    /\ Row(p) /\ ~row[p].removed
    /\ row' = [row EXCEPT ![p].removed = TRUE]
    /\ UNCHANGED <<rows, tags, version, preview, member, leaves>> /\ Beside

Leave(u, p) ==
    /\ leaves < MaxLeaves /\ u \in member[p]
    /\ leaves' = leaves + 1
    /\ member' = [member EXCEPT ![p] = @ \ {u}]
    /\ UNCHANGED dbVars /\ Beside
-----------------------------------------------------------------------------
\* A request with its caller: resolveIdentity maps a credential that does not
\* resolve to a caller without one.  The list reads the memberships first.
ReceiveRead(u, kind, p, v, r) ==
    /\ At("idle") /\ reads < MaxReads
    /\ reads' = reads + 1
    /\ reader' = [Idle EXCEPT !.pc = IF kind = "list" THEN "slugs" ELSE "row",
                              !.kind = kind, !.user = u, !.pack = p, !.tag = v, !.recipe = r]
    /\ UNCHANGED <<dbVars, member, leaves>> /\ Watch

LoadMemberSlugs ==
    /\ At("slugs")
    /\ reader' = [reader EXCEPT !.pc = "rows",
                                !.slugs = {p \in Packs : MemberNow(reader.user, p)}]
    /\ Reads

\* (Mutant: JOIN pack_versions, not LEFT JOIN.)
ListedReady(slugs) == {p \in Packs :
    /\ Row(p) /\ ~row[p].removed /\ (row[p].visibility = "public" \/ p \in slugs)
    /\ ReadyTags(row[p].id) # << >>}

\* WHERE of the list, with the slugs the caller is a member of.
Listed(slugs) == {p \in Packs :
    Row(p) /\ ~row[p].removed /\ (row[p].visibility = "public" \/ p \in slugs)}

\* The loop over the rows of one pack, which come in any order.
Orders(list) == {[i \in DOMAIN list |-> list[f[i]]] :
                    f \in {g \in [DOMAIN list -> DOMAIN list] :
                             \A i, j \in DOMAIN list : g[i] = g[j] => i = j}}
Best(list) == IF list = << >> THEN None ELSE list[MaxSemver(list)]

\* GET /v1/packs: one statement, then the best ready version of each pack.
ListPacks ==
    /\ At("rows")
    /\ \E order \in [Packs -> UNION {Orders(ReadyTags(row[p].id)) : p \in Packs}] :
         /\ \A p \in Packs : order[p] \in Orders(ReadyTags(row[p].id))
         /\ Reply(Answer(200, {<<p, Best(order[p])>> : p \in Listed(reader.slugs)}))
    /\ Reads

\* After the checks on the caller: a tombstone answers 404 with a marker (410
\* for a download); previews look for the version they LEFT JOINed.
PastGate(removed, status) ==
    IF removed THEN Reply(Answer(410, {reader.pack}))
    ELSE IF reader.kind \in OfVersion /\ status = "none" THEN Reply(NotFound)
    ELSE reader' = [reader EXCEPT !.pc = "rest", !.id = row[reader.pack].id, !.status = status]

\* (Mutant: the tombstone answers before the membership is looked at.)
ReadRowTombstoneFirst ==
    LET p == reader.pack  status == StatusOf(row[p].id, reader.tag) IN
    /\ At("row")
    /\ IF ~Row(p) \/ (reader.kind \in {"version", "download"} /\ status = "none")
         THEN Reply(NotFound)
       ELSE IF row[p].removed \/ row[p].visibility = "public" THEN PastGate(row[p].removed, status)
       ELSE reader' = [reader EXCEPT !.pc = "gate", !.id = row[p].id, !.removed = FALSE,
                                     !.status = status]
    /\ Reads

\* The first statement of every other read: the row of the pack, joined with
\* that of the version where one is asked for.
ReadRow ==
    LET p == reader.pack  status == StatusOf(row[p].id, reader.tag) IN
    /\ At("row")
    /\ IF ~Row(p) \/ (reader.kind \in {"version", "download"} /\ status = "none")
         THEN Reply(NotFound)
       ELSE IF row[p].visibility = "public" THEN PastGate(row[p].removed, status)
       ELSE reader' = [reader EXCEPT !.pc = "gate", !.id = row[p].id,
                                     !.removed = row[p].removed, !.status = status]
    /\ Reads

\* checkOrgMembership, on the row just read: anyone else gets the 404 of a
\* missing pack.
CheckOrgMembership ==
    /\ At("gate")
    /\ IF ~MemberNow(reader.user, reader.pack) THEN Reply(NotFound)
       ELSE IF reader.removed THEN Reply(Answer(410, {reader.pack}))
       ELSE IF reader.kind \in OfVersion /\ reader.status = "none" THEN Reply(NotFound)
       ELSE reader' = [reader EXCEPT !.pc = "rest"]
    /\ Reads

\* GET /v1/packs/:scope/:name: the versions of that row, the newest first, and
\* the best ready one.
ReadDetail ==
    /\ At("rest") /\ reader.kind = "detail"
    /\ Reply(Answer(200, {<<reader.pack, Best(Reverse(ReadyTags(reader.id)))>>}))
    /\ Reads

\* GET .../versions: the same statement, every version with its status.
ReadVersionList ==
    /\ At("rest") /\ reader.kind = "versions"
    /\ Reply(Answer(200, ToSet(VersionsOf(reader.id))))
    /\ Reads

\* GET .../:version: what the first statement read, with the artifacts, which
\* stay as long as the version.
ReadVersion ==
    /\ At("rest") /\ reader.kind = "version"
    /\ Reply(Answer(200, {<<reader.tag, reader.status>>}))
    /\ Reads

\* GET /v1/download: the blob of a ready version.
Download ==
    /\ At("rest") /\ reader.kind = "download"
    /\ Reply(IF reader.status = "ready" THEN Answer(200, {reader.tag}) ELSE NotFound)
    /\ Reads

\* Only two states of a preview are shown.
ShownPreviews(id, v) == {r \in Recipes : <<v, r>> \in preview[id]}

\* GET .../previews.
ReadPreviewList ==
    /\ At("rest") /\ reader.kind = "previews"
    /\ Reply(Answer(200, ShownPreviews(reader.id, reader.tag)))
    /\ Reads

\* GET .../previews/:recipeId, with the blobs of its files.
ReadPreview ==
    /\ At("rest") /\ reader.kind = "preview"
    /\ Reply(IF reader.recipe \in ShownPreviews(reader.id, reader.tag)
               THEN Answer(200, {reader.recipe}) ELSE NotFound)
    /\ Reads

EndRead ==
    /\ At("done")
    /\ reader' = Idle
    /\ Reads

Init ==
    /\ row = [p \in Packs |-> NoRow]
    /\ rows = 0 /\ tags = 0
    /\ version = [i \in 1..MaxRows |-> << >>]
    /\ preview = [i \in 1..MaxRows |-> {}]
    /\ member \in [Packs -> SUBSET Users]
    /\ leaves = 0 /\ reads = 0
    /\ reader = Idle
    /\ visible = {} /\ quiet = TRUE

Next ==
    \/ \E p \in Packs, v \in Versions :
         \/ \E visibility \in {"org", "public"} : PublishPack(p, visibility, v)
         \/ PublishVersion(p, v)
         \/ Settle(p, v, "failed", {})
         \/ \E shown \in SUBSET Recipes : Settle(p, v, "ready", shown)
    \/ \E p \in Packs : Unpublish(p) \/ \E u \in Users : Leave(u, p)
    \/ \E u \in Users \union {None}, p \in Packs :
         \/ \E kind \in Kinds \ OfVersion : ReceiveRead(u, kind, p, None, None)
         \/ \E kind \in OfVersion, v \in Versions, r \in Recipes : ReceiveRead(u, kind, p, v, r)
    \/ LoadMemberSlugs \/ ListPacks \/ ReadRow \/ CheckOrgMembership
    \/ ReadDetail \/ ReadVersionList \/ ReadVersion \/ Download
    \/ ReadPreviewList \/ ReadPreview \/ EndRead

Spec == Init /\ [][Next]_vars
-----------------------------------------------------------------------------
\* What an answer gives away: any status but the 404 of a missing pack.
Disclosed ==
    IF ~At("done") \/ reader.answer = NotFound THEN {}
    ELSE IF reader.kind = "list" THEN {entry[1] : entry \in reader.answer.shows}
    ELSE {reader.pack}

\* catalog/routes.ts:37-40 "an org-visibility pack returns the same 404 as a
\* missing pack so existence is not leaked": however publishes, removals and
\* memberships change between the statements of a read, what it gives away
\* (a listing, a tombstone, a version, a preview, a tarball) is of a pack that
\* was public, or of an organization the caller was in, at some moment of the
\* request.
ServedWasVisible == Disclosed \subseteq visible

\* While nothing changes, the surfaces agree: the detail and the version list
\* find exactly the packs the catalog lists, the reads of a version only
\* those.
SurfacesAgree ==
    At("done") /\ quiet /\ reader.kind # "list" =>
        LET listed == reader.pack \in Listed({p \in Packs : MemberNow(reader.user, p)})
        IN  /\ reader.answer.status = 200 => listed
            /\ listed /\ reader.kind \in {"detail", "versions"} => reader.answer.status = 200

\* semver-compare.ts:2 "latest pointers follow semver order, never insertion
\* order": in whatever order the rows of a pack come, the listing and the
\* detail name a ready version that no ready version is above, one of the same
\* precedence each time, or none if none is ready.
LatestIsHighest == \A p \in Packs :
    LET ready == ReadyTags(row[p].id)
        found == {Best(order) : order \in Orders(ready)}
    IN  IF ready = << >> THEN found = {None}
        ELSE /\ found \subseteq ToSet(ready)
             /\ \A v \in found, w \in found : CompareSemver(v, w) = 0
             /\ \A v \in found : \A i \in DOMAIN ready : CompareSemver(ready[i], v) <= 0
=============================================================================
