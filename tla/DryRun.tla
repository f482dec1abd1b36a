------------------------------- MODULE DryRun -------------------------------
(***************************************************************************)
(* A dry run and a real run of one recipe on the same tree, side by side   *)
(* (packages/recipes/src/run-recipe.ts and recipe-files.ts): the same      *)
(* templates, then the same calls of ctx.files.  The real run works on the *)
(* disk.  The dry run works on an overlay, seeded with what the templates  *)
(* would write; what is not in the overlay is read from the disk.  The     *)
(* recipe does what it promises to do in a dry run: it writes only through *)
(* ctx.files, and decides on what it reads there.                          *)
(***************************************************************************)
EXTENDS RecipeFiles, Integers

CONSTANT MaxCalls       \* bound: calls of write and remove

ASSUME DryRunAssumption == MaxCalls \in Nat

VARIABLES
    found,      \* the project before either run
    rendered,   \* what the templates render to
    policy,     \* onExisting
    disk,       \* the files of the real run
    api,        \* what its ctx.files remembers
    overlay,    \* the files laid over the disk of the dry run
    dryApi,     \* what its ctx.files remembers
    calls       \* how many calls were made

vars == <<found, rendered, policy, disk, api, overlay, dryApi, calls>>

\* The overlay: a path is covered by bytes, or by Absent, or not at all.
Overlays == [covered : SUBSET Paths, bytes : ProjectTrees]

TypeOK ==
    /\ {found, rendered, disk} \subseteq ProjectTrees
    /\ policy \in Policies
    /\ {api, dryApi} \subseteq Apis
    /\ overlay \in Overlays
    /\ calls \in 0..MaxCalls
-----------------------------------------------------------------------------
\* The seed of the dry run: every target but the skipped ones.
Seeded == {p \in Paths : PlanOp(rendered[p], found[p], policy)
                            \in {"create", "update", "unchanged"}}

\* What the dry run reads: its overlay, then the seed, then the disk.
DryView ==
    [p \in Paths |-> IF p \in overlay.covered THEN overlay.bytes[p]
                     ELSE IF p \in Seeded THEN rendered[p]
                     ELSE found[p]]

Cover(p, c) ==
    [covered |-> overlay.covered \union {p}, bytes |-> [overlay.bytes EXCEPT ![p] = c]]

\* Under `fail` the runs start only if no target exists.
Init ==
    /\ found \in ProjectTrees
    /\ rendered \in ProjectTrees
    /\ policy \in Policies
    /\ policy = "fail" => \A p \in Paths : rendered[p] = Absent \/ found[p] = Absent
    /\ disk = TreeAfterPlan(found, rendered, PlannedWrites(rendered, found, policy))
    /\ api = FreshApi
    /\ overlay = [covered |-> {}, bytes |-> EmptyTree]
    /\ dryApi = FreshApi
    /\ calls = 0

\* (Mutant: the dry run's write covers a file that `skip` leaves alone.)
WriteFileCovering(p, b, onExisting) ==
    /\ calls < MaxCalls
    /\ disk' = TreeAfterWrite(disk, p, b, onExisting)
    /\ api' = ApiAfterWrite(api, disk, p, b, onExisting)
    /\ overlay' = Cover(p, b)
    /\ dryApi' = ApiAfterWrite(dryApi, DryView, p, b, onExisting)
    /\ calls' = calls + 1
    /\ UNCHANGED <<found, rendered, policy>>

\* ctx.files.write in both runs.
WriteFile(p, b, onExisting) ==
    /\ calls < MaxCalls
    /\ disk' = TreeAfterWrite(disk, p, b, onExisting)
    /\ api' = ApiAfterWrite(api, disk, p, b, onExisting)
    /\ overlay' = IF Writes(DryView[p], b, onExisting) THEN Cover(p, b) ELSE overlay
    /\ dryApi' = ApiAfterWrite(dryApi, DryView, p, b, onExisting)
    /\ calls' = calls + 1
    /\ UNCHANGED <<found, rendered, policy>>

\* ctx.files.remove in both runs.
RemoveFile(p) ==
    /\ calls < MaxCalls
    /\ disk' = TreeAfterRemove(disk, p)
    /\ api' = ApiAfterRemove(api, disk, p)
    /\ overlay' = IF DryView[p] = Absent THEN overlay ELSE Cover(p, Absent)
    /\ dryApi' = ApiAfterRemove(dryApi, DryView, p)
    /\ calls' = calls + 1
    /\ UNCHANGED <<found, rendered, policy>>

Next ==
    \/ \E p \in Paths, b \in Bytes, onExisting \in Policies : WriteFile(p, b, onExisting)
    \/ \E p \in Paths : RemoveFile(p)

Spec == Init /\ [][Next]_vars
-----------------------------------------------------------------------------
(* The receipts, should recipe.ts return now.                              *)

TemplateEntry(p) == PlanEntry(rendered[p], found[p], policy)
DiskAfterPlan == TreeAfterPlan(found, rendered, PlannedWrites(rendered, found, policy))

\* A real run merges the tree's diff and the journal's account.
RealEntry(p) ==
    MergeEntry(MergeEntry(TemplateEntry(p), DiffEntry(DiskAfterPlan[p], disk[p])),
               Entry(api, disk, p, TRUE))

\* The dry run has the journal's account alone.  It knows the permission bits
\* only of a file it reads from the disk, and bits it knows differ from bits it
\* does not.
BitsKept(p) == p \notin overlay.covered \/ p \in Seeded

DryEntry(p) == MergeEntry(TemplateEntry(p), Entry(dryApi, DryView, p, BitsKept(p)))

\* A dry run reads what a real run reads, so a recipe that decides on what it
\* reads does the same in both.
SameReads == DryView = disk

\* A path that was changed and then written again under `skip` is `skipped`
\* for entries(), which then does not account for the change.
SkipsAfterChange == api.skipped \intersect api.changed # {}

\* Bytes written back, which the overlay has no permission bits of: `unchanged`,
\* or the template's `skip`, in the real run, they are `update` in the dry run.
WrittenBack(p) == /\ RealEntry(p).op \in {"unchanged", "skip"}
                  /\ DryEntry(p).op = "update"
                  /\ disk[p] = found[p] /\ p \in overlay.covered

\* Short of those two cases a dry run predicts the changeset of the real run, and
\* with it its output tree hash (docs/PACKS.md:185, 455): every path has the same
\* operation and the same bytes.
DryRunPredictsChangeset ==
    ~SkipsAfterChange => \A p \in Paths : RealEntry(p) = DryEntry(p) \/ WrittenBack(p)

\* The receipt of a real run tells the truth: the bytes it lists are on the
\* disk, and what it does not list is as it was.
ReceiptMatchesDisk ==
    \A p \in Paths :
        disk[p] = IF RealEntry(p).op = "none" THEN found[p] ELSE RealEntry(p).bytes
=============================================================================
