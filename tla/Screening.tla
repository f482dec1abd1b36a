----------------------------- MODULE Screening -----------------------------
(***************************************************************************)
(* What the three screening layers find in one pack and what is kept of    *)
(* it: the static scan (screening/static-scan.ts), the sandboxed dry run   *)
(* of every recipe (dry-run.ts, dry-run-script.ts), the validation of the  *)
(* dry run's output (output-validation.ts) and the loadability gate        *)
(* (worker/manifest.ts), as the ingest job calls them (worker/ingest.ts).  *)
(* The rows are those of one version, which is published again, with       *)
(* another tree, when it has failed.  IngestWorker has the job's clone,    *)
(* claim and storage, and takes what is found here as a choice.            *)
(*                                                                         *)
(* A pack's tree is a record: the constructs its sources hold, and its     *)
(* recipes with what they do when run.  A path is a sequence of names.     *)
(***************************************************************************)
EXTENDS Integers, Sequences, FiniteSets, SequencesExt

CONSTANTS
    Trees,          \* what a tag of the repository may hold
    RecipeIds,
    NoTree,         \* no publish yet
    MaxPublishes,   \* bound: publishes accepted
    MaxKills,       \* bound: kills of the server
    MaxDrops        \* bound: files whose capture fails

\* The recipes of a manifest are a list, which may hold one id twice.
ASSUME ScreenAssumption ==
    \A tree \in Trees :
        /\ Len(tree.recipes) \in Nat /\ DOMAIN tree.recipes = 1 .. Len(tree.recipes)
        /\ \A i \in 1 .. Len(tree.recipes) : tree.recipes[i].id \in RecipeIds

VARIABLES
    version,    \* the pack_versions row, and the visibility of its pack
    job,        \* the locals of the job that works on it
    previews,   \* recipe_previews, by recipe
    result,     \* screening_results
    tier,       \* packs.tier
    used        \* how much of each bound has been spent

screenVars == <<version, job, previews, result, tier, used>>

Computed == <<"(computed)">>        \* a path or specifier that is no literal
Networks == {<<"http">>, <<"https">>, <<"net">>, <<"dns">>}
ChildProcess == <<"child_process">>
NodeAllowed == {<<"fs">>, <<"path">>, <<"crypto">>}     \* among others
HandlebarsBuiltins == {"if", "each", "with", "unless", "else"}
SkippedDirs == {"node_modules", "out", "."}             \* "." any dot name

StripNodePrefix(name) == IF Head(name) = "node" THEN Tail(name) ELSE name
DynamicImportAllowlist == {<<"@baka/sdk">>} \union {<<"node">> \o m : m \in NodeAllowed}

\* Prefix list: a declared path, or anything below it.
Matches(path, patterns) == \E p \in patterns : IsPrefix(p, path)
Visible(path) == ToSet(path) \cap SkippedDirs = {}
Recipes(tree) == 1 .. Len(tree.recipes)
AllPatterns(tree) == UNION {tree.recipes[i].patterns : i \in Recipes(tree)}

\* detectCallExpression, detectImportModule, detectImportTypeNode.
CapabilityDenied(c) ==
    \/ c.kind \in {"call", "new"} /\ c.name \in {<<"fetch">>, <<"WebSocket">>, <<"eval">>}
    \/ c.kind = "new" /\ c.name = <<"Function">>
    \/ c.kind = "dynamic import" /\ c.name \notin DynamicImportAllowlist
    \/ /\ c.kind \in {"import", "import type"}
       /\ StripNodePrefix(c.name) \in Networks \union {ChildProcess}

\* detectWriteCallExpression: a literal path no recipe of the pack declares.
WriteDenied(c, tree) ==
    c.kind = "write" /\ c.name # Computed /\ ~Matches(c.name, AllPatterns(tree))

\* scanHandlebarsFile: a helper with arguments that is not a built-in.
HelperDenied(c) == c.kind = "helper" /\ Head(c.name) \notin HandlebarsBuiltins

\* What a visit of a source or a template reports.
Denied(c, tree) ==
    c.kind = "syntax error" \/ CapabilityDenied(c) \/ WriteDenied(c, tree) \/ HelperDenied(c)

\* runStaticScan, over the files walkPackFiles returns.
Findings(tree) == {c \in tree.constructs : Visible(c.dir) /\ Denied(c, tree)}
-----------------------------------------------------------------------------
NoFiles == {}
Entry(recipe, status, files) == [recipe |-> recipe.id, status |-> status, files |-> files]

\* What the sandbox script does with `recipe`: it loads and resolves the step
\* and runs it in an empty directory ...
RunsToEnd(recipe) == recipe.code = "step" /\ recipe.ends = "returns"

\* ... and lists what it left there, dot names, node_modules and out apart.
Written(recipe) == {p \in recipe.writes : Visible(p)}

\* What is reported of it: a process killed by the time limit, or by a signal
\* to the server's group, is taken for one that timed out.
Outcomes(recipe) == {"timed-out", IF RunsToEnd(recipe) THEN "screened" ELSE "failed"}

\* Sentinel templates of a reasoning recipe, rendered in the sandbox.
SentinelFiles(recipe) ==
    IF recipe.sentinel = "renders" THEN {<<"preview">>} ELSE NoFiles

\* storage.put or the read of a captured file fails: the file is left out.
Captures(files, drops) == {kept \in SUBSET files : Cardinality(files \ kept) <= drops}

\* toRow: what recipe_previews keeps of an entry.
StateOf(entry) == IF entry.status = "screened" THEN "rendered" ELSE entry.status
NoRow == [state |-> "none", files |-> NoFiles, tree |-> NoTree]
RowOf(entry, tree) == [state |-> StateOf(entry), files |-> entry.files, tree |-> tree]

NoResult == [verdict |-> "none", per |-> <<>>, tree |-> NoTree]
IdleJob == [at |-> "idle", tree |-> NoTree, per |-> <<>>, reason |-> "none", verdict |-> "none"]
NoVersion == [status |-> "none", tree |-> NoTree, public |-> FALSE]

At(pc) == job.at = pc
Goto(pc) == job' = [job EXCEPT !.at = pc]
Rows == <<version, previews, result, tier, used>>
Fail == Goto("crash") /\ UNCHANGED Rows     \* an exception leaves the job's body
-----------------------------------------------------------------------------
\* POST /v1/publish: a new row, or the failed one reset; its pack keeps the
\* visibility it has.
Publish(tree, public) ==
    /\ version.status \in {"none", "failed"}
    /\ used.publishes < MaxPublishes
    /\ used' = [used EXCEPT !.publishes = @ + 1]
    /\ version.status = "failed" => public = version.public
    /\ version' = [status |-> "pending", tree |-> tree, public |-> public]
    /\ UNCHANGED <<job, previews, result, tier>>

Claim ==
    /\ version.status = "pending" /\ At("idle")
    /\ version' = [version EXCEPT !.status = "ingesting"]
    /\ job' = [IdleJob EXCEPT !.at = "scan", !.tree = version.tree]
    /\ UNCHANGED <<previews, result, tier, used>>

\* loadManifest, the version check, and the scan of a public pack.
Scan ==
    /\ At("scan")
    /\ IF ~job.tree.manifest
         THEN Goto("crash")
         ELSE job' = IF ~version.public THEN [job EXCEPT !.at = "load"]
                     ELSE IF Findings(job.tree) # {}
                       THEN [job EXCEPT !.at = "verdict", !.verdict = "failed"]
                       ELSE [job EXCEPT !.at = "dry-run"]
    /\ UNCHANGED Rows

\* (Mutant: a row that is there is left as it is.)
PreviewRowKept(entry) ==
    IF previews[entry.recipe] # NoRow THEN previews
    ELSE [previews EXCEPT ![entry.recipe] = RowOf(entry, job.tree)]

\* writePreviewRecord: an upsert on (version, recipe).
PreviewRow(entry) == [previews EXCEPT ![entry.recipe] = RowOf(entry, job.tree)]

Report(entry, reason) ==
    /\ job' = [job EXCEPT !.per = Append(@, entry),
                          !.reason = IF @ = "none" THEN reason ELSE @]
    /\ previews' = PreviewRow(entry)
    /\ UNCHANGED <<version, result, tier>>

NextRecipe == job.tree.recipes[Len(job.per) + 1]
MoreRecipes == At("dry-run") /\ Len(job.per) < Len(job.tree.recipes)
Spend(files, kept) ==
    used' = [used EXCEPT !.drops = @ + Cardinality(files \ kept)]

\* A reasoning recipe is not run; a broken sentinel template is no failure.
DryRunReasoning ==
    /\ MoreRecipes /\ NextRecipe.reasoning
    /\ LET files == SentinelFiles(NextRecipe) IN
         \E kept \in Captures(files, MaxDrops - used.drops) :
           /\ Report(Entry(NextRecipe, "needs-llm", kept), "none")
           /\ Spend(files, kept)

DryRunRecipe ==
    /\ MoreRecipes /\ ~NextRecipe.reasoning
    /\ \E outcome \in Outcomes(NextRecipe) :
         LET files == IF outcome = "screened" THEN Written(NextRecipe) ELSE NoFiles IN
           \E kept \in Captures(files, MaxDrops - used.drops) :
             /\ Report(Entry(NextRecipe, outcome, kept),
                       CASE outcome = "timed-out" -> "timeout"
                         [] outcome = "failed" -> "failure"
                         [] OTHER -> "none")
             /\ Spend(files, kept)

\* writePreviewRecord throws.
DryRunThrows == MoreRecipes /\ Fail

\* The end of runDryRun and applyDryRunVerdict: the first reason decides, so
\* that a recipe that fails after one that timed out does not.
ApplyDryRunVerdict ==
    /\ At("dry-run") /\ ~MoreRecipes
    /\ job' = CASE job.reason = "timeout" -> [job EXCEPT !.at = "verdict", !.verdict = "unverified"]
                [] job.reason = "failure" -> [job EXCEPT !.at = "verdict", !.verdict = "failed"]
                [] OTHER -> [job EXCEPT !.at = "validate"]
    /\ UNCHANGED Rows

\* Layer 3 looks at the files of the recipes that were run.
Rendered(per) == {i \in 1 .. Len(per) : per[i].status = "screened"}

\* (Mutant: the patterns of the whole pack, as in layer 1.)
WritesSubsetOfPack(tree, per) ==
    \A i \in Rendered(per) : \A f \in per[i].files : Matches(f, AllPatterns(tree))

WritesSubset(tree, per) ==
    \A i \in Rendered(per) : \A f \in per[i].files : Matches(f, tree.recipes[i].patterns)

ValidatorsSilent(tree, per) ==
    tree.packValidator # "reports" /\ \A i \in Rendered(per) : tree.recipes[i].validator # "reports"

\* A declared validator has no file: invokePackValidator throws.
ValidatorMissing(tree, per) ==
    tree.packValidator = "missing" \/ \E i \in Rendered(per) : tree.recipes[i].validator = "missing"

TypeChecks(tree, per) == \A i \in Rendered(per) : tree.recipes[i].tsc # "fails"

OutputValid(tree, per) ==
    ValidatorsSilent(tree, per) /\ WritesSubset(tree, per) /\ TypeChecks(tree, per)

\* runOutputValidation: a missing validator throws unless another reports
\* first; storage may have lost a file.
ValidateOutput ==
    /\ At("validate")
    /\ \/ /\ ~ValidatorMissing(job.tree, job.per)
          /\ job' = [job EXCEPT !.at = "verdict",
                !.verdict = IF OutputValid(job.tree, job.per) THEN "screened" ELSE "failed"]
       \/ /\ ValidatorMissing(job.tree, job.per) /\ ~ValidatorsSilent(job.tree, job.per)
          /\ job' = [job EXCEPT !.at = "verdict", !.verdict = "failed"]
       \/ Goto("crash")
    /\ UNCHANGED Rows

\* writeScreeningResult: an upsert on the version.
VerdictRow == [verdict |-> job.verdict, per |-> job.per, tree |-> job.tree]

WriteVerdict ==
    /\ At("verdict")
    /\ result' = VerdictRow
    /\ Goto("tier")
    /\ UNCHANGED <<version, previews, tier, used>>

\* updatePackTierForVerdict; then a failed verdict is thrown.
UpdateTier ==
    /\ At("tier")
    /\ tier' = IF job.verdict = "screened" THEN "screened" ELSE "unverified"
    /\ Goto(IF job.verdict = "failed" THEN "crash" ELSE "load")
    /\ UNCHANGED <<version, previews, result, used>>

\* checkLoadability: after the verdict, and for every visibility.
Loads(tree) ==
    /\ tree.packValidator # "missing"
    /\ \A i \in Recipes(tree) : tree.recipes[i].code = "step" /\ tree.recipes[i].validator # "missing"

CheckLoadability ==
    /\ At("load")
    /\ Goto(IF Loads(job.tree) THEN "ready" ELSE "crash")
    /\ UNCHANGED Rows

\* packTarball, put, recordArtifact, markReady; any of them may throw.
MarkReady ==
    /\ At("ready")
    /\ version' = [version EXCEPT !.status = "ready"]
    /\ job' = IdleJob
    /\ UNCHANGED <<previews, result, tier, used>>

StoreThrows == At("ready") /\ Fail

\* markScreeningCrashTierTransition, whatever was thrown ...
CrashTier ==
    /\ At("crash")
    /\ tier' = "unverified"
    /\ Goto("failed")
    /\ UNCHANGED <<version, previews, result, used>>

\* ... and markFailed.
MarkFailed ==
    /\ At("failed")
    /\ version' = [version EXCEPT !.status = "failed"]
    /\ job' = IdleJob
    /\ UNCHANGED <<previews, result, tier, used>>

\* The server dies in the middle of a job; the next one sweeps the row back.
KillServer ==
    /\ ~At("idle")
    /\ used.kills < MaxKills
    /\ used' = [used EXCEPT !.kills = @ + 1]
    /\ version' = [version EXCEPT !.status = "pending"]
    /\ job' = IdleJob
    /\ UNCHANGED <<previews, result, tier>>

ScreenInit ==
    /\ version = NoVersion
    /\ job = IdleJob
    /\ previews = [id \in RecipeIds |-> NoRow]
    /\ result = NoResult
    /\ tier = "unverified"
    /\ used = [publishes |-> 0, kills |-> 0, drops |-> 0]

ScreenNext ==
    \/ \E tree \in Trees, public \in BOOLEAN : Publish(tree, public)
    \/ Claim \/ Scan \/ DryRunReasoning \/ DryRunRecipe \/ DryRunThrows
    \/ ApplyDryRunVerdict \/ ValidateOutput \/ WriteVerdict \/ UpdateTier
    \/ CheckLoadability \/ MarkReady \/ StoreThrows \/ CrashTier \/ MarkFailed
    \/ KillServer

ScreenSpec == ScreenInit /\ [][ScreenNext]_screenVars
-----------------------------------------------------------------------------
Ready == version.status = "ready"
Declared == {version.tree.recipes[i].id : i \in Recipes(version.tree)}

\* No screening_results row outlives the tree it is about, whatever was
\* published, killed or thrown before: the verdict the catalog shows for a
\* version it serves was reached on that version's tree, and `screened`
\* means that the scan is clean, every recipe but the reasoning ones ran to
\* its end, and each file kept of a recipe is under that recipe's own patterns
\* (worker/ingest.ts:287, output-validation.ts:251).
ScreenedServesClean ==
    Ready /\ result.verdict = "screened" =>
        LET tree == version.tree IN
          /\ Findings(tree) = {}
          /\ Len(result.per) = Len(tree.recipes)
          /\ \A i \in Recipes(tree) :
               \/ tree.recipes[i].reasoning
               \/ /\ result.per[i].status = "screened"
                  /\ \A f \in result.per[i].files : Matches(f, tree.recipes[i].patterns)
                  /\ tree.recipes[i].ends = "returns" /\ tree.recipes[i].tsc # "fails"

\* recipe_previews are never deleted, and are written one by one before the
\* verdict: still, when a public version is served, the preview of each recipe
\* it declares is of its own tree and is what its verdict was reached on
\* (dry-run.ts:383, preview-record.ts:46).
PreviewsMatchVerdict ==
    Ready /\ version.public =>
        /\ result.tree = version.tree
        /\ \A id \in Declared : previews[id].tree = version.tree
        /\ \A i \in 1 .. Len(result.per) :
             previews[result.per[i].recipe] = RowOf(result.per[i], version.tree)
=============================================================================
