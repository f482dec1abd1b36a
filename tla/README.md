# Baka: a TLA+ verification project

Baka writes files from templates. Packs of recipes are designed in a chat, published to a
registry, ingested and screened by a worker, installed by a CLI, and run by an engine that
must undo what it did when something fails. This directory models the parts of that system
whose correctness depends on the order of steps, checks them with TLC on small instances,
and proves the most important invariants with TLAPS for all values of the constants.
`PROJECT.json` lists the runs, the properties, the mutants, and the source lines behind
every definition.

```
tlc -workers 2 -config MCRegistry.cfg MCRegistry      # one run
tlapm Registry_proofs.tla                             # one module of proofs
```

## 1. Inventory

### 1.1 Registry server (`apps/registry`)

One Node process runs the HTTP handlers and the ingest worker over one database (PGlite, in
the same process) and a directory of blobs. A database statement is one step; handlers and
the worker interleave wherever they `await`. There are no transactions around the handlers.

| Part | State | Operations | Hard behaviour | What makes it correct |
|---|---|---|---|---|
| publish (`publish/routes.ts`) | rows of `packs`, `pack_versions` | check of the existing version, plan gate, replacement of a tombstone, INSERT of the pack, upsert of the version | checks are awaited long before the writes they protect; a statement may throw in between | what is ready is not overwritten; what a version serves was published on that row |
| unpublish (`catalog/routes.ts`) | `packs.removed_at` | SELECT, then UPDATE | the pack may be replaced between the two, or while its job runs | the pack that took the name over is not touched |
| ingest worker (`worker/runner.ts`, `worker/ingest.ts`) | the row's status, artifacts, verdict, the pack's tier | sweep of stale rows, claim, re-clone and commit check, screening, packing, blob, artifact, `markReady` / `markFailed` | the row is reset, removed or swept away under a running job; every step may throw, also inside the failure path; tags move | ready implies servable; the bytes are those of a recorded commit; every row settles |
| boot and shutdown (`server.ts`, `worker/sweep.ts`) | all of the above | boot sweep, verified tiers, worker start | kill between any two statements | nothing is stuck, nothing ready is broken |
| download and storage (`catalog/routes.ts`, `storage.ts`) | blobs | exclusive open, write, read | a kill between open and write | the bytes served hash to `content_hash` |
| plan limits (`auth/plan-limits.ts`) | counts of live private packs | count, compare, go on to insert | check-then-act over several awaits | the overshoot is bounded |
| organizations and membership (`auth/`) | organizations, members, invitations | create, rename, invite, accept, leave, change a role, delete; the official organization at boot | the same check-then-act; a slug changes or goes during a publish; a boot is cut short | members are bounded; live packs have an owner; a boot restores the official organization |
| catalog reads (`catalog/routes.ts`, `semver-compare.ts`) | none | search, listing, detail, versions, previews, download | a read is two to four statements, with publishes, removals and changes of membership in between | what is served was visible; the surfaces agree; the latest version is the highest |
| screening layers (`screening/`) | verdict, preview rows | static scan, dry run of every recipe, output validation, loadability | each layer sees what the one before let through; rows are written one by one; the child is killed or loses files | a verdict, a preview and a badge are about the tree that is served |
| schema gate, migrations (`schema-version.ts`, `db/`) | version file, migration list | migrate, write the version | kill between migrations | not modelled (section 7) |

The publish endpoint and the worker share rows and nothing else: a publish leaves a
`pending` row, the worker claims it. They know each other's moves only through the row.

### 1.2 Recipe engine (`packages/recipes`, `packages/engine`)

| Part | State | Operations | Hard behaviour | What makes it correct |
|---|---|---|---|---|
| templates, `ctx.files`, tree hash (`materialize.ts`, `recipe-files.ts`, `tree-hash.ts`) | the project's files, a journal of first changes | plan, apply, write, remove, diff, revert | a file is touched by several of them | the journal can restore the tree |
| `runRecipe`, `compensateRecipe` (`run-recipe.ts`) | rollback lists of one run, the receipt | plan, apply, recipe, own compensate, rollback, format, undo | each write, the recipe, the formatter and the rollback itself may throw; nothing serializes the runs of a project | a failure leaves no trace, or a receipt that can undo it |
| dry run (`run-recipe.ts`, `recipe-files.ts`) | an overlay over the disk | the same calls | overlay and disk must agree after any calls | same reads, same predicted tree |
| saga (`saga.ts`, `worker.ts`) | steps done, their receipts | execute in order, compensate in reverse | a compensation fails | all the others are still tried; it ends |
| slots, slot cache, lock (`slots.ts`, `slot-cache.ts`, `lock.ts`) | cache files, pins | fill, read, write, verify | torn cache file, pack changed after its pin was verified | a slot has what was made for its template; a locked run uses what was pinned |
| pack registry (`registry.ts`) | pack directories by precedence | discover, resolve | a pack shadows another; what an installer wrote does not load | what is installed is found |
| package manager (`package-manager.ts`) | settings file, pack directories | install, remove | see the CLI | see the CLI |
| engine server (`engine/src/app.ts`) | none | `POST /v1/run` | concurrent runs of one project | see `runRecipe` |

### 1.3 CLI and design chat

| Part | State | Operations | Hard behaviour | What makes it correct |
|---|---|---|---|---|
| `install`, `uninstall`, `remove` (`cli/src/commands/install.ts`) | settings file, a directory per pack | remove old, extract, register, roll back | failing extraction, kill between writes, torn settings | what is listed is installed; a success repairs |
| design chat (`workflows/pack-management/src/design`) | session, session file | turns, gates, slash commands, delivery | the process dies at a prompt; the model proposes any phase | what is delivered was approved; what is done was written |
| config file (`registry-credentials.ts`, `agent/src/config/store.ts`) | `config.json`: a block per role, a key per registry | `init`, `role`, `registry login`, `registry logout` | each reads the whole file, waits for a prompt or a redirect, and writes the whole file back, unlocked | stored keys were granted; a fresh write keeps the other sections |
| registry commands, MCP registry tools (`cli/src/commands`, `mcp/src/tools`) | none beside the call | `search`, `info`, `preview`, `whoami`, `org`, `publish` with its poll | several registries at once, some failing; a version changes between two polls; a deadline | a key goes to its own registry; what is printed was so; every command ends |
| MCP workflow tools, `run`, `plan`, `pack`, agent providers, sdk, dashboard, landing | none worth a state | argument parsing, one call each, user interface, declarations | none of the kinds above | not modelled |

## 2. Plan

Written, in this order, the most important behaviour first:

1. `RegistryState`, `PublishEndpoint`, `IngestWorker`, `Registry` and its abstract
   specification `PinnedContent`: publish, unpublish, ingest, crash, boot.
2. `RecipeFiles`, `RecipeRun`: one run of a recipe and its compensation.
3. `RecipeSaga`: the saga composed from `RecipeRun`.
4. `DryRun`: dry run against real run.
5. `PlanLimits`, and `Organizations` composed from it: the two gates, organizations that are
   renamed and deleted under the publishes, the official organization at boot.
6. `PackInstall`, `DesignChat`.
7. `Semver`, `Catalog`: the reads against everything that changes between two statements.
8. `UserConfig`, and `RegistryClient` composed from it: the config file of the user, and the
   commands that talk to registries.
9. `Screening`: what the layers find, behind the choice that `IngestWorker` makes.
10. `LocalPacks`: discovery, lock file, slots and slot cache.
11. Proofs: `Registry_proofs` (with the refinement of `PinnedContent`), `RecipeRun_proofs` (with
    the saga), `DryRun_proofs`, `Catalog_proofs` (with `Semver`), `Organizations_proofs` (with
    `PlanLimits`), `RegistryClient_proofs` (with `UserConfig`), `PackInstall_proofs`, and
    `Packs_proofs` for `DesignChat`, `Screening` and `LocalPacks`.

Left, in this order:

1. A run of `RecipeRun` with two interleaved calls and a property that survives them, with its
   proof: `RunInvariant` is about a run alone.
2. Two CLI processes that install at once, names that collide between scopes.
3. Slots with supplied and replayed values, and more than one slot per template.
4. The workflow tools of the MCP server and the engine server's routes beside run and fill.

## 3. Modules and the code

| Module | Models | Correspondence |
|---|---|---|
| `RegistryState` | `db/schema.ts`, the SQL statements the handlers share, tags of git repositories | a row is a record; `gen` stands for the uuid of a pack row, so that a row that replaced another is told from it; `older` is the order of `updated_at`, kept only among pending rows, and `stale` the ingesting rows past the sweep threshold |
| `PublishEndpoint` | `POST /v1/publish`, `DELETE /v1/packs` | `req[r].pc` is the statement a handler awaits, its other fields are the handler's locals; one action per statement; `RequestFault` is a statement that throws |
| `IngestWorker` | `worker/runner.ts`, `worker/ingest.ts` | `job[w].pc` is the step of the loop or of the job; the failure path (`failSelect`, `failTier`, `markFailed`) is part of it and may throw too |
| `Registry` | `server.ts` | composes the two; `Crash` and `Boot`; properties, inductive invariant and refinement |
| `PinnedContent` | what a user who pins a version is promised | abstract specification, refined by `Registry` |
| `PlanLimits` | the plan gate of publish with `plan-limits.ts` | the same handlers, with only what the count depends on |
| `Organizations` | `auth/org-routes.ts`, `better-auth.ts`, `official-org.ts` | EXTENDS `PlanLimits`, whose packs are all under the slug `Scope`; `org` holds the rows of an organization, its members and invitations, `hand` the locals of each `/v1/orgs` handler, `via` the organization a publish resolved, `boot` the steps of `ensureOfficialOrg` |
| `Semver` | `semver-compare.ts` | operators on parsed versions, the loop of `maxSemver` as a recursive function |
| `Catalog` | the read endpoints of `catalog/routes.ts` | one reader, one action per statement it awaits; rows, versions, previews and memberships change in between |
| `Screening` | `screening/*.ts`, the screening part of `worker/ingest.ts` | a tree is a record of the constructs its sources hold and of what its recipes do; one action per recipe run, row written and layer |
| `RecipeFiles` | `materialize.ts`, `recipe-files.ts`, `tree-hash.ts` | pure operators on trees (functions from paths to bytes or `Absent`) |
| `RecipeRun` | `run-recipe.ts`, `format.ts` | each stretch between two awaits is an action; what `recipe.ts` does is a choice of operations |
| `RecipeSaga` | `saga.ts`, `worker.ts` | EXTENDS `RecipeRun`, one run per step of the plan |
| `DryRun` | dry and real run of the same calls | two states side by side, one action per call of `ctx.files` |
| `PackInstall` | `install.ts`, `package-manager.ts` | the settings file is truncated and then filled; `cmd.pc` is where the command is; sources of one pack share its directory, whatever their kind |
| `DesignChat` | `design/*.ts`, `pack-design/run.ts` | `pc` is what the process waits for; every answer of the user and the model is an action |
| `LocalPacks` | `registry.ts`, `lock.ts`, `slots.ts`, `slot-cache.ts`, the slot loop of `materialize.ts`, `writeManifestFromJson` | `dir` holds a pack per scope in order of precedence, `run[r].pc` what a run awaits; installs, edits, `baka lock` and fills by hand are actions between |
| `UserConfig` | `registry-credentials.ts`, `config/store.ts` and the four commands that rewrite the file | `proc[p]` holds the copy a process has read; the file is truncated, half written, then whole |
| `RegistryClient` | `search.ts`, `registry.ts`, `publish.ts`, `org.ts`, `registry-client.ts`, `registry-config.ts`, `mcp/src/tools/registry.ts` | EXTENDS `UserConfig`; `call[c].step` is the request a command awaits, `report[c]` what it printed; rows of the registries change between two requests |
| `MCPackChecks` | (TLC only) | a disjoint union: a behaviour is one of `Screening` or one of `LocalPacks` |

The `*_proofs` modules hold the theorems and EXTEND the modules these are about: the one they
are named after with those it is composed from, `RecipeSaga` in `RecipeRun_proofs`, and
`DesignChat`, `Screening` and `LocalPacks` in `Packs_proofs`. The other `MC*` modules give
constants their values and define symmetries.

History variables and fields are not in the code and no guard of it reads them: `recorded`
(trees published on a row), `base` (the disk when a run began), `saga.start`, `counted`,
`late` and `raced` (`Organizations`), `granted`, `readies` and a process's `stale` (the
client), `visible` and `quiet` (`Catalog`), a run's `moved` (`LocalPacks`), `cmd.before`, `cut`,
`approved`, `written`, `astray`. Counters of spent bounds (`spent`, `used`, `started`,
`changes`, `reads`, `rows`, `tags`, `leaves`, `done`, `ran`) are read by the bounds alone. A
definition whose comment starts with "Mutant" is not part of any specification: it is a
plausible bug in the definition after it, used to show that a property is able to fail.

## 4. Runs

| Run | Instance | Shows |
|---|---|---|
| `registry_core` | 1 pack, 1 tag, 2 commits, 2 handlers, 3 requests, 1 moved tag, 1 crash | `IInv` and what follows from it: `ReadyServable`, `ArtifactsFromRecordedTrees`, `PrivateNeverScreened` |
| `registry_live` | 1 pack, 2 immutable tags of one source, 2 handlers, 2 requests, crash, fault; fairness | refinement of `PinnedContent`, `ServedMatchesCommit`, `DownloadMatchesHash`, `BadgeFallsBeforeFailed`, and `EveryVersionSettles` |
| `recipe_run` | 2 paths, 3 contents, 1 run, dry or not, formatter, raw writes, 3 operations, 2 faults, 1 of them torn | `FailureLeavesNoTrace`, `Recoverable` |
| `recipe_saga` | 1 path, 3 contents, 3 steps, 2 faults, 1 of them torn; fairness | `FailedSagaLeavesNoTrace`, `EveryStepCompensated`, `SagaEnds` |
| `dry_run` | 2 paths, 3 contents, all policies, 4 calls | `SameReads`, `DryRunPredictsChangeset`, `ReceiptMatchesDisk` |
| `organizations` | 2 packs, 1 publish handler, 2 organizations, 3 users, 2 organization handlers, limits 1 and 2, 5 requests, 1 restart | `PlacesBounded`, `MembersBounded`, `PacksHaveOwner`, `BootRestoresOfficial` |
| `catalog` | 1 pack, 3 versions (a release, a numeric and a word pre-release), 1 user and the anonymous caller, 2 rows, 2 tags, 1 membership that ends, 1 read | `ServedWasVisible`, `SurfacesAgree`, `LatestIsHighest` |
| `registry_client` | 2 registries, 2 processes that rewrite the file, 1 that reads, 2 changes of the registries, 2 commands; fairness | `KeysWereGranted`, `KeyGoesHome`, `PublishedWasReady`, `SearchDiesAlone`, `FreshWriteKeepsTheRest`, `CommandsEnd` |
| `pack_checks` | 13 trees, 2 recipes, 3 publishes, 1 kill, 1 lost file; or 2 scopes, 3 packs, 2 runs, 1 worker model, 3 changes | `ScreenedServesClean`, `PreviewsMatchVerdict`, `LockedRunIsPinned`, `FillMatchesTemplate` |
| `pack_checks_installed` | the same | violated: `InstalledIsDiscovered` |
| `pack_install` | a registry pack in two versions, an npm, a git and a local source, 5 commands | `ListedIsInstalled`, `SuccessHeals`, `RestOfFileKept` |
| `design_chat` | 2 designs, 5 turns a session, 3 sessions, 10 messages | `SaveLagsOneReply`, `DeliveredWasApproved`, `DoneIsWritten` |

### Bounds and why they are enough

*Registry.* The races are between one publish and one job, or two publishes, of one version,
so two handlers, one worker and one pack meet all of them; a third request is what replaces a
tombstone while an older handler is still in flight. Two tags let the worker choose between
rows (the order of claims matters to `EveryVersionSettles`). One crash can fall anywhere, and
in `registry_live` one throwing statement as well, also into the failure path of a job. The proof of `IInv` removes
the bounds for the invariants; liveness and refinement have only the bounded instance.
`registry_live` uses one source and immutable tags because its first three properties are
false otherwise (section 6, items 1 to 3).

*Recipes.* A rule for a file never looks at another file, except through the sets a rollback
merges; two paths give those sets two elements. Three contents let the found, rendered and
rewritten bytes all differ. Three operations of one recipe reach write-remove-write. The saga
needs three steps so that a compensation that fails has one on either side, and one path so
that all steps compete for it.

*Organizations.* The excess is one per handler beside the last to count. The packs' excess
needs two publishes at once, which one handler cannot show; that part of the state is the one
`Places` is proved of for any number, and the run is kept for what is between organizations and
publishes: two organizations so that a slug can be given up and taken by the other, a handler
more than the one that holds a seat, and three users against a limit of two. Five requests fit
a rename, a delete, an invitation and its acceptance, and a publish; one restart can fall
anywhere and is cut short or not.

*Catalog.* A read is about one pack, or about all of them alike; two rows let a pack be
replaced under the read, and two tags have an order. One read is in flight: reads share nothing.

*Client.* Two registries are what a key can go wrong between; two writers and one reader
overlap in every way that two commands do, and a command may be killed anywhere.

*Screening, local packs.* The trees are one that is fine, one for each layer that can fail or be
skipped, and some that look suspicious to a layer and are not. Three publishes put a failed tree
before and after a good one. Two scopes have a precedence; two runs share the cache.

*Install.* Five commands fit an install, a failed upgrade, a kill, a repair and a removal.

*Chat.* Ten messages are enough to go through all phases and be sent back at a gate; three
sessions let a kill be followed by a resume that is killed again.

Deadlock is checked for the registry, whose worker polls for ever. In the other modules the
bounded work ends and the system really stops, hence `CHECK_DEADLOCK FALSE`.

Symmetry is used only in runs without liveness, over handlers, organizations, users that are not
publishers, paths, bytes, packs, runs and designs, none of which the code orders or singles out.

### Fairness

`Registry!Fairness` assumes that the worker takes its next step when it can
(`runner.ts` `loop` awaits a cycle and polls again, for ever), that a killed server is
started again, and that time passes, so that an abandoned row becomes stale. It assumes
nothing of publishers, of tags, or of handlers in flight. That a job returns at all rests on
the timeouts of its clone and its child processes, which are not modelled as time.
`RegistryClient` is fair to the next step of each command that reads (a request is answered, or
its connection fails) and to the publish deadline, which passes. It assumes nothing of the
registries, none of which need ever finish an ingest, nor of the user at a prompt.
`FairSagaSpec` assumes that the one async function goes on: recipes that never return are
outside of what the engine can promise.

### Conditions in the properties

Each of these names a case in which the code does not keep the plain form; what happens then
is in section 6.

- `BadgeFallsBeforeFailed` is about runs in which no statement has thrown (`used.faults = 0`).
- `recipe_run` and `recipe_saga` give `Mixes` the value FALSE, and the proofs assume it: a
  `recipe.ts` does not address through `ctx.files` a file its own run created from a template or
  wrote past it (item 21).
- `FailureLeavesNoTrace` excludes an engine write that threw after creating its file, or a
  revert that threw half way (`spent.torn = 0`), files that a `recipe.ts` changed past `ctx.files`
  (`past`: the engine never had their bytes) and those the rollback-incomplete warning names
  (`warned`). `FailedSagaLeavesNoTrace` excludes the same (`spent.torn = 0`, `Leftover`), and
  files of steps whose compensation failed and whose receipt can still restore them.
- `DryRunPredictsChangeset` excludes a `skip` after a change of the same path
  (`SkipsAfterChange`), and lets bytes that were written back be `update` in the dry run
  (`WrittenBack`).
- `MembersBounded` leaves out publishers that a boot granted past the limit (`late`): that path
  calls no gate.
- `PacksHaveOwner` leaves out histories in which a rename took the packs' slug away, or a delete
  overlapped a publish (`raced`).
- `ServedWasVisible` asks that a pack was visible at some moment of the request, not at its end;
  `SurfacesAgree` speaks of requests during which nothing changed (`quiet`).
- `FreshWriteKeepsTheRest` speaks of writes whose copy of the file nobody has overtaken
  (`stale`).
- `LockedRunIsPinned` excludes a pack that changed after its pin was verified (`moved`).
- `ListedIsInstalled` excludes packs whose last extraction threw or was killed, and packs listed
  from two sources at once (`cut`).
- `RestOfFileKept` speaks of the other keys only for commands that are not registry installs.
- `DeliveredWasApproved` and `DoneIsWritten` exclude sessions in which the user jumped with
  `/back` or `/skip`, the model answered for another phase than the current one, or the
  process died at the approval gate of the design (`astray`).

Four theorems have a hypothesis beside the `ASSUME`s, all of them about the instance and met by
the run that checks the same property:

- `OneImmutableSource` (`Served`, `Downloads`, `Refinement`): a version is published from one
  repository whose tags do not move. The registry checks neither; without it the three
  properties are false (section 6, items 1 to 3).
- `OneLoop` (`BadgeFalls`): one worker loop, which is what `startServer` starts. A second could
  raise the badge of the same pack, for another version, between the two statements.
- `~Mixes` and `Runs = {r}` (`RunInvariant` and its corollaries; the saga's traces need the first
  alone): see above.
- `DistinctIds` (`PreviewsOfVerdict`): no manifest names two recipes alike (item 43).

## 5. Proofs

Checked by TLAPS for every value of the constants that satisfies the `ASSUME`s of the modules.

**`Registry_proofs`.** `Agreement`: `Spec => []IInv`, for any packs, tags, sources, handlers
and workers, and any number of crashes and faults. `ReadyServable` alone is not inductive:
`markReady` writes a hash from the job's local state, so the invariant must say what a job at
each step knows. `JobOK` does: a job that has packed holds the hash of its tree, one that has
stored the blob finds it there, and one that has recorded the artifact finds it on the row,
*unless the pack row was replaced*, which is what `gen` tells (`SamePack`). `RowOK` says the
same for rows between statements, and `RequestOK` for handlers. The proof is split by actor.
For the worker: every step leaves rows that only grow (`WorkerGrows`), hence another job's
knowledge persists (`JobPersists`), the job at work knows what its next step needs
(`JobStepReads`), and each row it writes is in order (`RowStep`). Then `Crash`, `Boot` and the
environment. Corollaries: `TypeCorrect`, `Servable`, `Attributed`, `PrivateUnscreened`.
`Served`, `Downloads` and `Refinement` are about a repository whose tags stay. `OneTree` says that
every handler in flight then carries the one tree of its version and every row recorded no other;
with `RowOK`, a version holds one hash whichever of its artifacts is looked at (`OneHash`). The
refinement follows step by step: a step leaves the content of a row alone (a stutter), resets it
together with its pack (`Withdraw`), or stores the one hash there is (`StepPins`). `BadgeFalls` adds
what a job about to fail its version has done with the badge (`BadgeTaken`), which survives the steps
of publishers because a replaced pack row is another `gen`.

**`DryRun_proofs`.** `DryRunReads`: `Spec => []SameReads`. The inductive invariant `SameFiles`
is `TypeOK /\ SameReads`: because both sides decide on the same view, they write on the same
conditions, and `Cover` then makes the views agree again. `Receipts` goes through the layers a
receipt is merged from: each *tells* one tree from another (`Tells`: what it lists as changed
differs, and what it does not list is the same), and `MergeEntry` composes what its arguments tell
(`MergeTells`). For `DryRunPredicts` the views are not enough, the two memories must agree too:
`SameMemory` says that both sides touched and changed the same paths, that each remembers what the
plan left at its first sight of a path, and that a path nobody changed still holds that.

**`Organizations_proofs`.** `OvershootBounded` is not inductive: two handlers may both have
counted. `PlacesBounded` counts a handler that has passed the gate as holding a place already.
The handler that counts saw fewer live private packs than the limit, which bounds the counted
packs, and the others hold at most one place each; an insertion turns a place into a pack
(`Places`, `Overshoot`). Every step of `Organizations` is one of those for the packs, or a publish
that is not counted after a rename, or a restart that gives places back, hence `OrgPlaces`.
`OrgMembers` treats an acceptance that has counted as a seat, counted with the members.
`BootGrantsPublishers` needs what a boot has done at each of its steps. `LivePacksAreOwned` needs
that no two organizations have one slug (`SlugsUnique`) and that a publish in flight resolved an
organization that is still there (`ViaOK`), which only a delete that `raced` notes undoes.

**`RegistryClient_proofs`.** A process may write back a file it read long ago, over one that
others have changed, so `KeysWereGranted` is about the file only as long as it is about the copies
too: `ConfigInv` says that the keys in the file, in every copy, and in the hand of every login
past its verification are in `granted`, which only grows. `CallOK` says that of the keys a call
carries, registry by registry, and `RowsInv` that a ready row is in `readies`, whence
`PublishedBecameReady`. The freshness of a copy (`FreshInv`) says that it is what the file holds.

**`PackInstall_proofs`.** `ListedIsInstalled` holds between commands only. `ListInv` says what a
command in flight may leave unfinished: its own pack, in the steps between the removal of a
directory and the registration, and nothing else; `RestInv` says that what it is about to write is
what it started from, but for its own pack. The cases are one per action.

**`RecipeRun_proofs`.** For one run alone on its project (`Runs = {r}`, `~Mixes`), any files,
operations and faults. `Recoverable` alone says what the engine's memory restores, not why it
stays so. The invariant adds that the plan holds the bytes found at each target (`PlanKnown`), that
`ctx.files` remembers the bytes of a path at its first touch (`ApiKnown`), and that a rollback,
applied to the tree at any later step or to a tree a revert left half done, restores it
(`RevertAgain`).
The saga runs one such step at a time, so what is left to say is what the others keep. `Progress`:
the steps before the one at work are complete and those after it not begun; `FaultsPaid`: a
completed step that the rollback has passed cost a fault. These two are inductive for any plan
and give `StepsCompensated`. `Traces` says of each completed step that its receipt leads from
the tree the next one began with back to its own (`Undoes`), and of a rollback how far it has come
(`RolledBack`): the tree of the last compensated step, but for the files that receipts of the
passed ones still hold. A compensation then meets a tree that differs from the one its receipt is
about only in such files, whence `FailedSagaTraces`.

**`Catalog_proofs`.** A read is a few statements apart, and what it found may have changed since.
`Informed` says that it holds nothing its caller could not have seen: the slugs it read, the pack
past the gate, the answer. `UpToDate` says that what it found is still so as long as nothing moved
(`quiet`). A change beside the read keeps both, since the history of what was visible only grows
(`BesideRead`); the steps of the read are two lemmas, one for an answer (`Answered`) and one for
going on (`GoesOn`). `SemverOrder` takes the comparison apart: a first difference decides a list,
transitivity is about the earlier of two first differences. `MaxSemverIsHighest` and
`ReadyAreVersions` are inductions on the length of a list. The induction rule of the library takes
an operator and cannot be used; `UpTo` says the same of a *set* of numbers, and follows from the
least element of its complement. So a recursive function can be shown to be defined and what it
computes proved.

**`Packs_proofs`.** *DesignChat.* `LagInv` relates the history in memory to the one in the file,
step by step of `pc`. `PathInv` says that a session that has not gone astray has passed the gates before its
phase, both in memory and in the file, since a resume takes the file's word for it.

*Screening.* `JobKnows` says at each layer what the earlier ones have let through: past the scan the
tree has no finding, in the dry run there is a report per recipe so far and it is of that recipe,
past the verdict the report lets the tree pass. A public version that is served, or whose job is
past the tier, is `Settled`: the verdict row is of the tree of its row, through re-publishes and
kills that leave rows of older trees behind. `PreviewsKept` adds that the rows of the recipes reported so far
are those of the report; the one hypothesis is needed where a report is appended (`KeptMore`).

*LocalPacks.* The cache is keyed by the template's source, params and model, and a whole record is
one that was written under its own key; a torn one is refused. A run that has verified its pin
holds the pack the pin names until it `moved`. That the first scope with a pack is well defined
rests on the least element of a set of numbers, taken from `WFMin`.

What stays with TLC: liveness (`EveryVersionSettles`, `SagaEnds`, `CommandsEnd`), which rests on
fairness and ENABLED, out of the prover's reach; and the violated `InstalledIsDiscovered`. Every other
property of a run is a theorem. Those about runs of one project at once, or about several sources
of one version, are not: the code does not keep them (section 6).

## 6. Disagreements between code and documents

One is shown by a run that TLC violates, and is the finding of `PROJECT.json`:

- **An installed pack is not discovered** (`pack_checks_installed`). For a pack of a registry,
  `writeManifestFromJson` (`package-manager.ts:594-598`) writes a `manifest.ts` with a default
  export alone; `discover` (`registry.ts:172-194`) and the loader of `runRecipe`
  (`run-recipe.ts:51-64`) take an export named `Manifest`. The comment above
  (`package-manager.ts:585-586`) says that it is the shape the loader reads.

Others were met while modelling. They follow from the same modules; each is a schedule:

1. *Reset under a job.* The upsert resets a row the worker has claimed after the check
   (`publish/routes.ts:488`, against 326-329).
2. *Mislabelled version.* After such a reset to another source or commit, `markReady`
   (`worker/ingest.ts:377`) writes the hash of the old tree beside the new commit.
3. *Two artifacts.* A version ingested twice, from different trees, has two artifact rows; the download
   takes the first (`catalog/routes.ts:827`, against 799-800).
4. *Torn blob.* Killed between open and write (`storage.ts:46`); a later ingest of the same
   bytes finds the file and accepts it.
5. *Badge not retried.* The tier update of a crashed screening throws, the row is marked
   failed, and no sweep looks at failed rows (`ingest.ts:428-429` says one does).
6. *Torn creation.* A created file is remembered only after its write and chmod
   (`materialize.ts:391`); if these throw half way it stays.
7. *Failing formatter.* It is reverted without the recipe's own `compensate` and without a
   warning (`run-recipe.ts:471`, against `docs/PACKS.md:473`).
8. *Dry run deletes another run's files.* `cleanDryRunViolation` (`run-recipe.ts:563`) deletes
   what the tree gained, whoever wrote it.
9. *Stale plan.* Targets are compared, more awaits follow, and the plan is applied without
   another look (`materialize.ts:391`): a file written by another run in between is
   overwritten under `skip` (`docs/PACKS.md:703`).
10. *Dry-run receipt.* Bytes written back are `update` in the dry run and `unchanged` in the
    real one (`recipe-files.ts:200`); a change followed by a skipped write is missing from the
    dry run's hash (`recipe-files.ts:192`; `docs/PACKS.md:185`, 455).
11. *Plan-limit race.* Two publishes count at once (`publish/routes.ts:438`,
    `plan-limits.ts:14-15`); the theorem `Overshoot` says how far that goes.
12. *Echoed visibility.* Read before the INSERT that may lose (`publish/routes.ts:681`, against
    643-645).
13. *Dropped settings keys.* A registry install writes `packages` alone (`install.ts:807`,
    against `package-manager.ts:207-208`).
14. *Failed source delisted.* `install.ts:923` removes the registration that 875-876 says is
    preserved.
15. *Design killed at its gate.* The phase is saved before the approval is asked
    (`chat.ts:247`); a resumed session stands behind the gate.
16. *No gate after the bootstrap turn.* Its payload may finish a phase (`chat.ts:155`).
17. *`/skip` in DELIVER* sets DONE and writes nothing (`slash.ts:87-88`, against 75-77).
18. *`/exit` loses the model's last answer* (`chat.ts:247`), though `pack-design/run.ts:115`
    prints that the session is saved.
19. *`/rewind` and `/undo` only save* (`slash.ts:12`, 47).
20. *A ready version is overwritten.* A publish sees a pending version
    (`publish/routes.ts:326`); the worker makes it ready; the publish's upsert (488) overwrites
    commit and hash. Lines 321-323 say that never happens.
21. *A failed run leaves a trace.* A file created from a template and rewritten through
    `ctx.files` is in both lists of the merged rollback (`run-recipe.ts:569`, against 234-235),
    so `revertFiles` deletes it and then restores the template's bytes.
22. *A private pack beyond the limit, without a race.* Publish a, unpublish a, publish b,
    re-publish a: `packExists` (`publish/routes.ts:432`) counts the tombstone as the pack, and
    the gate is skipped (against 640-642).
23. *A failed upgrade is not atomic.* The old directory is removed (`install.ts:787`, against
    627-628) before the new one is extracted.

Organizations:

24. *Packs without an owner.* An organization is renamed and then deleted, or deleted while a
    publish is past its lookup: live packs stay under a slug nobody owns (against
    `org-routes.ts:441`).
25. *Renamed under a publish.* The plan gate then counts under the slug the organization has at
    that moment, where the packs are not.
26. *No membership limit.* A comment of `better-auth.ts` says that the library's own
    `membershipLimit` is pinned to Infinity; no such option is set.

The client:

27. *Order of a search.* Results are sorted by scope and name before registry; `search.ts:29-31`
    says the order of the configuration comes first.
28. *Search without a key.* The CLI's search sends no key, though `registry-client.ts:160-162`
    says that both reads carry it (the MCP tool's does).
29. *Project registries ignored.* The commands for one registry pass no directory to the
    resolver, so the list of `.baka/settings.json` has no effect on them.
30. *Unreachable.* `publish.ts:227-232`, for a poll that never saw the version.
31. *An empty file is a blank one.* A `config.json` truncated by a kill reads as `{}`; one cut in
    the middle is an error.
32. *Lost updates.* Overlapping commands lose each other's sections; a logout may be undone by a
    login to another registry. An interactive `role` writes back the block it read before its
    prompts.
33. *Preview.* `preview --json` takes the state from the list and the files from the detail, where
    the MCP tool takes both from the detail; the two differ on recipes that need a model; and the
    requests per recipe are outside of the `try`.
34. *Info of an unknown version* prints "(not screened)".
35. *A request has no timeout*: `CommandsEnd` rests on the connection.
36. *Logout* removes the key under the normalized URL only.

Screening:

37. *Files of a soft failure.* The parent drops them, where `dry-run-script.ts:357-360` says they
    are recorded.
38. *Unseen files.* What a recipe writes into `node_modules`, `out` or a dot directory never
    reaches output validation.
39. *Unverified.* A comment in `ingest.ts` (315-319) says that a clean static scan writes an
    `unverified` row before the other layers run; none is written.
40. *Timeout before failure.* The first reason wins, so a recipe that times out before another
    fails makes the version unverified and ready, against `dry-run.ts:40-43`.
41. *Screened, then failed.* The verdict is written before the loadability gate, which may fail
    the version; and a failed version may keep the verdict row of an older tree.
42. *Old previews.* A re-publish that drops a recipe leaves its preview rows.
43. *Two recipes of one id.* The manifest's schema (`packages/protocol/src/schemas.ts:262`) lets
    two recipes share an id. Both are run, and the preview of the second overwrites the first's
    (`preview-record.ts:57`): the verdict was reached on a report that is no longer shown.

Local packs and installs:

44. *Template subset.* The static scan rejects `{{#slot}}`, `{{json x}}` and `{{jsonEscape x}}`,
    which `docs/PACKS.md` allows, and admits `with` and `unless`, which the engine rejects.
45. *Two ideas of a pack root.* `resolvePackRoot` takes the first directory that has a manifest,
    `discover` the first that loads; with a broken one in front they differ (against
    `registry.ts:97-98`).
46. *Key of a pack.* `discover` skips an entry by the name of its directory; the comment at
    `registry.ts:208` says the declared name is the key.
47. *Torn record.* A kill inside `writeSlotCache` leaves a record that every later run refuses
    until it is removed by hand.
48. *Vacuous comparison.* `runBakaPlan` returns the path of the plan, which `runOnce` parses as
    the plan, and the apply writes to the project while the walk is of the run's own directory
    (`consistency.ts:121-143`): what is compared is empty each time.
49. *Two sources of one directory.* `npm:@acme/widget` and the same with a version, or a git or local
    source whose directory has that name, are listed side by side (`package-manager.ts:326-345`);
    only the last extracted is there, and removing one deletes the directory of the other.

## 7. Not modelled, and why

- The schema gate and the migrations: they run alone, one after the other, before the server
  starts; their statements are guarded by `IF NOT EXISTS` or by the table of applied migrations,
  so that the one schedule there is (a kill before the version file is written) only makes the
  next boot run them again.
- `run`, `plan` and `pack` of the CLI, the MCP server's workflow tools, sdk and core: no state of
  their own around one call of the engine.
- The AST walks and child processes inside the screening layers, and the agent's providers:
  `Screening` takes what a walk or a child reports from a small vocabulary, and an answer of a
  model is a choice wherever one is used.
- The session and key handling of better-auth: a library. Its tables are rows of `Organizations`
  that external steps write.
- Plan seeding and the registration of built-in packs at boot.
- Filters, paging and layout of the catalog's answers; headers and streaming of downloads.
- Dashboard and landing site: user interface.
- Slots with supplied or replayed values, the user's tier of the slot cache, templates with
  several slots (`LocalPacks` has one).
- Directories, symbolic links and permission bits in the project tree, except the one effect
  of permission bits on the dry run's receipt (`BitsKept`).
- A session file of the chat that is cut short by a kill inside `writeFileSync`: it reads as no
  session (`session.ts:15-19`), so the design starts over. The settings file and the config file,
  which the same kind of write tears, are modelled in steps.
- Durations. Timeouts appear as a step that may fail, as `RowTurnsStale` and as `PollDeadline`.
- Two runs of one project, and two installs, at once: section 2.
