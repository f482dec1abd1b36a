----------------------------- MODULE RecipeRun -----------------------------
(***************************************************************************)
(* runRecipe and compensateRecipe (packages/recipes/src/run-recipe.ts) on  *)
(* one project: the templates are planned and written, the pack's          *)
(* recipe.ts runs, a formatter may rewrite the result, and whatever fails  *)
(* is undone.  Each stretch of code between two awaits is a step; nothing  *)
(* serializes the runs of a project (POST /v1/run of packages/engine).     *)
(* What recipe.ts and the formatter do is up to the pack, hence any of the *)
(* choices below.  In a dry run ctx.files acts on an overlay and leaves    *)
(* the disk alone: DryRun is about what it predicts.                       *)
(***************************************************************************)
EXTENDS RecipeFiles, Integers

CONSTANTS
    Runs,           \* calls of runRecipe
    DryRuns,        \* which of them may be dry runs
    RawWrites,      \* may a recipe.ts write past ctx.files (plain node:fs)?
    Mixes,          \* may it address through ctx.files a file that its run has
                    \* already created from a template or written past it?
    Formats,        \* may a run ask for the recipe's formatter?
    MaxOps,         \* bound: file operations of one recipe.ts
    MaxFaults,      \* bound: disk operations of the engine that throw
    MaxTorn         \* bound: those among them that leave something half done

ASSUME RunAssumption ==
    /\ DryRuns \subseteq Runs
    /\ {RawWrites, Mixes, Formats} \subseteq BOOLEAN
    /\ {MaxOps, MaxFaults, MaxTorn} \subseteq Nat

VARIABLES
    disk,       \* the project's files
    run,        \* what each run has chosen, read and written
    base,       \* history: the disk when each run began
    spent       \* how much of MaxFaults and MaxTorn has been spent

vars == <<disk, run, base, spent>>

Phases == {"idle", "begin", "slots", "apply", "recipe", "compensate", "rollback",
           "clean", "finish", "ok", "failed", "undone"}

\* comp: the receipt's compensation; before: the tree hashed before recipe.ts;
\* past: the files recipe.ts modified or deleted past ctx.files, whose bytes the
\* engine never had;
\* warned: the files the rollback-incomplete warning names.
RunRecord == [pc : Phases, policy : Policies, dry : BOOLEAN, code : BOOLEAN,
              rendered : ProjectTrees, found : ProjectTrees,
              before : ProjectTrees, api : Apis, comp : Rollbacks,
              past : SUBSET Paths, warned : SUBSET Paths, ops : Nat]

IdleRun == [pc |-> "idle", policy |-> "skip", dry |-> FALSE, code |-> FALSE,
            rendered |-> EmptyTree, found |-> EmptyTree,
            before |-> EmptyTree, api |-> FreshApi, comp |-> NoRollback,
            past |-> {}, warned |-> {}, ops |-> 0]

TypeOK ==
    /\ disk \in ProjectTrees
    /\ run \in [Runs -> RunRecord]
    /\ base \in [Runs -> ProjectTrees]
    /\ spent \in [faults : 0..MaxFaults, torn : 0..MaxTorn]

Init ==
    /\ disk \in ProjectTrees
    /\ run = [r \in Runs |-> IdleRun]
    /\ base = [r \in Runs |-> EmptyTree]
    /\ spent = [faults |-> 0, torn |-> 0]

At(r, pc) == run[r].pc = pc
Then(r, pc) == run' = [run EXCEPT ![r].pc = pc]

\* The call returns: all that is left of it is its receipt, and what its
\* recipe.ts knows of the files it changed.
Returned(r, outcome) ==
    [run[r] EXCEPT !.pc = outcome, !.rendered = EmptyTree, !.found = EmptyTree,
                   !.api = FreshApi, !.ops = 0]
Return(r, outcome) == run' = [run EXCEPT ![r] = Returned(r, outcome)]
ReturnUndone(r, warned) ==
    run' = [run EXCEPT ![r] =
              [Returned(r, "failed") EXCEPT !.comp = NoRollback, !.warned = warned]]

Fault == spent.faults < MaxFaults /\ spent' = [spent EXCEPT !.faults = @ + 1]
TornFault == spent.torn < MaxTorn /\ spent' = [spent EXCEPT !.torn = @ + 1]
-----------------------------------------------------------------------------
(* Planning.                                                               *)

\* A call arrives.  The templates whose `when` holds and the bytes they will
\* render to are chosen with it.
BeginRun(r, policy, dry, code) ==
    /\ At(r, "idle")
    /\ \E rendered \in ProjectTrees :
          run' = [run EXCEPT ![r] = [IdleRun EXCEPT
                    !.pc = "begin", !.policy = policy, !.dry = dry,
                    !.code = code, !.rendered = rendered]]
    /\ base' = [base EXCEPT ![r] = disk]
    /\ UNCHANGED <<disk, spent>>

\* The addons have agreed.  Under `fail` a target that exists ends the run,
\* before any slot is filled.
CheckTargets(r) ==
    /\ At(r, "begin")
    /\ IF /\ run[r].policy = "fail"
          /\ \E p \in Paths : run[r].rendered[p] # Absent /\ disk[p] # Absent
         THEN Return(r, "failed")
         ELSE Then(r, "slots")
    /\ UNCHANGED <<disk, base, spent>>

\* A lock mismatch, bad params, an addon, an unsupported dry run, an open slot
\* or a broken template ends the run before anything is written.
RefuseRun(r) ==
    /\ run[r].pc \in {"begin", "slots"}
    /\ Return(r, "failed")
    /\ UNCHANGED <<disk, base, spent>>

\* The last slot is filled: every target is compared with the disk.
PlanRun(r) ==
    /\ At(r, "slots")
    /\ run' = [run EXCEPT ![r] = [@ EXCEPT !.pc = "apply",
            !.found = [p \in Paths |-> IF run[r].rendered[p] # Absent
                                         THEN disk[p] ELSE Absent]]]
    /\ UNCHANGED <<disk, base, spent>>
-----------------------------------------------------------------------------
(* Writing the plan.                                                       *)

Planned(r) == PlannedWrites(run[r].rendered, run[r].found, run[r].policy)

\* applyPlan; recipe.ts starts at once, after the tree has been hashed.
ApplyPlan(r) ==
    LET tree == TreeAfterPlan(disk, run[r].rendered, Planned(r))
    IN  /\ At(r, "apply") /\ ~run[r].dry
        /\ disk' = tree
        /\ run' = [run EXCEPT ![r] = [@ EXCEPT
                    !.pc = IF run[r].code THEN "recipe" ELSE "finish",
                    !.comp = PlanRollback(run[r].found, Planned(r)),
                    !.before = tree]]
        /\ UNCHANGED <<base, spent>>

\* A file of the plan cannot be written; those before it are reverted, and so
\* is this one if it was there.
ApplyFails(r) ==
    /\ At(r, "apply") /\ ~run[r].dry
    /\ Fault
    /\ \E done \in SUBSET Planned(r) :
          disk' = RevertFiles(TreeAfterPlan(disk, run[r].rendered, done),
                              PlanRollback(run[r].found, done))
    /\ Return(r, "failed")
    /\ UNCHANGED base

\* The same, but the file is created before its write or its chmod throws, or
\* the revert itself throws: either way nothing is left to undo it with.
ApplyTorn(r) ==
    /\ At(r, "apply") /\ ~run[r].dry
    /\ TornFault
    /\ \E done \in SUBSET Planned(r) :
         LET tree == TreeAfterPlan(disk, run[r].rendered, done)
             undo == PlanRollback(run[r].found, done)
         IN  \/ \E p \in Planned(r) \ done, b \in Bytes :
                   /\ run[r].found[p] = Absent
                   /\ disk' = [RevertFiles(tree, undo) EXCEPT ![p] = b]
             \/ disk' \in PartialReverts(tree, undo)
    /\ Return(r, "failed")
    /\ UNCHANGED base

\* A dry run ends with its plan, or runs recipe.ts over an overlay.
StartDryRun(r) ==
    /\ At(r, "apply") /\ run[r].dry
    /\ IF run[r].code
         THEN run' = [run EXCEPT ![r] = [@ EXCEPT !.pc = "recipe", !.before = disk]]
         ELSE Return(r, "ok")
    /\ UNCHANGED <<disk, base, spent>>
-----------------------------------------------------------------------------
(* recipe.ts.                                                              *)

MayOperate(r) == At(r, "recipe") /\ run[r].ops < MaxOps

\* ctx.files may address p (see Mixes).
MayAddress(r, p) ==
    \/ Mixes
    \/ p \in run[r].api.changed
    \/ p \notin run[r].comp.created /\ disk[p] = run[r].before[p]

RecipeWrites(r) ==
    /\ MayOperate(r) /\ ~run[r].dry
    /\ \E p \in Paths, b \in Bytes, policy \in Policies :
          /\ MayAddress(r, p)
          /\ disk' = TreeAfterWrite(disk, p, b, policy)
          /\ run' = [run EXCEPT ![r] = [@ EXCEPT
                       !.api = ApiAfterWrite(run[r].api, disk, p, b, policy),
                       !.ops = run[r].ops + 1]]
    /\ UNCHANGED <<base, spent>>

RecipeRemoves(r) ==
    /\ MayOperate(r) /\ ~run[r].dry
    /\ \E p \in Paths :
          /\ MayAddress(r, p)
          /\ disk' = TreeAfterRemove(disk, p)
          /\ run' = [run EXCEPT ![r] = [@ EXCEPT
                       !.api = ApiAfterRemove(run[r].api, disk, p),
                       !.ops = run[r].ops + 1]]
    /\ UNCHANGED <<base, spent>>

\* Plain node:fs, which the engine sees only in the tree afterwards.
RecipeWritesRaw(r) ==
    /\ MayOperate(r) /\ RawWrites
    /\ \E p \in Paths, c \in Content : disk' = [disk EXCEPT ![p] = c]
    /\ run' = [run EXCEPT ![r].ops = @ + 1]
    /\ UNCHANGED <<base, spent>>

\* All that the engine knows of what the run wrote.
Known(r) ==
    MergeRollbacks(run[r].comp, RecipeRollback(run[r].api, run[r].before, disk))

\* execute returns or throws: the tree is hashed again.  If it reports a
\* failure its own compensate is called; if it throws it is not, and neither
\* is it when recipe.ts cannot be loaded.
EndRecipe(r, pc) ==
    /\ At(r, "recipe") /\ ~run[r].dry
    /\ run' = [run EXCEPT ![r] = [@ EXCEPT !.pc = pc, !.comp = Known(r),
                 !.past = ChangedBetween(run[r].before, disk) \ Restorable(Known(r))]]
    /\ UNCHANGED <<disk, base, spent>>

RecipeSucceeds(r) == EndRecipe(r, "finish")
RecipeThrows(r) == EndRecipe(r, "rollback")
RecipeReportsFailure(r) == EndRecipe(r, "compensate")

\* The recipe's own compensate puts back what it can of what it changed past
\* ctx.files; if it throws that is only a warning.  Then the files are named
\* that nothing restores.
OwnCompensate(r) ==
    /\ At(r, "compensate")
    /\ \E back \in SUBSET run[r].past :
          disk' = [p \in Paths |-> IF p \in back THEN run[r].before[p] ELSE disk[p]]
    /\ Then(r, "rollback")
    /\ UNCHANGED <<base, spent>>

\* A dry run whose recipe.ts touched the tree is a violation, which names what
\* was modified.
EndDryRun(r) ==
    /\ At(r, "recipe") /\ run[r].dry
    /\ \/ /\ disk # run[r].before
          /\ run' = [run EXCEPT ![r] = [@ EXCEPT !.pc = "clean",
                !.comp = [created |-> CreatedBetween(run[r].before, disk),
                          overwritten |-> EmptyTree],
                !.warned = ChangedBetween(run[r].before, disk)]]
       \/ disk = run[r].before /\ (Return(r, "ok") \/ Return(r, "failed"))
    /\ UNCHANGED <<disk, base, spent>>

\* cleanDryRunViolation: what the tree gained meanwhile is deleted.
CleanDryRun(r) ==
    /\ At(r, "clean")
    /\ disk' = RevertFiles(disk, run[r].comp)
    /\ ReturnUndone(r, run[r].warned)
    /\ UNCHANGED <<base, spent>>
-----------------------------------------------------------------------------
(* The end of a run.                                                       *)

Rollback(r) ==
    /\ At(r, "rollback")
    /\ disk' = RevertFiles(disk, run[r].comp)
    /\ ReturnUndone(r, run[r].past)
    /\ UNCHANGED <<base, spent>>

\* A revert that throws keeps the compensation in the receipt.
RollbackFails(r) ==
    /\ At(r, "rollback")
    /\ Fault
    /\ disk' \in PartialReverts(disk, run[r].comp)
    /\ run' = [run EXCEPT ![r] =
                 [Returned(r, "failed") EXCEPT !.warned = run[r].past]]
    /\ UNCHANGED base

\* The files the formatter is given: those the run created or updated.
Formattable(r) ==
    {p \in run[r].comp.created \union Restorable(run[r].comp) \union run[r].past :
        disk[p] # Absent}

FormattedTrees(r) ==
    {[p \in Paths |-> IF p \in S THEN b ELSE disk[p]] :
        S \in SUBSET Formattable(r), b \in Bytes}

\* The run is committed; validators judge it later and change nothing.
FinishRun(r) ==
    /\ At(r, "finish")
    /\ \/ disk' = disk
       \/ Formats /\ disk' \in FormattedTrees(r)
    /\ Return(r, "ok")
    /\ UNCHANGED <<base, spent>>

\* The formatter fails half way (with no file to format it is not run): the
\* catch of runRecipeOnce reverts, without the recipe's own compensate and
\* without naming what cannot be restored.
FormatFails(r) ==
    /\ At(r, "finish") /\ Formats
    /\ Formattable(r) # {}
    /\ \E tree \in FormattedTrees(r) : disk' = RevertFiles(tree, run[r].comp)
    /\ ReturnUndone(r, {})
    /\ UNCHANGED <<base, spent>>

\* compensateRecipe, on the receipt of a run that has one worth undoing: the
\* files first, then the recipe's own compensate.
UndoRun(r) ==
    /\ run[r].pc \in {"ok", "failed"} /\ ~run[r].dry
    /\ run[r].pc = "failed" => run[r].comp # NoRollback
    /\ \E back \in SUBSET run[r].past :
          LET tree == RevertFiles(disk, run[r].comp)
          IN  disk' = [p \in Paths |-> IF p \in back THEN run[r].before[p] ELSE tree[p]]
    /\ run' = [run EXCEPT ![r] = [@ EXCEPT !.pc = "undone", !.comp = NoRollback]]
    /\ UNCHANGED <<base, spent>>

\* The undo throws: the caller still has the receipt.
UndoFails(r) ==
    /\ run[r].pc \in {"ok", "failed"} /\ ~run[r].dry
    /\ run[r].pc = "failed" => run[r].comp # NoRollback
    /\ Fault
    /\ disk' \in PartialReverts(disk, run[r].comp)
    /\ UNCHANGED <<run, base>>

\* What the engine does for a call it has accepted.
RunStep(r) ==
    \/ CheckTargets(r)
    \/ RefuseRun(r)
    \/ PlanRun(r)
    \/ ApplyPlan(r)
    \/ ApplyFails(r)
    \/ ApplyTorn(r)
    \/ StartDryRun(r)
    \/ RecipeWrites(r)
    \/ RecipeRemoves(r)
    \/ RecipeWritesRaw(r)
    \/ RecipeSucceeds(r)
    \/ RecipeThrows(r)
    \/ RecipeReportsFailure(r)
    \/ OwnCompensate(r)
    \/ EndDryRun(r)
    \/ CleanDryRun(r)
    \/ Rollback(r)
    \/ RollbackFails(r)
    \/ FinishRun(r)
    \/ FormatFails(r)

Next ==
    \E r \in Runs :
        \/ \E policy \in Policies, dry, code \in BOOLEAN :
              (dry => r \in DryRuns) /\ BeginRun(r, policy, dry, code)
        \/ RunStep(r)
        \/ UndoRun(r)
        \/ UndoFails(r)

Spec == Init /\ [][Next]_vars
-----------------------------------------------------------------------------
(* Invariants of a project with one run.                                   *)

\* The bytes the run began with, at every path but those of S.
BackAt(tree, r, S) == \A p \in Paths \ S : tree[p] = base[r][p]

\* A run that failed, or was undone, leaves nothing behind: the files it
\* created are gone and those it overwrote are back; only files a recipe.ts
\* changed past ctx.files may differ.  run-recipe.ts:234-235: "A failure before
\* or during execution leaves no trace".  (A creation or a revert that throws
\* half way, spent.torn, does leave one.)
FailureLeavesNoTrace ==
    spent.torn = 0 =>
        \A r \in Runs :
            At(r, "undone") \/ (At(r, "failed") /\ run[r].comp = NoRollback)
                => BackAt(disk, r, run[r].warned \union run[r].past)

\* From the first write to the end of the run, and for as long as a receipt
\* holds a compensation, what the engine knows is enough to restore the tree:
\* whatever step fails next, and if the revert itself throws half way.
Recoverable ==
    \A r \in Runs : ~run[r].dry =>
        /\ At(r, "recipe") =>
              BackAt(RevertFiles(disk, Known(r)), r, ChangedBetween(run[r].before, disk))
        /\ run[r].pc \in {"compensate", "rollback", "finish", "ok"} \/
             (At(r, "failed") /\ run[r].comp # NoRollback) =>
              BackAt(RevertFiles(disk, run[r].comp), r, run[r].past)
=============================================================================
