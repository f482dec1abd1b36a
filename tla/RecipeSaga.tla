----------------------------- MODULE RecipeSaga -----------------------------
(***************************************************************************)
(* runSaga (packages/recipes/src/saga.ts) over worker steps (worker.ts):   *)
(* the recipes of a plan run one after the other; when one fails, those    *)
(* that completed are compensated in reverse order, each from its receipt. *)
(* The failed step is left to its own rollback.  The project is RecipeRun, *)
(* with one run per step of the plan.                                      *)
(***************************************************************************)
EXTENDS RecipeRun, FiniteSets

CONSTANT NSteps     \* steps of the plan: its runs are 1..NSteps

ASSUME SagaAssumption == NSteps \in Nat /\ 1..NSteps \subseteq Runs

VARIABLE saga       \* status, the step at work, and (history) the disk at first

sagaVars == <<vars, saga>>

SagaInit ==
    /\ Init
    /\ saga = [status |-> "EXECUTING", at |-> 1, start |-> disk]

Executing == saga.status = "EXECUTING" /\ saga.at <= NSteps
Compensating == saga.status = "COMPENSATING" /\ saga.at >= 1
-----------------------------------------------------------------------------
\* The worker calls runRecipe, which skips existing targets by default.
ExecuteStep ==
    /\ Executing
    /\ \E code \in BOOLEAN : BeginRun(saga.at, "skip", FALSE, code)
    /\ UNCHANGED saga

StepWorks ==
    /\ Executing
    /\ RunStep(saga.at)
    /\ UNCHANGED saga

StepCompletes ==
    /\ Executing
    /\ At(saga.at, "ok")
    /\ saga' = [saga EXCEPT !.at = @ + 1]
    /\ UNCHANGED vars

\* (Mutant: the rollback starts at the failed step.)
StepFailsIncluded ==
    /\ Executing
    /\ run[saga.at].pc \in {"idle", "failed"}
    /\ saga' = [saga EXCEPT !.status = "COMPENSATING"]
    /\ UNCHANGED vars

\* The step's run failed, or no worker is registered for it.
StepFails ==
    /\ Executing
    /\ run[saga.at].pc \in {"idle", "failed"}
    /\ saga' = [saga EXCEPT !.status = "COMPENSATING", !.at = @ - 1]
    /\ UNCHANGED vars

AllStepsComplete ==
    /\ saga.status = "EXECUTING" /\ saga.at = NSteps + 1
    /\ saga' = [saga EXCEPT !.status = "SUCCESS"]
    /\ UNCHANGED vars

\* (Mutant: the oldest step is compensated first.)
CompensateOldest ==
    /\ Compensating
    /\ \E r \in Runs :
          /\ At(r, "ok") /\ \A q \in Runs : At(q, "ok") => r <= q
          /\ UndoRun(r)
    /\ saga' = [saga EXCEPT !.at = @ - 1]

Compensate ==
    /\ Compensating
    /\ UndoRun(saga.at)
    /\ saga' = [saga EXCEPT !.at = @ - 1]

\* (Mutant: a compensation that fails ends the rollback.)
CompensateGivesUp ==
    /\ Compensating
    /\ UndoFails(saga.at)
    /\ saga' = [saga EXCEPT !.at = 0]

\* A compensation that fails is logged; the next one is due.
CompensateFails ==
    /\ Compensating
    /\ UndoFails(saga.at)
    /\ saga' = [saga EXCEPT !.at = @ - 1]

AllCompensated ==
    /\ saga.status = "COMPENSATING" /\ saga.at = 0
    /\ saga' = [saga EXCEPT !.status = "FAILED"]
    /\ UNCHANGED vars

SagaNext ==
    \/ ExecuteStep
    \/ StepWorks
    \/ StepCompletes
    \/ StepFails
    \/ AllStepsComplete
    \/ Compensate
    \/ CompensateFails
    \/ AllCompensated

SagaSpec == SagaInit /\ [][SagaNext]_sagaVars

\* The saga is one async function: it goes on as long as the recipes return.
FairSagaSpec == SagaSpec /\ WF_sagaVars(SagaNext)
-----------------------------------------------------------------------------
\* A plan that failed leaves the project as it was, or there is a receipt that
\* can still undo what is left: the files of a completed step whose own
\* compensation failed, those of the failed step whose own rollback did, and
\* the files a recipe.ts changed past ctx.files.  (A creation or a revert that
\* throws half way, spent.torn, may leave one that no receipt names.)
Leftover(r) ==
    run[r].comp.created \union Restorable(run[r].comp) \union run[r].past

FailedSagaLeavesNoTrace ==
    saga.status = "FAILED" /\ spent.torn = 0 =>
        \A p \in Paths : disk[p] = saga.start[p] \/ \E r \in Runs : p \in Leftover(r)

\* No completed step is left uncompensated because another could not be: only
\* a compensation that was tried and failed leaves its receipt open.
EveryStepCompensated ==
    saga.status = "FAILED" =>
        Cardinality({r \in Runs : At(r, "ok")}) <= spent.faults

\* A rollback ends, whatever the compensations do.
SagaEnds == saga.status = "COMPENSATING" ~> saga.status = "FAILED"
=============================================================================
