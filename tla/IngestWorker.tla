---------------------------- MODULE IngestWorker ----------------------------
(***************************************************************************)
(* The polling ingest worker: the loop of apps/registry/src/worker/runner.ts*)
(* and the job it runs, apps/registry/src/worker/ingest.ts.  Every query,  *)
(* clone and write the job awaits is a step.  What the three screening     *)
(* layers find in a pack is a choice: any verdict, or an exception.        *)
(***************************************************************************)
EXTENDS RegistryState

VARIABLE job    \* the loop's position and the locals of the job it runs

IdleJob == [pc |-> "sweep", key |-> None, gen |-> 0, tree |-> None,
            public |-> FALSE, verdict |-> "none", hash |-> None]
OffJob == [IdleJob EXCEPT !.pc = "off"]

LoopSteps == {"off", "sweep", "claim"}
EarlySteps == {"fetchRow", "fetchPack", "clone"}
ScreenSteps == {"screen", "writeVerdict", "tier", "load"}
StoreSteps == {"put", "putting", "record", "markReady"}
FailureSteps == {"failSelect", "failTier", "markFailed"}
JobSteps == EarlySteps \union ScreenSteps \union StoreSteps \union FailureSteps

JobRecord == [pc : LoopSteps \union JobSteps,
              key : Keys \union {None},
              gen : Nat,
              tree : Trees \union {None},
              public : BOOLEAN,
              verdict : Verdicts \union {"none"},
              hash : Hashes \union {None}]

JobTypeOK == job \in [Workers -> JobRecord]
JobInit == job = [w \in Workers |-> IdleJob]

\* w holds a claimed row, which it still takes for its own.
HasJob(w) == job[w].pc \in JobSteps
OwnRow(w) == SameRow(job[w].key, job[w].gen)

At(w, pc) == job[w].pc = pc
Then(w, pc) == job' = [job EXCEPT ![w].pc = pc]
NextCycle(w) == job' = [job EXCEPT ![w] = IdleJob]

\* Writes `row` to the job's version row and stamps it; no row, no effect.
WriteOwnRow(w, row) ==
    IF OwnRow(w)
      THEN WriteVersions([version EXCEPT ![job[w].key] = row], {job[w].key})
      ELSE UNCHANGED <<version, older, stale>>
-----------------------------------------------------------------------------
\* (Mutant: the sweep resets nothing.)
SweepNothing(w) ==
    /\ At(w, "sweep")
    /\ Then(w, "claim")
    /\ UNCHANGED storeVars

\* sweepStaleIngestingRows, before every claim.
Sweep(w) ==
    /\ At(w, "sweep")
    /\ ResetToPending({k \in stale : version[k].status = "ingesting"})
    /\ Then(w, "claim")
    /\ UNCHANGED <<pack, blob, tagCommit, used>>

\* claimNextPendingRow: an oldest pending row, in one statement.
Claim(w) ==
    /\ At(w, "claim")
    /\ \E k \in Keys :
          /\ version[k].status = "pending"
          /\ \A other \in Keys : <<other, k>> \notin older
          /\ WriteVersions([version EXCEPT ![k].status = "ingesting"], {k})
          /\ job' = [job EXCEPT ![w] = [IdleJob EXCEPT !.pc = "fetchRow",
                                !.key = k, !.gen = pack[k[1]].gen]]
    /\ UNCHANGED <<pack, blob, tagCommit, used>>

NothingToClaim(w) ==
    /\ At(w, "claim")
    /\ \A k \in Keys : version[k].status # "pending"
    /\ NextCycle(w)
    /\ UNCHANGED storeVars

\* A row that is gone, ready or failed ends the job; any other is ingested.
FetchRow(w) ==
    /\ At(w, "fetchRow")
    /\ IF OwnRow(w) /\ version[job[w].key].status \notin {"ready", "failed"}
         THEN job' = [job EXCEPT ![w] =
                 [@ EXCEPT !.pc = "fetchPack", !.tree = version[job[w].key].tree]]
         ELSE NextCycle(w)
    /\ UNCHANGED storeVars

FetchPack(w) ==
    LET p == job[w].key[1]
    IN  /\ At(w, "fetchPack")
        /\ IF SamePack(p, job[w].gen)
             THEN job' = [job EXCEPT ![w] =
                    [@ EXCEPT !.pc = "clone",
                              !.public = (pack[p].visibility = "public")]]
             ELSE Then(w, "failSelect")
        /\ UNCHANGED storeVars

\* (Mutant: the re-clone is not compared with the recorded commit.)
CloneUnchecked(w) ==
    /\ At(w, "clone")
    /\ \E c \in CloneAtTag(job[w].tree[1], job[w].key[2]) :
          job' = [job EXCEPT ![w] =
                    [@ EXCEPT !.pc = IF job[w].public THEN "screen" ELSE "load",
                              !.tree = <<job[w].tree[1], c>>]]
    /\ UNCHANGED storeVars

\* The re-clone must give the commit the row recorded.  Private packs skip
\* the screening.  From here on `tree` is what was cloned.
Clone(w) ==
    /\ At(w, "clone")
    /\ \E c \in CloneAtTag(job[w].tree[1], job[w].key[2]) :
          IF c # job[w].tree[2]
            THEN Then(w, "failSelect")
            ELSE job' = [job EXCEPT ![w] =
                    [@ EXCEPT !.pc = IF job[w].public THEN "screen" ELSE "load",
                              !.tree = <<job[w].tree[1], c>>]]
    /\ UNCHANGED storeVars

\* Static scan, dry run and output validation settle on a verdict.
Screen(w) ==
    /\ At(w, "screen")
    /\ \E v \in Verdicts :
          job' = [job EXCEPT ![w] = [@ EXCEPT !.pc = "writeVerdict", !.verdict = v]]
    /\ UNCHANGED storeVars

\* writeScreeningResult; the foreign key refuses it when the row is gone.
WriteVerdict(w) ==
    /\ At(w, "writeVerdict")
    /\ IF OwnRow(w)
         THEN /\ version' =
                   [version EXCEPT ![job[w].key].verdict = job[w].verdict]
              /\ Then(w, "tier")
         ELSE /\ UNCHANGED version
              /\ Then(w, "failSelect")
    /\ UNCHANGED <<pack, older, stale, blob, tagCommit, used>>

\* The tier follows the verdict; a failed verdict then throws.
TierForVerdict(w) ==
    /\ At(w, "tier")
    /\ UpdateTier(job[w].key[1], job[w].gen, job[w].verdict)
    /\ Then(w, IF job[w].verdict = "failed" THEN "failSelect" ELSE "load")
    /\ UNCHANGED <<version, older, stale, blob, tagCommit, used>>

\* The loadability gate passes and the tree is packed.
LoadAndPack(w) ==
    /\ At(w, "load")
    /\ job' = [job EXCEPT ![w] = [@ EXCEPT !.pc = "put",
                                           !.hash = HashOf[job[w].tree]]]
    /\ UNCHANGED storeVars

\* storage.put opens the file exclusively; a file that is there is taken as it
\* is, whatever it holds.
OpenBlob(w) ==
    /\ At(w, "put")
    /\ IF blob[job[w].hash] = "absent"
         THEN /\ blob' = [blob EXCEPT ![job[w].hash] = "torn"]
              /\ Then(w, "putting")
         ELSE /\ UNCHANGED blob
              /\ Then(w, "record")
    /\ UNCHANGED <<pack, version, older, stale, tagCommit, used>>

FinishBlob(w) ==
    /\ At(w, "putting")
    /\ blob' = [blob EXCEPT ![job[w].hash] = "whole"]
    /\ Then(w, "record")
    /\ UNCHANGED <<pack, version, older, stale, tagCommit, used>>

\* (Mutant: the artifact row is forgotten.)
RecordNothing(w) ==
    /\ At(w, "record")
    /\ Then(w, "markReady")
    /\ UNCHANGED storeVars

\* recordArtifact: one row per (version, path), and the path is the hash.
RecordArtifact(w) ==
    /\ At(w, "record")
    /\ IF OwnRow(w)
         THEN /\ version' = [version EXCEPT
                                ![job[w].key].artifacts = @ \union {job[w].hash}]
              /\ Then(w, "markReady")
         ELSE /\ UNCHANGED version
              /\ Then(w, "failSelect")
    /\ UNCHANGED <<pack, older, stale, blob, tagCommit, used>>

MarkReady(w) ==
    /\ At(w, "markReady")
    /\ WriteOwnRow(w, [version[job[w].key] EXCEPT !.status = "ready",
                                                  !.hash = job[w].hash])
    /\ NextCycle(w)
    /\ UNCHANGED <<pack, blob, tagCommit, used>>
-----------------------------------------------------------------------------
\* The job throws for a reason of the pack's: the clone fails, the manifest or
\* the screening is broken, a recipe does not load, a path cannot be packed.
JobThrows(w) ==
    /\ job[w].pc \in {"clone", "screen", "load"}
    /\ Then(w, "failSelect")
    /\ UNCHANGED storeVars

\* (Mutant: the badge is left alone.)
CrashKeepsTier(w) ==
    /\ At(w, "failSelect")
    /\ Then(w, "markFailed")
    /\ UNCHANGED storeVars

\* markScreeningCrashTierTransition: which pack, if the row is still there ...
CrashSelectPack(w) ==
    /\ At(w, "failSelect")
    /\ Then(w, IF OwnRow(w) THEN "failTier" ELSE "markFailed")
    /\ UNCHANGED storeVars

\* ... whose badge falls back.
CrashUpdateTier(w) ==
    /\ At(w, "failTier")
    /\ UpdateTier(job[w].key[1], job[w].gen, "failed")
    /\ Then(w, "markFailed")
    /\ UNCHANGED <<version, older, stale, blob, tagCommit, used>>

MarkFailed(w) ==
    /\ At(w, "markFailed")
    /\ WriteOwnRow(w, [version[job[w].key] EXCEPT !.status = "failed"])
    /\ NextCycle(w)
    /\ UNCHANGED <<pack, blob, tagCommit, used>>

\* Where an awaited call that throws takes the loop.  The SELECT of the crash
\* transition is outside the wrapper's try: its exception escapes the job and
\* the row stays ingesting.  So it does when markFailed itself fails.
AfterFault(pc) ==
    CASE pc \in {"sweep", "claim", "failSelect", "markFailed"} -> "sweep"
      [] pc = "failTier" -> "markFailed"
      [] OTHER -> "failSelect"

JobFault(w) ==
    /\ job[w].pc # "off"
    /\ Spend("faults", MaxFaults)
    /\ IF AfterFault(job[w].pc) = "sweep"
         THEN NextCycle(w)
         ELSE Then(w, AfterFault(job[w].pc))
    /\ UNCHANGED <<dbVars, tagCommit>>

WorkerStep(w) ==
    \/ Sweep(w)
    \/ Claim(w)
    \/ NothingToClaim(w)
    \/ FetchRow(w)
    \/ FetchPack(w)
    \/ Clone(w)
    \/ Screen(w)
    \/ WriteVerdict(w)
    \/ TierForVerdict(w)
    \/ LoadAndPack(w)
    \/ OpenBlob(w)
    \/ FinishBlob(w)
    \/ RecordArtifact(w)
    \/ MarkReady(w)
    \/ JobThrows(w)
    \/ CrashSelectPack(w)
    \/ CrashUpdateTier(w)
    \/ MarkFailed(w)
    \/ JobFault(w)
=============================================================================
