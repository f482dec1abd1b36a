------------------------------ MODULE Registry ------------------------------
(***************************************************************************)
(* The registry server: one process that runs the HTTP handlers and the    *)
(* ingest worker over one database (apps/registry/src/server.ts).  A crash *)
(* loses every handler and the running job; the rows and the blobs stay,   *)
(* and the boot sequence brings them back to a state the worker resumes.   *)
(***************************************************************************)
EXTENDS PublishEndpoint, IngestWorker

VARIABLE up     \* the server process is running

vars == <<storeVars, req, job, up>>

Init ==
    /\ StateInit
    /\ RequestInit
    /\ JobInit
    /\ up = TRUE

\* The process is killed.  (A graceful close waits for the running job and for
\* open requests at best; where it does not wait, it leaves what a kill does.)
Crash ==
    /\ up
    /\ Spend("crashes", MaxCrashes)
    /\ up' = FALSE
    /\ req' = [r \in Requests |-> IdleRequest]
    /\ job' = [w \in Workers |-> OffJob]
    /\ UNCHANGED <<dbVars, tagCommit>>

\* startServer: verified packs get their tier, the boot sweep resets every
\* ingesting row, then the worker starts and the port opens.
Boot ==
    /\ ~up
    /\ up' = TRUE
    /\ pack' = [p \in Packs |->
                  IF p \in VerifiedPacks /\ PackLive(p)
                    THEN [pack[p] EXCEPT !.tier = "verified"]
                    ELSE pack[p]]
    /\ ResetToPending({k \in Keys : version[k].status = "ingesting"})
    /\ job' = [w \in Workers |-> IdleJob]
    /\ UNCHANGED <<blob, tagCommit, used, req>>

Next ==
    \/ \E r \in Requests : up /\ RequestStep(r) /\ UNCHANGED <<job, up>>
    \/ \E w \in Workers : up /\ WorkerStep(w) /\ UNCHANGED <<req, up>>
    \/ Crash
    \/ Boot
    \/ MoveTag /\ UNCHANGED <<req, job, up>>
    \/ \E k \in Keys : RowTurnsStale(k) /\ UNCHANGED <<req, job, up>>

Spec == Init /\ [][Next]_vars

\* The loop polls for ever, a killed server is restarted, and time passes.
\* Nothing is assumed of publishers, of tags, or of handlers in flight.
Fairness ==
    /\ \A w \in Workers : WF_vars(up /\ WorkerStep(w) /\ UNCHANGED <<req, up>>)
    /\ WF_vars(Boot)
    /\ \A k \in Keys :
          WF_vars(RowTurnsStale(k) /\ k \notin stale /\ UNCHANGED <<req, job, up>>)

FairSpec == Spec /\ Fairness
-----------------------------------------------------------------------------
(* Invariants.                                                             *)

\* Every variable keeps its type.
TypeOK == StateTypeOK /\ RequestTypeOK /\ JobTypeOK /\ up \in BOOLEAN

\* A ready version can be served: its content hash is one of its artifacts and
\* every artifact row points to a file in storage, so a download of a ready
\* version finds a blob -- whatever re-publishes, re-ingests and crashes came
\* between (catalog/routes.ts, the 500 of the download endpoint).
ReadyServable ==
    \A k \in Keys :
        /\ version[k].status = "ready" => version[k].hash \in version[k].artifacts
        /\ \A h \in version[k].artifacts : blob[h] # "absent"

\* Bytes are attributed to a version only if a publish recorded on this very
\* row the commit they were packed from: neither a moved tag nor the job of a
\* pack that was since unpublished and replaced slips a tree in.
ArtifactsFromRecordedTrees ==
    \A k \in Keys : version[k].artifacts \union ({version[k].hash} \ {None})
                       \subseteq {HashOf[t] : t \in version[k].recorded}

\* The screened badge is for packs the pipeline screened: a private pack is
\* never screened, so it never carries it -- not even when it replaces the
\* tombstone of a public pack whose job is still running.
PrivateNeverScreened ==
    \A p \in Packs : (PackExists(p) /\ pack[p].visibility = "org")
                        => pack[p].tier # "community-screened"

\* The content hash of a ready version is that of the commit it records
\* (worker/ingest.ts, the re-clone check).
ServedMatchesCommit ==
    \A k \in Keys : version[k].status = "ready"
                       => version[k].hash = HashOf[version[k].tree]

\* What a download may pick for a ready version of a live pack: the join with
\* its tarball artifacts takes the first row, in no stated order.
Downloadable(k) ==
    IF PackLive(k[1]) /\ version[k].status = "ready"
      THEN version[k].artifacts ELSE {}

\* The bytes served hash to the content_hash of the version row.
DownloadMatchesHash == \A k \in Keys : Downloadable(k) \subseteq {version[k].hash}
-----------------------------------------------------------------------------
(* The inductive invariant: what the rows, the handlers and the jobs know  *)
(* of each other between any two statements.                               *)

RowOK(k) ==
    /\ version[k].status # "none" =>
          PackExists(k[1]) /\ version[k].tree \in version[k].recorded
    /\ version[k].status = "ready" => version[k].hash # None
    /\ version[k].hash # None => version[k].hash \in version[k].artifacts
    /\ \A h \in version[k].artifacts :
          blob[h] # "absent" /\ \E t \in version[k].recorded : h = HashOf[t]

RequestOK(r) ==
    req[r].pc # "idle" =>
        /\ req[r].key \in Keys
        /\ req[r].pc # "tombstone" => req[r].tree \in Trees

KnowsTree == (JobSteps \ {"fetchRow"}) \ FailureSteps

JobOK(w) ==
    HasJob(w) =>
        /\ job[w].key \in Keys
        /\ job[w].gen <= pack[job[w].key[1]].gen
        /\ job[w].pc \in KnowsTree => job[w].tree \in Trees
        /\ job[w].pc \in {"screen", "writeVerdict", "tier"} => job[w].public
        /\ job[w].pc \in {"writeVerdict", "tier"} => job[w].verdict \in Verdicts
        /\ job[w].pc \in StoreSteps => job[w].hash = HashOf[job[w].tree]
        /\ job[w].pc \in {"record", "markReady"} => blob[job[w].hash] # "absent"
        /\ SamePack(job[w].key[1], job[w].gen) =>
              /\ version[job[w].key].status # "none"
              /\ job[w].pc \in KnowsTree =>
                    job[w].tree \in version[job[w].key].recorded
              /\ job[w].public => pack[job[w].key[1]].visibility = "public"
              /\ job[w].pc = "markReady" =>
                    job[w].hash \in version[job[w].key].artifacts

\* The rows, the handlers in flight and the running jobs agree: this is what
\* the handlers may rely on between two of their statements.
IInv ==
    /\ TypeOK
    /\ \A k \in Keys : RowOK(k)
    /\ \A r \in Requests : RequestOK(r)
    /\ \A w \in Workers : JobOK(w)
    /\ PrivateNeverScreened
-----------------------------------------------------------------------------
(* Action properties.                                                      *)

\* A version does not become failed while its pack still shows the badge of a
\* passed screening: the tier is taken back before the row is (VAL-SCAN-018).
\* (A tier update that throws is passed over, and the badge stays.)
BadgeFallsBeforeFailed ==
    [][\A k \in Keys :
          used.faults = 0 /\ version[k].status # "failed" /\ version'[k].status = "failed"
              => pack'[k[1]].tier # "community-screened"]_vars

-----------------------------------------------------------------------------
(* Liveness.                                                               *)

Unsettled(k) == version[k].status \in {"pending", "ingesting"}

\* Every version that waits for its ingest is ingested, rejected or removed,
\* after any kill, throwing statement or sweep.
EveryVersionSettles == \A k \in Keys : Unsettled(k) ~> ~Unsettled(k)
-----------------------------------------------------------------------------
(* Refinement.  With one repository and immutable tags the registry        *)
(* implements PinnedContent; a version's bytes are its artifact rows, and  *)
(* it is pinned to its content hash.                                       *)

TheSource == CHOOSE s \in Sources : TRUE

CanonicalHash ==
    [k \in Keys |-> HashOf[<<TheSource, FirstCommit[<<TheSource, k[2]>>]>>]]

Pinned == INSTANCE PinnedContent WITH
    PackNames <- Packs,
    Versions <- Tags,
    Canonical <- CanonicalHash,
    Unset <- None,
    stored <- [k \in Keys |-> version[k].artifacts],
    pinned <- [k \in Keys |-> version[k].hash]

\* A pinned version keeps its bytes for the life of its pack row
\* (publish/routes.ts, ready-version immutability).
PinnedContentKept == Pinned!PinSpec
=============================================================================
