-------------------------- MODULE PublishEndpoint --------------------------
(***************************************************************************)
(* The handlers that write to the catalog on behalf of a publisher:        *)
(*   POST   /v1/publish            (apps/registry/src/publish/routes.ts)   *)
(*   DELETE /v1/packs/:scope/:name (apps/registry/src/catalog/routes.ts)   *)
(* A handler holds what it has read in locals and runs no transaction: the *)
(* other handlers and the worker run between any two of its statements.    *)
(* The checks that come before the first statement on these tables (the    *)
(* caller's identity and role, the body's syntax, the manifest) can only   *)
(* refuse the request; a request of the model is one that has passed them. *)
(***************************************************************************)
EXTENDS RegistryState

VARIABLE req    \* the locals of each handler in flight

IdleRequest == [pc |-> "idle", key |-> None, tree |-> None,
                visibility |-> "public", gen |-> 0]

RequestRecord ==
    [pc : {"idle", "cloned", "gate", "upsert", "insertPack", "insertVersion",
           "tombstone"},
     key : Keys \union {None},
     tree : Trees \union {None},
     visibility : Visibilities,
     gen : Nat]

RequestTypeOK == req \in [Requests -> RequestRecord]
RequestInit == req = [r \in Requests |-> IdleRequest]

\* The handler returns or throws: its locals are gone.
Answer(r) == req' = [req EXCEPT ![r] = IdleRequest]
Goto(r, pc) == req' = [req EXCEPT ![r].pc = pc]
-----------------------------------------------------------------------------
\* A publish body passes the checks and its repository is cloned at the tag.
ReceivePublish(r) ==
    /\ req[r].pc = "idle"
    /\ Spend("submits", MaxSubmits)
    /\ \E k \in Keys, s \in Sources, v \in Visibilities :
         \E c \in CloneAtTag(s, k[2]) :
            req' = [req EXCEPT ![r] = [pc |-> "cloned", key |-> k,
                                       tree |-> <<s, c>>, visibility |-> v,
                                       gen |-> 0]]
    /\ UNCHANGED <<dbVars, tagCommit>>

\* SELECT of the version row of a live pack: a ready version (200 or 409) and
\* an ingesting one (409) end the request here.
CheckExisting(r) ==
    /\ req[r].pc = "cloned"
    /\ IF /\ PackLive(req[r].key[1])
          /\ version[req[r].key].status \in {"ready", "ingesting"}
         THEN Answer(r)
         ELSE Goto(r, "gate")
    /\ UNCHANGED storeVars

\* SELECT of the pack row, tombstones included: only a pack that has none and
\* is private can be refused by the plan limit.
PassPlanGate(r) ==
    /\ req[r].pc = "gate"
    /\ Goto(r, "upsert")
    /\ UNCHANGED storeVars

RefuseAtPlanGate(r) ==
    /\ req[r].pc = "gate"
    /\ req[r].visibility = "org"
    /\ ~PackExists(req[r].key[1])
    /\ Answer(r)
    /\ UNCHANGED storeVars

\* upsertPackRow, first statement: a tombstone and all it owns is deleted.
ReplaceTombstone(r) ==
    /\ req[r].pc = "upsert"
    /\ DeleteTombstone(req[r].key[1])
    /\ Goto(r, "insertPack")
    /\ UNCHANGED <<blob, tagCommit, used>>

\* upsertPackRow, INSERT ... ON CONFLICT DO UPDATE: a row that is there keeps
\* its visibility and tier, tombstoned or not.  (The SELECT before it is only
\* used to echo the visibility.)
InsertPack(r) ==
    LET p == req[r].key[1]
        row == IF PackExists(p)
                 THEN pack[p]
                 ELSE [state |-> "live", gen |-> pack[p].gen + 1,
                       visibility |-> req[r].visibility,
                       tier |-> IF p \in OfficialPacks THEN "official"
                                                ELSE "community-unverified"]
    IN  /\ req[r].pc = "insertPack"
        /\ pack' = [pack EXCEPT ![p] = row]
        /\ req' = [req EXCEPT ![r] = [@ EXCEPT !.pc = "insertVersion",
                                               !.gen = row.gen]]
        /\ UNCHANGED <<version, older, stale, blob, tagCommit, used>>

\* (Mutant: the conflict also blanks the content hash.)
InsertVersionBlanksHash(r) ==
    LET k == req[r].key
    IN  /\ req[r].pc = "insertVersion"
        /\ WriteVersions([version EXCEPT ![k] =
                [version[k] EXCEPT !.status = "pending", !.tree = req[r].tree,
                                   !.recorded = @ \union {req[r].tree}, !.hash = None]],
              {k})
        /\ Answer(r)
        /\ UNCHANGED <<pack, blob, tagCommit, used>>

\* INSERT of the version row, ON CONFLICT back to pending whatever its status
\* is by now; content_hash, artifacts and verdict stay.  If the pack row has
\* been deleted meanwhile the foreign key refuses the row.
InsertVersion(r) ==
    LET k == req[r].key
    IN  /\ req[r].pc = "insertVersion"
        /\ IF SamePack(k[1], req[r].gen)
             THEN WriteVersions(
                    [version EXCEPT ![k] =
                        [version[k] EXCEPT
                            !.status = "pending", !.tree = req[r].tree,
                            !.recorded = @ \union {req[r].tree}]],
                    {k})
             ELSE UNCHANGED <<version, older, stale>>
        /\ Answer(r)
        /\ UNCHANGED <<pack, blob, tagCommit, used>>

\* DELETE /v1/packs: SELECT of the pack row; missing and tombstoned are 404s.
ReceiveUnpublish(r) ==
    /\ req[r].pc = "idle"
    /\ Spend("submits", MaxSubmits)
    /\ \E k \in Keys :
          /\ PackLive(k[1])
          /\ req' = [req EXCEPT ![r] = [IdleRequest EXCEPT
                            !.pc = "tombstone", !.key = k,
                            !.gen = pack[k[1]].gen]]
    /\ UNCHANGED <<dbVars, tagCommit>>

\* UPDATE packs SET removed_at = NOW() WHERE id = ...
Tombstone(r) ==
    /\ req[r].pc = "tombstone"
    /\ pack' = IF SamePack(req[r].key[1], req[r].gen)
                 THEN [pack EXCEPT ![req[r].key[1]].state = "removed"]
                 ELSE pack
    /\ Answer(r)
    /\ UNCHANGED <<version, older, stale, blob, tagCommit, used>>

\* A statement throws: the handler answers 500 and what it wrote stays.
RequestFault(r) ==
    /\ req[r].pc # "idle"
    /\ Spend("faults", MaxFaults)
    /\ Answer(r)
    /\ UNCHANGED <<dbVars, tagCommit>>

RequestStep(r) ==
    \/ ReceivePublish(r)
    \/ CheckExisting(r)
    \/ PassPlanGate(r)
    \/ RefuseAtPlanGate(r)
    \/ ReplaceTombstone(r)
    \/ InsertPack(r)
    \/ InsertVersion(r)
    \/ ReceiveUnpublish(r)
    \/ Tombstone(r)
    \/ RequestFault(r)
=============================================================================
