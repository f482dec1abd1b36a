----------------------------- MODULE PlanLimits -----------------------------
(***************************************************************************)
(* The private-pack limit of one organization's plan.  POST /v1/publish    *)
(* (publish/routes.ts) looks for the pack, counts the organization's       *)
(* private packs (checkPlanLimit, auth/plan-limits.ts) and later writes    *)
(* the row (upsertPackRow); DELETE /v1/packs/:scope/:name removes it.  No  *)
(* transaction spans two statements, so handlers interleave between any    *)
(* two.  What a publish does besides (clone, versions, tiers) is in        *)
(* PublishEndpoint; here it may end a request early, and nothing else.     *)
(***************************************************************************)
EXTENDS Integers, FiniteSets

CONSTANTS
    Packs,          \* names under the organization's scope
    Requests,       \* handlers that may be in flight at one time
    Limit,          \* plan_limits.max_private_packs of the organization's plan
    MaxSubmits,     \* bound: publish requests received
    None            \* no pack, no visibility

ASSUME LimitAssumption ==
    /\ Limit \in Nat
    /\ MaxSubmits \in Nat
    /\ IsFiniteSet(Packs)
    /\ IsFiniteSet(Requests)
    /\ Requests # {}

VARIABLES
    pack,       \* the row of each pack of the organization
    req,        \* the locals of each handler
    submits,    \* publish requests received so far
    nextId      \* the next row id, unique like the uuid of the code

vars == <<pack, req, submits, nextId>>

Visibilities == {"org", "public"}

\* `counted` is history: the handler that wrote the row had its pack counted
\* against the limit.
PackRow == [id : Nat, visibility : Visibilities, removed : BOOLEAN,
            counted : BOOLEAN]
NoPack == [id |-> 0, visibility |-> None, removed |-> FALSE, counted |-> FALSE]

\* `stored` is the visibility the 202 response will name.
Handler == [pc : {"idle", "exists", "count", "replace", "stored", "insert",
                  "tombstone"},
            pack : Packs \union {None}, visibility : Visibilities,
            stored : Visibilities, counted : BOOLEAN, id : Nat]
IdleHandler == [pc |-> "idle", pack |-> None, visibility |-> "public",
                stored |-> "public", counted |-> FALSE, id |-> 0]

Row(p) == pack[p].id # 0
PrivateLive(p) == Row(p) /\ pack[p].visibility = "org" /\ ~pack[p].removed
Usage == Cardinality({p \in Packs : PrivateLive(p)})

At(r, pc) == req[r].pc = pc
Goto(r, pc) == req' = [req EXCEPT ![r].pc = pc]

\* The handler returns or throws: its locals are gone.
Answer(r) == req' = [req EXCEPT ![r] = IdleHandler]
-----------------------------------------------------------------------------
\* A publish has passed the checks on its caller and its manifest.
ReceivePublish(r) ==
    /\ At(r, "idle")
    /\ submits < MaxSubmits
    /\ submits' = submits + 1
    /\ \E p \in Packs, v \in Visibilities :
         req' = [req EXCEPT ![r] = [IdleHandler EXCEPT !.pc = "exists",
                                                       !.pack = p,
                                                       !.visibility = v]]
    /\ UNCHANGED <<pack, nextId>>

\* SELECT of the row, tombstones included: only a new private pack is gated.
PackExists(r) ==
    /\ At(r, "exists")
    /\ Goto(r, IF ~Row(req[r].pack) /\ req[r].visibility = "org"
                 THEN "count" ELSE "replace")
    /\ UNCHANGED <<pack, submits, nextId>>

\* (Mutant: the limit itself is still free.)
CheckPlanLimitLate(r) ==
    /\ At(r, "count")
    /\ IF Usage > Limit
         THEN Answer(r)
         ELSE req' = [req EXCEPT ![r].pc = "replace", ![r].counted = TRUE]
    /\ UNCHANGED <<pack, submits, nextId>>

\* checkPlanLimit: the last of its statements counts; 403 at the limit.
CheckPlanLimit(r) ==
    /\ At(r, "count")
    /\ IF Usage >= Limit
         THEN Answer(r)
         ELSE req' = [req EXCEPT ![r].pc = "replace", ![r].counted = TRUE]
    /\ UNCHANGED <<pack, submits, nextId>>

\* upsertPackRow, first statement: DELETE of a tombstone of that name.
ReplaceTombstone(r) ==
    /\ At(r, "replace")
    /\ pack' = [pack EXCEPT ![req[r].pack] = IF @.removed THEN NoPack ELSE @]
    /\ Goto(r, "stored")
    /\ UNCHANGED <<submits, nextId>>

\* upsertPackRow, second statement: the visibility of a row that is there.
ReadStored(r) ==
    /\ At(r, "stored")
    /\ req' = [req EXCEPT ![r].pc = "insert",
                          ![r].stored = IF Row(req[r].pack)
                                          THEN pack[req[r].pack].visibility
                                          ELSE req[r].visibility]
    /\ UNCHANGED <<pack, submits, nextId>>

\* upsertPackRow, third statement: INSERT ... ON CONFLICT keeps the row's
\* visibility and, if it has been removed meanwhile, its removed_at.
InsertPack(r) ==
    /\ At(r, "insert")
    /\ IF Row(req[r].pack)
         THEN UNCHANGED <<pack, nextId>>
         ELSE /\ pack' = [pack EXCEPT ![req[r].pack] =
                            [id |-> nextId, visibility |-> req[r].visibility,
                             removed |-> FALSE, counted |-> req[r].counted]]
              /\ nextId' = nextId + 1
    /\ Answer(r)
    /\ UNCHANGED submits

\* DELETE /v1/packs/:scope/:name: SELECT of a row that is not removed yet.
ReceiveUnpublish(r) ==
    /\ At(r, "idle")
    /\ \E p \in Packs :
         /\ Row(p) /\ ~pack[p].removed
         /\ req' = [req EXCEPT ![r] = [IdleHandler EXCEPT !.pc = "tombstone",
                                                          !.id = pack[p].id]]
    /\ UNCHANGED <<pack, submits, nextId>>

\* ... and the UPDATE of that row, which may be gone by now.
Tombstone(r) ==
    /\ At(r, "tombstone")
    /\ pack' = [p \in Packs |->
                  IF Row(p) /\ pack[p].id = req[r].id
                    THEN [pack[p] EXCEPT !.removed = TRUE] ELSE pack[p]]
    /\ Answer(r)
    /\ UNCHANGED <<submits, nextId>>

\* A later check refuses the request, or a statement throws (500).
EndEarly(r) ==
    /\ req[r].pc # "idle"
    /\ Answer(r)
    /\ UNCHANGED <<pack, submits, nextId>>

Init ==
    /\ pack = [p \in Packs |-> NoPack]
    /\ req = [r \in Requests |-> IdleHandler]
    /\ submits = 0
    /\ nextId = 1

Next == \E r \in Requests :
    \/ ReceivePublish(r) \/ PackExists(r) \/ CheckPlanLimit(r)
    \/ ReplaceTombstone(r) \/ ReadStored(r) \/ InsertPack(r)
    \/ ReceiveUnpublish(r) \/ Tombstone(r) \/ EndEarly(r)

Spec == Init /\ [][Next]_vars
-----------------------------------------------------------------------------
\* The rows, the locals and the counters have their types; a publish in flight
\* knows its pack.
TypeOK ==
    /\ pack \in [Packs -> PackRow \union {NoPack}]
    /\ req \in [Requests -> Handler]
    /\ \A r \in Requests : req[r].pc \notin {"idle", "tombstone"} => req[r].pack \in Packs
    /\ submits \in Nat
    /\ nextId \in Nat \ {0}

CountedPacks == {p \in Packs : PrivateLive(p) /\ pack[p].counted}
CountedRequests == {r \in Requests : req[r].counted}

\* Two publishes that count at the same time both pass the gate, so the limit
\* of checkPlanLimit is exceeded; but by no more than the handlers in flight
\* beside the last one to count: what passed the gate stays below the limit
\* plus one per further handler.
OvershootBounded ==
    Cardinality(CountedPacks) <= Limit + Cardinality(Requests) - 1

\* The inductive form: a handler that has counted holds a place.
PlacesBounded ==
    Cardinality(CountedPacks) + Cardinality(CountedRequests)
        <= Limit + Cardinality(Requests) - 1

=============================================================================
