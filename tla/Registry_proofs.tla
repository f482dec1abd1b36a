--------------------------- MODULE Registry_proofs ---------------------------
(***************************************************************************)
(* Registry keeps the agreement IInv between its rows, its handlers and    *)
(* its jobs, for every value of the constants; the safety invariants that  *)
(* TLC checks on small instances follow.                                   *)
(*                                                                         *)
(* The handlers share nothing but the database, so a step of one preserves *)
(* what another knows whenever it lets the rows Persist: a pack row either *)
(* stays, with its visibility, and its versions only gain trees and        *)
(* artifacts, or it goes as a whole and its id never comes back.           *)
(***************************************************************************)
EXTENDS Registry, TLAPS

USE RegistryAssumption

\* The ids of pack rows only grow.
PackFacts ==
    \A p \in Packs : pack'[p].gen \in Nat /\ pack[p].gen <= pack'[p].gen

\* A pack row that is still there kept its visibility, its versions and what
\* was recorded of them.
Persist ==
    \A k \in Keys, g \in Nat :
        g <= pack[k[1]].gen /\ SamePack(k[1], g)' =>
            /\ SamePack(k[1], g)
            /\ pack'[k[1]].visibility = pack[k[1]].visibility
            /\ version[k].status # "none" => version'[k].status # "none"
            /\ version[k].recorded \subseteq version'[k].recorded
            /\ version[k].artifacts \subseteq version'[k].artifacts

\* An empty database, idle handlers and idle loops agree.
LEMMA InitIInv == Init => IInv
<1> SUFFICES ASSUME Init PROVE IInv
  OBVIOUS
<1> USE DEF Init, StateInit, RequestInit, JobInit
<1>1. TypeOK
  BY DEF TypeOK, StateTypeOK, RequestTypeOK, JobTypeOK, RegistryAssumption, PackRow, NoPack, VersionRow, NoVersion, Budgets, RequestRecord, IdleRequest, JobRecord, IdleJob, Tiers, CommunityTiers, Visibilities, Statuses, Verdicts, LoopSteps, JobSteps, EarlySteps
<1>2. \A k \in Keys : RowOK(k)
  BY DEF RowOK, NoVersion, PackExists
<1>3. \A r \in Requests : RequestOK(r)
  BY DEF RequestOK, IdleRequest
<1>4. \A w \in Workers : JobOK(w)
  BY DEF JobOK, HasJob, IdleJob, JobSteps, EarlySteps, ScreenSteps, StoreSteps, FailureSteps
<1>5. PrivateNeverScreened
  BY DEF PrivateNeverScreened, PackExists, NoPack
<1> QED
  BY <1>1, <1>2, <1>3, <1>4, <1>5 DEF IInv

\* A job keeps what it knows when others only let its row persist: the other
\* handlers and loops run between any two of its statements.
LEMMA JobPersists ==
    ASSUME IInv, Persist, PackFacts, NEW w \in Workers, job'[w] = job[w],
           \A h \in Hashes : blob[h] # "absent" => blob'[h] # "absent"
    PROVE  JobOK(w)'
<1> SUFFICES ASSUME HasJob(w)
             PROVE  JobOK(w)'
  BY DEF JobOK, HasJob
<1>1. JobOK(w) /\ job[w].key \in Keys /\ job[w].gen \in Nat /\ job[w].key[1] \in Packs
  BY DEF IInv, TypeOK, JobTypeOK, JobRecord, JobOK, Keys
<1> DEFINE k == job[w].key  g == job[w].gen
<1>2. g <= pack'[k[1]].gen
  BY <1>1 DEF JobOK, PackFacts, IInv, TypeOK, StateTypeOK, PackRow
<1>3. SamePack(k[1], g)' =>
            /\ SamePack(k[1], g)
            /\ pack'[k[1]].visibility = pack[k[1]].visibility
            /\ version[k].status # "none" => version'[k].status # "none"
            /\ version[k].recorded \subseteq version'[k].recorded
            /\ version[k].artifacts \subseteq version'[k].artifacts
  BY <1>1 DEF Persist, JobOK, SamePack, PackExists
<1>4. job[w].pc \in {"record", "markReady"} => job[w].hash \in Hashes
  BY <1>1, RegistryAssumption
     DEF JobOK, KnowsTree, Trees, JobSteps, StoreSteps, FailureSteps
<1> QED
  BY <1>1, <1>2, <1>3, <1>4 DEF JobOK, HasJob, SamePack, PackExists

\* A statement that writes pack_versions keeps the types of rows and stamps.
LEMMA WriteVersionsType ==
    ASSUME StateTypeOK, NEW rows \in [Keys -> VersionRow], NEW S,
           WriteVersions(rows, S)
    PROVE  /\ version' = rows
           /\ version' \in [Keys -> VersionRow]
           /\ older' \subseteq Keys \X Keys
           /\ stale' \subseteq Keys
  BY DEF WriteVersions, StateTypeOK

\* Spending one unit of a bound stays within the bounds.
LEMMA SpendType ==
    ASSUME NEW what \in {"submits", "moves", "crashes", "faults"}, NEW limit,
           used \in Budgets, Spend(what, limit),
           limit = CASE what = "submits" -> MaxSubmits
                     [] what = "moves" -> MaxTagMoves
                     [] what = "crashes" -> MaxCrashes
                     [] OTHER -> MaxFaults
    PROVE  used' \in Budgets
  BY DEF Spend, Budgets

\* An answered request is idle.
LEMMA AnswerType ==
    ASSUME RequestTypeOK, NEW r \in Requests, Answer(r)
    PROVE  RequestTypeOK'
  BY DEF RequestTypeOK, Answer, IdleRequest, RequestRecord, Visibilities

\* A handler that goes on to its next statement keeps the type of its locals.
LEMMA GotoType ==
    ASSUME RequestTypeOK, NEW r \in Requests,
           NEW pc \in {"gate", "upsert", "insertPack"}, Goto(r, pc)
    PROVE  RequestTypeOK'
  BY DEF RequestTypeOK, Goto, RequestRecord

\* The pack id a handler reads back keeps the type of its locals.
LEMMA InsertedPackRequest ==
    ASSUME NEW q \in RequestRecord, NEW g \in Nat
    PROVE  [q EXCEPT !.pc = "insertVersion", !.gen = g] \in RequestRecord
  BY DEF RequestRecord

\* Replacing a tombstone keeps the types of the rows it deletes.
LEMMA DeleteTombstoneType ==
    ASSUME StateTypeOK, NEW p \in Packs, DeleteTombstone(p)
    PROVE  /\ pack' \in [Packs -> PackRow]
           /\ version' \in [Keys -> VersionRow]
           /\ older' \subseteq Keys \X Keys
           /\ stale' \subseteq Keys
<1>1. CASE pack[p].state = "removed"
  <2> DEFINE rows == [k \in Keys |-> IF k[1] = p THEN NoVersion ELSE version[k]]
  <2>1. rows \in [Keys -> VersionRow]
    BY DEF StateTypeOK, VersionRow, NoVersion
  <2>2. WriteVersions(rows, {})
    BY <1>1 DEF DeleteTombstone
  <2>3. pack' \in [Packs -> PackRow]
    BY <1>1 DEF DeleteTombstone, StateTypeOK, NoPack, PackRow, Visibilities, Tiers, CommunityTiers
  <2> HIDE DEF rows
  <2> QED
    BY <2>1, <2>2, <2>3, WriteVersionsType
<1>2. CASE pack[p].state # "removed"
  BY <1>2 DEF DeleteTombstone, StateTypeOK
<1> QED
  BY <1>1, <1>2

\* Setting a column of a pack row, or the row, to a value of its type.
LEMMA PackUpdate ==
    ASSUME pack \in [Packs -> PackRow], NEW p \in Packs
    PROVE  /\ [pack EXCEPT ![p].state = "removed"] \in [Packs -> PackRow]
           /\ \A t \in Tiers : [pack EXCEPT ![p].tier = t] \in [Packs -> PackRow]
           /\ \A row \in PackRow : [pack EXCEPT ![p] = row] \in [Packs -> PackRow]
<1>1. [pack EXCEPT ![p].state = "removed"] \in [Packs -> PackRow]
  BY DEF PackRow
<1>2. \A t \in Tiers : [pack EXCEPT ![p].tier = t] \in [Packs -> PackRow]
  BY DEF PackRow
<1>3. \A row \in PackRow : [pack EXCEPT ![p] = row] \in [Packs -> PackRow]
  OBVIOUS
<1> QED
  BY <1>1, <1>2, <1>3

\* The version row a publish writes has its type.
LEMMA PublishedRow ==
    ASSUME NEW row \in VersionRow, NEW t \in Trees
    PROVE  [row EXCEPT !.status = "pending", !.tree = t,
                       !.recorded = @ \union {t}] \in VersionRow
  BY DEF VersionRow, Statuses

\* updatePackTierForVerdict writes a tier.
LEMMA UpdateTierType ==
    ASSUME StateTypeOK, NEW p \in Packs, NEW gen, NEW verdict, UpdateTier(p, gen, verdict)
    PROVE  pack' \in [Packs -> PackRow]
<1>1. pack \in [Packs -> PackRow]
  BY DEF StateTypeOK
<1>2. {"community-screened", "community-unverified"} \subseteq Tiers
  BY DEF Tiers, CommunityTiers
<1> QED
  BY <1>1, <1>2, PackUpdate DEF UpdateTier

\* No statement of a handler breaks a type.
LEMMA RequestStepType ==
    ASSUME IInv, NEW r \in Requests, RequestStep(r), UNCHANGED <<job, up>>
    PROVE  TypeOK'
<1> USE DEF IInv, TypeOK
<1>0. StateTypeOK /\ RequestTypeOK /\ JobTypeOK' /\ up' \in BOOLEAN /\ RequestOK(r)
  BY DEF JobTypeOK
<1>1. CASE ReceivePublish(r)
  <2>1. used' \in Budgets
    BY <1>0, <1>1, SpendType DEF ReceivePublish, StateTypeOK
  <2>2. RequestTypeOK'
    <3>1. PICK k \in Keys, s \in Sources, v \in Visibilities :
             \E c \in CloneAtTag(s, k[2]) :
            req' = [req EXCEPT ![r] = [pc |-> "cloned", key |-> k,
                                       tree |-> <<s, c>>, visibility |-> v,
                                       gen |-> 0]]
      BY <1>1 DEF ReceivePublish
    <3>2. tagCommit[<<s, k[2]>>] \in Commits
      BY <1>0 DEF StateTypeOK, Keys
    <3> QED
      BY <1>0, <3>1, <3>2 DEF RequestTypeOK, RequestRecord, CloneAtTag, Trees
  <2> QED
    BY <1>0, <1>1, <2>1, <2>2 DEF ReceivePublish, StateTypeOK, dbVars
<1>2. CASE CheckExisting(r)
  BY <1>0, <1>2, AnswerType, GotoType DEF CheckExisting, StateTypeOK, storeVars, dbVars
<1>3. CASE PassPlanGate(r)
  BY <1>0, <1>3, GotoType DEF PassPlanGate, StateTypeOK, storeVars, dbVars
<1>4. CASE RefuseAtPlanGate(r)
  BY <1>0, <1>4, AnswerType DEF RefuseAtPlanGate, StateTypeOK, storeVars, dbVars
<1>5. CASE ReplaceTombstone(r)
  <2>1. req[r].key[1] \in Packs
    BY <1>0, <1>5 DEF ReplaceTombstone, RequestOK, Keys
  <2> QED
    BY <1>0, <1>5, <2>1, GotoType, DeleteTombstoneType DEF ReplaceTombstone, StateTypeOK
<1>6. CASE InsertPack(r)
  <2>1. req[r].key[1] \in Packs /\ req[r].visibility \in Visibilities
    BY <1>0, <1>6 DEF InsertPack, RequestOK, Keys, RequestTypeOK, RequestRecord
  <2> DEFINE p == req[r].key[1]
             row == IF PackExists(p)
                 THEN pack[p]
                 ELSE [state |-> "live", gen |-> pack[p].gen + 1,
                       visibility |-> req[r].visibility,
                       tier |-> IF p \in OfficialPacks THEN "official"
                                                ELSE "community-unverified"]
  <2>a. row \in PackRow
    BY <1>0, <2>1 DEF StateTypeOK, PackRow, Tiers, CommunityTiers
  <2>b. /\ pack' = [pack EXCEPT ![p] = row]
        /\ req' = [req EXCEPT ![r] = [@ EXCEPT !.pc = "insertVersion",
                                             !.gen = row.gen]]
    BY <1>6 DEF InsertPack
  <2>c. row.gen \in Nat
    BY <2>a DEF PackRow
  <2> HIDE DEF row
  <2>2. pack' \in [Packs -> PackRow]
    BY <1>0, <2>1, <2>a, <2>b, PackUpdate DEF StateTypeOK
  <2>3. RequestTypeOK'
    <3> DEFINE next == [req[r] EXCEPT !.pc = "insertVersion", !.gen = row.gen]
    <3>1. next \in RequestRecord
      BY <1>0, <2>c, InsertedPackRequest DEF RequestTypeOK
    <3>2. req' = [req EXCEPT ![r] = next]
      BY <2>b
    <3> HIDE DEF next
    <3> QED
      BY <1>0, <3>1, <3>2 DEF RequestTypeOK
  <2> QED
    BY <1>0, <1>6, <2>2, <2>3 DEF InsertPack, StateTypeOK
<1>7. CASE InsertVersion(r)
  <2> DEFINE k == req[r].key
             row == [version[k] EXCEPT !.status = "pending", !.tree = req[r].tree,
                                       !.recorded = @ \union {req[r].tree}]
             rows == [version EXCEPT ![k] = row]
  <2>1. k \in Keys /\ req[r].tree \in Trees
    BY <1>0, <1>7 DEF InsertVersion, RequestOK
  <2>2. version \in [Keys -> VersionRow]
    BY <1>0 DEF StateTypeOK
  <2>3. row \in VersionRow
    <3>1. version[k] \in VersionRow
      BY <2>1, <2>2
    <3> QED
      BY <2>1, <3>1, PublishedRow
  <2>4. rows \in [Keys -> VersionRow]
    BY <2>1, <2>2, <2>3
  <2>5. RequestTypeOK'
    BY <1>0, <1>7, AnswerType DEF InsertVersion
  <2>6. WriteVersions(rows, {k}) \/ UNCHANGED <<version, older, stale>>
    BY <1>7 DEF InsertVersion
  <2> HIDE DEF rows
  <2>7. /\ version' \in [Keys -> VersionRow]
        /\ older' \subseteq Keys \X Keys
        /\ stale' \subseteq Keys
    BY <1>0, <2>4, <2>6, WriteVersionsType DEF StateTypeOK
  <2> QED
    BY <1>0, <1>7, <2>5, <2>7 DEF InsertVersion, StateTypeOK
<1>8. CASE ReceiveUnpublish(r)
  <2>1. used' \in Budgets
    BY <1>0, <1>8, SpendType DEF ReceiveUnpublish, StateTypeOK
  <2>2. RequestTypeOK'
    <3>1. PICK k \in Keys :
            req' = [req EXCEPT ![r] = [IdleRequest EXCEPT
                            !.pc = "tombstone", !.key = k,
                            !.gen = pack[k[1]].gen]]
      BY <1>8 DEF ReceiveUnpublish
    <3>2. pack[k[1]].gen \in Nat
      BY <1>0 DEF StateTypeOK, Keys, PackRow
    <3> QED
      BY <1>0, <3>1, <3>2 DEF RequestTypeOK, RequestRecord, IdleRequest, Visibilities
  <2> QED
    BY <1>0, <1>8, <2>1, <2>2 DEF ReceiveUnpublish, StateTypeOK, dbVars
<1>9. CASE Tombstone(r)
  <2>1. req[r].key[1] \in Packs
    BY <1>0, <1>9 DEF Tombstone, RequestOK, Keys
  <2>2. pack' \in [Packs -> PackRow]
    BY <1>0, <1>9, <2>1, PackUpdate DEF Tombstone, StateTypeOK
  <2> QED
    BY <1>0, <1>9, <2>2, AnswerType DEF Tombstone, StateTypeOK
<1>10. CASE RequestFault(r)
  <2>1. used' \in Budgets
    BY <1>0, <1>10, SpendType DEF RequestFault, StateTypeOK
  <2> QED
    BY <1>0, <1>10, <2>1, AnswerType DEF RequestFault, StateTypeOK, dbVars
<1> QED
  BY <1>1, <1>2, <1>3, <1>4, <1>5, <1>6, <1>7, <1>8, <1>9, <1>10 DEF RequestStep

\* A statement of a handler keeps every row consistent and lets the rows the
\* jobs hold persist or disappear as a whole.
LEMMA RequestStepRows ==
    ASSUME IInv, NEW r \in Requests, RequestStep(r), UNCHANGED <<job, up>>
    PROVE  /\ \A k \in Keys : RowOK(k)'
           /\ PrivateNeverScreened'
           /\ Persist /\ PackFacts
           /\ blob' = blob
<1>0. /\ \A k \in Keys : RowOK(k)
      /\ PrivateNeverScreened
      /\ StateTypeOK
      /\ RequestOK(r)
      /\ pack \in [Packs -> PackRow]
      /\ version \in [Keys -> VersionRow]
      /\ \A p \in Packs : pack[p].gen \in Nat
      /\ \A k \in Keys : k[1] \in Packs
  BY DEF IInv, TypeOK, StateTypeOK, PackRow, Keys
<1>1. CASE UNCHANGED <<pack, version, blob>>
  BY <1>0, <1>1 DEF RowOK, PrivateNeverScreened, Persist, PackFacts, PackExists, SamePack
<1>2. CASE ReplaceTombstone(r)
  <2> DEFINE p == req[r].key[1]
  <2>1. p \in Packs /\ blob' = blob
    BY <1>0, <1>2 DEF ReplaceTombstone, RequestOK
  <2>2. CASE pack[p].state # "removed"
    BY <1>0, <1>1, <1>2, <2>2 DEF ReplaceTombstone, DeleteTombstone
  <2>3. CASE pack[p].state = "removed"
    <3>1. /\ pack' = [pack EXCEPT ![p] = NoPack(pack[p].gen)]
          /\ version' = [k \in Keys |-> IF k[1] = p THEN NoVersion ELSE version[k]]
      BY <1>2, <2>3 DEF ReplaceTombstone, DeleteTombstone, WriteVersions
    <3>2. /\ pack'[p].state = "none"
          /\ pack'[p].gen = pack[p].gen
          /\ \A q \in Packs \ {p} : pack'[q] = pack[q]
          /\ \A k \in Keys : k[1] = p => version'[k] = NoVersion
          /\ \A k \in Keys : k[1] # p => version'[k] = version[k]
      BY <1>0, <2>1, <3>1 DEF NoPack, PackExists
    <3>3. \A k \in Keys : RowOK(k)'
      BY <1>0, <2>1, <3>2 DEF RowOK, NoVersion, PackExists
    <3>4. PrivateNeverScreened'
      BY <1>0, <3>2 DEF PrivateNeverScreened, PackExists
    <3>5. Persist /\ PackFacts
      BY <1>0, <2>1, <3>2 DEF Persist, PackFacts, SamePack, PackExists
    <3> QED
      BY <2>1, <3>3, <3>4, <3>5
  <2> QED
    BY <2>2, <2>3
<1>3. CASE InsertPack(r)
  <2> DEFINE p == req[r].key[1]
  <2>1. p \in Packs /\ blob' = blob /\ version' = version
    BY <1>0, <1>3 DEF InsertPack, RequestOK
  <2>2. CASE PackExists(p)
    BY <1>0, <1>1, <1>3, <2>1, <2>2 DEF InsertPack
  <2>3. CASE ~PackExists(p)
    <3>1. /\ pack'[p].state = "live"
          /\ pack'[p].gen = pack[p].gen + 1
          /\ pack'[p].tier # "community-screened"
          /\ \A q \in Packs \ {p} : pack'[q] = pack[q]
      BY <1>0, <1>3, <2>1, <2>3 DEF InsertPack, PackExists
    <3>2. \A k \in Keys : RowOK(k)'
      BY <1>0, <2>1, <2>3, <3>1 DEF RowOK, PackExists
    <3>3. PrivateNeverScreened'
      BY <1>0, <3>1 DEF PrivateNeverScreened, PackExists
    <3>4. Persist /\ PackFacts
      BY <1>0, <2>1, <3>1 DEF Persist, PackFacts, SamePack, PackExists
    <3> QED
      BY <2>1, <3>2, <3>3, <3>4
  <2> QED
    BY <2>2, <2>3
<1>4. CASE InsertVersion(r)
  <2> DEFINE k == req[r].key
             row == [version[k] EXCEPT !.status = "pending", !.tree = req[r].tree,
                                       !.recorded = @ \union {req[r].tree}]
  <2>1. k \in Keys /\ blob' = blob /\ pack' = pack
    BY <1>0, <1>4 DEF InsertVersion, RequestOK
  <2>2. CASE SamePack(k[1], req[r].gen)
    <3>1. version' = [version EXCEPT ![k] = row]
      BY <1>4, <2>2 DEF InsertVersion, WriteVersions
    <3>2. /\ version'[k].status = "pending"
          /\ version'[k].tree \in version'[k].recorded
          /\ version[k].recorded \subseteq version'[k].recorded
          /\ version'[k].artifacts = version[k].artifacts
          /\ version'[k].hash = version[k].hash
          /\ \A other \in Keys \ {k} : version'[other] = version[other]
      BY <1>0, <2>1, <3>1 DEF VersionRow
    <3>3. \A other \in Keys : RowOK(other)'
      BY <1>0, <2>1, <2>2, <3>2 DEF RowOK, PackExists, SamePack
    <3>4. PrivateNeverScreened'
      BY <1>0, <2>1 DEF PrivateNeverScreened, PackExists
    <3>5. Persist /\ PackFacts
      BY <1>0, <2>1, <3>2 DEF Persist, PackFacts, SamePack, PackExists
    <3> QED
      BY <2>1, <3>3, <3>4, <3>5
  <2>3. CASE ~SamePack(k[1], req[r].gen)
    BY <1>1, <1>4, <2>3 DEF InsertVersion
  <2> QED
    BY <2>2, <2>3
<1>5. CASE Tombstone(r)
  <2> DEFINE p == req[r].key[1]
  <2>1. p \in Packs /\ blob' = blob /\ version' = version
    BY <1>0, <1>5 DEF Tombstone, RequestOK
  <2>2. CASE SamePack(p, req[r].gen)
    <3>1. /\ pack'[p].state = "removed" /\ PackExists(p)
          /\ pack'[p].gen = pack[p].gen
          /\ pack'[p].tier = pack[p].tier
          /\ pack'[p].visibility = pack[p].visibility
          /\ \A q \in Packs \ {p} : pack'[q] = pack[q]
      BY <1>0, <1>5, <2>1, <2>2 DEF Tombstone, PackExists, SamePack, PackRow
    <3>2. \A k \in Keys : RowOK(k)'
      BY <1>0, <2>1, <3>1 DEF RowOK, PackExists
    <3>3. PrivateNeverScreened'
      BY <1>0, <3>1 DEF PrivateNeverScreened, PackExists
    <3>4. Persist /\ PackFacts
      BY <1>0, <2>1, <3>1 DEF Persist, PackFacts, SamePack, PackExists
    <3> QED
      BY <2>1, <3>2, <3>3, <3>4
  <2>3. CASE ~SamePack(p, req[r].gen)
    BY <1>1, <1>5, <2>3 DEF Tombstone
  <2> QED
    BY <2>2, <2>3
<1> QED
  BY <1>1, <1>2, <1>3, <1>4, <1>5
     DEF RequestStep, ReceivePublish, CheckExisting, PassPlanGate, RefuseAtPlanGate,
         ReceiveUnpublish, RequestFault, storeVars, dbVars

\* A handler keeps what the statements to come rely on.
LEMMA RequestStepRequests ==
    ASSUME IInv, NEW r \in Requests, RequestStep(r)
    PROVE  \A q \in Requests : RequestOK(q)'
<1>0. req \in [Requests -> RequestRecord] /\ \A q \in Requests : RequestOK(q)
  BY DEF IInv, TypeOK, RequestTypeOK
<1>1. \A q \in Requests \ {r} : req'[q] = req[q]
  BY <1>0 DEF RequestStep, ReceivePublish, CheckExisting, PassPlanGate, RefuseAtPlanGate,
     ReplaceTombstone, InsertPack, InsertVersion, ReceiveUnpublish, Tombstone, RequestFault,
     Answer, Goto
<1>2. CASE req'[r] = IdleRequest
  BY <1>0, <1>1, <1>2 DEF RequestOK, IdleRequest
<1>3. CASE /\ req[r].pc \notin {"idle", "tombstone"}
           /\ req'[r].key = req[r].key /\ req'[r].tree = req[r].tree
  BY <1>0, <1>1, <1>3 DEF RequestOK
<1>4. CASE ReceivePublish(r)
  <2>1. PICK k \in Keys, s \in Sources, v \in Visibilities, c \in Commits :
            req' = [req EXCEPT ![r] = [pc |-> "cloned", key |-> k,
                                       tree |-> <<s, c>>, visibility |-> v,
                                       gen |-> 0]]
    <3>1. \A k \in Keys, s \in Sources : CloneAtTag(s, k[2]) \subseteq Commits
      BY DEF CloneAtTag, IInv, TypeOK, StateTypeOK, Keys
    <3> QED
      BY <1>4, <3>1 DEF ReceivePublish
  <2> QED
    BY <1>0, <1>1, <2>1 DEF RequestOK, Trees
<1>5. CASE ReceiveUnpublish(r)
  BY <1>0, <1>1, <1>5 DEF RequestOK, ReceiveUnpublish, IdleRequest
<1>6. CASE Answer(r)
  BY <1>0, <1>2, <1>6 DEF Answer
<1>7. CASE \E pc : Goto(r, pc) /\ req[r].pc \notin {"idle", "tombstone"}
  BY <1>0, <1>3, <1>7 DEF Goto, RequestRecord
<1>8. CASE InsertPack(r)
  BY <1>0, <1>3, <1>8 DEF InsertPack, RequestRecord
<1> QED
  BY <1>4, <1>5, <1>6, <1>7, <1>8 DEF RequestStep, CheckExisting, PassPlanGate,
     RefuseAtPlanGate, ReplaceTombstone, InsertVersion, Tombstone, RequestFault

\* A statement of a handler preserves the agreement.
LEMMA RequestStepIInv ==
    ASSUME IInv, NEW r \in Requests, RequestStep(r), UNCHANGED <<job, up>>
    PROVE  IInv'
<1>1. \A w \in Workers : JobOK(w)'
  BY RequestStepRows, JobPersists
<1> QED
  BY <1>1, RequestStepType, RequestStepRows, RequestStepRequests DEF IInv

\* What a step of a worker may do to the rows, the packs and the files.
Grows ==
    /\ pack' \in [Packs -> PackRow]
    /\ version' \in [Keys -> VersionRow]
    /\ blob' \in [Hashes -> {"absent", "torn", "whole"}]
    /\ \A p \in Packs :
          /\ pack'[p].state = pack[p].state
          /\ pack'[p].gen = pack[p].gen
          /\ pack'[p].visibility = pack[p].visibility
    /\ \A k \in Keys :
          /\ version[k].status # "none" <=> version'[k].status # "none"
          /\ version'[k].tree = version[k].tree
          /\ version'[k].recorded = version[k].recorded
          /\ version[k].artifacts \subseteq version'[k].artifacts
    /\ \A h \in Hashes : blob[h] # "absent" => blob'[h] # "absent"

\* A step that only adds to the rows lets them persist.
LEMMA GrowsPersists ==
    ASSUME IInv, Grows
    PROVE  Persist /\ PackFacts
<1>1. /\ \A p \in Packs : pack[p].gen \in Nat
      /\ \A k \in Keys : k[1] \in Packs
  BY DEF IInv, TypeOK, StateTypeOK, PackRow, Keys
<1> QED
  BY <1>1 DEF Grows, Persist, PackFacts, SamePack, PackExists

\* A worker rewrites the status, verdict, hash or artifacts of one row.
LEMMA OneRowGrows ==
    ASSUME StateTypeOK, NEW k \in Keys, NEW row \in VersionRow,
           version' = [version EXCEPT ![k] = row],
           row.status # "none" <=> version[k].status # "none",
           row.tree = version[k].tree, row.recorded = version[k].recorded,
           version[k].artifacts \subseteq row.artifacts,
           UNCHANGED <<pack, blob>>
    PROVE  Grows
  BY DEF Grows, StateTypeOK

\* What a running job may read of its row.
LEMMA OwnRowFacts ==
    ASSUME IInv, NEW w \in Workers, HasJob(w)
    PROVE  /\ job[w] \in JobRecord
           /\ JobOK(w)
           /\ job[w].key \in Keys
           /\ job[w].key[1] \in Packs
           /\ version[job[w].key] \in VersionRow
           /\ RowOK(job[w].key)
           /\ OwnRow(w) <=> SamePack(job[w].key[1], job[w].gen)
  BY DEF IInv, TypeOK, StateTypeOK, JobTypeOK, JobOK, Keys, OwnRow, SameRow

\* Storing a tarball only adds a file, the one of the job.
LEMMA FileStep ==
    ASSUME IInv, NEW w \in Workers, OpenBlob(w) \/ FinishBlob(w)
    PROVE  /\ Grows
           /\ job[w].hash \in Hashes
           /\ blob'[job[w].hash] # "absent"
<1>1. HasJob(w) /\ job[w].pc \in StoreSteps /\ job[w].pc \in KnowsTree
  BY DEF OpenBlob, FinishBlob, At, HasJob, KnowsTree, JobSteps, StoreSteps, FailureSteps
<1>2. job[w].hash \in Hashes
  BY <1>1, OwnRowFacts, RegistryAssumption DEF JobOK, Trees
<1>3. blob \in [Hashes -> {"absent", "torn", "whole"}]
  BY DEF IInv, TypeOK, StateTypeOK
<1>4. /\ pack' = pack /\ version' = version
      /\ \/ blob' = blob /\ blob[job[w].hash] # "absent"
         \/ blob' = [blob EXCEPT ![job[w].hash] = "torn"]
         \/ blob' = [blob EXCEPT ![job[w].hash] = "whole"]
  BY DEF OpenBlob, FinishBlob
<1>5. blob' \in [Hashes -> {"absent", "torn", "whole"}]
  BY <1>2, <1>3, <1>4
<1>6. /\ \A h \in Hashes : blob[h] # "absent" => blob'[h] # "absent"
      /\ blob'[job[w].hash] # "absent"
  BY <1>2, <1>3, <1>4
<1>7. Grows
  BY <1>4, <1>5, <1>6 DEF Grows, IInv, TypeOK, StateTypeOK
<1> QED
  BY <1>2, <1>6, <1>7

\* A verdict moves the badge of a public pack only.
LEMMA TierStep ==
    ASSUME IInv, NEW w \in Workers, TierForVerdict(w) \/ CrashUpdateTier(w)
    PROVE  Grows /\ PrivateNeverScreened'
<1> DEFINE p == job[w].key[1]  g == job[w].gen
<1>1. HasJob(w)
  BY DEF TierForVerdict, CrashUpdateTier, At, HasJob, JobSteps, ScreenSteps, FailureSteps
<1>2. p \in Packs /\ JobOK(w)
  BY <1>1, OwnRowFacts
<1>3. pack \in [Packs -> PackRow] /\ version' = version /\ blob' = blob
  BY DEF IInv, TypeOK, StateTypeOK, TierForVerdict, CrashUpdateTier
<1>4. PICK v : /\ UpdateTier(p, g, v)
               /\ v = "screened" => job[w].public
  BY <1>1, <1>2 DEF TierForVerdict, CrashUpdateTier, JobOK, At
<1>5. pack' \in [Packs -> PackRow]
  BY <1>2, <1>4, UpdateTierType DEF IInv, TypeOK
<1>6. \A q \in Packs :
        /\ pack'[q].state = pack[q].state
        /\ pack'[q].gen = pack[q].gen
        /\ pack'[q].visibility = pack[q].visibility
        /\ pack'[q].tier = "community-screened" =>
              \/ pack[q].tier = "community-screened"
              \/ pack[q].visibility = "public"
  BY <1>1, <1>2, <1>3, <1>4 DEF UpdateTier, JobOK, PackRow
<1>7. Grows
  BY <1>3, <1>5, <1>6 DEF Grows, IInv, TypeOK, StateTypeOK
<1>8. PrivateNeverScreened'
  BY <1>6 DEF PrivateNeverScreened, IInv, PackExists
<1> QED
  BY <1>7, <1>8

\* The parts of IInv and of TypeOK about rows and their stamps.
RowsOK == \A k \in Keys : RowOK(k)
StampsOK == older \subseteq Keys \X Keys /\ stale \subseteq Keys

\* Setting a column of a version row to a value of its type.
LEMMA RowFields ==
    ASSUME NEW row \in VersionRow, NEW st \in Statuses, NEW h \in Hashes
    PROVE  /\ [row EXCEPT !.status = st] \in VersionRow
           /\ [row EXCEPT !.status = st, !.hash = h] \in VersionRow
           /\ [row EXCEPT !.artifacts = @ \union {h}] \in VersionRow
<1>1. [row EXCEPT !.status = st] \in VersionRow
  BY DEF VersionRow
<1>2. [row EXCEPT !.status = st, !.hash = h] \in VersionRow
  BY DEF VersionRow
<1>3. [row EXCEPT !.artifacts = @ \union {h}] \in VersionRow
  BY DEF VersionRow
<1> QED
  BY <1>1, <1>2, <1>3

\* Setting the status of a version row to one of the four.
LEMMA RowStatus ==
    ASSUME NEW row \in VersionRow, NEW st \in Statuses
    PROVE  [row EXCEPT !.status = st] \in VersionRow
  BY DEF VersionRow

\* Taking rows back to pending, by a sweep or at boot, keeps what they record.
LEMMA ResetKeepsRows ==
    ASSUME IInv, NEW S \in SUBSET Keys, ResetToPending(S), UNCHANGED blob,
           pack' \in [Packs -> PackRow],
           \A p \in Packs : /\ pack'[p].state = pack[p].state
                             /\ pack'[p].gen = pack[p].gen
                             /\ pack'[p].visibility = pack[p].visibility,
           \A k \in S : version[k].status # "none"
    PROVE  Grows /\ RowsOK' /\ StampsOK'
<1> DEFINE rows == [k \in Keys |-> IF k \in S
                                    THEN [version[k] EXCEPT !.status = "pending"]
                                    ELSE version[k]]
<1>1. StateTypeOK /\ version \in [Keys -> VersionRow] /\ WriteVersions(rows, S)
  BY DEF IInv, TypeOK, StateTypeOK, ResetToPending
<1>2. rows \in [Keys -> VersionRow]
  <2>1. \A k \in Keys : [version[k] EXCEPT !.status = "pending"] \in VersionRow
    BY <1>1, RowStatus DEF Statuses
  <2> QED
    BY <1>1, <2>1
<1>3. \A k \in Keys :
        /\ rows[k].status = IF k \in S THEN "pending" ELSE version[k].status
        /\ rows[k].tree = version[k].tree
        /\ rows[k].hash = version[k].hash
        /\ rows[k].artifacts = version[k].artifacts
        /\ rows[k].recorded = version[k].recorded
  BY <1>1 DEF VersionRow
<1> HIDE DEF rows
<1>4. version' = rows /\ StampsOK'
  BY <1>1, <1>2, WriteVersionsType DEF StampsOK
<1>5. Grows
  BY <1>1, <1>2, <1>3, <1>4 DEF Grows, StateTypeOK
<1>6. \A k \in Keys : k[1] \in Packs
  BY DEF Keys
<1>7. RowsOK'
  BY <1>3, <1>4, <1>6 DEF RowsOK, RowOK, IInv, PackExists
<1> QED
  BY <1>4, <1>5, <1>7

\* A rewritten row that keeps its tree and its artifacts stays consistent.
LEMMA OneRowOK ==
    ASSUME IInv, NEW k \in Keys, NEW row \in VersionRow,
           version' = [version EXCEPT ![k] = row], UNCHANGED <<pack, blob>>,
           row.status # "none", version[k].status # "none",
           row.tree = version[k].tree, row.recorded = version[k].recorded,
           version[k].artifacts \subseteq row.artifacts,
           row.status = "ready" => row.hash # None,
           row.hash # None => row.hash \in row.artifacts,
           \A h \in row.artifacts :
                blob[h] # "absent" /\ \E t \in row.recorded : h = HashOf[t]
    PROVE  Grows /\ RowsOK'
<1>1. Grows
  BY OneRowGrows DEF IInv, TypeOK
<1>2. RowOK(k)'
  BY DEF RowOK, IInv, TypeOK, StateTypeOK, PackExists
<1>3. \A other \in Keys \ {k} : RowOK(other)'
  BY DEF RowOK, IInv, TypeOK, StateTypeOK, PackExists
<1> QED
  BY <1>1, <1>2, <1>3 DEF RowsOK

\* Every statement of the worker on pack_versions keeps the rows consistent.
LEMMA RowStep ==
    ASSUME IInv, NEW w \in Workers,
           Sweep(w) \/ Claim(w) \/ WriteVerdict(w) \/ RecordArtifact(w)
               \/ MarkReady(w) \/ MarkFailed(w)
    PROVE  Grows /\ RowsOK' /\ StampsOK'
<1>0. StateTypeOK /\ RowsOK /\ StampsOK /\ version \in [Keys -> VersionRow]
  BY DEF IInv, TypeOK, StateTypeOK, RowsOK, StampsOK
<1>1. CASE Sweep(w)
  <2> DEFINE S == {k \in stale : version[k].status = "ingesting"}
  <2>1. S \in SUBSET Keys /\ \A k \in S : version[k].status # "none"
    BY <1>0 DEF StampsOK
  <2>2. ResetToPending(S) /\ UNCHANGED <<pack, blob>>
    BY <1>1 DEF Sweep
  <2> HIDE DEF S
  <2> QED
    BY <1>0, <2>1, <2>2, ResetKeepsRows DEF StateTypeOK
<1>2. CASE Claim(w)
  <2>1. PICK k \in Keys :
          /\ version[k].status = "pending"
          /\ WriteVersions([version EXCEPT ![k].status = "ingesting"], {k})
    BY <1>2 DEF Claim
  <2> DEFINE row == [version[k] EXCEPT !.status = "ingesting"]
  <2>2. row \in VersionRow /\ row.status = "ingesting"
        /\ row.tree = version[k].tree /\ row.hash = version[k].hash
        /\ row.artifacts = version[k].artifacts /\ row.recorded = version[k].recorded
    BY <1>0 DEF VersionRow, Statuses
  <2>3. [version EXCEPT ![k].status = "ingesting"] = [version EXCEPT ![k] = row]
    OBVIOUS
  <2> HIDE DEF row
  <2>4. version' = [version EXCEPT ![k] = row] /\ StampsOK'
    BY <1>0, <2>1, <2>2, <2>3, WriteVersionsType DEF StampsOK
  <2>5. RowOK(k)
    BY <1>0 DEF RowsOK
  <2>6. \A h \in row.artifacts :
                blob[h] # "absent" /\ \E t \in row.recorded : h = HashOf[t]
    BY <2>2, <2>5 DEF RowOK
  <2>7. row.hash # None => row.hash \in row.artifacts
    BY <2>2, <2>5 DEF RowOK
  <2>8. UNCHANGED <<pack, blob>>
    BY <1>2 DEF Claim
  <2>9. Grows /\ RowsOK'
    BY <2>1, <2>2, <2>4, <2>6, <2>7, <2>8, OneRowOK
  <2> QED
    BY <2>4, <2>9
<1>3. CASE WriteVerdict(w)
  <2>1. HasJob(w)
    BY <1>3 DEF WriteVerdict, At, HasJob, JobSteps, ScreenSteps
  <2>2. PICK k \in Keys : k = job[w].key
    BY <2>1, OwnRowFacts
  <2>3. CASE OwnRow(w)
    <3> DEFINE row == [version[k] EXCEPT !.verdict = job[w].verdict]
    <3>1. job[w].verdict \in Verdicts /\ version[k].status # "none"
      BY <1>3, <2>1, <2>2, <2>3, OwnRowFacts DEF JobOK, WriteVerdict, At, OwnRow, SameRow
    <3>2. row \in VersionRow /\ row.status = version[k].status
          /\ row.tree = version[k].tree /\ row.hash = version[k].hash
          /\ row.artifacts = version[k].artifacts /\ row.recorded = version[k].recorded
      BY <1>0, <3>1 DEF VersionRow
    <3>3. version' = [version EXCEPT ![k] = row] /\ UNCHANGED <<pack, blob, older, stale>>
      BY <1>3, <2>2, <2>3 DEF WriteVerdict
    <3> HIDE DEF row
    <3>4. RowOK(k)
      BY <1>0 DEF RowsOK
    <3>5. \A h \in row.artifacts :
              blob[h] # "absent" /\ \E t \in row.recorded : h = HashOf[t]
      BY <3>1, <3>2, <3>4 DEF RowOK
    <3>6. /\ row.status = "ready" => row.hash # None
          /\ row.hash # None => row.hash \in row.artifacts
      BY <3>1, <3>2, <3>4 DEF RowOK
    <3>7. Grows /\ RowsOK'
      BY <3>1, <3>2, <3>3, <3>5, <3>6, OneRowOK
    <3> QED
      BY <1>0, <3>3, <3>7 DEF StampsOK
  <2>4. CASE ~OwnRow(w)
    BY <1>0, <1>3, <2>4 DEF WriteVerdict, Grows, RowsOK, RowOK, PackExists, StampsOK, StateTypeOK
  <2> QED
    BY <2>3, <2>4
<1>4. CASE RecordArtifact(w)
  <2>1. HasJob(w) /\ job[w].pc \in StoreSteps /\ job[w].pc \in KnowsTree /\ job[w].pc = "record"
    BY <1>4 DEF RecordArtifact, At, HasJob, JobSteps, StoreSteps, KnowsTree, FailureSteps
  <2>2. PICK k \in Keys : k = job[w].key
    BY <2>1, OwnRowFacts
  <2>3. CASE OwnRow(w)
    <3> DEFINE row == [version[k] EXCEPT !.artifacts = @ \union {job[w].hash}]
    <3>1. /\ job[w].hash \in Hashes
          /\ blob[job[w].hash] # "absent"
          /\ job[w].hash = HashOf[job[w].tree]
          /\ job[w].tree \in version[k].recorded
          /\ version[k].status # "none"
      BY <1>4, <2>1, <2>2, <2>3, OwnRowFacts, RegistryAssumption
         DEF JobOK, OwnRow, SameRow, Trees
    <3>a. version[k] \in VersionRow
      BY <1>0
    <3>b. row \in VersionRow
      BY <3>a, <3>1, RowFields DEF Statuses
    <3>2. row \in VersionRow /\ row.status = version[k].status
          /\ row.tree = version[k].tree /\ row.hash = version[k].hash
          /\ row.artifacts = version[k].artifacts \union {job[w].hash}
          /\ row.recorded = version[k].recorded
      BY <3>a, <3>b DEF VersionRow
    <3>3. version' = [version EXCEPT ![k] = row] /\ UNCHANGED <<pack, blob, older, stale>>
      BY <1>4, <2>2, <2>3 DEF RecordArtifact
    <3> HIDE DEF row
    <3>4. RowOK(k)
      BY <1>0 DEF RowsOK
    <3>5. \A h \in row.artifacts :
              blob[h] # "absent" /\ \E t \in row.recorded : h = HashOf[t]
      BY <3>1, <3>2, <3>4 DEF RowOK
    <3>6. /\ row.status = "ready" => row.hash # None
          /\ row.hash # None => row.hash \in row.artifacts
      BY <3>1, <3>2, <3>4 DEF RowOK
    <3>7. Grows /\ RowsOK'
      BY <3>1, <3>2, <3>3, <3>5, <3>6, OneRowOK
    <3> QED
      BY <1>0, <3>3, <3>7 DEF StampsOK
  <2>4. CASE ~OwnRow(w)
    BY <1>0, <1>4, <2>4 DEF RecordArtifact, Grows, RowsOK, RowOK, PackExists, StampsOK, StateTypeOK
  <2> QED
    BY <2>3, <2>4
<1>5. CASE MarkReady(w)
  <2>1. HasJob(w) /\ job[w].pc \in StoreSteps /\ job[w].pc \in KnowsTree /\ job[w].pc = "markReady"
    BY <1>5 DEF MarkReady, At, HasJob, JobSteps, StoreSteps, KnowsTree, FailureSteps
  <2>2. PICK k \in Keys : k = job[w].key
    BY <2>1, OwnRowFacts
  <2>3. CASE OwnRow(w)
    <3> DEFINE row == [version[k] EXCEPT !.status = "ready", !.hash = job[w].hash]
    <3>1. /\ job[w].hash \in Hashes
          /\ job[w].hash \in version[k].artifacts
          /\ version[k].status # "none"
      BY <2>1, <2>2, <2>3, OwnRowFacts, RegistryAssumption
         DEF JobOK, OwnRow, SameRow, Trees
    <3>a. version[k] \in VersionRow
      BY <1>0
    <3>b. row \in VersionRow
      BY <3>a, <3>1, RowFields DEF Statuses
    <3>2. row \in VersionRow /\ row.status = "ready"
          /\ row.tree = version[k].tree /\ row.hash = job[w].hash
          /\ row.artifacts = version[k].artifacts
          /\ row.recorded = version[k].recorded
      BY <3>a, <3>b DEF VersionRow
    <3>3. WriteVersions([version EXCEPT ![k] = row], {k}) /\ UNCHANGED <<pack, blob>>
      BY <1>5, <2>2, <2>3 DEF MarkReady, WriteOwnRow
    <3> HIDE DEF row
    <3>4. version' = [version EXCEPT ![k] = row] /\ StampsOK'
      BY <1>0, <3>2, <3>3, WriteVersionsType DEF StampsOK
    <3>5. None \notin Hashes
      BY RegistryAssumption
    <3>6. RowOK(k)
      BY <1>0 DEF RowsOK
    <3>7. \A h \in row.artifacts :
              blob[h] # "absent" /\ \E t \in row.recorded : h = HashOf[t]
      BY <3>2, <3>6 DEF RowOK
    <3>8. Grows /\ RowsOK'
      BY <3>1, <3>2, <3>3, <3>4, <3>5, <3>7, OneRowOK
    <3> QED
      BY <3>4, <3>8
  <2>4. CASE ~OwnRow(w)
    BY <1>0, <1>5, <2>4 DEF MarkReady, WriteOwnRow, Grows, RowsOK, RowOK, PackExists, StampsOK, StateTypeOK
  <2> QED
    BY <2>3, <2>4
<1>6. CASE MarkFailed(w)
  <2>1. HasJob(w)
    BY <1>6 DEF MarkFailed, At, HasJob, JobSteps, FailureSteps
  <2>2. PICK k \in Keys : k = job[w].key
    BY <2>1, OwnRowFacts
  <2>3. CASE OwnRow(w)
    <3> DEFINE row == [version[k] EXCEPT !.status = "failed"]
    <3>1. version[k].status # "none"
      BY <2>2, <2>3 DEF OwnRow, SameRow
    <3>2. row \in VersionRow /\ row.status = "failed"
          /\ row.tree = version[k].tree /\ row.hash = version[k].hash
          /\ row.artifacts = version[k].artifacts
          /\ row.recorded = version[k].recorded
      BY <1>0 DEF VersionRow, Statuses
    <3>3. WriteVersions([version EXCEPT ![k] = row], {k}) /\ UNCHANGED <<pack, blob>>
      BY <1>6, <2>2, <2>3 DEF MarkFailed, WriteOwnRow
    <3> HIDE DEF row
    <3>4. version' = [version EXCEPT ![k] = row] /\ StampsOK'
      BY <1>0, <3>2, <3>3, WriteVersionsType DEF StampsOK
    <3>5. RowOK(k)
      BY <1>0 DEF RowsOK
    <3>6. \A h \in row.artifacts :
              blob[h] # "absent" /\ \E t \in row.recorded : h = HashOf[t]
      BY <3>2, <3>5 DEF RowOK
    <3>7. row.hash # None => row.hash \in row.artifacts
      BY <3>2, <3>5 DEF RowOK
    <3>8. Grows /\ RowsOK'
      BY <3>1, <3>2, <3>3, <3>4, <3>6, <3>7, OneRowOK
    <3> QED
      BY <3>4, <3>8
  <2>4. CASE ~OwnRow(w)
    BY <1>0, <1>6, <2>4 DEF MarkFailed, WriteOwnRow, Grows, RowsOK, RowOK, PackExists, StampsOK, StateTypeOK
  <2> QED
    BY <2>3, <2>4
<1> QED
  BY <1>1, <1>2, <1>3, <1>4, <1>5, <1>6

\* A step of the worker keeps the rows consistent and only adds to them.
LEMMA WorkerGrows ==
    ASSUME IInv, NEW w \in Workers, WorkerStep(w)
    PROVE  Grows /\ RowsOK' /\ StampsOK' /\ PrivateNeverScreened'
<1>0. /\ StateTypeOK /\ RowsOK /\ StampsOK /\ PrivateNeverScreened
      /\ pack \in [Packs -> PackRow] /\ version \in [Keys -> VersionRow]
      /\ blob \in [Hashes -> {"absent", "torn", "whole"}]
  BY DEF IInv, TypeOK, StateTypeOK, RowsOK, StampsOK
<1>1. CASE UNCHANGED <<pack, version, older, stale, blob>>
  BY <1>0, <1>1 DEF Grows, RowsOK, RowOK, PackExists, StampsOK, PrivateNeverScreened
<1>2. CASE Sweep(w) \/ Claim(w) \/ WriteVerdict(w) \/ RecordArtifact(w)
               \/ MarkReady(w) \/ MarkFailed(w)
  <2>1. pack' = pack
    BY <1>2 DEF Sweep, Claim, WriteVerdict, RecordArtifact, MarkReady, MarkFailed
  <2>2. PrivateNeverScreened'
    BY <1>0, <2>1 DEF PrivateNeverScreened, PackExists
  <2> QED
    BY <1>2, <2>2, RowStep
<1>3. CASE TierForVerdict(w) \/ CrashUpdateTier(w)
  <2>1. UNCHANGED <<version, older, stale, blob>>
    BY <1>3 DEF TierForVerdict, CrashUpdateTier
  <2>2. Grows /\ PrivateNeverScreened'
    BY <1>3, TierStep
  <2>3. RowsOK'
    BY <1>0, <2>1, <2>2 DEF Grows, RowsOK, RowOK, PackExists, Keys
  <2> QED
    BY <1>0, <2>1, <2>2, <2>3 DEF StampsOK
<1>4. CASE OpenBlob(w) \/ FinishBlob(w)
  <2>1. UNCHANGED <<pack, version, older, stale>>
    BY <1>4 DEF OpenBlob, FinishBlob
  <2>2. Grows
    BY <1>4, FileStep
  <2>3. RowsOK'
    BY <1>0, <2>1, <2>2 DEF Grows, RowsOK, RowOK, PackExists, VersionRow
  <2> QED
    BY <1>0, <2>1, <2>2, <2>3 DEF StampsOK, PrivateNeverScreened, PackExists
<1> QED
  BY <1>1, <1>2, <1>3, <1>4
     DEF WorkerStep, NothingToClaim, FetchRow, FetchPack, Clone, Screen, LoadAndPack,
         JobThrows, CrashSelectPack, JobFault, storeVars, dbVars

\* A job that goes on with the row, tree and visibility it has read keeps what
\* it knows of them.
LEMMA JobGoesOn ==
    ASSUME IInv, Grows, NEW w \in Workers, HasJob(w), NEW next \in JobRecord,
           job'[w] = next,
           next.pc \in JobSteps \ {"fetchRow"},
           next.key = job[w].key, next.gen = job[w].gen,
           next.tree = job[w].tree, next.public = job[w].public,
           next.pc \in KnowsTree => job[w].pc \in KnowsTree,
           next.pc \in {"screen", "writeVerdict", "tier"} => job[w].public,
           next.pc \in {"writeVerdict", "tier"} => next.verdict \in Verdicts,
           next.pc \in StoreSteps => next.hash = HashOf[next.tree],
           next.pc \in {"record", "markReady"} => blob'[next.hash] # "absent",
           next.pc = "markReady" /\ OwnRow(w) =>
                next.hash \in version'[job[w].key].artifacts
    PROVE  JobOK(w)'
<1>1. /\ JobOK(w) /\ job[w].key \in Keys /\ job[w].key[1] \in Packs
      /\ OwnRow(w) <=> SamePack(job[w].key[1], job[w].gen)
  BY OwnRowFacts
<1>2. PICK k, g : k \in Keys /\ k = job[w].key /\ g = job[w].gen
  BY <1>1
<1>3. /\ pack'[k[1]].state = pack[k[1]].state
      /\ pack'[k[1]].gen = pack[k[1]].gen
      /\ pack'[k[1]].visibility = pack[k[1]].visibility
      /\ version[k].status # "none" => version'[k].status # "none"
      /\ version'[k].recorded = version[k].recorded
  BY <1>1, <1>2 DEF Grows
<1>4. next.key = k /\ next.gen = g
  BY <1>2
<1>5. SamePack(k[1], g)' <=> SamePack(k[1], g)
  BY <1>3 DEF SamePack, PackExists
<1>6. SamePack(k[1], g)' =>
              /\ version'[k].status # "none"
              /\ next.pc \in KnowsTree => next.tree \in version'[k].recorded
              /\ next.public => pack'[k[1]].visibility = "public"
              /\ next.pc = "markReady" => next.hash \in version'[k].artifacts
  BY <1>1, <1>2, <1>3, <1>5 DEF JobOK
<1>7. /\ g <= pack'[k[1]].gen
      /\ next.pc \in KnowsTree => next.tree \in Trees
  BY <1>1, <1>2, <1>3 DEF JobOK
<1>8. (/\ job[w].key \in Keys
       /\ job[w].gen <= pack[job[w].key[1]].gen
       /\ job[w].pc \in KnowsTree => job[w].tree \in Trees)'
  BY <1>2, <1>4, <1>7
<1>9. (/\ job[w].pc \in {"screen", "writeVerdict", "tier"} => job[w].public
       /\ job[w].pc \in {"writeVerdict", "tier"} => job[w].verdict \in Verdicts
       /\ job[w].pc \in StoreSteps => job[w].hash = HashOf[job[w].tree]
       /\ job[w].pc \in {"record", "markReady"} => blob[job[w].hash] # "absent")'
  OBVIOUS
<1>10. SamePack(job[w].key[1], job[w].gen)' <=> SamePack(k[1], g)'
  BY <1>4 DEF SamePack, PackExists
<1>11. (SamePack(job[w].key[1], job[w].gen) =>
              /\ version[job[w].key].status # "none"
              /\ job[w].pc \in KnowsTree =>
                    job[w].tree \in version[job[w].key].recorded
              /\ job[w].public => pack[job[w].key[1]].visibility = "public"
              /\ job[w].pc = "markReady" =>
                    job[w].hash \in version[job[w].key].artifacts)'
  BY <1>4, <1>6, <1>10
<1> QED
  BY <1>8, <1>9, <1>11 DEF JobOK

\* Replacing the locals of one job leaves the others alone.
LEMMA JobUpdate ==
    ASSUME JobTypeOK, NEW w \in Workers, NEW next \in JobRecord,
           job' = [job EXCEPT ![w] = next]
    PROVE  /\ JobTypeOK' /\ job'[w] = next
           /\ \A v \in Workers \ {w} : job'[v] = job[v]
  BY DEF JobTypeOK

\* Setting a field of a job's locals to a value of its type, one lemma a field.
LEMMA JobTree ==
    ASSUME NEW j \in JobRecord, NEW pc \in LoopSteps \union JobSteps, NEW t \in Trees
    PROVE  [j EXCEPT !.pc = pc, !.tree = t] \in JobRecord
  BY DEF JobRecord

LEMMA JobVerdict ==
    ASSUME NEW j \in JobRecord, NEW pc \in LoopSteps \union JobSteps, NEW v \in Verdicts
    PROVE  [j EXCEPT !.pc = pc, !.verdict = v] \in JobRecord
  BY DEF JobRecord

LEMMA JobHash ==
    ASSUME NEW j \in JobRecord, NEW pc \in LoopSteps \union JobSteps, NEW h \in Hashes
    PROVE  [j EXCEPT !.pc = pc, !.hash = h] \in JobRecord
  BY DEF JobRecord

LEMMA JobPublic ==
    ASSUME NEW j \in JobRecord, NEW pc \in LoopSteps \union JobSteps, NEW b \in BOOLEAN
    PROVE  [j EXCEPT !.pc = pc, !.public = b] \in JobRecord
  BY DEF JobRecord

\* Moving a job to another step changes nothing else of its locals.
LEMMA JobMoves ==
    ASSUME NEW j \in JobRecord, NEW pc \in LoopSteps \union JobSteps
    PROVE  /\ [j EXCEPT !.pc = pc] \in JobRecord
           /\ [j EXCEPT !.pc = pc].pc = pc
           /\ [j EXCEPT !.pc = pc].key = j.key
           /\ [j EXCEPT !.pc = pc].gen = j.gen
           /\ [j EXCEPT !.pc = pc].tree = j.tree
           /\ [j EXCEPT !.pc = pc].public = j.public
           /\ [j EXCEPT !.pc = pc].verdict = j.verdict
           /\ [j EXCEPT !.pc = pc].hash = j.hash
  BY DEF JobRecord

\* The steps that only move on: to the next step of the job, to its failure
\* path, or back to the loop.
LEMMA JobStepMoves ==
    ASSUME IInv, NEW w \in Workers, Grows,
           NEW pc \in LoopSteps \union JobSteps, Then(w, pc),
           \/ pc \in LoopSteps
           \/ HasJob(w) /\ pc \in FailureSteps
           \/ TierForVerdict(w) /\ pc = "load"
           \/ WriteVerdict(w) /\ pc = "tier"
           \/ OpenBlob(w) /\ pc \in {"putting", "record"}
           \/ FinishBlob(w) /\ pc = "record"
           \/ RecordArtifact(w) /\ OwnRow(w) /\ pc = "markReady"
    PROVE  /\ JobTypeOK' /\ JobOK(w)'
           /\ \A v \in Workers \ {w} : job'[v] = job[v]
<1> DEFINE next == [job[w] EXCEPT !.pc = pc]
<1>0. JobTypeOK /\ job[w] \in JobRecord
  BY DEF IInv, TypeOK, JobTypeOK
<1>1. /\ next \in JobRecord /\ next.pc = pc
      /\ next.key = job[w].key /\ next.gen = job[w].gen /\ next.tree = job[w].tree
      /\ next.public = job[w].public /\ next.verdict = job[w].verdict
      /\ next.hash = job[w].hash
  BY <1>0, JobMoves, SMTT(30)
<1>2. job' = [job EXCEPT ![w] = next]
  BY <1>0 DEF Then, JobTypeOK
<1> HIDE DEF next
<1>3. /\ JobTypeOK' /\ job'[w] = next
      /\ \A v \in Workers \ {w} : job'[v] = job[v]
  BY <1>0, <1>1, <1>2, JobUpdate
<1>4. CASE pc \in LoopSteps
  BY <1>1, <1>3, <1>4 DEF JobOK, HasJob, LoopSteps, JobSteps, EarlySteps, ScreenSteps,
     StoreSteps, FailureSteps
<1> USE DEF JobSteps, EarlySteps, ScreenSteps, StoreSteps, FailureSteps, KnowsTree
<1>5. CASE HasJob(w) /\ pc \in FailureSteps
  BY <1>1, <1>3, <1>5, JobGoesOn
<1>6. CASE TierForVerdict(w) /\ pc = "load"
  <2>1. HasJob(w) /\ job[w].pc \in KnowsTree
    BY <1>6 DEF TierForVerdict, At, HasJob
  <2> QED
    BY <1>1, <1>3, <1>6, <2>1, JobGoesOn
<1>7. CASE WriteVerdict(w) /\ pc = "tier"
  <2>1. HasJob(w) /\ job[w].pc = "writeVerdict"
    BY <1>7 DEF WriteVerdict, At, HasJob
  <2>2. job[w].public /\ job[w].verdict \in Verdicts
    BY <2>1, OwnRowFacts DEF JobOK
  <2> QED
    BY <1>1, <1>3, <1>7, <2>1, <2>2, JobGoesOn
<1>8. CASE (OpenBlob(w) /\ pc \in {"putting", "record"}) \/ (FinishBlob(w) /\ pc = "record")
  <2>1. HasJob(w) /\ job[w].pc \in {"put", "putting"}
    BY <1>8 DEF OpenBlob, FinishBlob, At, HasJob
  <2>2. job[w].hash = HashOf[job[w].tree]
    BY <2>1, OwnRowFacts DEF JobOK
  <2>3. blob'[job[w].hash] # "absent"
    BY <1>8, FileStep
  <2> QED
    BY <1>1, <1>3, <1>8, <2>1, <2>2, <2>3, JobGoesOn
<1>9. CASE RecordArtifact(w) /\ OwnRow(w) /\ pc = "markReady"
  <2>1. HasJob(w) /\ job[w].pc = "record"
    BY <1>9 DEF RecordArtifact, At, HasJob
  <2>2. /\ job[w].hash = HashOf[job[w].tree]
        /\ blob[job[w].hash] # "absent"
        /\ job[w].key \in Keys
    BY <2>1, OwnRowFacts DEF JobOK
  <2>3. version \in [Keys -> VersionRow] /\ blob' = blob
    BY <1>9 DEF RecordArtifact, IInv, TypeOK, StateTypeOK
  <2>4. job[w].hash \in version'[job[w].key].artifacts
    BY <1>9, <2>2, <2>3 DEF RecordArtifact, VersionRow
  <2> QED
    BY <1>1, <1>3, <1>9, <2>1, <2>2, <2>3, <2>4, JobGoesOn
<1> QED
  BY <1>4, <1>5, <1>6, <1>7, <1>8, <1>9

\* Back to the loop: the locals of the job are gone.
LEMMA NextCycleStep ==
    ASSUME JobTypeOK, NEW w \in Workers, NextCycle(w)
    PROVE  /\ JobTypeOK' /\ JobOK(w)'
           /\ \A v \in Workers \ {w} : job'[v] = job[v]
<1>1. IdleJob \in JobRecord
  BY DEF IdleJob, JobRecord, LoopSteps
<1>2. /\ JobTypeOK' /\ job'[w] = IdleJob
      /\ \A v \in Workers \ {w} : job'[v] = job[v]
  BY <1>1, JobUpdate DEF NextCycle
<1> QED
  BY <1>2 DEF JobOK, HasJob, IdleJob, JobSteps, EarlySteps, ScreenSteps, StoreSteps, FailureSteps

\* The steps that read or compute something the job goes on with.
LEMMA JobStepReads ==
    ASSUME IInv, NEW w \in Workers, Grows,
           Claim(w) \/ FetchRow(w) \/ FetchPack(w) \/ Clone(w) \/ Screen(w) \/ LoadAndPack(w)
    PROVE  /\ JobTypeOK' /\ JobOK(w)'
           /\ \A v \in Workers \ {w} : job'[v] = job[v]
<1>0. /\ JobTypeOK /\ job[w] \in JobRecord
      /\ pack \in [Packs -> PackRow] /\ version \in [Keys -> VersionRow]
      /\ \A k \in Keys : k[1] \in Packs /\ RowOK(k)
  BY DEF IInv, TypeOK, StateTypeOK, JobTypeOK, Keys
<1> USE DEF JobSteps, EarlySteps, ScreenSteps, StoreSteps, FailureSteps, KnowsTree
<1>1. CASE Claim(w)
  <2>1. PICK k \in Keys :
          /\ version[k].status = "pending"
          /\ job' = [job EXCEPT ![w] = [IdleJob EXCEPT !.pc = "fetchRow",
                                !.key = k, !.gen = pack[k[1]].gen]]
    BY <1>1 DEF Claim
  <2> DEFINE next == [IdleJob EXCEPT !.pc = "fetchRow", !.key = k,
                                     !.gen = pack[k[1]].gen]
  <2>2. pack[k[1]].gen \in Nat /\ pack' = pack
    BY <1>0, <1>1 DEF PackRow, Claim
  <2>3. /\ next \in JobRecord /\ next.pc = "fetchRow" /\ next.key = k
        /\ next.gen = pack[k[1]].gen /\ next.public = FALSE
    BY <2>2 DEF JobRecord, IdleJob
  <2> HIDE DEF next
  <2>4. /\ JobTypeOK' /\ job'[w] = next
        /\ \A v \in Workers \ {w} : job'[v] = job[v]
    BY <1>0, <2>1, <2>3, JobUpdate DEF next
  <2>5. version'[k].status # "none"
    BY <2>1 DEF Grows
  <2>6. JobOK(w)'
    BY <2>2, <2>3, <2>4, <2>5 DEF JobOK, HasJob
  <2> QED
    BY <2>4, <2>6
<1>2. CASE FetchRow(w)
  <2>1. CASE NextCycle(w)
    BY <1>0, <2>1, NextCycleStep
  <2>2. CASE OwnRow(w) /\ job' = [job EXCEPT ![w] =
                 [@ EXCEPT !.pc = "fetchPack", !.tree = version[job[w].key].tree]]
    <3>1. HasJob(w)
      BY <1>2 DEF FetchRow, At, HasJob
    <3>2. PICK k \in Keys : k = job[w].key
      BY <3>1, OwnRowFacts
    <3>3. /\ version[k].status # "none" /\ SamePack(k[1], job[w].gen)
          /\ version[k].tree \in version[k].recorded
      BY <1>0, <2>2, <3>2 DEF OwnRow, SameRow, RowOK
    <3>4. version[k].tree \in Trees
      BY <1>0, <3>3 DEF VersionRow
    <3> DEFINE next == [job[w] EXCEPT !.pc = "fetchPack", !.tree = version[k].tree]
    <3>5. next \in JobRecord
      BY <1>0, <3>4, JobTree
    <3>6. /\ next.pc = "fetchPack" /\ next.tree = version[k].tree
          /\ next.key = k /\ next.gen = job[w].gen /\ next.public = job[w].public
      BY <1>0, <3>2 DEF JobRecord
    <3>7. job' = [job EXCEPT ![w] = next]
      BY <1>0, <2>2, <3>2 DEF JobTypeOK
    <3> HIDE DEF next
    <3>8. /\ JobTypeOK' /\ job'[w] = next
          /\ \A v \in Workers \ {w} : job'[v] = job[v]
      BY <1>0, <3>5, <3>7, JobUpdate
    <3>9. /\ version' = version /\ pack' = pack
          /\ JobOK(w)
      BY <1>2, <3>1, OwnRowFacts DEF FetchRow, storeVars, dbVars
    <3>10. JobOK(w)'
      BY <3>1, <3>2, <3>3, <3>4, <3>6, <3>8, <3>9 DEF JobOK, HasJob, SamePack, PackExists
    <3> QED
      BY <3>8, <3>10
  <2> QED
    BY <1>2, <2>1, <2>2 DEF FetchRow
<1>3. CASE FetchPack(w)
  <2>1. HasJob(w) /\ job[w].pc = "fetchPack"
    BY <1>3 DEF FetchPack, At, HasJob
  <2>2. CASE Then(w, "failSelect")
    BY <2>1, <2>2, JobStepMoves
  <2>3. CASE SamePack(job[w].key[1], job[w].gen) /\ job' = [job EXCEPT ![w] =
                    [@ EXCEPT !.pc = "clone",
                              !.public = (pack[job[w].key[1]].visibility = "public")]]
    <3>2. PICK k \in Keys : k = job[w].key
      BY <2>1, OwnRowFacts
    <3>3. PICK b \in BOOLEAN : b <=> (pack[k[1]].visibility = "public")
      BY Zenon
    <3>a. b = (pack[k[1]].visibility = "public")
      BY <3>3
    <3> DEFINE next == [job[w] EXCEPT !.pc = "clone", !.public = b]
    <3>5. next \in JobRecord
      BY <1>0, <3>3, JobPublic
    <3>6. /\ next.pc = "clone" /\ next.tree = job[w].tree
          /\ next.key = k /\ next.gen = job[w].gen /\ next.public = b
      BY <1>0, <3>2 DEF JobRecord
    <3>7. job' = [job EXCEPT ![w] = next]
      BY <1>0, <2>3, <3>2, <3>a DEF JobTypeOK
    <3> HIDE DEF next
    <3>8. /\ JobTypeOK' /\ job'[w] = next
          /\ \A v \in Workers \ {w} : job'[v] = job[v]
      BY <1>0, <3>5, <3>7, JobUpdate
    <3>9. /\ version' = version /\ pack' = pack
          /\ JobOK(w)
      BY <1>3, <2>1, OwnRowFacts DEF FetchPack, storeVars, dbVars
    <3>10. JobOK(w)'
      BY <2>1, <3>2, <3>3, <3>6, <3>8, <3>9 DEF JobOK, HasJob, SamePack, PackExists
    <3> QED
      BY <3>8, <3>10
  <2> QED
    BY <1>3, <2>2, <2>3 DEF FetchPack
<1>4. CASE Clone(w)
  <2>1. HasJob(w) /\ job[w].pc = "clone"
    BY <1>4 DEF Clone, At, HasJob
  <2>2. JobOK(w) /\ job[w].tree \in Trees
    BY <2>1, OwnRowFacts DEF JobOK
  <2>3. CASE Then(w, "failSelect")
    BY <2>1, <2>3, JobStepMoves
  <2>4. CASE job' = [job EXCEPT ![w] =
                    [@ EXCEPT !.pc = IF job[w].public THEN "screen" ELSE "load",
                              !.tree = <<job[w].tree[1], job[w].tree[2]>>]]
    <3>1. <<job[w].tree[1], job[w].tree[2]>> = job[w].tree
      BY <2>2 DEF Trees
    <3>2. PICK pc \in {"screen", "load"} :
            pc = (IF job[w].public THEN "screen" ELSE "load")
      OBVIOUS
    <3> DEFINE next == [job[w] EXCEPT !.pc = pc, !.tree = job[w].tree]
    <3>3. next \in JobRecord
      BY <1>0, <2>2, JobTree
    <3>4. /\ next.pc = pc /\ next.tree = job[w].tree /\ next.key = job[w].key
          /\ next.gen = job[w].gen /\ next.public = job[w].public
      BY <1>0 DEF JobRecord
    <3>5. job' = [job EXCEPT ![w] = next]
      BY <1>0, <2>4, <3>1, <3>2 DEF JobTypeOK
    <3> HIDE DEF next
    <3>6. /\ JobTypeOK' /\ job'[w] = next
          /\ \A v \in Workers \ {w} : job'[v] = job[v]
      BY <1>0, <3>3, <3>5, JobUpdate
    <3>7. JobOK(w)'
      BY <2>1, <2>2, <3>2, <3>3, <3>4, <3>6, JobGoesOn
    <3> QED
      BY <3>6, <3>7
  <2> QED
    BY <1>4, <2>3, <2>4 DEF Clone
<1>5. CASE Screen(w)
  <2>1. HasJob(w) /\ job[w].pc = "screen"
    BY <1>5 DEF Screen, At, HasJob
  <2>2. JobOK(w) /\ job[w].public
    BY <2>1, OwnRowFacts DEF JobOK
  <2>3. PICK v \in Verdicts :
          job' = [job EXCEPT ![w] = [@ EXCEPT !.pc = "writeVerdict", !.verdict = v]]
    BY <1>5 DEF Screen
  <2> DEFINE next == [job[w] EXCEPT !.pc = "writeVerdict", !.verdict = v]
  <2>4. next \in JobRecord
    BY <1>0, JobVerdict
  <2>5. /\ next.pc = "writeVerdict" /\ next.tree = job[w].tree /\ next.key = job[w].key
        /\ next.gen = job[w].gen /\ next.public = job[w].public /\ next.verdict = v
    BY <1>0 DEF JobRecord
  <2>6. job' = [job EXCEPT ![w] = next]
    BY <1>0, <2>3 DEF JobTypeOK
  <2> HIDE DEF next
  <2>7. /\ JobTypeOK' /\ job'[w] = next
        /\ \A u \in Workers \ {w} : job'[u] = job[u]
    BY <1>0, <2>4, <2>6, JobUpdate
  <2>8. JobOK(w)'
    BY <2>1, <2>2, <2>4, <2>5, <2>7, JobGoesOn
  <2> QED
    BY <2>7, <2>8
<1>6. CASE LoadAndPack(w)
  <2>1. HasJob(w) /\ job[w].pc = "load"
    BY <1>6 DEF LoadAndPack, At, HasJob
  <2>2. JobOK(w) /\ job[w].tree \in Trees
    BY <2>1, OwnRowFacts DEF JobOK
  <2>3. PICK h \in Hashes : h = HashOf[job[w].tree]
    BY <2>2, RegistryAssumption DEF Trees
  <2> DEFINE next == [job[w] EXCEPT !.pc = "put", !.hash = h]
  <2>4. next \in JobRecord
    BY <1>0, JobHash
  <2>5. /\ next.pc = "put" /\ next.tree = job[w].tree /\ next.key = job[w].key
        /\ next.gen = job[w].gen /\ next.public = job[w].public /\ next.hash = h
    BY <1>0 DEF JobRecord
  <2>6. job' = [job EXCEPT ![w] = next]
    BY <1>0, <1>6, <2>3 DEF JobTypeOK, LoadAndPack
  <2> HIDE DEF next
  <2>7. /\ JobTypeOK' /\ job'[w] = next
        /\ \A u \in Workers \ {w} : job'[u] = job[u]
    BY <1>0, <2>4, <2>6, JobUpdate
  <2>8. JobOK(w)'
    BY <2>1, <2>2, <2>3, <2>4, <2>5, <2>7, JobGoesOn, SMTT(30)
  <2> QED
    BY <2>7, <2>8
<1> QED
  BY <1>1, <1>2, <1>3, <1>4, <1>5, <1>6

\* The spent bounds stay within them when a call of a worker throws.
LEMMA JobFaultSpends ==
    ASSUME IInv, NEW w \in Workers, WorkerStep(w)
    PROVE  used' \in Budgets /\ tagCommit' = tagCommit
<1>1. CASE JobFault(w)
  BY <1>1, SpendType DEF JobFault, IInv, TypeOK, StateTypeOK
<1>2. CASE used' = used /\ tagCommit' = tagCommit
  BY <1>2 DEF IInv, TypeOK, StateTypeOK
<1> QED
  BY <1>1, <1>2 DEF WorkerStep, Sweep, Claim, NothingToClaim, FetchRow, FetchPack, Clone,
     Screen, WriteVerdict, TierForVerdict, LoadAndPack, OpenBlob, FinishBlob,
     RecordArtifact, MarkReady, JobThrows, CrashSelectPack, CrashUpdateTier, MarkFailed,
     JobFault, storeVars

\* A step of a worker keeps what its job knows, and touches no other job.
LEMMA WorkerStepJobs ==
    ASSUME IInv, NEW w \in Workers, WorkerStep(w), Grows
    PROVE  /\ JobTypeOK' /\ JobOK(w)'
           /\ \A v \in Workers \ {w} : job'[v] = job[v]
<1>0. JobTypeOK /\ job[w] \in JobRecord
  BY DEF IInv, TypeOK, JobTypeOK
<1> USE DEF LoopSteps, JobSteps, EarlySteps, ScreenSteps, StoreSteps, FailureSteps
<1>1. CASE NextCycle(w)
  BY <1>0, <1>1, NextCycleStep
<1>2. CASE Claim(w) \/ FetchRow(w) \/ FetchPack(w) \/ Clone(w) \/ Screen(w) \/ LoadAndPack(w)
  BY <1>2, JobStepReads
<1>3. CASE Sweep(w)
  <2>1. Then(w, "claim")
    BY <1>3 DEF Sweep
  <2> QED
    BY <2>1, JobStepMoves
<1>4. CASE HasJob(w) /\ \E pc \in FailureSteps : Then(w, pc)
  BY <1>4, JobStepMoves
<1>5. CASE WriteVerdict(w) /\ Then(w, "tier")
  BY <1>5, JobStepMoves
<1>6. CASE TierForVerdict(w) /\ Then(w, "load")
  BY <1>6, JobStepMoves
<1>7. CASE OpenBlob(w)
  <2>1. Then(w, "putting") \/ Then(w, "record")
    BY <1>7 DEF OpenBlob
  <2> QED
    BY <1>7, <2>1, JobStepMoves
<1>8. CASE FinishBlob(w)
  <2>1. Then(w, "record")
    BY <1>8 DEF FinishBlob
  <2> QED
    BY <1>8, <2>1, JobStepMoves
<1>9. CASE RecordArtifact(w) /\ OwnRow(w) /\ Then(w, "markReady")
  BY <1>9, JobStepMoves
<1>10. CASE WriteVerdict(w)
  BY <1>4, <1>5, <1>10 DEF WriteVerdict, At, HasJob
<1>11. CASE TierForVerdict(w)
  BY <1>4, <1>6, <1>11 DEF TierForVerdict, At, HasJob
<1>12. CASE RecordArtifact(w)
  BY <1>4, <1>9, <1>12 DEF RecordArtifact, At, HasJob
<1>13. CASE NothingToClaim(w) \/ MarkReady(w) \/ MarkFailed(w)
  BY <1>1, <1>13 DEF NothingToClaim, MarkReady, MarkFailed
<1>14. CASE JobThrows(w) \/ CrashSelectPack(w) \/ CrashUpdateTier(w)
  BY <1>4, <1>14 DEF JobThrows, CrashSelectPack, CrashUpdateTier, At, HasJob
<1>15. CASE JobFault(w)
  <2>1. CASE AfterFault(job[w].pc) = "sweep"
    BY <1>1, <1>15, <2>1 DEF JobFault
  <2>2. CASE AfterFault(job[w].pc) # "sweep"
    <3>1. job[w].pc \in LoopSteps \union JobSteps /\ job[w].pc # "off"
      BY <1>0, <1>15 DEF JobFault, JobRecord
    <3>2. HasJob(w) /\ AfterFault(job[w].pc) \in FailureSteps
      BY <2>2, <3>1 DEF AfterFault, HasJob
    <3> QED
      BY <1>4, <1>15, <2>2, <3>2 DEF JobFault
  <2> QED
    BY <2>1, <2>2
<1> QED
  BY <1>2, <1>3, <1>7, <1>8, <1>10, <1>11, <1>12, <1>13, <1>14, <1>15 DEF WorkerStep

\* A step of a worker preserves the agreement.
LEMMA WorkerStepIInv ==
    ASSUME IInv, NEW w \in Workers, WorkerStep(w), UNCHANGED <<req, up>>
    PROVE  IInv'
<1>1. Grows /\ RowsOK' /\ StampsOK' /\ PrivateNeverScreened'
  BY WorkerGrows
<1>2. /\ JobTypeOK' /\ JobOK(w)'
      /\ \A v \in Workers \ {w} : job'[v] = job[v]
  BY <1>1, WorkerStepJobs
<1>3. Persist /\ PackFacts
  BY <1>1, GrowsPersists
<1>4. \A v \in Workers \ {w} : JobOK(v)'
  BY <1>1, <1>2, <1>3, JobPersists DEF Grows
<1>5. TypeOK'
  BY <1>1, <1>2, JobFaultSpends
     DEF Grows, StampsOK, IInv, TypeOK, StateTypeOK, RequestTypeOK
<1>6. \A r \in Requests : RequestOK(r)'
  BY DEF IInv, RequestOK
<1> QED
  BY <1>1, <1>2, <1>4, <1>5, <1>6 DEF IInv, RowsOK

\* A kill loses the handlers and the jobs, and nothing they relied on.
LEMMA CrashIInv ==
    ASSUME IInv, Crash
    PROVE  IInv'
<1>1. used' \in Budgets /\ UNCHANGED <<pack, version, older, stale, blob, tagCommit>>
  BY SpendType DEF Crash, IInv, TypeOK, StateTypeOK, dbVars
<1>2. StateTypeOK' /\ up' \in BOOLEAN
  BY <1>1 DEF IInv, TypeOK, StateTypeOK, Crash
<1>3. RequestTypeOK' /\ \A r \in Requests : RequestOK(r)'
  BY DEF Crash, RequestTypeOK, RequestRecord, IdleRequest, Visibilities, RequestOK
<1>4. JobTypeOK' /\ \A w \in Workers : JobOK(w)'
  BY DEF Crash, JobTypeOK, JobRecord, IdleJob, OffJob, JobOK, HasJob, LoopSteps, JobSteps,
     EarlySteps, ScreenSteps, StoreSteps, FailureSteps
<1>5. (\A k \in Keys : RowOK(k)') /\ PrivateNeverScreened'
  BY <1>1 DEF IInv, RowOK, PrivateNeverScreened, PackExists
<1> QED
  BY <1>2, <1>3, <1>4, <1>5 DEF IInv, TypeOK

\* The boot sequence resets rows and raises tiers; no job is running yet.
LEMMA BootIInv ==
    ASSUME IInv, Boot
    PROVE  IInv'
<1> DEFINE S == {k \in Keys : version[k].status = "ingesting"}
<1>1. pack \in [Packs -> PackRow] /\ StateTypeOK
  BY DEF IInv, TypeOK, StateTypeOK
<1>2. \A p \in Packs : /\ pack'[p] \in PackRow
                       /\ pack'[p].state = pack[p].state
                       /\ pack'[p].gen = pack[p].gen
                       /\ pack'[p].visibility = pack[p].visibility
                       /\ pack'[p].tier \in {pack[p].tier, "verified"}
  BY <1>1, SMTT(30) DEF Boot, PackRow, Tiers
<1>3. pack' \in [Packs -> PackRow]
  <2>1. pack' = [p \in Packs |-> IF p \in VerifiedPacks /\ PackLive(p)
                                  THEN [pack[p] EXCEPT !.tier = "verified"]
                                  ELSE pack[p]]
    BY DEF Boot
  <2> QED
    BY <1>2, <2>1
<1>4. ResetToPending(S) /\ UNCHANGED blob /\ S \in SUBSET Keys
  BY DEF Boot
<1>5. \A k \in S : version[k].status # "none"
  OBVIOUS
<1> HIDE DEF S
<1>6. Grows /\ RowsOK' /\ StampsOK'
  BY <1>2, <1>3, <1>4, <1>5, ResetKeepsRows
<1>7. StateTypeOK' /\ up' \in BOOLEAN
  BY <1>1, <1>6 DEF Grows, StampsOK, StateTypeOK, Boot
<1>8. RequestTypeOK' /\ \A r \in Requests : RequestOK(r)'
  BY DEF Boot, IInv, TypeOK, RequestTypeOK, RequestOK
<1>9. JobTypeOK' /\ \A w \in Workers : JobOK(w)'
  BY DEF Boot, JobTypeOK, JobRecord, IdleJob, JobOK, HasJob, LoopSteps, JobSteps,
     EarlySteps, ScreenSteps, StoreSteps, FailureSteps
<1>10. PrivateNeverScreened'
  BY <1>2 DEF IInv, PrivateNeverScreened, PackExists
<1> QED
  BY <1>6, <1>7, <1>8, <1>9, <1>10 DEF IInv, TypeOK, RowsOK

\* Tags and the clock are the environment's: neither touches what IInv reads.
LEMMA EnvironmentIInv ==
    ASSUME IInv, UNCHANGED <<req, job, up>>,
           MoveTag \/ \E k \in Keys : RowTurnsStale(k)
    PROVE  IInv'
<1>1. UNCHANGED <<pack, version, older, blob>>
  BY DEF MoveTag, RowTurnsStale, dbVars
<1>2. stale' \subseteq Keys /\ used' \in Budgets /\ tagCommit' \in [Sources \X Tags -> Commits]
  <2>1. CASE MoveTag
    BY <2>1, SpendType DEF MoveTag, IInv, TypeOK, StateTypeOK, dbVars
  <2>2. CASE \E k \in Keys : RowTurnsStale(k)
    BY <2>2 DEF RowTurnsStale, IInv, TypeOK, StateTypeOK
  <2> QED
    BY <2>1, <2>2
<1>3. TypeOK'
  BY <1>1, <1>2 DEF IInv, TypeOK, StateTypeOK, RequestTypeOK, JobTypeOK
<1>4. (\A k \in Keys : RowOK(k)') /\ PrivateNeverScreened'
  BY <1>1 DEF IInv, RowOK, PrivateNeverScreened, PackExists
<1>5. (\A r \in Requests : RequestOK(r)') /\ \A w \in Workers : JobOK(w)'
  BY <1>1 DEF IInv, RequestOK, JobOK, HasJob, SamePack, PackExists
<1> QED
  BY <1>3, <1>4, <1>5 DEF IInv

\* What the rows, the handlers in flight and the running jobs know of each
\* other holds between any two statements, for any number of packs, versions,
\* repositories, handlers, loops, kills, faults and moved tags.
THEOREM Agreement == Spec => []IInv
<1>1. Init => IInv
  BY InitIInv
<1>2. IInv /\ [Next]_vars => IInv'
  <2> SUFFICES ASSUME IInv, [Next]_vars PROVE IInv'
    OBVIOUS
  <2>1. CASE \E r \in Requests : up /\ RequestStep(r) /\ UNCHANGED <<job, up>>
    BY <2>1, RequestStepIInv
  <2>2. CASE \E w \in Workers : up /\ WorkerStep(w) /\ UNCHANGED <<req, up>>
    BY <2>2, WorkerStepIInv
  <2>3. CASE Crash
    BY <2>3, CrashIInv
  <2>4. CASE Boot
    BY <2>4, BootIInv
  <2>5. CASE MoveTag /\ UNCHANGED <<req, job, up>>
    BY <2>5, EnvironmentIInv
  <2>6. CASE \E k \in Keys : RowTurnsStale(k) /\ UNCHANGED <<req, job, up>>
    BY <2>6, EnvironmentIInv
  <2>7. CASE UNCHANGED vars
    BY <2>7 DEF vars, storeVars, dbVars, IInv, TypeOK, StateTypeOK, RequestTypeOK,
       JobTypeOK, RowOK, RequestOK, JobOK, HasJob, SamePack, PackExists,
       PrivateNeverScreened
  <2> QED
    BY <2>1, <2>2, <2>3, <2>4, <2>5, <2>6, <2>7 DEF Next
<1> QED
  BY <1>1, <1>2, PTL DEF Spec

\* Every variable keeps its type: no handler, job or boot writes a row the
\* schema does not have.
THEOREM TypeCorrect == Spec => []TypeOK
<1>1. IInv => TypeOK
  BY DEF IInv
<1> QED
  BY <1>1, Agreement, PTL

\* A ready version always has its artifact row and its file: no re-publish,
\* re-ingest, replacement or crash leaves a ready version that cannot be served.
THEOREM Servable == Spec => []ReadyServable
<1>1. IInv => ReadyServable
  BY DEF IInv, ReadyServable, RowOK
<1> QED
  BY <1>1, Agreement, PTL

\* Bytes are only ever attributed to a version whose own row recorded the
\* commit they were packed from, tags moved or not.
THEOREM Attributed == Spec => []ArtifactsFromRecordedTrees
<1>1. IInv => ArtifactsFromRecordedTrees
  <2> SUFFICES ASSUME IInv, NEW k \in Keys,
                      NEW h \in version[k].artifacts \union ({version[k].hash} \ {None})
               PROVE  h \in {HashOf[t] : t \in version[k].recorded}
    BY DEF ArtifactsFromRecordedTrees
  <2>1. RowOK(k)
    BY DEF IInv
  <2>2. h \in version[k].artifacts
    BY <2>1 DEF RowOK
  <2> QED
    BY <2>1, <2>2 DEF RowOK
<1> QED
  BY <1>1, Agreement, PTL

\* A private pack never carries the badge of a passed screening, not even when
\* it replaces a public pack whose job still runs.
THEOREM PrivateUnscreened == Spec => []PrivateNeverScreened
<1>1. IInv => PrivateNeverScreened
  BY DEF IInv
<1> QED
  BY <1>1, Agreement, PTL
-----------------------------------------------------------------------------
(* With one repository and immutable tags a version is only ever packed    *)
(* from one commit.  The hypotheses are those of the promise: the registry *)
(* accepts a publish of the same version from another repository, and a    *)
(* moved tag is another commit.                                            *)

OneImmutableSource == MaxTagMoves = 0 /\ \A s \in Sources : s = TheSource

\* The commit a version's tag has pointed to from the start.
KeyTree(k) == <<TheSource, FirstCommit[<<TheSource, k[2]>>]>>

\* Every handler in flight cloned the tag's commit, and every row recorded it.
OneTree ==
    /\ tagCommit = FirstCommit
    /\ \A r \in Requests :
          req[r].pc \notin {"idle", "tombstone"} => req[r].tree = KeyTree(req[r].key)
    /\ \A k \in Keys : version[k].recorded \subseteq {KeyTree(k)}

\* What the refinement reads of a version row.
SameContent(k) ==
    /\ version'[k].recorded = version[k].recorded
    /\ version'[k].artifacts = version[k].artifacts
    /\ version'[k].hash = version[k].hash

\* A sweep or a boot changes the status of rows and nothing a download reads.
LEMMA ResetContent ==
    ASSUME IInv, NEW S, ResetToPending(S)
    PROVE  \A k \in Keys : SameContent(k)
  BY DEF ResetToPending, WriteVersions, SameContent, IInv, TypeOK, StateTypeOK, VersionRow

\* A worker adds one artifact to one version, or gives one version a hash it
\* has the artifact of, or leaves the contents alone.
LEMMA WorkerContent ==
    ASSUME IInv, NEW w \in Workers, WorkerStep(w)
    PROVE  \/ \A k \in Keys : SameContent(k)
           \/ \E k \in Keys, h \in Hashes :
                 /\ \A other \in Keys \ {k} : SameContent(other)
                 /\ version'[k].recorded = version[k].recorded
                 /\ \/ /\ version'[k].artifacts = version[k].artifacts \union {h}
                       /\ version'[k].hash = version[k].hash
                    \/ /\ version'[k].artifacts = version[k].artifacts
                       /\ version'[k].hash = h
<1>0. version \in [Keys -> VersionRow]
  BY DEF IInv, TypeOK, StateTypeOK
<1>1. CASE version' = version
  BY <1>1 DEF SameContent
<1>2. CASE Sweep(w)
  BY <1>2, ResetContent DEF Sweep
<1>3. CASE Claim(w)
  BY <1>0, <1>3 DEF Claim, WriteVersions, SameContent, VersionRow
<1>4. CASE WriteVerdict(w)
  BY <1>0, <1>4 DEF WriteVerdict, SameContent, VersionRow
<1>5. CASE MarkFailed(w)
  BY <1>0, <1>5 DEF MarkFailed, WriteOwnRow, WriteVersions, SameContent, VersionRow
<1>6. CASE RecordArtifact(w) \/ MarkReady(w)
  <2>1. HasJob(w) /\ job[w].pc \in StoreSteps /\ job[w].pc \in KnowsTree
    BY <1>6 DEF RecordArtifact, MarkReady, At, HasJob, KnowsTree, JobSteps, StoreSteps,
       FailureSteps
  <2>2. PICK k \in Keys : k = job[w].key
    BY <2>1, OwnRowFacts
  <2>3. PICK h \in Hashes : h = job[w].hash
    BY <2>1, OwnRowFacts, RegistryAssumption DEF JobOK, Trees
  <2>4. CASE version' = [version EXCEPT ![k].artifacts = @ \union {h}]
    <3>1. /\ \A other \in Keys \ {k} : SameContent(other)
          /\ version'[k].recorded = version[k].recorded
          /\ version'[k].artifacts = version[k].artifacts \union {h}
          /\ version'[k].hash = version[k].hash
      BY <1>0, <2>2, <2>4 DEF SameContent, VersionRow
    <3> QED
      BY <2>2, <2>3, <3>1
  <2>5. CASE version' = [version EXCEPT ![k] =
                            [version[k] EXCEPT !.status = "ready", !.hash = h]]
    <3>1. /\ \A other \in Keys \ {k} : SameContent(other)
          /\ version'[k].recorded = version[k].recorded
          /\ version'[k].artifacts = version[k].artifacts
          /\ version'[k].hash = h
      BY <1>0, <2>2, <2>5 DEF SameContent, VersionRow
    <3> QED
      BY <2>2, <2>3, <3>1
  <2> QED
    BY <1>1, <1>6, <2>2, <2>3, <2>4, <2>5
       DEF RecordArtifact, MarkReady, WriteOwnRow, WriteVersions
<1> QED
  BY <1>1, <1>2, <1>3, <1>4, <1>5, <1>6
     DEF WorkerStep, NothingToClaim, FetchRow, FetchPack, Clone, Screen, TierForVerdict,
         LoadAndPack, OpenBlob, FinishBlob, JobThrows, CrashSelectPack, CrashUpdateTier,
         JobFault, storeVars, dbVars

\* A handler withdraws a whole tombstoned pack, or records its own tree on its
\* own version, or leaves the contents alone.
LEMMA RequestContent ==
    ASSUME IInv, NEW r \in Requests, RequestStep(r)
    PROVE  \/ \A k \in Keys : SameContent(k)
           \/ \E p \in Packs : \A k \in Keys :
                 version'[k] = IF k[1] = p THEN NoVersion ELSE version[k]
           \/ /\ req[r].pc = "insertVersion"
              /\ \A k \in Keys :
                    /\ version'[k].artifacts = version[k].artifacts
                    /\ version'[k].hash = version[k].hash
                    /\ version'[k].recorded \subseteq
                          version[k].recorded \union
                             (IF k = req[r].key THEN {req[r].tree} ELSE {})
<1>0. version \in [Keys -> VersionRow] /\ RequestOK(r)
  BY DEF IInv, TypeOK, StateTypeOK
<1>1. CASE version' = version
  BY <1>1 DEF SameContent
<1>2. CASE ReplaceTombstone(r)
  <2>1. req[r].key[1] \in Packs
    BY <1>0, <1>2 DEF ReplaceTombstone, RequestOK, Keys
  <2> QED
    BY <1>1, <1>2, <2>1 DEF ReplaceTombstone, DeleteTombstone, WriteVersions
<1>3. CASE InsertVersion(r)
  <2> DEFINE k == req[r].key
             row == [version[k] EXCEPT !.status = "pending", !.tree = req[r].tree,
                                       !.recorded = @ \union {req[r].tree}]
  <2>1. req[r].pc = "insertVersion" /\ k \in Keys
    BY <1>0, <1>3 DEF InsertVersion, RequestOK
  <2>2. CASE version' = [version EXCEPT ![k] = row]
    <3>1. /\ version'[k].artifacts = version[k].artifacts
          /\ version'[k].hash = version[k].hash
          /\ version'[k].recorded = version[k].recorded \union {req[r].tree}
      BY <1>0, <2>1, <2>2 DEF VersionRow
    <3>2. \A other \in Keys \ {k} : version'[other] = version[other]
      BY <1>0, <2>2
    <3> QED
      BY <2>1, <3>1, <3>2
  <2> QED
    BY <1>1, <1>3, <2>2 DEF InsertVersion, WriteVersions
<1> QED
  BY <1>1, <1>2, <1>3
     DEF RequestStep, ReceivePublish, CheckExisting, PassPlanGate, RefuseAtPlanGate,
         InsertPack, ReceiveUnpublish, Tombstone, RequestFault, storeVars, dbVars

\* A handler only ever holds the tree it cloned.
LEMMA RequestTree ==
    ASSUME IInv, NEW r \in Requests, RequestStep(r)
    PROVE  /\ \A q \in Requests \ {r} : req'[q] = req[q]
           /\ \/ req'[r].pc \in {"idle", "tombstone"}
              \/ /\ req[r].pc \notin {"idle", "tombstone"}
                 /\ req'[r].key = req[r].key /\ req'[r].tree = req[r].tree
              \/ \E k \in Keys, s \in Sources :
                    /\ req'[r].key = k
                    /\ req'[r].tree = <<s, tagCommit[<<s, k[2]>>]>>
<1>0. req \in [Requests -> RequestRecord]
  BY DEF IInv, TypeOK, RequestTypeOK
<1>1. \A q \in Requests \ {r} : req'[q] = req[q]
  BY <1>0 DEF RequestStep, ReceivePublish, CheckExisting, PassPlanGate, RefuseAtPlanGate,
     ReplaceTombstone, InsertPack, InsertVersion, ReceiveUnpublish, Tombstone, RequestFault,
     Answer, Goto
<1>2. CASE Answer(r)
  BY <1>0, <1>1, <1>2 DEF Answer, IdleRequest
<1>3. CASE \E pc : Goto(r, pc) /\ req[r].pc \notin {"idle", "tombstone"}
  BY <1>0, <1>1, <1>3 DEF Goto, RequestRecord
<1>4. CASE InsertPack(r)
  BY <1>0, <1>1, <1>4 DEF InsertPack, RequestRecord
<1>5. CASE ReceiveUnpublish(r)
  BY <1>0, <1>1, <1>5 DEF ReceiveUnpublish, IdleRequest
<1>6. CASE ReceivePublish(r)
  <2>1. PICK k \in Keys, s \in Sources, v \in Visibilities :
            req' = [req EXCEPT ![r] = [pc |-> "cloned", key |-> k,
                                       tree |-> <<s, tagCommit[<<s, k[2]>>]>>,
                                       visibility |-> v, gen |-> 0]]
    BY <1>6 DEF ReceivePublish, CloneAtTag
  <2> QED
    BY <1>0, <1>1, <2>1
<1> QED
  BY <1>2, <1>3, <1>4, <1>5, <1>6, <1>1 DEF RequestStep, CheckExisting, PassPlanGate,
     RefuseAtPlanGate, ReplaceTombstone, InsertVersion, Tombstone, RequestFault

\* The tags of an immutable source stay where they start.
LEMMA TagsStay ==
    ASSUME IInv, OneImmutableSource, Next
    PROVE  tagCommit' = tagCommit
<1>1. ~MoveTag
  BY DEF MoveTag, Spend, OneImmutableSource, IInv, TypeOK, StateTypeOK, Budgets
<1>2. CASE \E w \in Workers : WorkerStep(w)
  BY <1>2, JobFaultSpends
<1>3. CASE \E r \in Requests : RequestStep(r)
  BY <1>3 DEF RequestStep, ReceivePublish, CheckExisting, PassPlanGate, RefuseAtPlanGate,
     ReplaceTombstone, InsertPack, InsertVersion, ReceiveUnpublish, Tombstone, RequestFault,
     storeVars
<1> QED
  BY <1>1, <1>2, <1>3 DEF Next, Crash, Boot, RowTurnsStale

\* Every step keeps to the one tree of each version.
LEMMA OneTreeStep ==
    ASSUME IInv, OneTree, OneImmutableSource, [Next]_vars
    PROVE  OneTree'
<1>1. CASE UNCHANGED vars
  BY <1>1 DEF OneTree, vars, storeVars, dbVars
<1>2. CASE Next
  <2>1. tagCommit' = FirstCommit
    BY <1>2, TagsStay DEF OneTree
  <2>2. CASE \E r \in Requests : RequestStep(r)
    <3>1. PICK r \in Requests : RequestStep(r)
      BY <2>2
    <3>2. \A q \in Requests :
            req'[q].pc \notin {"idle", "tombstone"} => req'[q].tree = KeyTree(req'[q].key)
      <4>1. \A q \in Requests \ {r} :
              req'[q].pc \notin {"idle", "tombstone"} => req'[q].tree = KeyTree(req'[q].key)
        BY <3>1, RequestTree DEF OneTree
      <4>2. \A k \in Keys, s \in Sources : <<s, tagCommit[<<s, k[2]>>]>> = KeyTree(k)
        BY DEF OneTree, OneImmutableSource, KeyTree
      <4>3. req'[r].pc \notin {"idle", "tombstone"} => req'[r].tree = KeyTree(req'[r].key)
        <5>1. CASE req[r].pc \notin {"idle", "tombstone"} /\ req'[r].key = req[r].key
                    /\ req'[r].tree = req[r].tree
          BY <5>1 DEF OneTree
        <5>2. CASE \E k \in Keys, s \in Sources :
                    /\ req'[r].key = k
                    /\ req'[r].tree = <<s, tagCommit[<<s, k[2]>>]>>
          BY <4>2, <5>2
        <5> QED
          BY <3>1, <5>1, <5>2, RequestTree
      <4> QED
        BY <4>1, <4>3
    <3>3. \A k \in Keys : version'[k].recorded \subseteq {KeyTree(k)}
      BY <3>1, RequestContent DEF OneTree, SameContent, NoVersion
    <3> QED
      BY <2>1, <3>2, <3>3 DEF OneTree
  <2>3. CASE \E w \in Workers : WorkerStep(w) /\ UNCHANGED <<req, up>>
    BY <2>1, <2>3, WorkerContent DEF OneTree, SameContent
  <2>4. CASE Crash
    BY <2>1, <2>4 DEF Crash, OneTree, dbVars, IdleRequest
  <2>5. CASE Boot
    BY <2>1, <2>5, ResetContent DEF Boot, OneTree, SameContent
  <2>6. CASE UNCHANGED <<req, version>>
    BY <2>1, <2>6 DEF OneTree
  <2> QED
    BY <1>2, <2>2, <2>3, <2>4, <2>5, <2>6 DEF Next, MoveTag, RowTurnsStale, dbVars
<1> QED
  BY <1>1, <1>2

\* For any number of packs, versions, handlers, loops, kills and faults.
LEMMA OneTreeAlways ==
    ASSUME OneImmutableSource
    PROVE  Spec => [](IInv /\ OneTree)
<1>1. Init => OneTree
  BY DEF Init, StateInit, RequestInit, OneTree, IdleRequest, NoVersion
<1>2. IInv /\ OneTree /\ [Next]_vars => OneTree'
  BY OneTreeStep
<1> QED
  BY <1>1, <1>2, Agreement, PTL DEF Spec

\* What a version may hold is the hash of its one tree.
HoldsOneHash(k) ==
    /\ version[k].artifacts \subseteq {CanonicalHash[k]}
    /\ version[k].hash \in {None, CanonicalHash[k]}
    /\ version[k].hash # None => CanonicalHash[k] \in version[k].artifacts
    /\ version[k].status # "none" => HashOf[version[k].tree] = CanonicalHash[k]

AllHoldOneHash == \A k \in Keys : HoldsOneHash(k)

LEMMA OneHash == IInv /\ OneTree => AllHoldOneHash
<1> SUFFICES ASSUME IInv, OneTree, NEW k \in Keys PROVE HoldsOneHash(k)
  BY DEF AllHoldOneHash
<1>1. RowOK(k) /\ CanonicalHash[k] = HashOf[KeyTree(k)]
  BY DEF IInv, CanonicalHash, KeyTree
<1> QED
  BY <1>1 DEF RowOK, OneTree, HoldsOneHash

\* With one repository and immutable tags the content hash of a ready version
\* is that of the commit it records.
THEOREM Served == ASSUME OneImmutableSource PROVE Spec => []ServedMatchesCommit
<1>1. IInv /\ OneTree => ServedMatchesCommit
  <2> SUFFICES ASSUME IInv, OneTree, NEW k \in Keys, version[k].status = "ready"
               PROVE  version[k].hash = HashOf[version[k].tree]
    BY DEF ServedMatchesCommit
  <2>1. RowOK(k)
    BY DEF IInv
  <2> QED
    BY <2>1, OneHash DEF RowOK, AllHoldOneHash, HoldsOneHash
<1> QED
  BY <1>1, OneTreeAlways, PTL

\* ... so whichever artifact row the download endpoint joins, the bytes it
\* sends hash to the content hash it announces.
THEOREM Downloads == ASSUME OneImmutableSource PROVE Spec => []DownloadMatchesHash
<1>1. IInv /\ OneTree => DownloadMatchesHash
  <2> SUFFICES ASSUME IInv, OneTree, NEW k \in Keys, version[k].status = "ready",
                      NEW h \in version[k].artifacts
               PROVE  h = version[k].hash
    BY DEF DownloadMatchesHash, Downloadable
  <2>1. RowOK(k)
    BY DEF IInv
  <2> QED
    BY <2>1, OneHash DEF RowOK, AllHoldOneHash, HoldsOneHash
<1> QED
  BY <1>1, OneTreeAlways, PTL
-----------------------------------------------------------------------------
(* The refinement of PinnedContent, a step at a time.                      *)

Stored == [k \in Keys |-> version[k].artifacts]
PinnedHash == [k \in Keys |-> version[k].hash]

\* Contents that stay are a stutter of the promise.
LEMMA SameContentStutters ==
    ASSUME \A k \in Keys : SameContent(k)
    PROVE  UNCHANGED <<Stored, PinnedHash>>
  BY DEF SameContent, Stored, PinnedHash

\* A version that gets an artifact, or its hash, is stored or pinned.
LEMMA ContentStepPins ==
    ASSUME IInv, OneTree, IInv', OneTree', NEW k \in Keys,
           \A other \in Keys \ {k} : SameContent(other),
           \/ /\ version'[k].hash = version[k].hash
              /\ version'[k].artifacts # {}
           \/ /\ version'[k].artifacts = version[k].artifacts
              /\ version'[k].hash # None
    PROVE  [Pinned!PinNext]_<<Stored, PinnedHash>>
<1> DEFINE c == CanonicalHash[k]
<1>1. /\ version[k].artifacts \subseteq {c} /\ version'[k].artifacts \subseteq {c}
      /\ version[k].hash \in {None, c} /\ version'[k].hash \in {None, c}
      /\ version[k].hash # None => c \in version[k].artifacts
      /\ version'[k].hash # None => c \in version'[k].artifacts
  <2>1. IInv' /\ OneTree' => AllHoldOneHash'
    BY OneHash, PTL
  <2> QED
    BY <2>1, OneHash DEF AllHoldOneHash, HoldsOneHash
<1>2. k \in Pinned!Installable
  BY DEF Pinned!Installable, Keys
<1> HIDE DEF c
<1>3. CASE version'[k].hash = version[k].hash /\ version'[k].artifacts # {}
  <2>0. version'[k].artifacts = {c}
    BY <1>1, <1>3
  <2>1. Stored' = [Stored EXCEPT ![k] = {c}] /\ UNCHANGED PinnedHash
    BY <1>3, <2>0 DEF Stored, PinnedHash, SameContent
  <2>2. Pinned!Store(k)
    BY <2>1 DEF Pinned!Store, Stored, PinnedHash, c
  <2> QED
    BY <1>2, <2>2 DEF Pinned!PinNext
<1>4. CASE version'[k].artifacts = version[k].artifacts /\ version'[k].hash # None
  <2>1. CASE version[k].hash = None
    <3>1. PinnedHash' = [PinnedHash EXCEPT ![k] = c] /\ UNCHANGED Stored
      BY <1>1, <1>4 DEF Stored, PinnedHash, SameContent
    <3>2. Pinned!Pin(k)
      BY <1>1, <1>4, <2>1, <3>1 DEF Pinned!Pin, Stored, PinnedHash, c
    <3> QED
      BY <1>2, <3>2 DEF Pinned!PinNext
  <2>2. CASE version[k].hash # None
    BY <1>1, <1>4, <2>2 DEF Stored, PinnedHash, SameContent
  <2> QED
    BY <2>1, <2>2
<1> QED
  BY <1>3, <1>4

\* A replaced tombstone withdraws every version of its pack at once.
LEMMA ReplacementWithdraws ==
    ASSUME NEW p \in Packs,
           \A k \in Keys : version'[k] = IF k[1] = p THEN NoVersion ELSE version[k]
    PROVE  Pinned!PinNext
<1>1. \A k \in Keys :
        /\ version'[k].artifacts = IF k[1] = p THEN {} ELSE version[k].artifacts
        /\ version'[k].hash = IF k[1] = p THEN None ELSE version[k].hash
  <2> TAKE k \in Keys
  <2>1. CASE k[1] = p
    <3>1. version'[k] = NoVersion
      BY <2>1
    <3> QED
      BY <2>1, <3>1 DEF NoVersion
  <2>2. CASE k[1] # p
    BY <2>2
  <2> QED
    BY <2>1, <2>2
<1>2. /\ Stored' = [k \in Keys |-> IF k[1] = p THEN {} ELSE Stored[k]]
      /\ PinnedHash' = [k \in Keys |-> IF k[1] = p THEN None ELSE PinnedHash[k]]
  BY <1>1 DEF Stored, PinnedHash
<1>3. Pinned!Withdraw(p)
  BY <1>2 DEF Pinned!Withdraw, Pinned!Installable, Keys, Stored, PinnedHash
<1> QED
  BY <1>3 DEF Pinned!PinNext

\* Every step of the registry is a step of the promise or a stutter.
LEMMA StepPins ==
    ASSUME IInv, OneTree, IInv', OneTree', [Next]_vars
    PROVE  [Pinned!PinNext]_<<Stored, PinnedHash>>
<1>1. CASE version' = version
  BY <1>1, SameContentStutters DEF SameContent
<1>2. CASE \E r \in Requests : RequestStep(r)
  <2>1. PICK r \in Requests : RequestStep(r)
    BY <1>2
  <2>2. \/ \A k \in Keys : version'[k].artifacts = version[k].artifacts
                            /\ version'[k].hash = version[k].hash
        \/ \E p \in Packs : \A k \in Keys :
              version'[k] = IF k[1] = p THEN NoVersion ELSE version[k]
    BY <2>1, RequestContent DEF SameContent
  <2> QED
    BY <2>2, ReplacementWithdraws DEF Stored, PinnedHash
<1>3. CASE \E w \in Workers : WorkerStep(w)
  <2>1. PICK w \in Workers : WorkerStep(w)
    BY <1>3
  <2>2. CASE \A k \in Keys : SameContent(k)
    BY <2>2, SameContentStutters
  <2>3. CASE \E k \in Keys, h \in Hashes :
                 /\ \A other \in Keys \ {k} : SameContent(other)
                 /\ \/ /\ version'[k].artifacts = version[k].artifacts \union {h}
                       /\ version'[k].hash = version[k].hash
                    \/ /\ version'[k].artifacts = version[k].artifacts
                       /\ version'[k].hash = h
    <3>1. PICK k \in Keys, h \in Hashes :
                 /\ \A other \in Keys \ {k} : SameContent(other)
                 /\ \/ /\ version'[k].artifacts = version[k].artifacts \union {h}
                       /\ version'[k].hash = version[k].hash
                    \/ /\ version'[k].artifacts = version[k].artifacts
                       /\ version'[k].hash = h
      BY <2>3
    <3>2. h # None /\ version[k].artifacts \union {h} # {}
      BY RegistryAssumption
    <3> QED
      BY <3>1, <3>2, ContentStepPins
  <2> QED
    BY <2>1, <2>2, <2>3, WorkerContent
<1>4. CASE Boot
  BY <1>4, ResetContent, SameContentStutters DEF Boot
<1> QED
  BY <1>1, <1>2, <1>3, <1>4 DEF Next, Crash, MoveTag, RowTurnsStale, vars, storeVars, dbVars

\* With one repository and immutable tags a pinned version keeps its bytes for
\* the life of its pack row: the registry implements PinnedContent, whatever
\* re-publishes, re-ingests, kills and replacements of packs come between.
THEOREM Refinement == ASSUME OneImmutableSource PROVE Spec => PinnedContentKept
<1>1. Init => Pinned!PinInit
  BY DEF Init, StateInit, NoVersion, Pinned!PinInit, Pinned!Installable, Keys
<1>2. [](IInv /\ OneTree) /\ [][Next]_vars => [][Pinned!PinNext]_<<Stored, PinnedHash>>
  BY StepPins, PTL
<1>3. [][Pinned!PinNext]_<<Stored, PinnedHash>> /\ Pinned!PinInit => PinnedContentKept
  BY PTL DEF PinnedContentKept, Pinned!PinSpec, Stored, PinnedHash
<1> QED
  BY <1>1, <1>2, <1>3, OneTreeAlways, PTL DEF Spec
-----------------------------------------------------------------------------
(* The badge of a passed screening is taken back before the version turns  *)
(* failed, when one loop runs (startServer starts one) and no statement    *)
(* threw.  A second loop could ingest another version of the same pack and *)
(* raise the badge between the two statements.                             *)

OneLoop == \A v, w \in Workers : v = w

\* A job about to fail its version has taken the badge back, if its pack row
\* is still there.
BadgeTaken ==
    \A w \in Workers :
        /\ used.faults = 0
        /\ At(w, "markFailed")
        /\ SamePack(job[w].key[1], job[w].gen)
        => pack[job[w].key[1]].tier # "community-screened"

\* A fault that was spent stays spent.
LEMMA FaultsStay ==
    ASSUME IInv, [Next]_vars, used'.faults = 0
    PROVE  used.faults = 0
<1>1. used.faults \in Nat /\ used \in Budgets
  BY DEF IInv, TypeOK, StateTypeOK, Budgets
<1>2. CASE used' = used
  BY <1>2
<1>3. CASE \E what \in {"submits", "moves", "crashes", "faults"} :
              used' = [used EXCEPT ![what] = @ + 1]
  BY <1>1, <1>3 DEF Budgets
<1>4. CASE \E r \in Requests : RequestStep(r)
  BY <1>2, <1>3, <1>4
     DEF RequestStep, ReceivePublish, CheckExisting, PassPlanGate, RefuseAtPlanGate,
         ReplaceTombstone, InsertPack, InsertVersion, ReceiveUnpublish, Tombstone,
         RequestFault, Spend, storeVars
<1>5. CASE \E w \in Workers : WorkerStep(w)
  <2>1. PICK w \in Workers : WorkerStep(w)
    BY <1>5
  <2>2. CASE JobFault(w)
    BY <1>3, <2>2 DEF JobFault, Spend
  <2> QED
    BY <1>2, <2>1, <2>2
       DEF WorkerStep, Sweep, Claim, NothingToClaim, FetchRow, FetchPack, Clone, Screen,
           WriteVerdict, TierForVerdict, LoadAndPack, OpenBlob, FinishBlob, RecordArtifact,
           MarkReady, JobThrows, CrashSelectPack, CrashUpdateTier, MarkFailed, storeVars
<1>6. CASE Crash \/ MoveTag
  BY <1>3, <1>6 DEF Crash, MoveTag, Spend
<1> QED
  BY <1>2, <1>4, <1>5, <1>6 DEF Next, Boot, RowTurnsStale, vars, storeVars

\* The pack row with this id is still there after the step.
Stays(p, g) == pack'[p].state # "none" /\ pack'[p].gen = g

\* No statement of a handler raises the tier of a pack row that stays.
LEMMA RequestTiers ==
    ASSUME IInv, NEW r \in Requests, RequestStep(r), NEW p \in Packs, NEW g \in Nat,
           g <= pack[p].gen, Stays(p, g)
    PROVE  SamePack(p, g) /\ pack'[p].tier = pack[p].tier
<1>0. pack \in [Packs -> PackRow] /\ pack[p].gen \in Nat /\ RequestOK(r)
  BY DEF IInv, TypeOK, StateTypeOK, PackRow
<1>1. CASE pack' = pack
  BY <1>1 DEF Stays, SamePack, PackExists
<1>2. CASE ReplaceTombstone(r)
  BY <1>0, <1>1, <1>2 DEF ReplaceTombstone, DeleteTombstone, NoPack, Stays, SamePack, PackExists
<1>3. CASE InsertPack(r)
  BY <1>0, <1>1, <1>3 DEF InsertPack, Stays, SamePack, PackExists
<1>4. CASE Tombstone(r)
  <2>1. \/ pack' = pack
        \/ /\ SamePack(req[r].key[1], req[r].gen)
           /\ pack' = [pack EXCEPT ![req[r].key[1]].state = "removed"]
    BY <1>4 DEF Tombstone
  <2> QED
    BY <1>0, <1>1, <2>1 DEF Stays, SamePack, PackExists, PackRow
<1> QED
  BY <1>1, <1>2, <1>3, <1>4
     DEF RequestStep, ReceivePublish, CheckExisting, PassPlanGate, RefuseAtPlanGate,
         InsertVersion, ReceiveUnpublish, RequestFault, storeVars, dbVars

\* How a job of the one loop comes to the statement that fails its version.
LEMMA ReachesMarkFailed ==
    ASSUME IInv, NEW w \in Workers, WorkerStep(w), job'[w].pc = "markFailed",
           used'.faults = 0
    PROVE  /\ job'[w].key = job[w].key /\ job'[w].gen = job[w].gen
           /\ CrashSelectPack(w) \/ CrashUpdateTier(w)
<1>0. job \in [Workers -> JobRecord] /\ used \in Budgets
  BY DEF IInv, TypeOK, StateTypeOK, JobTypeOK
<1>1. CASE NextCycle(w)
  BY <1>0, <1>1 DEF NextCycle, IdleJob
<1>2. CASE \E pc : Then(w, pc) /\ pc # "markFailed"
  BY <1>0, <1>2 DEF Then, JobRecord
<1>3. CASE CrashSelectPack(w) \/ CrashUpdateTier(w)
  <2>1. PICK pc \in LoopSteps \union JobSteps : Then(w, pc)
    BY <1>3 DEF CrashSelectPack, CrashUpdateTier, JobSteps, FailureSteps
  <2>2. job'[w] = [job[w] EXCEPT !.pc = pc]
    BY <1>0, <2>1 DEF Then
  <2>3. job'[w].key = job[w].key /\ job'[w].gen = job[w].gen
    BY <1>0, <2>2, JobMoves
  <2> QED
    BY <1>3, <2>3
<1>4. CASE Claim(w) \/ FetchRow(w) \/ FetchPack(w) \/ Clone(w) \/ Screen(w) \/ LoadAndPack(w)
  <2>1. CASE Claim(w)
    BY <1>0, <2>1 DEF Claim, IdleJob
  <2>2. CASE \E t : job' = [job EXCEPT ![w] = [@ EXCEPT !.pc = "fetchPack", !.tree = t]]
    <3>1. PICK t : job' = [job EXCEPT ![w] = [@ EXCEPT !.pc = "fetchPack", !.tree = t]]
      BY <2>2
    <3>2. job'[w].pc = "fetchPack"
      BY <1>0, <3>1 DEF JobRecord
    <3> QED
      BY <3>2
  <2>3. CASE \E b : job' = [job EXCEPT ![w] = [@ EXCEPT !.pc = "clone", !.public = b]]
    <3>1. PICK b : job' = [job EXCEPT ![w] = [@ EXCEPT !.pc = "clone", !.public = b]]
      BY <2>3
    <3>2. job'[w].pc = "clone"
      BY <1>0, <3>1 DEF JobRecord
    <3> QED
      BY <3>2
  <2>4. CASE \E pc, t : /\ job' = [job EXCEPT ![w] = [@ EXCEPT !.pc = pc, !.tree = t]]
                        /\ pc \in {"screen", "load"}
    <3>1. PICK pc, t : /\ job' = [job EXCEPT ![w] = [@ EXCEPT !.pc = pc, !.tree = t]]
                       /\ pc \in {"screen", "load"}
      BY <2>4
    <3>2. job'[w].pc = pc
      BY <1>0, <3>1 DEF JobRecord
    <3> QED
      BY <3>1, <3>2
  <2>5. CASE \E v : job' = [job EXCEPT ![w] = [@ EXCEPT !.pc = "writeVerdict", !.verdict = v]]
    <3>1. PICK v : job' = [job EXCEPT ![w] = [@ EXCEPT !.pc = "writeVerdict", !.verdict = v]]
      BY <2>5
    <3>2. job'[w].pc = "writeVerdict"
      BY <1>0, <3>1 DEF JobRecord
    <3> QED
      BY <3>2
  <2>6. CASE \E h : job' = [job EXCEPT ![w] = [@ EXCEPT !.pc = "put", !.hash = h]]
    <3>1. PICK h : job' = [job EXCEPT ![w] = [@ EXCEPT !.pc = "put", !.hash = h]]
      BY <2>6
    <3>2. job'[w].pc = "put"
      BY <1>0, <3>1 DEF JobRecord
    <3> QED
      BY <3>2
  <2> QED
    <3>1. CASE FetchRow(w)
      BY <1>1, <2>2, <3>1, Zenon DEF FetchRow
    <3>a. ~Then(w, "failSelect")
      BY <1>0 DEF Then, JobRecord
    <3>2. CASE FetchPack(w)
      <4>1. job' = [job EXCEPT ![w] = [@ EXCEPT !.pc = "clone",
                        !.public = (pack[job[w].key[1]].visibility = "public")]]
        BY <3>a, <3>2 DEF FetchPack
      <4>2. PICK b \in BOOLEAN : b <=> (pack[job[w].key[1]].visibility = "public")
        BY Zenon
      <4>3. b = (pack[job[w].key[1]].visibility = "public")
        BY <4>2
      <4>4. job' = [job EXCEPT ![w] = [@ EXCEPT !.pc = "clone", !.public = b]]
        BY <1>0, <4>1, <4>3
      <4> QED
        BY <2>3, <4>4, Zenon
    <3>3. CASE Clone(w)
      <4>1. (IF job[w].public THEN "screen" ELSE "load") \in {"screen", "load"}
        OBVIOUS
      <4> QED
        BY <2>4, <3>a, <3>3, <4>1, Zenon DEF Clone
    <3>4. CASE Screen(w)
      BY <2>5, <3>4, Zenon DEF Screen
    <3>5. CASE LoadAndPack(w)
      BY <2>6, <3>5, Zenon DEF LoadAndPack
    <3> QED
      BY <1>4, <2>1, <3>1, <3>2, <3>3, <3>4, <3>5
<1>5. CASE JobFault(w)
  BY <1>0, <1>5 DEF JobFault, Spend, Budgets
<1> QED
  BY <1>1, <1>2, <1>3, <1>4, <1>5
     DEF WorkerStep, Sweep, NothingToClaim, WriteVerdict, TierForVerdict, OpenBlob,
         FinishBlob, RecordArtifact, MarkReady, JobThrows, MarkFailed

\* A step of the one loop fails a version only with the badge taken back.
LEMMA WorkerBadge ==
    ASSUME IInv, OneLoop, NEW w \in Workers, WorkerStep(w), used'.faults = 0,
           job'[w].pc = "markFailed", Stays(job'[w].key[1], job'[w].gen)
    PROVE  pack'[job'[w].key[1]].tier # "community-screened"
<1>1. /\ job'[w].key = job[w].key /\ job'[w].gen = job[w].gen
      /\ CrashSelectPack(w) \/ CrashUpdateTier(w)
  BY ReachesMarkFailed
<1>2. HasJob(w)
  BY <1>1 DEF CrashSelectPack, CrashUpdateTier, At, HasJob, JobSteps, FailureSteps
<1>3. job \in [Workers -> JobRecord] /\ pack \in [Packs -> PackRow]
  BY DEF IInv, TypeOK, JobTypeOK, StateTypeOK
<1> DEFINE p == job[w].key[1]
<1>4. p \in Packs
  BY <1>2, OwnRowFacts
<1>5. CASE CrashSelectPack(w)
  <2>1. Then(w, IF OwnRow(w) THEN "failTier" ELSE "markFailed") /\ pack' = pack
    BY <1>5 DEF CrashSelectPack, storeVars, dbVars
  <2>2. job'[w].pc = IF OwnRow(w) THEN "failTier" ELSE "markFailed"
    BY <1>3, <2>1 DEF Then, JobRecord
  <2>3. ~SamePack(p, job[w].gen)
    BY <1>2, <2>2, OwnRowFacts
  <2> QED
    BY <1>1, <2>1, <2>3 DEF Stays, SamePack, PackExists
<1>6. CASE CrashUpdateTier(w)
  <2>1. SamePack(p, job[w].gen)
    <3>1. pack'[p].state = pack[p].state /\ pack'[p].gen = pack[p].gen
      BY <1>4, <1>6, TierStep DEF Grows
    <3> QED
      BY <1>1, <3>1 DEF Stays, SamePack, PackExists
  <2>2. \/ pack' = [pack EXCEPT ![p].tier = "community-unverified"]
        \/ pack' = pack /\ pack[p].tier \notin CommunityTiers
    BY <1>6, <2>1 DEF CrashUpdateTier, UpdateTier
  <2>3. pack'[p].tier # "community-screened"
    BY <1>3, <1>4, <2>2 DEF CommunityTiers, PackRow
  <2> QED
    BY <1>1, <2>3
<1> QED
  BY <1>1, <1>5, <1>6

\* Every step keeps the badge taken back.
LEMMA BadgeTakenStep ==
    ASSUME IInv, BadgeTaken, OneLoop, [Next]_vars
    PROVE  BadgeTaken'
<1> SUFFICES ASSUME NEW w \in Workers, used'.faults = 0, job'[w].pc = "markFailed",
                    Stays(job'[w].key[1], job'[w].gen)
             PROVE  pack'[job'[w].key[1]].tier # "community-screened"
  BY DEF BadgeTaken, At, Stays, SamePack, PackExists
<1>1. used.faults = 0
  BY FaultsStay
<1>2. CASE \E v \in Workers : WorkerStep(v)
  <2>1. WorkerStep(w)
    BY <1>2 DEF OneLoop
  <2> QED
    BY <2>1, WorkerBadge
<1>3. CASE job' = job /\ pack' = pack
  BY <1>1, <1>3 DEF BadgeTaken, At, Stays, SamePack, PackExists
<1>4. CASE \E r \in Requests : RequestStep(r) /\ UNCHANGED job
  <2>1. HasJob(w)
    BY <1>4 DEF HasJob, JobSteps, FailureSteps
  <2>2. /\ job[w].key[1] \in Packs /\ job[w].gen \in Nat
        /\ job[w].gen <= pack[job[w].key[1]].gen
    BY <2>1, OwnRowFacts DEF JobOK, JobRecord
  <2>3. /\ SamePack(job[w].key[1], job[w].gen)
        /\ pack'[job[w].key[1]].tier = pack[job[w].key[1]].tier
    BY <1>4, <2>2, RequestTiers
  <2> QED
    BY <1>1, <1>4, <2>3 DEF BadgeTaken, At
<1>5. CASE Crash \/ Boot
  BY <1>5 DEF Crash, Boot, OffJob, IdleJob
<1> QED
  BY <1>2, <1>3, <1>4, <1>5 DEF Next, MoveTag, RowTurnsStale, vars, storeVars, dbVars

\* Only markFailed turns a version failed.
LEMMA OnlyMarkFailedFails ==
    ASSUME IInv, [Next]_vars, NEW k \in Keys,
           version[k].status # "failed", version'[k].status = "failed"
    PROVE  /\ UNCHANGED <<pack, used>>
           /\ \E w \in Workers :
                 At(w, "markFailed") /\ OwnRow(w) /\ job[w].key = k
<1>0. version \in [Keys -> VersionRow]
  BY DEF IInv, TypeOK, StateTypeOK
<1>1. CASE version' = version
  BY <1>1
<1>2. CASE \E S : ResetToPending(S)
  BY <1>0, <1>2 DEF ResetToPending, WriteVersions, VersionRow
<1>3. CASE \E r \in Requests : RequestStep(r)
  <2>1. PICK r \in Requests : RequestStep(r)
    BY <1>3
  <2>2. CASE ReplaceTombstone(r)
    <3>1. \/ version' = version
          \/ version' = [other \in Keys |-> IF other[1] = req[r].key[1] THEN NoVersion
                                                         ELSE version[other]]
      BY <2>2 DEF ReplaceTombstone, DeleteTombstone, WriteVersions
    <3>2. version'[k] = version[k] \/ version'[k] = NoVersion
      BY <3>1
    <3> QED
      BY <3>2 DEF NoVersion
  <2>3. CASE InsertVersion(r)
    <3>1. \/ version' = version
          \/ version' = [version EXCEPT ![req[r].key] =
                            [version[req[r].key] EXCEPT !.status = "pending",
                                !.tree = req[r].tree, !.recorded = @ \union {req[r].tree}]]
      BY <2>3 DEF InsertVersion, WriteVersions
    <3>2. \/ version'[k] = version[k]
          \/ version'[k] = [version[k] EXCEPT !.status = "pending",
                                !.tree = req[r].tree, !.recorded = @ \union {req[r].tree}]
      BY <1>0, <3>1
    <3>3. version'[k] = version[k] \/ version'[k].status = "pending"
      <4>1. PICK row \in VersionRow : row = version[k]
        BY <1>0
      <4>2. PICK t, ts : t = req[r].tree /\ ts = version[k].recorded \union {req[r].tree}
        OBVIOUS
      <4>3. [row EXCEPT !.status = "pending", !.tree = t, !.recorded = ts].status = "pending"
        BY DEF VersionRow
      <4> QED
        BY <3>2, <4>1, <4>2, <4>3
    <3> QED
      BY <3>3
  <2> QED
    BY <1>1, <2>1, <2>2, <2>3
       DEF RequestStep, ReceivePublish, CheckExisting, PassPlanGate, RefuseAtPlanGate,
           InsertPack, ReceiveUnpublish, Tombstone, RequestFault, storeVars, dbVars
<1>4. CASE \E w \in Workers : WorkerStep(w)
  <2>1. PICK w \in Workers : WorkerStep(w)
    BY <1>4
  <2>2. CASE Claim(w) \/ WriteVerdict(w) \/ RecordArtifact(w) \/ MarkReady(w)
    <3>1. CASE Claim(w)
      BY <1>0, <3>1 DEF Claim, WriteVersions, VersionRow
    <3>2. CASE WriteVerdict(w)
      BY <1>0, <1>1, <3>2 DEF WriteVerdict, VersionRow
    <3>3. CASE RecordArtifact(w)
      BY <1>0, <1>1, <3>3 DEF RecordArtifact, VersionRow
    <3>4. CASE MarkReady(w)
      <4>1. \/ version' = version
            \/ version' = [version EXCEPT ![job[w].key] =
                  [version[job[w].key] EXCEPT !.status = "ready", !.hash = job[w].hash]]
        BY <3>4 DEF MarkReady, WriteOwnRow, WriteVersions
      <4>2. \/ version'[k] = version[k]
            \/ version'[k] = [version[k] EXCEPT !.status = "ready", !.hash = job[w].hash]
        BY <1>0, <4>1
      <4>3. version'[k] = version[k] \/ version'[k].status = "ready"
        <5>1. PICK row \in VersionRow : row = version[k]
          BY <1>0
        <5>2. [row EXCEPT !.status = "ready", !.hash = job[w].hash].status = "ready"
          BY DEF VersionRow
        <5> QED
          BY <4>2, <5>1, <5>2
      <4> QED
        BY <4>3
    <3> QED
      BY <2>2, <3>1, <3>2, <3>3, <3>4
  <2>3. CASE MarkFailed(w)
    BY <1>0, <2>3 DEF MarkFailed, WriteOwnRow, WriteVersions
  <2> QED
    BY <1>1, <1>2, <2>1, <2>2, <2>3
       DEF WorkerStep, Sweep, NothingToClaim, FetchRow, FetchPack, Clone, Screen,
           TierForVerdict, LoadAndPack, OpenBlob, FinishBlob, JobThrows, CrashSelectPack,
           CrashUpdateTier, JobFault, storeVars, dbVars
<1> QED
  BY <1>1, <1>2, <1>3, <1>4
     DEF Next, Crash, Boot, MoveTag, RowTurnsStale, vars, storeVars, dbVars

\* A version does not turn failed under the badge of a passed screening.
THEOREM BadgeFalls == ASSUME OneLoop PROVE Spec => BadgeFallsBeforeFailed
<1>1. Init => BadgeTaken
  BY DEF Init, JobInit, IdleJob, BadgeTaken, At
<1>2. IInv /\ BadgeTaken /\ [Next]_vars => BadgeTaken'
  BY BadgeTakenStep
<1>3. IInv /\ BadgeTaken /\ [Next]_vars =>
        [\A k \in Keys :
          used.faults = 0 /\ version[k].status # "failed" /\ version'[k].status = "failed"
              => pack'[k[1]].tier # "community-screened"]_vars
  BY OnlyMarkFailedFails DEF BadgeTaken, OwnRow, SameRow
<1> QED
  BY <1>1, <1>2, <1>3, Agreement, PTL DEF Spec, BadgeFallsBeforeFailed
=============================================================================
