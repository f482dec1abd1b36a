------------------------ MODULE Organizations_proofs ------------------------
(***************************************************************************)
(* The bounds of an organization with any number of members, packs,        *)
(* handlers and restarts.  The packs' part is PlanLimits: PlacesBounded is *)
(* inductive together with TypeOK, for the handler that counts last sees   *)
(* at least every counted pack that is live, and no more handlers hold a   *)
(* place than are in flight.  Every step of the organizations is one of    *)
(* its steps for the packs, apart from the count after a rename, which     *)
(* counts nothing, and a restart, which gives every place back.            *)
(***************************************************************************)
EXTENDS Organizations, FiniteSetTheorems, TLAPS

-----------------------------------------------------------------------------
(* Packs                                                                    *)

IInv == TypeOK /\ PlacesBounded

\* The sets that are counted are finite, and their sizes are numbers.
LEMMA Counts ==
    /\ IsFiniteSet(CountedPacks) /\ Cardinality(CountedPacks) \in Nat
    /\ IsFiniteSet(CountedRequests) /\ Cardinality(CountedRequests) \in Nat
    /\ Cardinality(CountedRequests) <= Cardinality(Requests)
    /\ Cardinality(Requests) \in Nat /\ Cardinality(Requests) > 0
    /\ Usage \in Nat /\ Cardinality(CountedPacks) <= Usage
<1> DEFINE live == {p \in Packs : PrivateLive(p)}
<1>1. IsFiniteSet(Packs) /\ IsFiniteSet(Requests) /\ Requests # {}
  BY LimitAssumption
<1>2. CountedRequests \subseteq Requests
  BY DEF CountedRequests
<1>3. live \subseteq Packs /\ CountedPacks \subseteq live
  BY DEF CountedPacks
<1>4. IsFiniteSet(live)
  BY <1>1, <1>3, FS_Subset
<1>5. IsFiniteSet(CountedPacks) /\ Cardinality(CountedPacks) <= Cardinality(live)
  BY <1>3, <1>4, FS_Subset
<1>6. IsFiniteSet(CountedRequests) /\ Cardinality(CountedRequests) <= Cardinality(Requests)
  BY <1>1, <1>2, FS_Subset
<1>7. Cardinality(Requests) \in Nat /\ Cardinality(Requests) # 0
  BY <1>1, FS_CardinalityType, FS_EmptySet
<1>8. /\ Cardinality(CountedPacks) \in Nat
      /\ Cardinality(CountedRequests) \in Nat
      /\ Cardinality(live) \in Nat
  BY <1>4, <1>5, <1>6, FS_CardinalityType
<1> QED
  BY <1>5, <1>6, <1>7, <1>8 DEF Usage

\* A handler that ends has the locals of an idle one.
LEMMA AnswerType ==
    ASSUME TypeOK, NEW r \in Requests, Answer(r)
    PROVE  /\ req' \in [Requests -> Handler]
           /\ \A q \in Requests : req'[q].pc \notin {"idle", "tombstone"}
                                   => req'[q].pack \in Packs
<1>1. IdleHandler \in Handler /\ IdleHandler.pc = "idle"
  BY DEF IdleHandler, Handler, Visibilities
<1> QED
  BY <1>1 DEF TypeOK, Answer

\* No action of a handler breaks a type.
LEMMA TypeStep == TypeOK /\ [Next]_vars => TypeOK'
<1> SUFFICES ASSUME TypeOK, [Next]_vars
             PROVE  TypeOK'
  OBVIOUS
<1>1. ASSUME NEW r \in Requests, ReceivePublish(r)
      PROVE  TypeOK'
  <2>1. PICK p \in Packs, v \in Visibilities :
          req' = [req EXCEPT ![r] = [IdleHandler EXCEPT !.pc = "exists",
                                                        !.pack = p,
                                                        !.visibility = v]]
    BY <1>1 DEF ReceivePublish
  <2> DEFINE h == [IdleHandler EXCEPT !.pc = "exists", !.pack = p, !.visibility = v]
  <2>2. h \in Handler /\ h.pack \in Packs
    BY DEF IdleHandler, Handler, Visibilities
  <2> HIDE DEF h
  <2>3. submits' \in Nat /\ UNCHANGED <<pack, nextId>>
    BY <1>1 DEF ReceivePublish, TypeOK
  <2>4. req' = [req EXCEPT ![r] = h]
    BY <2>1 DEF h
  <2> QED
    BY <2>2, <2>3, <2>4 DEF TypeOK
<1>2. ASSUME NEW r \in Requests, PackExists(r)
      PROVE  TypeOK'
  BY <1>2 DEF PackExists, Goto, At, TypeOK, Handler
<1>3. ASSUME NEW r \in Requests, CheckPlanLimit(r)
      PROVE  TypeOK'
  <2>1. CASE Answer(r)
    BY <1>3, <2>1, AnswerType DEF CheckPlanLimit, TypeOK
  <2>2. CASE req' = [req EXCEPT ![r].pc = "replace", ![r].counted = TRUE]
    <3> DEFINE h == [req[r] EXCEPT !.pc = "replace", !.counted = TRUE]
    <3>1. req[r] \in Handler /\ req[r].pack \in Packs
      BY <1>3 DEF CheckPlanLimit, At, TypeOK
    <3>2. h \in Handler /\ h.pack \in Packs
      BY <3>1 DEF Handler
    <3>3. req' = [req EXCEPT ![r] = h]
      BY <2>2, <3>1 DEF TypeOK, Handler
    <3>4. UNCHANGED <<pack, submits, nextId>>
      BY <1>3 DEF CheckPlanLimit
    <3> HIDE DEF h
    <3> QED
      BY <3>2, <3>3, <3>4 DEF TypeOK
  <2> QED
    BY <1>3, <2>1, <2>2 DEF CheckPlanLimit
<1>4. ASSUME NEW r \in Requests, ReplaceTombstone(r)
      PROVE  TypeOK'
  BY <1>4 DEF ReplaceTombstone, Goto, At, TypeOK, Handler
<1>5. ASSUME NEW r \in Requests, ReadStored(r)
      PROVE  TypeOK'
  <2> DEFINE v == IF Row(req[r].pack) THEN pack[req[r].pack].visibility
                                      ELSE req[r].visibility
  <2>1. req[r].pack \in Packs /\ req[r].visibility \in Visibilities
    BY <1>5 DEF ReadStored, At, TypeOK, Handler
  <2>2. v \in Visibilities
    BY <2>1 DEF Row, NoPack, PackRow, TypeOK
  <2>3. req' = [req EXCEPT ![r].pc = "insert", ![r].stored = v]
    BY <1>5 DEF ReadStored
  <2> HIDE DEF v
  <2>4. req' \in [Requests -> Handler]
    <3>1. [req[r] EXCEPT !.pc = "insert", !.stored = v] \in Handler
      BY <2>2 DEF TypeOK, Handler
    <3>2. req' = [req EXCEPT ![r] = [req[r] EXCEPT !.pc = "insert", !.stored = v]]
      BY <2>3 DEF TypeOK, Handler
    <3> QED
      BY <3>1, <3>2 DEF TypeOK
  <2>5. \A q \in Requests : req'[q].pack = req[q].pack
                            /\ (q # r => req'[q].pc = req[q].pc)
    BY <2>3 DEF TypeOK, Handler
  <2>6. UNCHANGED <<pack, submits, nextId>>
    BY <1>5 DEF ReadStored
  <2> QED
    BY <2>1, <2>4, <2>5, <2>6 DEF TypeOK
<1>6. ASSUME NEW r \in Requests, InsertPack(r)
      PROVE  TypeOK'
  <2> DEFINE row == [id |-> nextId, visibility |-> req[r].visibility,
                     removed |-> FALSE, counted |-> req[r].counted]
  <2>1. row \in PackRow
    BY DEF TypeOK, Handler, PackRow
  <2>2. pack' = pack \/ pack' = [pack EXCEPT ![req[r].pack] = row]
    BY <1>6 DEF InsertPack
  <2> HIDE DEF row
  <2>3. pack' \in [Packs -> PackRow \union {NoPack}]
    BY <2>1, <2>2 DEF TypeOK
  <2>4. nextId' \in Nat \ {0} /\ submits' \in Nat
    BY <1>6 DEF InsertPack, TypeOK
  <2> QED
    BY <1>6, <2>3, <2>4, AnswerType DEF InsertPack, TypeOK
<1>7. ASSUME NEW r \in Requests, ReceiveUnpublish(r)
      PROVE  TypeOK'
  <2>1. PICK p \in Packs :
          req' = [req EXCEPT ![r] = [IdleHandler EXCEPT !.pc = "tombstone",
                                                        !.id = pack[p].id]]
    BY <1>7 DEF ReceiveUnpublish
  <2> DEFINE h == [IdleHandler EXCEPT !.pc = "tombstone", !.id = pack[p].id]
  <2>2. pack[p].id \in Nat
    BY DEF TypeOK, PackRow, NoPack
  <2>3. h \in Handler /\ h.pc = "tombstone"
    BY <2>2 DEF IdleHandler, Handler, Visibilities
  <2>4. UNCHANGED <<pack, submits, nextId>>
    BY <1>7 DEF ReceiveUnpublish
  <2> HIDE DEF h
  <2>5. req' = [req EXCEPT ![r] = h]
    BY <2>1 DEF h
  <2> QED
    BY <2>3, <2>4, <2>5 DEF TypeOK
<1>8. ASSUME NEW r \in Requests, Tombstone(r)
      PROVE  TypeOK'
  <2>1. pack' \in [Packs -> PackRow \union {NoPack}]
    <3>1. ASSUME NEW p \in Packs, Row(p)
          PROVE  [pack[p] EXCEPT !.removed = TRUE] \in PackRow
      <4>1. pack[p] \in PackRow
        BY <3>1 DEF Row, NoPack, TypeOK
      <4> QED
        BY <4>1 DEF PackRow
    <3> QED
      BY <1>8, <3>1 DEF Tombstone, TypeOK
  <2> QED
    BY <1>8, <2>1, AnswerType DEF Tombstone, TypeOK
<1>9. ASSUME NEW r \in Requests, EndEarly(r)
      PROVE  TypeOK'
  BY <1>9, AnswerType DEF EndEarly, TypeOK
<1>10. CASE UNCHANGED vars
  BY <1>10 DEF TypeOK, vars
<1> QED
  BY <1>1, <1>2, <1>3, <1>4, <1>5, <1>6, <1>7, <1>8, <1>9, <1>10 DEF Next

\* A step that counts no new pack and no new handler keeps the bound.
LEMMA NoNewPlace ==
    ASSUME PlacesBounded,
           CountedPacks' \subseteq CountedPacks,
           CountedRequests' \subseteq CountedRequests
    PROVE  PlacesBounded'
<1>1. /\ IsFiniteSet(CountedPacks') /\ IsFiniteSet(CountedRequests')
      /\ Cardinality(CountedPacks') <= Cardinality(CountedPacks)
      /\ Cardinality(CountedRequests') <= Cardinality(CountedRequests)
  BY Counts, FS_Subset
<1>2. Cardinality(CountedPacks') \in Nat /\ Cardinality(CountedRequests') \in Nat
  BY <1>1, FS_CardinalityType
<1> QED
  BY <1>1, <1>2, Counts, LimitAssumption DEF PlacesBounded

\* A handler passes the gate only while the counted packs are below the limit.
LEMMA CountStep ==
    ASSUME TypeOK, PlacesBounded, NEW r \in Requests, CheckPlanLimit(r)
    PROVE  PlacesBounded'
<1>1. CountedPacks' = CountedPacks
  BY DEF CheckPlanLimit, CountedPacks, PrivateLive, Row
<1>2. CASE Usage >= Limit
  <2>1. CountedRequests' \subseteq CountedRequests
    BY <1>2 DEF CheckPlanLimit, Answer, IdleHandler, CountedRequests, TypeOK
  <2> QED
    BY <1>1, <2>1, NoNewPlace
<1>3. CASE ~(Usage >= Limit)
  <2>1. CountedRequests' \subseteq Requests
    BY DEF CountedRequests
  <2>2. Cardinality(CountedRequests') <= Cardinality(Requests)
    BY <2>1, FS_Subset, LimitAssumption
  <2>3. Cardinality(CountedRequests') \in Nat
    BY <2>1, FS_Subset, FS_CardinalityType, LimitAssumption
  <2>4. Cardinality(CountedPacks) <= Limit - 1
    BY <1>3, Counts, LimitAssumption
  <2> QED
    BY <1>1, <2>2, <2>3, <2>4, Counts, LimitAssumption DEF PlacesBounded
<1> QED
  BY <1>2, <1>3

\* The row of a counted handler takes the place the handler held.
LEMMA InsertStep ==
    ASSUME TypeOK, PlacesBounded, NEW r \in Requests, InsertPack(r)
    PROVE  PlacesBounded'
<1> DEFINE p == req[r].pack
<1>1. CountedRequests' = CountedRequests \ {r}
  BY DEF InsertPack, Answer, IdleHandler, CountedRequests, TypeOK
<1>2. CASE Row(p) \/ ~req[r].counted
  <2>1. CountedPacks' \subseteq CountedPacks
    BY <1>2 DEF InsertPack, CountedPacks, PrivateLive, Row, TypeOK
  <2> QED
    BY <1>1, <2>1, NoNewPlace
<1>3. CASE ~Row(p) /\ req[r].counted
  <2>1. CountedPacks' \subseteq CountedPacks \union {p}
    BY <1>3 DEF InsertPack, CountedPacks, PrivateLive, Row, TypeOK
  <2>2. /\ IsFiniteSet(CountedPacks \union {p})
        /\ Cardinality(CountedPacks \union {p}) <= Cardinality(CountedPacks) + 1
    <3>1. /\ IsFiniteSet(CountedPacks \union {p})
          /\ \/ Cardinality(CountedPacks \union {p}) = Cardinality(CountedPacks)
             \/ Cardinality(CountedPacks \union {p}) = Cardinality(CountedPacks) + 1
      BY Counts, FS_AddElement
    <3> QED
      BY <3>1, Counts
  <2>3. /\ IsFiniteSet(CountedPacks')
        /\ Cardinality(CountedPacks') <= Cardinality(CountedPacks \union {p})
    BY <2>1, <2>2, FS_Subset
  <2>4. Cardinality(CountedRequests') = Cardinality(CountedRequests) - 1
    <3>1. r \in CountedRequests
      BY <1>3 DEF CountedRequests
    <3> QED
      BY <1>1, <3>1, Counts, FS_RemoveElement
  <2>5. /\ Cardinality(CountedPacks') \in Nat
        /\ Cardinality(CountedPacks \union {p}) \in Nat
    BY <2>2, <2>3, FS_CardinalityType
  <2> QED
    BY <2>2, <2>3, <2>4, <2>5, Counts, LimitAssumption DEF PlacesBounded
<1> QED
  BY <1>2, <1>3

\* Every other action gives up places or leaves them alone.
LEMMA PlacesStep == IInv /\ [Next]_vars => PlacesBounded'
<1> SUFFICES ASSUME TypeOK, PlacesBounded, [Next]_vars
             PROVE  PlacesBounded'
  BY DEF IInv
<1>1. ASSUME NEW r \in Requests, CheckPlanLimit(r)
      PROVE  PlacesBounded'
  BY <1>1, CountStep
<1>2. ASSUME NEW r \in Requests, InsertPack(r)
      PROVE  PlacesBounded'
  BY <1>2, InsertStep
<1>3. ASSUME NEW r \in Requests,
             ReceivePublish(r) \/ PackExists(r) \/ ReadStored(r)
                \/ ReceiveUnpublish(r) \/ EndEarly(r)
      PROVE  PlacesBounded'
  <2>1. CountedPacks' = CountedPacks
    BY <1>3 DEF ReceivePublish, PackExists, ReadStored, ReceiveUnpublish,
                EndEarly, CountedPacks, PrivateLive, Row
  <2>2. CountedRequests' \subseteq CountedRequests
    <3>1. CASE ReceivePublish(r)
      BY <3>1 DEF ReceivePublish, IdleHandler, CountedRequests, TypeOK
    <3>2. CASE PackExists(r)
      BY <3>2 DEF PackExists, Goto, CountedRequests, TypeOK
    <3>3. CASE ReadStored(r)
      BY <3>3 DEF ReadStored, CountedRequests, TypeOK
    <3>4. CASE ReceiveUnpublish(r)
      BY <3>4 DEF ReceiveUnpublish, IdleHandler, CountedRequests, TypeOK
    <3>5. CASE EndEarly(r)
      BY <3>5 DEF EndEarly, Answer, IdleHandler, CountedRequests, TypeOK
    <3> QED
      BY <1>3, <3>1, <3>2, <3>3, <3>4, <3>5
  <2> QED
    BY <2>1, <2>2, NoNewPlace
<1>4. ASSUME NEW r \in Requests, ReplaceTombstone(r)
      PROVE  PlacesBounded'
  <2>1. CountedPacks' \subseteq CountedPacks
    BY <1>4 DEF ReplaceTombstone, CountedPacks, PrivateLive, Row, NoPack, TypeOK
  <2>2. CountedRequests' \subseteq CountedRequests
    BY <1>4 DEF ReplaceTombstone, Goto, CountedRequests, TypeOK
  <2> QED
    BY <2>1, <2>2, NoNewPlace
<1>5. ASSUME NEW r \in Requests, Tombstone(r)
      PROVE  PlacesBounded'
  <2>1. CountedPacks' \subseteq CountedPacks
    BY <1>5 DEF Tombstone, CountedPacks, PrivateLive, Row, PackRow, NoPack, TypeOK
  <2>2. CountedRequests' \subseteq CountedRequests
    BY <1>5 DEF Tombstone, Answer, IdleHandler, CountedRequests, TypeOK
  <2> QED
    BY <2>1, <2>2, NoNewPlace
<1>6. CASE UNCHANGED vars
  <2>1. CountedPacks' = CountedPacks /\ CountedRequests' = CountedRequests
    BY <1>6 DEF vars, CountedPacks, CountedRequests, PrivateLive, Row
  <2> QED
    BY <2>1, NoNewPlace
<1> QED
  BY <1>1, <1>2, <1>3, <1>4, <1>5, <1>6 DEF Next

\* No row and no handler at first.
LEMMA InitPlaces == Init => IInv
<1> SUFFICES ASSUME Init
             PROVE  IInv
  OBVIOUS
<1>1. TypeOK
  BY LimitAssumption
  DEF Init, TypeOK, NoPack, Handler, IdleHandler, Visibilities
<1>2. CountedPacks = {} /\ CountedRequests = {}
  BY DEF Init, CountedPacks, CountedRequests, PrivateLive, Row, NoPack, IdleHandler
<1>3. PlacesBounded
  BY <1>2, Counts, FS_EmptySet, LimitAssumption DEF PlacesBounded
<1> QED
  BY <1>1, <1>3 DEF IInv

\* What has passed the gate, in flight or in a live private row, never exceeds
\* the limit by more than one place per further handler.
THEOREM Places == Spec => []PlacesBounded
<1>1. IInv /\ [Next]_vars => IInv'
  BY TypeStep, PlacesStep DEF IInv
<1>2. IInv => PlacesBounded
  BY DEF IInv
<1> QED
  BY <1>1, <1>2, InitPlaces, PTL DEF Spec

\* However many publishes race, the live private packs that passed the gate
\* exceed max_private_packs by at most the number of handlers less one.
THEOREM Overshoot == Spec => []OvershootBounded
<1>1. PlacesBounded => OvershootBounded
  BY Counts, LimitAssumption DEF PlacesBounded, OvershootBounded
<1> QED
  BY <1>1, Places, PTL

-----------------------------------------------------------------------------
(* Packs of organizations that are renamed and deleted                      *)

\* The locals of a publish that goes on without having been counted.
LEMMA GotoReplace ==
    ASSUME TypeOK, PlacesBounded, NEW r \in Requests, At(r, "count"), Goto(r, "replace"),
           UNCHANGED <<pack, submits, nextId>>
    PROVE  TypeOK' /\ PlacesBounded'
<1>1. TypeOK'
  BY DEF Goto, At, TypeOK, Handler
<1>2. CountedPacks' = CountedPacks
  BY DEF CountedPacks, PrivateLive, Row
<1>3. CountedRequests' \subseteq CountedRequests
  BY DEF Goto, CountedRequests, TypeOK
<1> QED
  BY <1>1, <1>2, <1>3, NoNewPlace

\* What a step of the organizations does to their packs.
LEMMA PackPart == IInv /\ [OrgNext]_allVars => IInv'
<1> SUFFICES ASSUME TypeOK, PlacesBounded, [OrgNext]_allVars
             PROVE  TypeOK' /\ PlacesBounded'
  BY DEF IInv
<1>0. ASSUME [Next]_vars PROVE TypeOK' /\ PlacesBounded'
  BY <1>0, TypeStep, PlacesStep DEF IInv
<1>1. CASE UNCHANGED vars
  BY <1>0, <1>1
<1>2. ASSUME NEW r \in Requests,
             \/ \E o \in Orgs, u \in Users : PublishTo(r, o, u)
             \/ CountPacksOf(r) \/ PackStep(r)
      PROVE  TypeOK' /\ PlacesBounded'
  <2>1. CASE \E o \in Orgs, u \in Users : PublishTo(r, o, u)
    BY <1>0, <2>1 DEF PublishTo, Next
  <2>2. CASE CountPacksOf(r)
    <3>1. CASE CheckPlanLimit(r)
      BY <1>0, <3>1 DEF Next
    <3> QED
      BY <2>2, <3>1, GotoReplace DEF CountPacksOf
  <2>3. CASE PackStep(r)
    BY <1>0, <2>3 DEF PackStep, Next
  <2> QED
    BY <1>2, <2>1, <2>2, <2>3
<1>3. CASE Restart
  <2>1. UNCHANGED <<pack, submits, nextId>> /\ req' = [r \in Requests |-> IdleHandler]
    BY <1>3 DEF Restart
  <2>2. IdleHandler \in Handler /\ IdleHandler.pc = "idle" /\ IdleHandler.counted = FALSE
    BY DEF IdleHandler, Handler, Visibilities
  <2>3. TypeOK'
    BY <2>1, <2>2 DEF TypeOK
  <2>4. CountedPacks' = CountedPacks
    BY <2>1 DEF CountedPacks, PrivateLive, Row
  <2>5. CountedRequests' \subseteq CountedRequests
    BY <2>1, <2>2 DEF CountedRequests
  <2> QED
    BY <2>3, <2>4, <2>5, NoNewPlace
<1>4. CASE \/ \E u \in Users, s \in Slugs : CreateOrg(u, s)
           \/ \E h \in OrgRequests :
                \/ \E u \in Users, kind \in OrgKinds : FindOrgIdBySlug(h, u, kind)
                \/ \E s \in Slugs : UpdateOrg(h, s)
                \/ \E v \in Users : UpdateMemberRole(h, v) \/ InviteGate(h, v) \/ AcceptGate(h, v)
                \/ InsertInvitation(h) \/ InsertMember(h)
                \/ CountOrgPacks(h) \/ DeleteOrg(h) \/ RefuseOrgRequest(h)
           \/ \E u \in Users : AddOwnerMember(u)
           \/ EnsureOfficialOrg \/ StartServing
  <2>1. UNCHANGED vars
    BY <1>4 DEF CreateOrg, FindOrgIdBySlug, UpdateOrg, UpdateMemberRole, InviteGate, AcceptGate,
       InsertInvitation, InsertMember, CountOrgPacks, DeleteOrg, RefuseOrgRequest,
       AddOwnerMember, EnsureOfficialOrg, StartServing
  <2> QED
    BY <1>1, <2>1
<1>5. CASE UNCHANGED allVars
  BY <1>1, <1>5 DEF allVars
<1> QED
  BY <1>2, <1>3, <1>4, <1>5 DEF OrgNext

\* The private packs of an organization overshoot its plan by no more than a
\* place per further handler, through renames, deletes, restarts and re-runs
\* of the boot.
THEOREM OrgPlaces == OrgSpec => []PlacesBounded
<1>1. OrgInit => IInv
  <2>1. Init => IInv
    BY InitPlaces
  <2> QED
    BY <2>1 DEF OrgInit
<1>2. IInv => PlacesBounded
  BY DEF IInv
<1> QED
  BY <1>1, <1>2, PackPart, PTL DEF OrgSpec

-----------------------------------------------------------------------------
(* Members                                                                  *)

\* Types, and what a handler in flight and a boot that has not ended know.
OrgTypeOK ==
    /\ org \in [Orgs -> OrgRow]
    /\ made \subseteq Orgs
    /\ \A o \in Orgs \ made : org[o] = NoOrg
    /\ hand \in [OrgRequests -> OrgHandler]
    /\ \A h \in OrgRequests :
         /\ hand[h].pc # "idle" => hand[h].org \in made
         /\ hand[h].pc = "idle" => hand[h].kind = "update"
         /\ hand[h].pc = "seat" => hand[h].whom \in Users
    /\ boot \in [at : {"ensure", "grant", "serving"}, left : SUBSET Publishers]
    /\ boot.at # "serving" => \A h \in OrgRequests : hand[h].pc = "idle"
    /\ late \in [Orgs -> SUBSET Users]

MemberPart == <<org, made, hand, boot, late>>

LEMMA IdleOrgType == IdleOrg \in OrgHandler /\ NoOrg \in OrgRow
BY DEF IdleOrg, OrgHandler, NoOrg, OrgRow

\* A handler that ends.
LEMMA AnswerOrgType ==
    ASSUME OrgTypeOK, NEW h \in OrgRequests, AnswerOrg(h), UNCHANGED made
    PROVE  /\ hand' \in [OrgRequests -> OrgHandler]
           /\ \A g \in OrgRequests :
                /\ hand'[g].pc # "idle" => hand'[g].org \in made' /\ hand[g].pc # "idle"
                /\ hand'[g].pc = "idle" => hand'[g].kind = "update"
                /\ hand'[g].pc = "seat" => hand'[g].whom \in Users
<1>1. IdleOrg.pc = "idle" /\ IdleOrg.kind = "update"
  BY DEF IdleOrg
<1> QED
  BY <1>1, IdleOrgType DEF OrgTypeOK, AnswerOrg

\* A handler that starts or goes on.
LEMMA HandStep ==
    ASSUME OrgTypeOK, NEW h \in OrgRequests, NEW l \in OrgHandler, l.pc # "idle",
           l.org \in made, l.pc = "seat" => l.whom \in Users,
           hand' = [hand EXCEPT ![h] = l], Serving, UNCHANGED <<org, made, boot, late>>
    PROVE  OrgTypeOK'
<1>1. boot.at = "serving"
  BY DEF Serving
<1> QED
  BY <1>1 DEF OrgTypeOK

\* A step of the rows of the organizations that exist.
LEMMA RowStep ==
    ASSUME OrgTypeOK, NEW o \in made, NEW row \in OrgRow, org' = [org EXCEPT ![o] = row],
           NEW h \in OrgRequests, AnswerOrg(h), Serving, UNCHANGED <<made, boot, late>>
    PROVE  OrgTypeOK'
<1>1. org' \in [Orgs -> OrgRow] /\ \A x \in Orgs \ made : org'[x] = NoOrg
  BY DEF OrgTypeOK
<1>2. boot.at = "serving"
  BY DEF Serving
<1> QED
  BY <1>1, <1>2, AnswerOrgType DEF OrgTypeOK

LEMMA OrgTypeStep == OrgTypeOK /\ [OrgNext]_allVars => OrgTypeOK'
<1> SUFFICES ASSUME OrgTypeOK, [OrgNext]_allVars PROVE OrgTypeOK'
  OBVIOUS
<1>0. CASE UNCHANGED MemberPart
  BY <1>0 DEF MemberPart, OrgTypeOK
<1>1. ASSUME NEW u \in Users, NEW s \in Slugs, CreateOrg(u, s)
      PROVE  OrgTypeOK'
  <2>1. PICK o \in Orgs \ made :
          org' = [org EXCEPT ![o] = [NoOrg EXCEPT !.slug = s, !.role[u] = "owner"]]
          /\ made' = made \union {o}
    BY <1>1 DEF CreateOrg
  <2> DEFINE row == [NoOrg EXCEPT !.slug = s, !.role[u] = "owner"]
  <2>2. row \in OrgRow
    BY DEF NoOrg, OrgRow, Roles
  <2> HIDE DEF row
  <2>3. org' \in [Orgs -> OrgRow] /\ \A x \in Orgs \ made' : org'[x] = NoOrg
    BY <2>1, <2>2 DEF OrgTypeOK, row
  <2> QED
    BY <1>1, <2>1, <2>3 DEF CreateOrg, OrgTypeOK
<1>2. ASSUME NEW h \in OrgRequests, NEW u \in Users, NEW kind \in OrgKinds,
             FindOrgIdBySlug(h, u, kind)
      PROVE  OrgTypeOK'
  <2>1. PICK o \in Orgs :
          /\ Exists(o)
          /\ hand' = [hand EXCEPT ![h] = [IdleOrg EXCEPT !.pc = "found", !.kind = kind,
                                            !.user = u, !.org = o, !.slug = org[o].slug]]
    BY <1>2 DEF FindOrgIdBySlug
  <2> DEFINE l == [IdleOrg EXCEPT !.pc = "found", !.kind = kind, !.user = u, !.org = o,
                                  !.slug = org[o].slug]
  <2>2. o \in made
    BY <2>1 DEF OrgTypeOK, Exists, NoOrg
  <2>3. org[o].slug \in Slugs \union {None}
    BY DEF OrgTypeOK, OrgRow
  <2>4. l \in OrgHandler /\ l.pc = "found" /\ l.org = o
    BY <2>3 DEF IdleOrg, OrgHandler, OrgKinds
  <2> HIDE DEF l
  <2> QED
    BY <1>2, <2>1, <2>2, <2>4, HandStep DEF FindOrgIdBySlug, Submit, l
<1>3. ASSUME NEW h \in OrgRequests, NEW s \in Slugs, UpdateOrg(h, s)
      PROVE  OrgTypeOK'
  <2> DEFINE o == hand[h].org
             row == [org[o] EXCEPT !.slug = s]
  <2>1. o \in made /\ org[o] \in OrgRow
    BY <1>3 DEF UpdateOrg, Doing, OrgTypeOK
  <2>2. row \in OrgRow
    BY <2>1 DEF OrgRow
  <2>3. org' = [org EXCEPT ![o] = row]
    BY <1>3 DEF UpdateOrg
  <2> HIDE DEF o, row
  <2> QED
    BY <1>3, <2>1, <2>2, <2>3, RowStep DEF UpdateOrg, Doing
<1>4. ASSUME NEW h \in OrgRequests, NEW v \in Users, UpdateMemberRole(h, v)
      PROVE  OrgTypeOK'
  <2> DEFINE o == hand[h].org
             role == IF org[o].role[v] = "admin" THEN "member" ELSE "admin"
             row == [org[o] EXCEPT !.role = [org[o].role EXCEPT ![v] = role]]
  <2>1. o \in made /\ org[o] \in OrgRow
    BY <1>4 DEF UpdateMemberRole, Doing, OrgTypeOK
  <2>2. role \in Roles
    BY DEF Roles
  <2> HIDE DEF role
  <2>3. row \in OrgRow
    BY <2>1, <2>2 DEF OrgRow
  <2>4. org' = [org EXCEPT ![o] = row]
    BY <1>4 DEF UpdateMemberRole, role
  <2> HIDE DEF o, row
  <2> QED
    BY <1>4, <2>1, <2>3, <2>4, RowStep DEF UpdateMemberRole, Doing
<1>5. ASSUME NEW h \in OrgRequests, NEW v \in Users, InviteGate(h, v)
      PROVE  OrgTypeOK'
  <2> DEFINE l == [hand[h] EXCEPT !.pc = "seat", !.whom = v]
  <2>1. hand[h] \in OrgHandler /\ hand[h].org \in made
    BY <1>5 DEF InviteGate, Doing, OrgTypeOK
  <2>2. l \in OrgHandler /\ l.pc = "seat" /\ l.org = hand[h].org /\ l.whom = v
    BY <2>1 DEF OrgHandler
  <2>3. hand' = [hand EXCEPT ![h] = l]
    BY <1>5 DEF InviteGate
  <2> HIDE DEF l
  <2> QED
    BY <1>5, <2>1, <2>2, <2>3, HandStep DEF InviteGate, Doing
<1>6. ASSUME NEW h \in OrgRequests, InsertInvitation(h)
      PROVE  OrgTypeOK'
  <2> DEFINE o == hand[h].org
             row == [org[o] EXCEPT !.invited = @ \union {hand[h].whom}]
  <2>1. o \in made /\ org[o] \in OrgRow /\ hand[h].whom \in Users
    BY <1>6 DEF InsertInvitation, Doing, OrgTypeOK
  <2>2. row \in OrgRow
    BY <2>1 DEF OrgRow
  <2>3. org' = [org EXCEPT ![o] = row]
    BY <1>6 DEF InsertInvitation
  <2> HIDE DEF o, row
  <2> QED
    BY <1>6, <2>1, <2>2, <2>3, RowStep DEF InsertInvitation, Doing
<1>7. ASSUME NEW h \in OrgRequests, NEW v \in Users, AcceptGate(h, v)
      PROVE  OrgTypeOK'
  <2>1. PICK o \in Orgs :
          /\ Exists(o)
          /\ hand' = [hand EXCEPT ![h] = [IdleOrg EXCEPT !.pc = "seat", !.kind = "accept",
                                            !.user = v, !.whom = v, !.org = o]]
    BY <1>7 DEF AcceptGate
  <2> DEFINE l == [IdleOrg EXCEPT !.pc = "seat", !.kind = "accept", !.user = v, !.whom = v,
                                  !.org = o]
  <2>2. o \in made
    BY <2>1 DEF OrgTypeOK, Exists, NoOrg
  <2>3. l \in OrgHandler /\ l.pc = "seat" /\ l.org = o /\ l.whom = v
    BY DEF IdleOrg, OrgHandler
  <2> HIDE DEF l
  <2> QED
    BY <1>7, <2>1, <2>2, <2>3, HandStep DEF AcceptGate, Submit, l
<1>8. ASSUME NEW h \in OrgRequests, InsertMember(h)
      PROVE  OrgTypeOK'
  <2> DEFINE o == hand[h].org
             v == hand[h].whom
             role == IF org[o].role[v] = "none" THEN "member" ELSE org[o].role[v]
             row == [org[o] EXCEPT !.invited = @ \ {v}, !.role = [org[o].role EXCEPT ![v] = role]]
  <2>1. o \in made /\ org[o] \in OrgRow /\ v \in Users
    BY <1>8 DEF InsertMember, Doing, OrgTypeOK
  <2>2. role \in Roles \union {"none"}
    BY <2>1 DEF Roles, OrgRow
  <2> HIDE DEF role
  <2>3. row \in OrgRow
    BY <2>1, <2>2 DEF OrgRow
  <2>4. org' = [org EXCEPT ![o] = row]
    BY <1>8, <2>1 DEF InsertMember, role, OrgTypeOK
  <2> HIDE DEF o, v, row
  <2> QED
    BY <1>8, <2>1, <2>3, <2>4, RowStep DEF InsertMember, Doing
<1>9. ASSUME NEW h \in OrgRequests, CountOrgPacks(h)
      PROVE  OrgTypeOK'
  <2> DEFINE l == [hand[h] EXCEPT !.pc = "empty"]
  <2>1. hand[h] \in OrgHandler /\ hand[h].org \in made
    BY <1>9 DEF CountOrgPacks, Doing, OrgTypeOK
  <2>2. l \in OrgHandler /\ l.pc = "empty" /\ l.org = hand[h].org
    BY <2>1 DEF OrgHandler
  <2>3. CASE hand' = [hand EXCEPT ![h] = l]
    <3> HIDE DEF l
    <3> QED
      BY <1>9, <2>1, <2>2, <2>3, HandStep DEF CountOrgPacks, Doing
  <2>4. CASE AnswerOrg(h)
    BY <1>9, <2>4, AnswerOrgType DEF CountOrgPacks, OrgTypeOK
  <2> QED
    BY <1>9, <2>3, <2>4 DEF CountOrgPacks
<1>10. ASSUME NEW h \in OrgRequests, DeleteOrg(h)
       PROVE  OrgTypeOK'
  <2>1. hand[h].org \in made
    BY <1>10 DEF DeleteOrg, Doing, OrgTypeOK
  <2> QED
    BY <1>10, <2>1, IdleOrgType, RowStep DEF DeleteOrg, Doing
<1>11. ASSUME NEW h \in OrgRequests, RefuseOrgRequest(h)
       PROVE  OrgTypeOK'
  BY <1>11, AnswerOrgType DEF RefuseOrgRequest, OrgTypeOK
<1>12. CASE Restart
  <2>1. IdleOrg.pc = "idle" /\ IdleOrg.kind = "update" /\ IdleOrg \in OrgHandler
    BY IdleOrgType DEF IdleOrg
  <2> QED
    BY <1>12, <2>1 DEF Restart, OrgTypeOK
<1>13. CASE EnsureOfficialOrg
  <2>1. boot' = [boot EXCEPT !.at = "grant"] /\ UNCHANGED <<hand, late>>
    BY <1>13 DEF EnsureOfficialOrg
  <2>2. CASE UNCHANGED <<org, made>>
    BY <1>13, <2>1, <2>2 DEF EnsureOfficialOrg, OrgTypeOK
  <2>3. ASSUME NEW o \in Orgs \ made,
               org' = [org EXCEPT ![o] = [NoOrg EXCEPT !.slug = OfficialSlug]],
               made' = made \union {o}
        PROVE  OrgTypeOK'
    <3> DEFINE row == [NoOrg EXCEPT !.slug = OfficialSlug]
    <3>1. row \in OrgRow
      BY OrganizationAssumption DEF NoOrg, OrgRow
    <3> HIDE DEF row
    <3>2. org' \in [Orgs -> OrgRow] /\ \A x \in Orgs \ made' : org'[x] = NoOrg
      BY <2>3, <3>1 DEF OrgTypeOK, row
    <3> QED
      BY <1>13, <2>1, <2>3, <3>2 DEF EnsureOfficialOrg, OrgTypeOK
  <2> QED
    BY <1>13, <2>2, <2>3 DEF EnsureOfficialOrg
<1>14. ASSUME NEW u \in Users, AddOwnerMember(u)
       PROVE  OrgTypeOK'
  <2>1. \A o \in Orgs : [org[o] EXCEPT !.role[u] = "owner"] \in OrgRow
    BY DEF OrgTypeOK, OrgRow, Roles
  <2>2. org' \in [Orgs -> OrgRow]
    BY <1>14, <2>1 DEF AddOwnerMember, OrgTypeOK
  <2>3. \A o \in Orgs \ made : org'[o] = NoOrg
    <3>1. \A o \in Orgs \ made : org[o] = NoOrg /\ ~Holds(o, OfficialSlug)
      BY DEF OrgTypeOK, Holds, Exists, NoOrg
    <3> QED
      BY <1>14, <3>1 DEF AddOwnerMember
  <2>4. late' \in [Orgs -> SUBSET Users]
    BY <1>14 DEF AddOwnerMember, OrgTypeOK
  <2> QED
    BY <1>14, <2>2, <2>3, <2>4 DEF AddOwnerMember, OrgTypeOK
<1>15. CASE StartServing
  BY <1>15 DEF StartServing, OrgTypeOK
<1>16. ASSUME NEW r \in Requests,
              \/ \E o \in Orgs, u \in Users : PublishTo(r, o, u)
              \/ CountPacksOf(r) \/ PackStep(r)
       PROVE  UNCHANGED MemberPart
  BY <1>16 DEF PublishTo, CountPacksOf, PackStep, KeepsOrgs, MemberPart
<1>17. CASE UNCHANGED allVars
  BY <1>0, <1>17 DEF allVars, orgVars, MemberPart
<1> QED
  BY <1>0, <1>1, <1>2, <1>3, <1>4, <1>5, <1>6, <1>7, <1>8, <1>9, <1>10, <1>11, <1>12, <1>13,
     <1>14, <1>15, <1>16, <1>17 DEF OrgNext

\* The sets that are counted are finite.
LEMMA MemberCounts ==
    ASSUME OrgTypeOK, NEW o \in Orgs
    PROVE  /\ IsFiniteSet(Members(o)) /\ IsFiniteSet(Members(o) \ late[o])
           /\ IsFiniteSet(Seats(o)) /\ Cardinality(Seats(o)) \in Nat
           /\ Cardinality(Members(o)) \in Nat /\ Cardinality(Members(o) \ late[o]) \in Nat
           /\ Cardinality(Members(o) \ late[o]) <= Cardinality(Members(o))
           /\ Cardinality(Seats(o)) <= Cardinality(OrgRequests)
           /\ Cardinality(OrgRequests) \in Nat /\ Cardinality(OrgRequests) > 0
<1>1. IsFiniteSet(Members(o)) /\ IsFiniteSet(Members(o) \ late[o])
  BY OrganizationAssumption, FS_Subset DEF Members
<1>2. Seats(o) \subseteq OrgRequests
  BY DEF Seats
<1>3. IsFiniteSet(Seats(o)) /\ Cardinality(Seats(o)) <= Cardinality(OrgRequests)
  BY <1>2, OrganizationAssumption, FS_Subset
<1>4. Cardinality(OrgRequests) \in Nat /\ Cardinality(OrgRequests) # 0
  BY OrganizationAssumption, FS_CardinalityType, FS_EmptySet
<1>5. Cardinality(Members(o) \ late[o]) <= Cardinality(Members(o))
  BY <1>1, FS_Subset
<1>6. /\ Cardinality(Seats(o)) \in Nat /\ Cardinality(Members(o)) \in Nat
      /\ Cardinality(Members(o) \ late[o]) \in Nat
  BY <1>1, <1>3, FS_CardinalityType
<1> QED
  BY <1>1, <1>3, <1>4, <1>5, <1>6

Bounded(o) ==
    Cardinality(Members(o) \ late[o]) + Cardinality(Seats(o))
        <= MemberLimit + Cardinality(OrgRequests) - 1

\* A step that adds no member and no handler to an organization.
LEMMA NoNewMember ==
    ASSUME OrgTypeOK, OrgTypeOK', NEW o \in Orgs, Bounded(o),
           Members(o)' \ late'[o] \subseteq Members(o) \ late[o],
           Seats(o)' \subseteq Seats(o)
    PROVE  Bounded(o)'
<1>1. /\ Cardinality(Members(o)' \ late'[o]) <= Cardinality(Members(o) \ late[o])
      /\ Cardinality(Seats(o)') <= Cardinality(Seats(o))
  BY MemberCounts, FS_Subset
<1>2. Cardinality(Members(o)' \ late'[o]) \in Nat /\ Cardinality(Seats(o)') \in Nat
  BY MemberCounts, FS_Subset, FS_CardinalityType
<1> QED
  BY <1>1, <1>2, MemberCounts, OrganizationAssumption DEF Bounded

\* A handler counts the members below the limit before it holds a seat.
LEMMA SeatTaken ==
    ASSUME OrgTypeOK, NEW o \in Orgs, HasSeat(o), OrgTypeOK',
           Members(o)' = Members(o), UNCHANGED late
    PROVE  Bounded(o)'
<1>1. Cardinality(Seats(o)') <= Cardinality(OrgRequests) /\ Cardinality(Seats(o)') \in Nat
  <2>1. Seats(o)' \subseteq OrgRequests
    BY DEF Seats
  <2> QED
    BY <2>1, OrganizationAssumption, FS_Subset, FS_CardinalityType
<1>2. Cardinality(Members(o) \ late[o]) <= MemberLimit - 1
  BY MemberCounts, OrganizationAssumption DEF HasSeat
<1>3. Bounded(o)' <=> Cardinality(Members(o) \ late[o]) + Cardinality(Seats(o)')
                        <= MemberLimit + Cardinality(OrgRequests) - 1
  BY DEF Bounded
<1> QED
  BY <1>1, <1>2, <1>3, MemberCounts, OrganizationAssumption

\* A member takes the seat its handler held.
LEMMA SeatFilled ==
    ASSUME OrgTypeOK, NEW o \in Orgs, Bounded(o), OrgTypeOK', NEW v, NEW h \in Seats(o),
           Members(o)' \subseteq Members(o) \union {v}, UNCHANGED late,
           Seats(o)' = Seats(o) \ {h}
    PROVE  Bounded(o)'
<1> DEFINE old == Members(o) \ late[o]
           new == Members(o)' \ late'[o]
<1>1. new \subseteq old \union {v}
  OBVIOUS
<1>2. IsFiniteSet(old) /\ Cardinality(old) \in Nat
  BY MemberCounts
<1> HIDE DEF old, new
<1>3. /\ IsFiniteSet(old \union {v})
      /\ \/ Cardinality(old \union {v}) = Cardinality(old)
         \/ Cardinality(old \union {v}) = Cardinality(old) + 1
  BY <1>2, FS_AddElement
<1>4. Cardinality(new) <= Cardinality(old \union {v}) /\ Cardinality(new) \in Nat
  BY <1>1, <1>3, FS_Subset, FS_CardinalityType
<1>5. Cardinality(Seats(o)') = Cardinality(Seats(o)) - 1
  BY MemberCounts, FS_RemoveElement
<1>6. /\ Bounded(o)' <=> Cardinality(new) + Cardinality(Seats(o)')
                            <= MemberLimit + Cardinality(OrgRequests) - 1
      /\ Cardinality(old) + Cardinality(Seats(o)) <= MemberLimit + Cardinality(OrgRequests) - 1
  BY DEF Bounded, old, new
<1>7. Cardinality(Seats(o)) \in Nat /\ Cardinality(OrgRequests) \in Nat /\ MemberLimit \in Nat
  BY MemberCounts, OrganizationAssumption
<1>8. Cardinality(new) <= Cardinality(old) + 1 /\ Cardinality(Seats(o)') \in Int
  BY <1>2, <1>3, <1>4, <1>5, <1>7
<1> QED
  BY <1>2, <1>4, <1>5, <1>6, <1>7, <1>8

\* An organization nobody accepts an invitation of, with one member at most
\* below the limit.
LEMMA NoSeats ==
    ASSUME OrgTypeOK, OrgTypeOK', NEW o \in Orgs, Seats(o)' = {}, NEW S, IsFiniteSet(S),
           Cardinality(S) < MemberLimit, NEW v, Members(o)' \ late'[o] \subseteq S \union {v}
    PROVE  Bounded(o)'
<1> DEFINE new == Members(o)' \ late'[o]
<1>1. /\ IsFiniteSet(S \union {v}) /\ Cardinality(S) \in Nat
      /\ \/ Cardinality(S \union {v}) = Cardinality(S)
         \/ Cardinality(S \union {v}) = Cardinality(S) + 1
  BY FS_AddElement, FS_CardinalityType
<1> HIDE DEF new
<1>2. Cardinality(new) <= Cardinality(S \union {v}) /\ Cardinality(new) \in Nat
  BY <1>1, FS_Subset, FS_CardinalityType DEF new
<1>3. Cardinality(Seats(o)') = 0
  BY FS_EmptySet
<1>4. Bounded(o)' <=> Cardinality(new) + Cardinality(Seats(o)')
                        <= MemberLimit + Cardinality(OrgRequests) - 1
  BY DEF Bounded, new
<1>5. /\ Cardinality(OrgRequests) \in Nat /\ Cardinality(OrgRequests) > 0
      /\ MemberLimit \in Nat
  BY MemberCounts, OrganizationAssumption
<1>6. Cardinality(new) <= MemberLimit
  BY <1>1, <1>2, <1>5
<1> QED
  BY <1>2, <1>3, <1>4, <1>5, <1>6

MemberInv == OrgTypeOK /\ MembersBounded

\* Nobody accepts an invitation of an organization that has not been made, nor
\* while the server is not serving.
LEMMA NoSeatOf ==
    ASSUME OrgTypeOK, NEW o \in Orgs, o \notin made \/ boot.at # "serving"
    PROVE  Seats(o) = {}
BY DEF OrgTypeOK, Seats

LEMMA MemberStep == MemberInv /\ [OrgNext]_allVars => MemberInv'
<1> SUFFICES ASSUME OrgTypeOK, MembersBounded, [OrgNext]_allVars, NEW o \in Orgs
             PROVE  Bounded(o)'
  <2>1. OrgTypeOK /\ [OrgNext]_allVars => OrgTypeOK'
    BY OrgTypeStep
  <2>2. MembersBounded' <=> \A o \in Orgs : Bounded(o)'
    BY DEF MembersBounded, Bounded
  <2> QED
    BY <2>1, <2>2 DEF MemberInv
<1>0. OrgTypeOK' /\ Bounded(o)
  BY OrgTypeStep DEF MembersBounded, Bounded
<1>1. ASSUME UNCHANGED <<org, late>>, Seats(o)' \subseteq Seats(o)
      PROVE  Bounded(o)'
  <2>1. Members(o)' = Members(o)
    BY <1>1 DEF Members
  <2> QED
    BY <1>0, <1>1, <2>1, NoNewMember
<1>2. ASSUME UNCHANGED <<org, hand, late>>
      PROVE  Bounded(o)'
  <2>1. Seats(o)' = Seats(o)
    BY <1>2 DEF Seats
  <2> QED
    BY <1>1, <1>2, <2>1
<1>3. ASSUME NEW u \in Users, NEW s \in Slugs, CreateOrg(u, s)
      PROVE  Bounded(o)'
  <2>1. PICK x \in Orgs \ made :
          org' = [org EXCEPT ![x] = [NoOrg EXCEPT !.slug = s, !.role[u] = "owner"]]
    BY <1>3 DEF CreateOrg
  <2>2. UNCHANGED <<hand, late>>
    BY <1>3 DEF CreateOrg
  <2>3. CASE o = x
    <3>1. Seats(o)' = {}
      <4>1. Seats(o)' = Seats(o)
        BY <2>2 DEF Seats
      <4> QED
        BY <2>3, <4>1, NoSeatOf
    <3>2. Members(o)' \subseteq {} \union {u}
      BY <2>1, <2>3 DEF Members, NoOrg, OrgTypeOK
    <3>3. IsFiniteSet({}) /\ Cardinality({}) < MemberLimit
      BY FS_EmptySet, OrganizationAssumption
    <3>4. Members(o)' \ late'[o] \subseteq {} \union {u}
      BY <3>2
    <3> QED
      BY <1>0, <3>1, <3>3, <3>4, NoSeats
  <2>4. CASE o # x
    <3>1. Members(o)' = Members(o) /\ Seats(o)' = Seats(o)
      BY <2>1, <2>2, <2>4 DEF Members, Seats, OrgTypeOK
    <3> QED
      BY <1>0, <2>2, <3>1, NoNewMember
  <2> QED
    BY <2>3, <2>4
<1>4. ASSUME NEW h \in OrgRequests, NEW u \in Users, NEW kind \in OrgKinds,
             FindOrgIdBySlug(h, u, kind)
      PROVE  Bounded(o)'
  <2>1. Seats(o)' \subseteq Seats(o)
    BY <1>4 DEF FindOrgIdBySlug, Seats, IdleOrg, OrgTypeOK
  <2> QED
    BY <1>1, <1>4, <2>1 DEF FindOrgIdBySlug
<1>5. ASSUME NEW h \in OrgRequests,
             \/ \E s \in Slugs : UpdateOrg(h, s)
             \/ \E v \in Users : UpdateMemberRole(h, v)
             \/ InsertInvitation(h) \/ DeleteOrg(h)
      PROVE  Bounded(o)'
  <2>1. Seats(o)' \subseteq Seats(o)
    <3>1. AnswerOrg(h)
      BY <1>5 DEF UpdateOrg, UpdateMemberRole, InsertInvitation, DeleteOrg
    <3> QED
      BY <3>1 DEF AnswerOrg, Seats, IdleOrg, OrgTypeOK
  <2>2. Members(o)' \subseteq Members(o)
    <3>1. CASE \E s \in Slugs : UpdateOrg(h, s)
      BY <3>1 DEF UpdateOrg, Members, OrgTypeOK, OrgRow
    <3>2. CASE \E v \in Users : UpdateMemberRole(h, v)
      BY <3>2 DEF UpdateMemberRole, Members, OrgTypeOK, OrgRow
    <3>3. CASE InsertInvitation(h)
      BY <3>3 DEF InsertInvitation, Members, OrgTypeOK, OrgRow
    <3>4. CASE DeleteOrg(h)
      BY <3>4 DEF DeleteOrg, Members, NoOrg, OrgTypeOK
    <3> QED
      BY <1>5, <3>1, <3>2, <3>3, <3>4
  <2>3. UNCHANGED late
    BY <1>5 DEF UpdateOrg, UpdateMemberRole, InsertInvitation, DeleteOrg
  <2>4. Members(o)' \ late'[o] \subseteq Members(o) \ late[o]
    BY <2>2, <2>3
  <2> QED
    BY <1>0, <2>1, <2>4, NoNewMember
<1>6. ASSUME NEW h \in OrgRequests,
             \/ \E v \in Users : InviteGate(h, v)
             \/ CountOrgPacks(h) \/ RefuseOrgRequest(h)
      PROVE  Bounded(o)'
  <2>1. Seats(o)' \subseteq Seats(o)
    <3>1. CASE \E v \in Users : InviteGate(h, v)
      BY <3>1 DEF InviteGate, Doing, Seats, OrgTypeOK, OrgHandler
    <3>2. CASE CountOrgPacks(h)
      BY <3>2 DEF CountOrgPacks, AnswerOrg, Seats, IdleOrg, OrgTypeOK, OrgHandler
    <3>3. CASE RefuseOrgRequest(h)
      BY <3>3 DEF RefuseOrgRequest, AnswerOrg, Seats, IdleOrg, OrgTypeOK
    <3> QED
      BY <1>6, <3>1, <3>2, <3>3
  <2> QED
    BY <1>1, <1>6, <2>1 DEF InviteGate, CountOrgPacks, RefuseOrgRequest
<1>7. ASSUME NEW h \in OrgRequests, NEW v \in Users, AcceptGate(h, v)
      PROVE  Bounded(o)'
  <2>1. PICK x \in Orgs :
          /\ HasSeat(x)
          /\ hand' = [hand EXCEPT ![h] = [IdleOrg EXCEPT !.pc = "seat", !.kind = "accept",
                                            !.user = v, !.whom = v, !.org = x]]
    BY <1>7 DEF AcceptGate
  <2>2. UNCHANGED <<org, late>> /\ Members(o)' = Members(o)
    BY <1>7 DEF AcceptGate, Members
  <2>3. CASE o = x
    BY <1>0, <2>1, <2>2, <2>3, SeatTaken
  <2>4. CASE o # x
    <3>1. Seats(o)' \subseteq Seats(o)
      BY <2>1, <2>4 DEF Seats, IdleOrg, OrgTypeOK
    <3> QED
      BY <1>1, <2>2, <3>1
  <2> QED
    BY <2>3, <2>4
<1>8. ASSUME NEW h \in OrgRequests, InsertMember(h)
      PROVE  Bounded(o)'
  <2> DEFINE v == hand[h].whom
  <2>1. /\ hand[h].pc = "seat" /\ hand[h].kind = "accept"
        /\ hand[h].org \in Orgs /\ UNCHANGED late
    BY <1>8 DEF InsertMember, Doing, OrgTypeOK
  <2>2. Seats(o)' = Seats(o) \ {h}
    BY <1>8 DEF InsertMember, AnswerOrg, Seats, IdleOrg, OrgTypeOK
  <2>3. CASE o = hand[h].org
    <3>1. h \in Seats(o)
      BY <2>1, <2>3 DEF Seats
    <3>2. \A w \in Users : w # v => org'[o].role[w] = org[o].role[w]
      BY <1>8, <2>1, <2>3 DEF InsertMember, OrgTypeOK, OrgRow
    <3>3. Members(o)' \subseteq Members(o) \union {v}
      BY <3>2 DEF Members
    <3> HIDE DEF v
    <3> QED
      BY <1>0, <2>1, <2>2, <3>1, <3>3, SeatFilled
  <2>4. CASE o # hand[h].org
    <3>1. Members(o)' = Members(o)
      BY <1>8, <2>4 DEF InsertMember, Members, OrgTypeOK
    <3> QED
      BY <1>0, <2>1, <2>2, <3>1, NoNewMember
  <2> QED
    BY <2>3, <2>4
<1>9. CASE Restart
  <2>1. Seats(o)' \subseteq Seats(o) /\ UNCHANGED <<org, late>>
    BY <1>9 DEF Restart, Seats, IdleOrg
  <2> QED
    BY <1>1, <2>1
<1>10. CASE EnsureOfficialOrg
  <2>1. UNCHANGED <<hand, late>> /\ Seats(o)' = Seats(o)
    BY <1>10 DEF EnsureOfficialOrg, Seats
  <2>2. Members(o)' \subseteq Members(o)
    BY <1>10 DEF EnsureOfficialOrg, Members, NoOrg, OrgTypeOK
  <2>3. Members(o)' \ late'[o] \subseteq Members(o) \ late[o]
    BY <2>1, <2>2
  <2> QED
    BY <1>0, <2>1, <2>3, NoNewMember
<1>11. ASSUME NEW u \in Users, AddOwnerMember(u)
       PROVE  Bounded(o)'
  <2>1. Seats(o) = {} /\ Seats(o)' = {}
    <3>1. Seats(o) = {}
      BY <1>11, NoSeatOf DEF AddOwnerMember
    <3> QED
      BY <1>11, <3>1 DEF AddOwnerMember, Seats
  <2>2. Members(o)' \subseteq Members(o) \union {u}
    BY <1>11 DEF AddOwnerMember, Members, OrgTypeOK, OrgRow
  <2>3. late[o] \subseteq late'[o]
    BY <1>11 DEF AddOwnerMember
  <2>4. CASE HasSeat(o)
    <3>1. IsFiniteSet(Members(o)) /\ Cardinality(Members(o)) < MemberLimit
      BY <2>4, MemberCounts DEF HasSeat
    <3>2. Members(o)' \ late'[o] \subseteq Members(o) \union {u}
      BY <2>2
    <3> QED
      BY <1>0, <2>1, <3>1, <3>2, NoSeats
  <2>5. CASE ~HasSeat(o)
    <3>1. CASE u \in Members(o) \/ ~Holds(o, OfficialSlug)
      <4>1. Members(o)' \subseteq Members(o)
        BY <1>11, <2>2, <3>1 DEF AddOwnerMember, Members
      <4> QED
        BY <1>0, <2>1, <2>3, <4>1, NoNewMember
    <3>2. CASE ~(u \in Members(o) \/ ~Holds(o, OfficialSlug))
      <4>1. u \in late'[o]
        BY <1>11, <2>5, <3>2 DEF AddOwnerMember, Members
      <4> QED
        BY <1>0, <2>1, <2>2, <2>3, <4>1, NoNewMember
    <3> QED
      BY <3>1, <3>2
  <2> QED
    BY <2>4, <2>5
<1>12. CASE StartServing
  BY <1>2, <1>12 DEF StartServing
<1>13. ASSUME NEW r \in Requests,
              \/ \E x \in Orgs, u \in Users : PublishTo(r, x, u)
              \/ CountPacksOf(r) \/ PackStep(r)
       PROVE  Bounded(o)'
  BY <1>2, <1>13 DEF PublishTo, CountPacksOf, PackStep, KeepsOrgs
<1>14. CASE UNCHANGED allVars
  BY <1>2, <1>14 DEF allVars, orgVars
<1> QED
  BY <1>0, <1>3, <1>4, <1>5, <1>6, <1>7, <1>8, <1>9, <1>10, <1>11, <1>12, <1>13, <1>14 DEF OrgNext

LEMMA InitMembers == OrgInit => MemberInv
<1> SUFFICES ASSUME OrgInit PROVE MemberInv
  OBVIOUS
<1>1. OrgTypeOK
  <2>1. IdleOrg.pc = "idle" /\ IdleOrg.kind = "update"
    BY DEF IdleOrg
  <2> QED
    BY <2>1, IdleOrgType DEF OrgInit, OrgTypeOK
<1>2. ASSUME NEW o \in Orgs PROVE Bounded(o)
  <2>1. Members(o) \ late[o] = {} /\ Seats(o) = {}
    BY DEF OrgInit, Members, NoOrg, Seats, IdleOrg
  <2>2. Cardinality(OrgRequests) \in Nat /\ Cardinality(OrgRequests) > 0
    BY <1>1, MemberCounts
  <2>3. Cardinality(Members(o) \ late[o]) = 0 /\ Cardinality(Seats(o)) = 0
    BY <2>1, FS_EmptySet
  <2> QED
    BY <2>2, <2>3, OrganizationAssumption DEF Bounded
<1> QED
  BY <1>1, <1>2 DEF MemberInv, MembersBounded, Bounded

\* However many invitations are accepted at once, an organization goes over
\* max_members by no more than the handlers beside the last one to count.
THEOREM OrgMembers == OrgSpec => []MembersBounded
<1>1. MemberInv => MembersBounded
  BY DEF MemberInv
<1> QED
  BY <1>1, InitMembers, MemberStep, PTL DEF OrgSpec

-----------------------------------------------------------------------------
(* The boot                                                                 *)

\* A boot that has found or made the official organization has granted every
\* publisher that is not left; nothing else runs meanwhile.
BootInv ==
    /\ boot.at = "ensure" => boot.left = Publishers
    /\ boot.at = "grant" =>
         \E o \in Orgs : /\ Holds(o, OfficialSlug)
                         /\ \A u \in Publishers \ boot.left : org[o].role[u] = "owner"

LEMMA BootStep == OrgTypeOK /\ BootInv /\ [OrgNext]_allVars => BootInv'
<1> SUFFICES ASSUME OrgTypeOK, BootInv, [OrgNext]_allVars PROVE BootInv'
  OBVIOUS
<1>1. CASE EnsureOfficialOrg
  <2>1. boot.left = Publishers /\ boot'.at = "grant" /\ boot'.left = boot.left
    BY <1>1 DEF EnsureOfficialOrg, BootInv, OrgTypeOK
  <2>2. \E o \in Orgs : Holds(o, OfficialSlug)'
    <3>1. CASE Owned(OfficialSlug)
      BY <1>1, <3>1 DEF EnsureOfficialOrg, Owned, Holds, Exists
    <3>2. CASE ~Owned(OfficialSlug)
      <4>1. PICK o \in Orgs \ made : org' = [org EXCEPT ![o] = [NoOrg EXCEPT !.slug = OfficialSlug]]
        BY <1>1, <3>2 DEF EnsureOfficialOrg
      <4>2. org'[o].slug = OfficialSlug
        BY <4>1 DEF OrgTypeOK, NoOrg
      <4> QED
        BY <4>2, OrganizationAssumption DEF Holds, Exists
    <3> QED
      BY <3>1, <3>2
  <2> QED
    BY <2>1, <2>2 DEF BootInv
<1>2. ASSUME NEW u \in Users, AddOwnerMember(u)
      PROVE  BootInv'
  <2>1. PICK o \in Orgs : /\ Holds(o, OfficialSlug)
                          /\ \A w \in Publishers \ boot.left : org[o].role[w] = "owner"
    BY <1>2 DEF AddOwnerMember, BootInv
  <2>2. org'[o] = [org[o] EXCEPT !.role[u] = "owner"] /\ org[o] \in OrgRow
    BY <1>2, <2>1 DEF AddOwnerMember, OrgTypeOK
  <2>3. /\ org'[o].slug = org[o].slug
        /\ \A w \in Users : org'[o].role[w] = IF w = u THEN "owner" ELSE org[o].role[w]
    BY <2>2 DEF OrgRow
  <2>4. boot'.at = "grant" /\ boot'.left = boot.left \ {u}
    BY <1>2 DEF AddOwnerMember, OrgTypeOK
  <2>5. Holds(o, OfficialSlug)'
    BY <2>1, <2>3 DEF Holds, Exists
  <2>6. \A w \in Publishers \ boot'.left : org'[o].role[w] = "owner"
    BY <2>1, <2>3, <2>4, OrganizationAssumption
  <2> QED
    BY <2>4, <2>5, <2>6 DEF BootInv
<1>3. CASE Restart
  BY <1>3 DEF Restart, BootInv
<1>4. CASE boot'.at = "serving"
  BY <1>4 DEF BootInv
<1>5. CASE UNCHANGED <<boot, org>>
  BY <1>5 DEF BootInv, Holds, Exists
<1>6. CASE StartServing
  BY <1>4, <1>6 DEF StartServing, OrgTypeOK
<1>7. CASE \/ \E u \in Users, s \in Slugs : CreateOrg(u, s)
           \/ \E h \in OrgRequests :
                \/ \E u \in Users, kind \in OrgKinds : FindOrgIdBySlug(h, u, kind)
                \/ \E s \in Slugs : UpdateOrg(h, s)
                \/ \E v \in Users : UpdateMemberRole(h, v) \/ InviteGate(h, v) \/ AcceptGate(h, v)
                \/ InsertInvitation(h) \/ InsertMember(h)
                \/ CountOrgPacks(h) \/ DeleteOrg(h) \/ RefuseOrgRequest(h)
  <2>1. Serving /\ UNCHANGED boot
    BY <1>7 DEF CreateOrg, FindOrgIdBySlug, Submit, UpdateOrg, UpdateMemberRole, InviteGate,
       AcceptGate, InsertInvitation, InsertMember, CountOrgPacks, DeleteOrg, RefuseOrgRequest, Doing
  <2> QED
    BY <1>4, <2>1 DEF Serving
<1>8. ASSUME NEW r \in Requests,
             \/ \E x \in Orgs, u \in Users : PublishTo(r, x, u)
             \/ CountPacksOf(r) \/ PackStep(r)
      PROVE  BootInv'
  BY <1>5, <1>8 DEF PublishTo, CountPacksOf, PackStep, KeepsOrgs
<1> QED
  BY <1>1, <1>2, <1>3, <1>5, <1>6, <1>7, <1>8 DEF OrgNext, allVars, orgVars

\* However a boot is cut short and whatever was done to the official
\* organization before, a server that starts serving has one whose owners
\* include every publisher.
THEOREM BootGrantsPublishers == OrgSpec => BootRestoresOfficial
<1>1. OrgInit => BootInv
  BY DEF OrgInit, BootInv
<1> DEFINE Grants == boot.at = "grant" /\ boot'.at = "serving" =>
                       \E o \in Orgs : /\ Holds(o, OfficialSlug)
                                       /\ \A u \in Publishers : org[o].role[u] = "owner"
<1>2. OrgTypeOK /\ BootInv /\ [OrgNext]_allVars => Grants
  <2> SUFFICES ASSUME OrgTypeOK, BootInv, [OrgNext]_allVars,
                      boot.at = "grant", boot'.at = "serving"
               PROVE  \E o \in Orgs : /\ Holds(o, OfficialSlug)
                                      /\ \A u \in Publishers : org[o].role[u] = "owner"
    OBVIOUS
  <2>1. boot' # boot
    OBVIOUS
  <2>2. ~(Serving \/ EnsureOfficialOrg \/ Restart)
    BY DEF Serving, EnsureOfficialOrg, Restart
  <2>3. ~ \E u \in Users : AddOwnerMember(u)
    BY DEF AddOwnerMember, OrgTypeOK
  <2>4. StartServing
    BY <2>1, <2>2, <2>3 DEF OrgNext, CreateOrg, FindOrgIdBySlug, Submit, UpdateOrg,
       UpdateMemberRole, InviteGate, AcceptGate, InsertInvitation, InsertMember, CountOrgPacks,
       DeleteOrg, RefuseOrgRequest, Doing, PublishTo, CountPacksOf, PackStep, allVars, orgVars
  <2>5. boot.left = {}
    BY <2>4 DEF StartServing
  <2> QED
    BY <2>5 DEF BootInv
<1>3. MemberInv => OrgTypeOK
  BY DEF MemberInv
<1>4. OrgTypeOK /\ BootInv /\ [OrgNext]_allVars => [Grants]_allVars
  BY <1>2
<1> QED
  BY <1>1, <1>3, <1>4, BootStep, InitMembers, MemberStep, PTL DEF OrgSpec, BootRestoresOfficial

-----------------------------------------------------------------------------
(* Owners                                                                   *)

\* A slug has one owner, and a publish past its first statement knows the
\* organization it resolved.
SlugsUnique == \A a, b \in Orgs : a # b /\ Exists(a) => org[a].slug # org[b].slug
ViaOK ==
    /\ via \in [Requests -> Orgs \union {None}]
    /\ \A r \in Requests : req[r].pc \notin {"idle", "tombstone"} => via[r] \in Orgs

\* As long as nothing has raced: live packs have an owner, a publish in flight
\* is to the organization that has their slug now and is not being deleted,
\* and a delete that has counted, or was sent for another slug, finds none.
Deletes(h) == hand[h].kind = "delete"
AnyLive == \E p \in Packs : Live(p)
NotRaced ==
    /\ AnyLive => Owned(Scope)
    /\ \A r \in Requests : via[r] \in Orgs => Holds(via[r], Scope)
    /\ \A h \in OrgRequests, r \in Requests : Deletes(h) => via[r] # hand[h].org
    /\ \A h \in OrgRequests :
         Deletes(h) /\ Holds(hand[h].org, Scope) /\ (hand[h].pc = "empty" \/ hand[h].slug # Scope)
           => ~AnyLive
OwnerInv == SlugsUnique /\ ViaOK /\ (~raced => NotRaced)

\* What the steps that leave the slugs alone and insert no pack have in common.
KeepsSlugs == \A o \in Orgs : org'[o].slug = org[o].slug
KeepsDeletes == \A h \in OrgRequests : Deletes(h)' =>
    /\ Deletes(h) /\ hand'[h].org = hand[h].org /\ hand'[h].slug = hand[h].slug
    /\ hand'[h].pc = "empty" => hand[h].pc = "empty" \/ hand[h].slug # Scope \/ ~AnyLive
KeepsVia == \A r \in Requests : via'[r] \in {via[r], None}

LEMMA DeletesKnow ==
    ASSUME OrgTypeOK, NEW h \in OrgRequests, Deletes(h)
    PROVE  hand[h].pc # "idle" /\ hand[h].org \in made /\ hand[h].org \in Orgs
BY DEF OrgTypeOK, Deletes

LEMMA OwnerFrame ==
    ASSUME OrgTypeOK, OwnerInv, KeepsSlugs, KeepsDeletes, KeepsVia, ViaOK', raced => raced',
           AnyLive' => AnyLive
    PROVE  OwnerInv'
<1>1. \A o \in Orgs : Exists(o)' <=> Exists(o)
  BY DEF KeepsSlugs, Exists
<1>2. \A o \in Orgs : Holds(o, Scope)' <=> Holds(o, Scope)
  BY <1>1 DEF KeepsSlugs, Holds
<1>3. SlugsUnique'
  BY <1>1 DEF OwnerInv, SlugsUnique, KeepsSlugs
<1>4. ASSUME ~raced PROVE NotRaced'
  <2>1. NotRaced
    BY <1>4 DEF OwnerInv
  <2>2. AnyLive' => Owned(Scope)'
    BY <1>2, <2>1 DEF NotRaced, Owned
  <2>3. \A r \in Requests : via'[r] \in Orgs => Holds(via[r], Scope)'
    BY <1>2, <2>1, OrganizationAssumption DEF NotRaced, KeepsVia
  <2>4. ASSUME NEW h \in OrgRequests, NEW r \in Requests, Deletes(h)'
        PROVE  via'[r] # hand'[h].org
    BY <2>1, <2>4, DeletesKnow, OrganizationAssumption DEF NotRaced, KeepsVia, KeepsDeletes
  <2>5. ASSUME NEW h \in OrgRequests, Deletes(h)', Holds(hand[h].org, Scope)',
               hand'[h].pc = "empty" \/ hand'[h].slug # Scope
        PROVE  ~AnyLive'
    <3>1. Deletes(h) /\ hand'[h].org = hand[h].org /\ hand[h].org \in Orgs
      BY <2>5, DeletesKnow DEF KeepsDeletes
    <3>2. Holds(hand[h].org, Scope)
      BY <1>2, <2>5, <3>1
    <3> QED
      BY <2>1, <2>5, <3>1, <3>2 DEF NotRaced, KeepsDeletes
  <2> QED
    BY <2>2, <2>3, <2>4, <2>5 DEF NotRaced
<1> QED
  BY <1>3, <1>4 DEF OwnerInv

\* A slug that nobody has is taken, by a new organization or a renamed one.
LEMMA TakeSlug ==
    ASSUME OrgTypeOK, OwnerInv, NEW o \in Orgs, NEW s \in Slugs, ~Owned(s), org'[o].slug = s,
           \A x \in Orgs : x # o => org'[x].slug = org[x].slug,
           raced \/ Holds(o, Scope) => raced', KeepsDeletes,
           UNCHANGED <<pack, req, via>>
    PROVE  OwnerInv'
<1>0. s # None
  BY OrganizationAssumption
<1>1. \A x \in Orgs : Exists(x) => org[x].slug # s
  BY DEF Owned, Holds
<1>2. \A x \in Orgs : x # o => org'[x].slug = org[x].slug /\ org'[x].slug # s
  BY <1>0, <1>1 DEF Exists
<1>3. SlugsUnique'
  <2> SUFFICES ASSUME NEW a \in Orgs, NEW b \in Orgs, a # b, org'[a].slug # None
               PROVE  org'[a].slug # org'[b].slug
    BY DEF SlugsUnique, Exists
  <2>1. CASE a = o \/ b = o
    BY <1>2, <2>1
  <2>2. CASE a # o /\ b # o
    BY <1>2, <2>2 DEF OwnerInv, SlugsUnique, Exists
  <2> QED
    BY <2>1, <2>2
<1>4. ViaOK' /\ (AnyLive' <=> AnyLive)
  BY DEF OwnerInv, ViaOK, AnyLive, Live, Row
<1>5. ASSUME ~raced' PROVE NotRaced'
  <2>1. ~raced /\ NotRaced /\ ~Holds(o, Scope)
    BY <1>5 DEF OwnerInv
  <2>2. \A x \in Orgs : Holds(x, Scope) => Holds(x, Scope)'
    BY <1>2, <2>1 DEF Holds, Exists
  <2>3. \A x \in Orgs : Holds(x, Scope)' => Holds(x, Scope) \/ (x = o /\ ~Owned(Scope))
    BY <1>2 DEF Holds, Exists
  <2>4. AnyLive' => Owned(Scope)'
    BY <1>4, <2>1, <2>2 DEF NotRaced, Owned
  <2>5. \A r \in Requests : via'[r] \in Orgs => Holds(via[r], Scope)'
    BY <2>1, <2>2 DEF NotRaced
  <2>6. ASSUME NEW h \in OrgRequests, NEW r \in Requests, Deletes(h)'
        PROVE  via'[r] # hand'[h].org
    BY <2>1, <2>6 DEF NotRaced, KeepsDeletes
  <2>7. ASSUME NEW h \in OrgRequests, Deletes(h)', Holds(hand[h].org, Scope)',
               hand'[h].pc = "empty" \/ hand'[h].slug # Scope
        PROVE  ~AnyLive'
    <3>1. Deletes(h) /\ hand'[h].org = hand[h].org /\ hand[h].org \in Orgs
      BY <2>7, DeletesKnow DEF KeepsDeletes
    <3>2. CASE Holds(hand[h].org, Scope)
      BY <1>4, <2>1, <2>7, <3>1, <3>2 DEF NotRaced, KeepsDeletes
    <3>3. CASE ~Owned(Scope)
      BY <1>4, <2>1, <3>3 DEF NotRaced
    <3> QED
      BY <2>3, <2>7, <3>1, <3>2, <3>3
  <2> QED
    BY <2>4, <2>5, <2>6, <2>7 DEF NotRaced
<1> QED
  BY <1>3, <1>4, <1>5 DEF OwnerInv

\* What the packs' own handlers do to their locals and to the live packs.
LEMMA PackFrame ==
    ASSUME OwnerInv, TypeOK, NEW r \in Requests, via' = [via EXCEPT ![r] =
             IF req'[r].pc = "idle" THEN None ELSE @],
           \A q \in Requests : q # r => req'[q] = req[q],
           req'[r].pc \in {"idle", "tombstone"} \/ req[r].pc \notin {"idle", "tombstone"}
    PROVE  ViaOK' /\ KeepsVia
BY DEF OwnerInv, ViaOK, KeepsVia

LEMMA LocalsStep ==
    ASSUME TypeOK, NEW r \in Requests,
           \/ PackExists(r) \/ CheckPlanLimit(r) \/ ReplaceTombstone(r) \/ ReadStored(r)
           \/ InsertPack(r) \/ Tombstone(r) \/ EndEarly(r) \/ ReceiveUnpublish(r)
           \/ (At(r, "count") /\ Goto(r, "replace"))
    PROVE  /\ \A q \in Requests : q # r => req'[q] = req[q]
           /\ req'[r].pc \in {"idle", "tombstone"} \/ req[r].pc \notin {"idle", "tombstone"}
<1>1. IdleHandler.pc = "idle"
  BY DEF IdleHandler
<1>2. req \in [Requests -> Handler]
  BY DEF TypeOK
<1>3. CASE Answer(r)
  BY <1>1, <1>2, <1>3 DEF Answer
<1>4. CASE \/ PackExists(r) \/ CheckPlanLimit(r) \/ ReplaceTombstone(r) \/ ReadStored(r)
           \/ (At(r, "count") /\ Goto(r, "replace"))
  BY <1>1, <1>2, <1>4 DEF PackExists, CheckPlanLimit, ReplaceTombstone, ReadStored, Goto, At,
     Answer
<1>5. CASE ReceiveUnpublish(r)
  <2>1. PICK p \in Packs :
          req' = [req EXCEPT ![r] = [IdleHandler EXCEPT !.pc = "tombstone", !.id = pack[p].id]]
    BY <1>5 DEF ReceiveUnpublish
  <2>2. req'[r].pc = "tombstone"
    BY <1>2, <2>1 DEF IdleHandler
  <2> QED
    BY <1>2, <2>1, <2>2
<1> QED
  BY <1>3, <1>4, <1>5 DEF InsertPack, Tombstone, EndEarly

LEMMA NothingComesAlive ==
    ASSUME TypeOK, NEW r \in Requests,
           \/ ReplaceTombstone(r) \/ Tombstone(r) \/ UNCHANGED pack
    PROVE  AnyLive' => AnyLive
<1>1. CASE UNCHANGED pack
  BY <1>1 DEF AnyLive, Live, Row
<1>2. CASE ReplaceTombstone(r)
  BY <1>2 DEF ReplaceTombstone, AnyLive, Live, Row, NoPack, TypeOK
<1>3. CASE Tombstone(r)
  <2> SUFFICES ASSUME NEW p \in Packs, Live(p)' PROVE Live(p)
    BY DEF AnyLive
  <2>1. pack[p] \in PackRow \union {NoPack}
    BY DEF TypeOK
  <2>2. CASE Row(p) /\ pack[p].id = req[r].id
    BY <1>3, <2>1, <2>2 DEF Tombstone, Live, Row, PackRow, NoPack
  <2>3. CASE ~(Row(p) /\ pack[p].id = req[r].id)
    BY <1>3, <2>3 DEF Tombstone, Live, Row
  <2> QED
    BY <2>2, <2>3
<1> QED
  BY <1>1, <1>2, <1>3

LEMMA OwnerStep == TypeOK /\ OrgTypeOK /\ OwnerInv /\ [OrgNext]_allVars => OwnerInv'
<1> SUFFICES ASSUME TypeOK, OrgTypeOK, OwnerInv, [OrgNext]_allVars PROVE OwnerInv'
  OBVIOUS
<1>1. IdleOrg.kind = "update"
  BY DEF IdleOrg
<1>2. UNCHANGED pack => (AnyLive' => AnyLive)
  BY DEF AnyLive, Live, Row
<1>3. UNCHANGED <<req, via>> => ViaOK' /\ KeepsVia
  BY DEF OwnerInv, ViaOK, KeepsVia
<1>4. UNCHANGED org => KeepsSlugs
  BY DEF KeepsSlugs
<1>5. UNCHANGED hand => KeepsDeletes
  BY DEF KeepsDeletes, Deletes
<1>6. ASSUME NEW h \in OrgRequests, AnswerOrg(h) PROVE KeepsDeletes
  BY <1>1, <1>6 DEF AnswerOrg, KeepsDeletes, Deletes, OrgTypeOK
<1>7. ASSUME NEW u \in Users, NEW s \in Slugs, CreateOrg(u, s)
      PROVE  OwnerInv'
  <2>1. PICK o \in Orgs \ made :
          org' = [org EXCEPT ![o] = [NoOrg EXCEPT !.slug = s, !.role[u] = "owner"]]
    BY <1>7 DEF CreateOrg
  <2>2. org'[o].slug = s /\ ~Holds(o, Scope)
    BY <2>1 DEF OrgTypeOK, NoOrg, Holds, Exists
  <2>3. \A x \in Orgs : x # o => org'[x].slug = org[x].slug
    BY <2>1 DEF OrgTypeOK
  <2> QED
    BY <1>5, <1>7, <2>2, <2>3, TakeSlug DEF CreateOrg, vars
<1>8. ASSUME NEW h \in OrgRequests, NEW u \in Users, NEW kind \in OrgKinds,
             FindOrgIdBySlug(h, u, kind)
      PROVE  OwnerInv'
  <2>1. PICK o \in Orgs :
          /\ Exists(o)
          /\ hand' = [hand EXCEPT ![h] = [IdleOrg EXCEPT !.pc = "found", !.kind = kind,
                                            !.user = u, !.org = o, !.slug = org[o].slug]]
    BY <1>8 DEF FindOrgIdBySlug
  <2>2. /\ hand'[h].kind = kind /\ hand'[h].org = o /\ hand'[h].slug = org[o].slug
        /\ hand'[h].pc = "found"
        /\ \A g \in OrgRequests : g # h => hand'[g] = hand[g]
    BY <2>1 DEF OrgTypeOK, IdleOrg
  <2>3. UNCHANGED <<pack, req, via, org>> /\
        raced' = (raced \/ (kind = "delete" /\ \E r \in Requests : via[r] = o))
    BY <1>8, <2>2 DEF FindOrgIdBySlug, vars
  <2>4. CASE kind # "delete"
    <3>1. KeepsDeletes
      BY <2>2, <2>4 DEF KeepsDeletes, Deletes
    <3> QED
      BY <1>2, <1>3, <1>4, <2>3, <2>4, <3>1, OwnerFrame
  <2>5. CASE kind = "delete"
    <3>1. SlugsUnique' /\ ViaOK' /\ (AnyLive' <=> AnyLive)
      BY <2>3 DEF OwnerInv, SlugsUnique, ViaOK, Exists, AnyLive, Live, Row
    <3>2. ASSUME ~raced' PROVE NotRaced'
      <4>1. NotRaced /\ \A r \in Requests : via[r] # o
        BY <2>3, <2>5, <3>2 DEF OwnerInv
      <4>2. (AnyLive => Owned(Scope))' /\ \A r \in Requests : (via[r] \in Orgs => Holds(via[r], Scope))'
        BY <2>3, <3>1, <4>1 DEF NotRaced, Owned, Holds, Exists
      <4>3. ASSUME NEW g \in OrgRequests, Deletes(g)'
            PROVE  /\ \A r \in Requests : via'[r] # hand'[g].org
                   /\ (Holds(hand[g].org, Scope) /\ (hand[g].pc = "empty" \/ hand[g].slug # Scope)
                         => ~AnyLive)'
        <5>1. CASE g = h
          BY <2>2, <2>3, <4>1, <5>1 DEF Holds, Exists
        <5>2. CASE g # h
          <6>1. hand'[g] = hand[g] /\ Deletes(g)
            BY <2>2, <4>3, <5>2 DEF Deletes
          <6> QED
            BY <2>3, <3>1, <4>1, <6>1 DEF NotRaced, Holds, Exists
        <5> QED
          BY <5>1, <5>2
      <4> QED
        BY <4>2, <4>3 DEF NotRaced
    <3> QED
      BY <3>1, <3>2 DEF OwnerInv
  <2> QED
    BY <2>4, <2>5
<1>9. ASSUME NEW h \in OrgRequests, NEW s \in Slugs, UpdateOrg(h, s)
      PROVE  OwnerInv'
  <2> DEFINE o == hand[h].org
  <2>1. o \in Orgs /\ org[o] \in OrgRow /\ org[o].slug # None
    BY <1>9 DEF UpdateOrg, Doing, OrgTypeOK, Exists
  <2>2. org' = [org EXCEPT ![o] = [org[o] EXCEPT !.slug = s]]
    BY <1>9 DEF UpdateOrg
  <2>3. org'[o].slug = s /\ \A x \in Orgs : x # o => org'[x].slug = org[x].slug
    BY <2>1, <2>2 DEF OrgTypeOK, OrgRow
  <2>4. raced' = (raced \/ Holds(o, Scope))
    BY <1>9, <2>1 DEF UpdateOrg, Holds, Exists
  <2>5. KeepsDeletes /\ ~Owned(s) /\ UNCHANGED <<pack, req, via>>
    BY <1>6, <1>9 DEF UpdateOrg, vars
  <2> HIDE DEF o
  <2> QED
    BY <2>1, <2>3, <2>4, <2>5, TakeSlug
<1>10. ASSUME NEW h \in OrgRequests, NEW v \in Users, UpdateMemberRole(h, v)
       PROVE  OwnerInv'
  <2>1. KeepsSlugs
    BY <1>10 DEF UpdateMemberRole, KeepsSlugs, OrgTypeOK, OrgRow
  <2> QED
    BY <1>2, <1>3, <1>6, <1>10, <2>1, OwnerFrame DEF UpdateMemberRole, vars
<1>11. ASSUME NEW h \in OrgRequests, NEW v \in Users, InviteGate(h, v)
       PROVE  OwnerInv'
  <2>1. KeepsDeletes
    BY <1>11 DEF InviteGate, Doing, KeepsDeletes, Deletes, OrgTypeOK, OrgHandler
  <2> QED
    BY <1>2, <1>3, <1>4, <1>11, <2>1, OwnerFrame DEF InviteGate, vars
<1>12. ASSUME NEW h \in OrgRequests, InsertInvitation(h)
       PROVE  OwnerInv'
  <2>1. KeepsSlugs
    BY <1>12 DEF InsertInvitation, KeepsSlugs, OrgTypeOK, OrgRow
  <2> QED
    BY <1>2, <1>3, <1>6, <1>12, <2>1, OwnerFrame DEF InsertInvitation, vars
<1>13. ASSUME NEW h \in OrgRequests, NEW v \in Users, AcceptGate(h, v)
       PROVE  OwnerInv'
  <2>1. PICK o \in Orgs :
          hand' = [hand EXCEPT ![h] = [IdleOrg EXCEPT !.pc = "seat", !.kind = "accept",
                                         !.user = v, !.whom = v, !.org = o]]
    BY <1>13 DEF AcceptGate
  <2>2. KeepsDeletes
    BY <2>1 DEF IdleOrg, KeepsDeletes, Deletes, OrgTypeOK
  <2> QED
    BY <1>2, <1>3, <1>4, <1>13, <2>2, OwnerFrame DEF AcceptGate, vars
<1>14. ASSUME NEW h \in OrgRequests, InsertMember(h)
       PROVE  OwnerInv'
  <2>1. KeepsSlugs
    BY <1>14 DEF InsertMember, KeepsSlugs, OrgTypeOK, OrgRow
  <2> QED
    BY <1>2, <1>3, <1>6, <1>14, <2>1, OwnerFrame DEF InsertMember, vars
<1>15. ASSUME NEW h \in OrgRequests, CountOrgPacks(h)
       PROVE  OwnerInv'
  <2>1. CASE AnswerOrg(h)
    BY <1>2, <1>3, <1>4, <1>6, <1>15, <2>1, OwnerFrame DEF CountOrgPacks, vars
  <2>2. CASE hand' = [hand EXCEPT ![h].pc = "empty"] /\ ~(hand[h].slug = Scope /\ AnyLive)
    <3>1. KeepsDeletes
      BY <2>2 DEF KeepsDeletes, Deletes, OrgTypeOK, OrgHandler
    <3> QED
      BY <1>2, <1>3, <1>4, <1>15, <3>1, OwnerFrame DEF CountOrgPacks, vars
  <2> QED
    BY <1>15, <2>1, <2>2 DEF CountOrgPacks, AnyLive
<1>16. ASSUME NEW h \in OrgRequests, DeleteOrg(h)
       PROVE  OwnerInv'
  <2> DEFINE o == hand[h].org
  <2>1. Deletes(h) /\ hand[h].pc = "empty" /\ o \in Orgs /\ KeepsDeletes
    BY <1>6, <1>16, DeletesKnow DEF DeleteOrg, Doing, Deletes
  <2>2. org'[o].slug = None /\ \A x \in Orgs : x # o => org'[x] = org[x]
    BY <1>16, <2>1 DEF DeleteOrg, OrgTypeOK, NoOrg
  <2>3. UNCHANGED <<pack, req, via, raced>>
    BY <1>16 DEF DeleteOrg, vars
  <2> HIDE DEF o
  <2>4. SlugsUnique'
    <3> SUFFICES ASSUME NEW a \in Orgs, NEW b \in Orgs, a # b, org'[a].slug # None
                 PROVE  org'[a].slug # org'[b].slug
      BY DEF SlugsUnique, Exists
    <3>1. a # o /\ org'[a] = org[a]
      BY <2>2
    <3> QED
      BY <2>2, <3>1 DEF OwnerInv, SlugsUnique, Exists
  <2>5. ViaOK' /\ (AnyLive' <=> AnyLive)
    BY <2>3 DEF OwnerInv, ViaOK, AnyLive, Live, Row
  <2>6. ASSUME ~raced' PROVE NotRaced'
    <3>1. NotRaced
      BY <2>3, <2>6 DEF OwnerInv
    <3>2. \A x \in Orgs : x # o => (Holds(x, Scope)' <=> Holds(x, Scope))
      BY <2>2 DEF Holds, Exists
    <3>3. \A x \in Orgs : Holds(x, Scope)' => Holds(x, Scope)
      BY <2>2, <3>2 DEF Holds, Exists
    <3>4. Holds(o, Scope) => ~AnyLive
      BY <2>1, <3>1 DEF NotRaced, o
    <3>5. (AnyLive => Owned(Scope))'
      BY <2>5, <3>1, <3>2, <3>4 DEF NotRaced, Owned
    <3>6. \A r \in Requests : (via[r] \in Orgs => Holds(via[r], Scope))'
      <4>1. \A r \in Requests : via[r] # o
        BY <2>1, <3>1 DEF NotRaced, o
      <4> QED
        BY <2>3, <3>1, <3>2, <4>1 DEF NotRaced
    <3>7. ASSUME NEW g \in OrgRequests, Deletes(g)'
          PROVE  /\ \A r \in Requests : via'[r] # hand'[g].org
                 /\ (Holds(hand[g].org, Scope) /\ (hand[g].pc = "empty" \/ hand[g].slug # Scope)
                       => ~AnyLive)'
      <4>1. Deletes(g) /\ hand'[g].org = hand[g].org /\ hand'[g].slug = hand[g].slug
            /\ hand[g].org \in Orgs
        BY <2>1, <3>7, DeletesKnow DEF KeepsDeletes
      <4>2. hand'[g].pc = "empty" => hand[g].pc = "empty" \/ hand[g].slug # Scope \/ ~AnyLive
        BY <2>1, <3>7 DEF KeepsDeletes
      <4> QED
        BY <2>3, <2>5, <3>1, <3>3, <4>1, <4>2 DEF NotRaced
    <3> QED
      BY <3>5, <3>6, <3>7 DEF NotRaced
  <2> QED
    BY <2>4, <2>5, <2>6 DEF OwnerInv
<1>17. ASSUME NEW h \in OrgRequests, RefuseOrgRequest(h)
       PROVE  OwnerInv'
  BY <1>2, <1>3, <1>4, <1>6, <1>17, OwnerFrame DEF RefuseOrgRequest, vars
<1>18. ASSUME NEW r \in Requests, NEW o \in Orgs, NEW u \in Users, PublishTo(r, o, u)
       PROVE  OwnerInv'
  <2>1. UNCHANGED <<org, hand, pack>> /\ Holds(o, Scope) /\ via' = [via EXCEPT ![r] = o]
        /\ raced' = (raced \/ BeingDeleted(o))
    BY <1>18 DEF PublishTo, KeepsOrgs, ReceivePublish
  <2>2. \A q \in Requests : q # r => req'[q] = req[q]
    BY <1>18 DEF PublishTo, ReceivePublish, TypeOK
  <2>3. \A q \in Requests : via'[q] = IF q = r THEN o ELSE via[q]
    BY <2>1 DEF OwnerInv, ViaOK
  <2>4. SlugsUnique' /\ ViaOK' /\ (AnyLive' <=> AnyLive)
    BY <2>1, <2>2 DEF OwnerInv, ViaOK, SlugsUnique, Exists, AnyLive, Live, Row
  <2>5. ASSUME ~raced' PROVE NotRaced'
    <3>1. NotRaced /\ \A h \in OrgRequests : Deletes(h) => hand[h].org # o
      BY <2>1, <2>5 DEF OwnerInv, BeingDeleted, Deletes
    <3> QED
      BY <2>1, <2>3, <2>4, <3>1 DEF NotRaced, Owned, Holds, Exists, Deletes
  <2> QED
    BY <2>4, <2>5 DEF OwnerInv
<1>19. ASSUME NEW r \in Requests, CountPacksOf(r)
       PROVE  OwnerInv'
  <2>1. /\ CheckPlanLimit(r) \/ (At(r, "count") /\ Goto(r, "replace"))
        /\ UNCHANGED <<org, hand, pack, raced>>
        /\ via' = [via EXCEPT ![r] = IF req'[r].pc = "idle" THEN None ELSE @]
    BY <1>19 DEF CountPacksOf, KeepsOrgs, CheckPlanLimit
  <2>2. ViaOK' /\ KeepsVia
    BY <2>1, LocalsStep, PackFrame
  <2> QED
    BY <1>2, <1>4, <1>5, <2>1, <2>2, OwnerFrame
<1>20. ASSUME NEW r \in Requests, PackStep(r)
       PROVE  OwnerInv'
  <2>1. /\ UNCHANGED <<org, hand, raced>>
        /\ via' = [via EXCEPT ![r] = IF req'[r].pc = "idle" THEN None ELSE @]
    BY <1>20 DEF PackStep, KeepsOrgs
  <2>2. ViaOK' /\ KeepsVia
    BY <1>20, <2>1, LocalsStep, PackFrame DEF PackStep
  <2>3. CASE ReplaceTombstone(r) \/ Tombstone(r) \/ UNCHANGED pack
    BY <1>4, <1>5, <2>1, <2>2, <2>3, NothingComesAlive, OwnerFrame
  <2>4. CASE InsertPack(r)
    <3>1. via[r] \in Orgs
      BY <2>4 DEF InsertPack, At, OwnerInv, ViaOK
    <3>2. SlugsUnique'
      BY <2>1 DEF OwnerInv, SlugsUnique, Exists
    <3>3. ASSUME ~raced' PROVE NotRaced'
      <4>1. NotRaced /\ Holds(via[r], Scope) /\ Owned(Scope)
        BY <2>1, <3>1, <3>3 DEF OwnerInv, NotRaced, Owned
      <4>2. ASSUME NEW h \in OrgRequests, Deletes(h) PROVE ~Holds(hand[h].org, Scope)
        BY <3>1, <4>1, <4>2, DeletesKnow DEF NotRaced, OwnerInv, SlugsUnique, Holds
      <4>3. (AnyLive => Owned(Scope))'
        BY <2>1, <4>1 DEF Owned, Holds, Exists
      <4>4. \A q \in Requests : (via[q] \in Orgs => Holds(via[q], Scope))'
        BY <2>1, <2>2, <4>1, OrganizationAssumption DEF NotRaced, KeepsVia, Holds, Exists
      <4>5. ASSUME NEW h \in OrgRequests, Deletes(h)'
            PROVE  /\ \A q \in Requests : via'[q] # hand'[h].org
                   /\ ~Holds(hand[h].org, Scope)'
        <5>1. Deletes(h) /\ hand'[h].org = hand[h].org /\ hand[h].org # None
          BY <2>1, <4>5, DeletesKnow, OrganizationAssumption DEF Deletes
        <5>2. \A q \in Requests : via[q] # hand[h].org
          BY <4>1, <5>1 DEF NotRaced
        <5> QED
          BY <2>1, <2>2, <4>2, <5>1, <5>2 DEF KeepsVia, Holds, Exists
      <4> QED
        BY <4>3, <4>4, <4>5 DEF NotRaced
    <3> QED
      BY <2>2, <3>2, <3>3 DEF OwnerInv
  <2> QED
    BY <1>20, <2>3, <2>4 DEF PackStep, PackExists, ReadStored, EndEarly, ReceiveUnpublish
<1>21. CASE Restart
  <2>1. /\ UNCHANGED <<org, pack, raced>>
        /\ via' = [r \in Requests |-> None] /\ req' = [r \in Requests |-> IdleHandler]
        /\ hand' = [h \in OrgRequests |-> IdleOrg]
    BY <1>21 DEF Restart
  <2>2. ViaOK' /\ KeepsVia /\ KeepsDeletes
    BY <1>1, <2>1 DEF ViaOK, KeepsVia, IdleHandler, KeepsDeletes, Deletes
  <2> QED
    BY <1>2, <1>4, <2>1, <2>2, OwnerFrame
<1>22. CASE EnsureOfficialOrg
  <2>1. UNCHANGED <<pack, req, via, raced, hand>>
    BY <1>22 DEF EnsureOfficialOrg, vars
  <2>2. CASE Owned(OfficialSlug)
    BY <1>2, <1>3, <1>4, <1>5, <1>22, <2>1, <2>2, OwnerFrame DEF EnsureOfficialOrg
  <2>3. CASE ~Owned(OfficialSlug)
    <3>1. PICK o \in Orgs \ made : org' = [org EXCEPT ![o] = [NoOrg EXCEPT !.slug = OfficialSlug]]
      BY <1>22, <2>3 DEF EnsureOfficialOrg
    <3>2. org'[o].slug = OfficialSlug /\ ~Holds(o, Scope)
      BY <3>1 DEF OrgTypeOK, NoOrg, Holds, Exists
    <3>3. \A x \in Orgs : x # o => org'[x].slug = org[x].slug
      BY <3>1 DEF OrgTypeOK
    <3> QED
      BY <1>5, <2>1, <2>3, <3>2, <3>3, TakeSlug, OrganizationAssumption
  <2> QED
    BY <2>2, <2>3
<1>23. ASSUME NEW u \in Users, AddOwnerMember(u)
       PROVE  OwnerInv'
  <2>1. KeepsSlugs
    BY <1>23 DEF AddOwnerMember, KeepsSlugs, OrgTypeOK, OrgRow
  <2> QED
    BY <1>2, <1>3, <1>5, <1>23, <2>1, OwnerFrame DEF AddOwnerMember, vars
<1>24. CASE StartServing
  BY <1>2, <1>3, <1>4, <1>5, <1>24, OwnerFrame DEF StartServing, vars
<1>25. CASE UNCHANGED allVars
  BY <1>2, <1>3, <1>4, <1>5, <1>25, OwnerFrame DEF allVars, orgVars, vars
<1> QED
  BY <1>7, <1>8, <1>9, <1>10, <1>11, <1>12, <1>13, <1>14, <1>15, <1>16, <1>17, <1>18, <1>19,
     <1>20, <1>21, <1>22, <1>23, <1>24, <1>25 DEF OrgNext

\* A live pack is under the slug of some organization, unless a rename took
\* the slug away or a delete overlapped a publish.
THEOREM LivePacksAreOwned == OrgSpec => []PacksHaveOwner
<1>1. OrgInit => IInv /\ OwnerInv
  <2>1. Init => IInv
    BY InitPlaces
  <2>2. ASSUME OrgInit PROVE OwnerInv
    <3>1. /\ \A o \in Orgs : ~Exists(o)
          /\ \A h \in OrgRequests : ~Deletes(h)
          /\ \A r \in Requests : req[r].pc = "idle" /\ via[r] = None
          /\ via \in [Requests -> Orgs \union {None}]
          /\ \A p \in Packs : ~Live(p)
      BY <2>2 DEF OrgInit, Init, NoOrg, Exists, IdleOrg, Deletes, IdleHandler, NoPack, Live, Row
    <3> QED
      BY <3>1, OrganizationAssumption DEF OwnerInv, SlugsUnique, ViaOK, NotRaced, AnyLive
  <2> QED
    BY <2>1, <2>2 DEF OrgInit
<1>2. IInv => TypeOK
  BY DEF IInv
<1>3. MemberInv => OrgTypeOK
  BY DEF MemberInv
<1>4. OwnerInv => PacksHaveOwner
  BY DEF OwnerInv, NotRaced, PacksHaveOwner, AnyLive
<1> QED
  BY <1>1, <1>2, <1>3, <1>4, PackPart, InitMembers, MemberStep, OwnerStep, PTL DEF OrgSpec
=============================================================================
