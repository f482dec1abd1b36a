--------------------------- MODULE Organizations ---------------------------
(***************************************************************************)
(* Organizations, their members and their packs.  The /v1/orgs routes      *)
(* (auth/org-routes.ts) resolve a slug to an organization id and forward   *)
(* the request to Better-Auth, whose hooks (auth/better-auth.ts) count the *)
(* members against plan_limits.max_members; ensureOfficialOrg              *)
(* (auth/official-org.ts) creates the official organization at boot and    *)
(* grants its publishers.  The packs are those of PlanLimits, all under    *)
(* one slug, Scope: packs.scope names a slug, never an organization id.    *)
(* Better-Auth itself is external; the tables it writes are `org`.         *)
(***************************************************************************)
EXTENDS PlanLimits

CONSTANTS
    Orgs,           \* organization ids (uuids)
    Slugs,          \* slugs an organization may take
    Scope,          \* the slug the packs of PlanLimits are under
    OfficialSlug,   \* REGISTRY_OFFICIAL_ORG
    Publishers,     \* users REGISTRY_OFFICIAL_PUBLISHERS resolves to
    Users,
    OrgRequests,    \* handlers of /v1/orgs that may be in flight
    MemberLimit,    \* plan_limits.max_members
    MaxOrgRequests, \* bound: requests received, publishes among them
    MaxBoots        \* bound: restarts of the server

ASSUME OrganizationAssumption ==
    /\ {Scope, OfficialSlug} \subseteq Slugs /\ None \notin Slugs \union Orgs
    /\ Publishers \subseteq Users
    /\ IsFiniteSet(Users) /\ IsFiniteSet(OrgRequests) /\ OrgRequests # {}
    /\ MemberLimit \in Nat \ {0}
    /\ {MaxOrgRequests, MaxBoots} \subseteq Nat

VARIABLES
    org,        \* rows of organization, member and invitation, by id
    made,       \* organization ids handed out so far
    hand,       \* the locals of each /v1/orgs handler
    via,        \* org.id of each publish in flight
    boot,       \* where the server is: booting or serving
    spent,      \* how much of each bound has been spent
    late,       \* history: members granted at boot past max_members, by id
    raced       \* history: a rename took Scope away, or a delete of an
                \* organization overlapped a publish to it

orgVars == <<org, made, hand, via, boot, spent, late, raced>>
allVars == <<vars, orgVars>>

Roles == {"owner", "admin", "member"}
Manages(role) == role \in {"owner", "admin"}
NoOrg == [slug |-> None, role |-> [u \in Users |-> "none"], invited |-> {}]
OrgRow == [slug : Slugs \union {None}, role : [Users -> Roles \union {"none"}],
           invited : SUBSET Users]

Exists(o) == org[o].slug # None
Holds(o, s) == Exists(o) /\ org[o].slug = s
Owned(s) == \E o \in Orgs : Holds(o, s)
Members(o) == {u \in Users : org[o].role[u] # "none"}
Live(p) == Row(p) /\ ~pack[p].removed

\* What forwardToAuth still has to do: `user` acts on `org`; `whom` is invited.
OrgHandler == [pc : {"idle", "found", "empty", "seat"},
               kind : {"update", "invite", "accept", "role", "delete"},
               user : Users \union {None}, whom : Users \union {None},
               org : Orgs \union {None}, slug : Slugs \union {None}]
IdleOrg == [pc |-> "idle", kind |-> "update", user |-> None, whom |-> None,
            org |-> None, slug |-> None]

Serving == boot.at = "serving"
AnswerOrg(h) == hand' = [hand EXCEPT ![h] = IdleOrg]
Caller(h) == org[hand[h].org].role[hand[h].user]
Doing(h, pc, kind) == Serving /\ hand[h].pc = pc /\ hand[h].kind = kind

OrgKinds == {"update", "invite", "role", "delete"}
Received == spent.ops + submits
Submit == /\ Serving
          /\ Received < MaxOrgRequests
          /\ spent' = [spent EXCEPT !.ops = @ + 1]
-----------------------------------------------------------------------------
\* POST /v1/orgs, forwarded: the creator is its owner; slugs are unique.
CreateOrg(u, s) ==
    /\ Submit
    /\ ~Owned(s)
    /\ \E o \in Orgs \ made :
         /\ org' = [org EXCEPT ![o] = [NoOrg EXCEPT !.slug = s, !.role[u] = "owner"]]
         /\ made' = made \union {o}
    /\ UNCHANGED <<vars, hand, via, boot, late, raced>>

\* findOrgIdBySlug: 404 to anyone but a member, or the id.
FindOrgIdBySlug(h, u, kind) ==
    /\ hand[h].pc = "idle"
    /\ kind # "accept"
    /\ Submit
    /\ \E o \in Orgs :
         /\ Exists(o) /\ u \in Members(o)
         /\ hand' = [hand EXCEPT ![h] = [IdleOrg EXCEPT
                       !.pc = "found", !.kind = kind, !.user = u, !.org = o,
                       !.slug = org[o].slug]]
    /\ raced' = (raced \/ (kind = "delete" /\ \E r \in Requests : via[r] = hand'[h].org))
    /\ UNCHANGED <<vars, org, made, via, boot, late>>

\* PATCH /v1/orgs/:slug, forwarded: `slug` is one of the fields it accepts.
UpdateOrg(h, s) ==
    LET o == hand[h].org IN
    /\ Doing(h, "found", "update")
    /\ Exists(o) /\ Manages(Caller(h))
    /\ ~Owned(s)
    /\ org' = [org EXCEPT ![o].slug = s]
    /\ raced' = (raced \/ org[o].slug = Scope)
    /\ AnswerOrg(h)
    /\ UNCHANGED <<vars, made, via, boot, spent, late>>

\* POST .../update-member-role, forwarded: a member is made an admin or back.
UpdateMemberRole(h, v) ==
    LET o == hand[h].org IN
    /\ Doing(h, "found", "role")
    /\ Exists(o) /\ Manages(Caller(h))
    /\ org[o].role[v] \in {"member", "admin"}
    /\ org' = [org EXCEPT ![o].role[v] = IF @ = "admin" THEN "member" ELSE "admin"]
    /\ AnswerOrg(h)
    /\ UNCHANGED <<vars, made, via, boot, spent, late, raced>>

\* (Mutant: the hook compares with > as if it counted the new member.)
HasSeatLate(o) == Cardinality(Members(o)) <= MemberLimit

\* enforceMaxMembers: 403 at the limit; the row is inserted later.
HasSeat(o) == Cardinality(Members(o)) < MemberLimit

\* POST .../invite, forwarded, up to beforeCreateInvitation.
InviteGate(h, v) ==
    LET o == hand[h].org IN
    /\ Doing(h, "found", "invite")
    /\ Exists(o) /\ Manages(Caller(h)) /\ v \notin Members(o) \union org[o].invited
    /\ HasSeat(o)
    /\ hand' = [hand EXCEPT ![h].pc = "seat", ![h].whom = v]
    /\ UNCHANGED <<vars, org, made, via, boot, spent, late, raced>>

InsertInvitation(h) ==
    /\ Doing(h, "seat", "invite")
    /\ Exists(hand[h].org)
    /\ org' = [org EXCEPT ![hand[h].org].invited = @ \union {hand[h].whom}]
    /\ AnswerOrg(h)
    /\ UNCHANGED <<vars, made, via, boot, spent, late, raced>>

\* POST .../accept-invitation, forwarded, up to beforeAcceptInvitation.
AcceptGate(h, v) ==
    /\ hand[h].pc = "idle"
    /\ Submit
    /\ \E o \in Orgs :
         /\ Exists(o) /\ v \in org[o].invited
         /\ HasSeat(o)
         /\ hand' = [hand EXCEPT ![h] = [IdleOrg EXCEPT !.pc = "seat",
                       !.kind = "accept", !.user = v, !.whom = v, !.org = o]]
    /\ UNCHANGED <<vars, org, made, via, boot, late, raced>>

InsertMember(h) ==
    LET o == hand[h].org  v == hand[h].whom IN
    /\ Doing(h, "seat", "accept")
    /\ Exists(o)
    /\ org' = [org EXCEPT ![o].invited = @ \ {v},
                          ![o].role[v] = IF @ = "none" THEN "member" ELSE @]
    /\ AnswerOrg(h)
    /\ UNCHANGED <<vars, made, via, boot, spent, late, raced>>

\* (Mutant: only the private packs stand in the way.)
CountPrivatePacks(h) ==
    /\ Doing(h, "found", "delete")
    /\ IF hand[h].slug = Scope /\ (\E p \in Packs : PrivateLive(p))
         THEN AnswerOrg(h)
         ELSE hand' = [hand EXCEPT ![h].pc = "empty"]
    /\ UNCHANGED <<vars, org, made, via, boot, spent, late, raced>>

\* DELETE /v1/orgs/:slug, countOrgPacks: 409 while a pack under the slug of
\* the URL is live.
CountOrgPacks(h) ==
    /\ Doing(h, "found", "delete")
    /\ IF hand[h].slug = Scope /\ (\E p \in Packs : Live(p))
         THEN AnswerOrg(h)
         ELSE hand' = [hand EXCEPT ![h].pc = "empty"]
    /\ UNCHANGED <<vars, org, made, via, boot, spent, late, raced>>

\* ... and the delete itself, forwarded: owners only; members and
\* invitations go with it.
DeleteOrg(h) ==
    LET o == hand[h].org IN
    /\ Doing(h, "empty", "delete")
    /\ Exists(o) /\ Caller(h) = "owner"
    /\ org' = [org EXCEPT ![o] = NoOrg]
    /\ AnswerOrg(h)
    /\ UNCHANGED <<vars, made, via, boot, spent, late, raced>>

\* Better-Auth refuses what is forwarded, or a statement throws.
RefuseOrgRequest(h) ==
    /\ Serving /\ hand[h].pc # "idle"
    /\ AnswerOrg(h)
    /\ UNCHANGED <<vars, org, made, via, boot, spent, late, raced>>
-----------------------------------------------------------------------------
\* A delete of the organization is in flight.
BeingDeleted(o) == \E h \in OrgRequests : hand[h].kind = "delete" /\ hand[h].org = o
KeepsOrgs == UNCHANGED <<org, made, hand, boot, spent, late>>

\* POST /v1/publish resolves the organization and the caller's role first.
PublishTo(r, o, u) ==
    /\ Serving
    /\ Received < MaxOrgRequests
    /\ Holds(o, Scope) /\ Manages(org[o].role[u])
    /\ ReceivePublish(r)
    /\ via' = [via EXCEPT ![r] = o]
    /\ raced' = (raced \/ BeingDeleted(o))
    /\ KeepsOrgs

\* checkPlanLimit reads the organization by its id: it throws if that is gone,
\* and counts the packs under the slug it has now.
CountPacksOf(r) ==
    /\ Serving /\ At(r, "count") /\ Exists(via[r])
    /\ IF Holds(via[r], Scope)
         THEN CheckPlanLimit(r)
         ELSE Goto(r, "replace") /\ UNCHANGED <<pack, submits, nextId>>
    /\ via' = [via EXCEPT ![r] = IF req'[r].pc = "idle" THEN None ELSE @]
    /\ UNCHANGED raced /\ KeepsOrgs

\* The rest of a publish never looks at the organization again; an unpublish
\* looks at the caller's role first.
PackStep(r) ==
    /\ Serving
    /\ \/ PackExists(r) \/ ReplaceTombstone(r) \/ ReadStored(r) \/ InsertPack(r)
       \/ Tombstone(r) \/ EndEarly(r)
       \/ /\ \E o \in Orgs, u \in Users : Holds(o, Scope) /\ Manages(org[o].role[u])
          /\ ReceiveUnpublish(r)
    /\ via' = [via EXCEPT ![r] = IF req'[r].pc = "idle" THEN None ELSE @]
    /\ UNCHANGED raced /\ KeepsOrgs

-----------------------------------------------------------------------------
\* The process ends, at boot or later; what it was doing is lost.
Restart ==
    /\ spent.boots < MaxBoots
    /\ spent' = [spent EXCEPT !.boots = @ + 1]
    /\ boot' = [at |-> "ensure", left |-> Publishers]
    /\ req' = [r \in Requests |-> IdleHandler]
    /\ via' = [r \in Requests |-> None]
    /\ hand' = [h \in OrgRequests |-> IdleOrg]
    /\ UNCHANGED <<pack, submits, nextId, org, made, late, raced>>

\* ensureOfficialOrg: SELECT, then INSERT of an organization without members.
EnsureOfficialOrg ==
    /\ boot.at = "ensure"
    /\ IF Owned(OfficialSlug)
         THEN UNCHANGED <<org, made>>
         ELSE \E o \in Orgs \ made :
                /\ org' = [org EXCEPT ![o] = [NoOrg EXCEPT !.slug = OfficialSlug]]
                /\ made' = made \union {o}
    /\ boot' = [boot EXCEPT !.at = "grant"]
    /\ UNCHANGED <<vars, hand, via, spent, late, raced>>

\* (Mutant: INSERT ... WHERE NOT EXISTS without the UPDATE before it.)
InsertOwnerMember(u) ==
    /\ boot.at = "grant" /\ u \in boot.left
    /\ org' = [o \in Orgs |-> IF Holds(o, OfficialSlug) /\ org[o].role[u] = "none"
                                THEN [org[o] EXCEPT !.role[u] = "owner"] ELSE org[o]]
    /\ boot' = [boot EXCEPT !.left = @ \ {u}]
    /\ UNCHANGED <<vars, made, hand, via, spent, late, raced>>

\* addOwnerMember, for one publisher: UPDATE the row, or INSERT it.
AddOwnerMember(u) ==
    /\ boot.at = "grant" /\ u \in boot.left
    /\ org' = [o \in Orgs |-> IF Holds(o, OfficialSlug)
                                THEN [org[o] EXCEPT !.role[u] = "owner"] ELSE org[o]]
    /\ late' = [o \in Orgs |->
                  IF Holds(o, OfficialSlug) /\ org[o].role[u] = "none" /\ ~HasSeat(o)
                    THEN late[o] \union {u} ELSE late[o]]
    /\ boot' = [boot EXCEPT !.left = @ \ {u}]
    /\ UNCHANGED <<vars, made, hand, via, spent, raced>>

StartServing ==
    /\ boot.at = "grant" /\ boot.left = {}
    /\ boot' = [boot EXCEPT !.at = "serving"]
    /\ UNCHANGED <<vars, org, made, hand, via, spent, late, raced>>

OrgInit ==
    /\ Init
    /\ org = [o \in Orgs |-> NoOrg]
    /\ made = {}
    /\ hand = [h \in OrgRequests |-> IdleOrg]
    /\ via = [r \in Requests |-> None]
    /\ boot = [at |-> "ensure", left |-> Publishers]
    /\ spent = [ops |-> 0, boots |-> 0]
    /\ late = [o \in Orgs |-> {}]
    /\ raced = FALSE

OrgNext ==
    \/ \E u \in Users, s \in Slugs : CreateOrg(u, s)
    \/ \E h \in OrgRequests :
         \/ \E u \in Users, kind \in OrgKinds : FindOrgIdBySlug(h, u, kind)
         \/ \E s \in Slugs : UpdateOrg(h, s)
         \/ \E v \in Users : UpdateMemberRole(h, v) \/ InviteGate(h, v) \/ AcceptGate(h, v)
         \/ InsertInvitation(h) \/ InsertMember(h)
         \/ CountOrgPacks(h) \/ DeleteOrg(h) \/ RefuseOrgRequest(h)
    \/ \E r \in Requests :
         \/ \E o \in Orgs, u \in Users : PublishTo(r, o, u)
         \/ CountPacksOf(r) \/ PackStep(r)
    \/ \E u \in Users : AddOwnerMember(u)
    \/ Restart \/ EnsureOfficialOrg \/ StartServing

OrgSpec == OrgInit /\ [][OrgNext]_allVars
-----------------------------------------------------------------------------
Seats(o) == {h \in OrgRequests : hand[h].pc = "seat" /\ hand[h].kind = "accept"
                                /\ hand[h].org = o}

\* Invitations are accepted by handlers that count the members first and
\* insert one later: an organization goes over max_members, but by no more
\* than the handlers beside the last one to count, publishers granted past the
\* limit at boot apart (auth/better-auth.ts:350).
MembersBounded == \A o \in Orgs :
    Cardinality(Members(o) \ late[o]) + Cardinality(Seats(o))
        <= MemberLimit + Cardinality(OrgRequests) - 1

\* org-routes.ts:441 "orgs that own published packs cannot be deleted": a
\* live pack is under the slug of some organization, unless a rename took the
\* slug away or a delete overlapped a publish.  (Each of the two really loses
\* it.)
PacksHaveOwner ==
    (~raced /\ \E p \in Packs : Live(p)) => Owned(Scope)

\* official-org.ts:97-110: whatever happened to the official organization
\* and its members, and wherever the last boot was cut short, a server that
\* starts serving has one, and all its publishers are owners of it.
BootRestoresOfficial ==
    [][boot.at = "grant" /\ boot'.at = "serving" =>
         \E o \in Orgs : /\ Holds(o, OfficialSlug)
                         /\ \A u \in Publishers : org[o].role[u] = "owner"]_allVars
=============================================================================
