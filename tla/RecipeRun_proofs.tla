-------------------------- MODULE RecipeRun_proofs --------------------------
(***************************************************************************)
(* One run of a recipe, alone on its project, over any number of files, of *)
(* file operations and of faults: what the engine knows at every point is  *)
(* enough to restore the files, and a run that failed left no trace.  Then *)
(* the saga over such runs, for plans of any length: it compensates        *)
(* every completed step, and restores what no receipt still names.         *)
(* recipe.ts may write past ctx.files, but what it addresses through       *)
(* ctx.files it has not created from a template or written past it.        *)
(***************************************************************************)
EXTENDS RecipeSaga, FiniteSetTheorems, TLAPS

LEMMA TreeTypes ==
    /\ EmptyTree \in ProjectTrees /\ NoRollback \in Rollbacks /\ FreshApi \in Apis
    /\ IdleRun \in RunRecord
BY DEF EmptyTree, ProjectTrees, Content, NoRollback, Rollbacks, FreshApi, Apis, IdleRun, RunRecord,
   Phases, Policies

LEMMA RevertType ==
    ASSUME NEW tree \in ProjectTrees, NEW rb \in Rollbacks
    PROVE  /\ RevertFiles(tree, rb) \in ProjectTrees
           /\ PartialReverts(tree, rb) \subseteq ProjectTrees
<1>1. RevertFiles(tree, rb) \in ProjectTrees
  BY DEF RevertFiles, ProjectTrees, Content, Rollbacks, Restorable
<1>2. ASSUME NEW gone \in SUBSET rb.created
      PROVE  [p \in Paths |-> IF p \in gone THEN Absent ELSE tree[p]] \in ProjectTrees
  BY DEF ProjectTrees, Content
<1>3. ASSUME NEW back \in SUBSET Restorable(rb)
      PROVE  [p \in Paths |-> IF p \in back THEN rb.overwritten[p]
                              ELSE IF p \in rb.created THEN Absent ELSE tree[p]] \in ProjectTrees
  BY DEF ProjectTrees, Content, Rollbacks, Restorable
<1> QED
  BY <1>1, <1>2, <1>3 DEF PartialReverts

\* A revert after a revert that gave up is the whole revert.
LEMMA RevertAgain ==
    ASSUME NEW tree \in ProjectTrees, NEW rb \in Rollbacks, NEW half \in PartialReverts(tree, rb)
    PROVE  RevertFiles(half, rb) = RevertFiles(tree, rb)
<1>1. ASSUME NEW p \in Paths, p \notin Restorable(rb), p \notin rb.created
      PROVE  half[p] = tree[p]
  BY <1>1 DEF PartialReverts
<1> QED
  BY <1>1 DEF RevertFiles

LEMMA PlanTypes ==
    ASSUME NEW tree \in ProjectTrees, NEW rendered \in ProjectTrees, NEW found \in ProjectTrees,
           NEW S \in SUBSET Paths
    PROVE  /\ TreeAfterPlan(tree, rendered, S) \in ProjectTrees
           /\ PlanRollback(found, S) \in Rollbacks
BY DEF TreeAfterPlan, PlanRollback, ProjectTrees, Content, Rollbacks

\* What a call of ctx.files does to a tree and to what the API remembers.
LEMMA TouchApi ==
    ASSUME NEW a \in Apis, NEW tree \in ProjectTrees, NEW p \in Paths
    PROVE  LET t == Touch(a, tree, p) IN
           /\ t \in Apis /\ t.touched = a.touched \union {p} /\ t.changed = a.changed
           /\ \A q \in Paths : t.initial[q] = IF q = p /\ p \notin a.touched THEN tree[p]
                                                                           ELSE a.initial[q]
BY DEF Touch, Apis, ProjectTrees, Content

Remembers(new, a, tree, p) ==
    /\ new \in Apis
    /\ new.touched = a.touched \union {p}
    /\ new.changed \in {a.changed, a.changed \union {p}}
    /\ \A q \in Paths : new.initial[q] = IF q = p /\ p \notin a.touched THEN tree[p]
                                                                      ELSE a.initial[q]

LEMMA WriteApi ==
    ASSUME NEW a \in Apis, NEW tree \in ProjectTrees, NEW p \in Paths, NEW b \in Bytes,
           NEW policy \in Policies
    PROVE  /\ Remembers(ApiAfterWrite(a, tree, p, b, policy), a, tree, p)
           /\ TreeAfterWrite(tree, p, b, policy) \in ProjectTrees
           /\ \A q \in Paths : TreeAfterWrite(tree, p, b, policy)[q] # tree[q] =>
                q = p /\ p \in ApiAfterWrite(a, tree, p, b, policy).changed
<1> DEFINE t == Touch(a, tree, p)
           op == WriteOp(tree[p], b, policy)
           new == ApiAfterWrite(a, tree, p, b, policy)
<1>1. /\ t \in Apis /\ t.touched = a.touched \union {p} /\ t.changed = a.changed
      /\ \A q \in Paths : t.initial[q] = IF q = p /\ p \notin a.touched THEN tree[p]
                                                                      ELSE a.initial[q]
  BY TouchApi
<1>2. new = CASE op = "throw" -> t
              [] op = "unchanged" -> [t EXCEPT !.skipped = @ \ {p}]
              [] op = "skip" -> [t EXCEPT !.skipped = @ \union {p}]
              [] OTHER -> [t EXCEPT !.skipped = @ \ {p}, !.changed = @ \union {p}]
  BY DEF ApiAfterWrite
<1> HIDE DEF t, new
<1>3. \/ new = t \/ new = [t EXCEPT !.skipped = t.skipped \ {p}]
      \/ new = [t EXCEPT !.skipped = t.skipped \union {p}]
      \/ new = [t EXCEPT !.skipped = t.skipped \ {p}, !.changed = t.changed \union {p}]
  BY <1>2
<1>4. Remembers(new, a, tree, p)
  BY <1>1, <1>3 DEF Remembers, Apis
<1>5. op \in {"create", "update"} => new = [t EXCEPT !.skipped = t.skipped \ {p},
                                                     !.changed = t.changed \union {p}]
  BY <1>2
<1>6. TreeAfterWrite(tree, p, b, policy) \in ProjectTrees
  BY DEF TreeAfterWrite, ProjectTrees, Content
<1>7. \A q \in Paths : TreeAfterWrite(tree, p, b, policy)[q] # tree[q] =>
        q = p /\ op \in {"create", "update"}
  BY DEF TreeAfterWrite, Writes, ProjectTrees
<1>8. op \in {"create", "update"} => p \in new.changed
  BY <1>1, <1>5 DEF Apis
<1> QED
  BY <1>4, <1>6, <1>7, <1>8 DEF new

LEMMA RemoveApi ==
    ASSUME NEW a \in Apis, NEW tree \in ProjectTrees, NEW p \in Paths
    PROVE  /\ Remembers(ApiAfterRemove(a, tree, p), a, tree, p)
           /\ TreeAfterRemove(tree, p) \in ProjectTrees
<1> DEFINE t == Touch(a, tree, p)
           new == ApiAfterRemove(a, tree, p)
<1>1. /\ t \in Apis /\ t.touched = a.touched \union {p} /\ t.changed = a.changed
      /\ \A q \in Paths : t.initial[q] = IF q = p /\ p \notin a.touched THEN tree[p]
                                                                      ELSE a.initial[q]
  BY TouchApi
<1>2. \/ new = t
      \/ new = [t EXCEPT !.skipped = t.skipped \ {p}, !.changed = t.changed \union {p}]
  BY DEF ApiAfterRemove
<1> HIDE DEF t, new
<1>3. Remembers(new, a, tree, p)
  BY <1>1, <1>2 DEF Remembers, Apis
<1>4. TreeAfterRemove(tree, p) \in ProjectTrees
  BY DEF TreeAfterRemove, ProjectTrees, Content
<1> QED
  BY <1>3, <1>4 DEF new

-----------------------------------------------------------------------------
(* What a run knows                                                         *)

\* After the plan: the bytes of every path are in the rollback or in the tree
\* recipe.ts starts from.
PlanKnown(r) == \A p \in Paths :
    IF run[r].comp.overwritten[p] # Absent THEN run[r].comp.overwritten[p] = base[r][p]
    ELSE IF p \in run[r].comp.created THEN base[r][p] = Absent
    ELSE run[r].before[p] = base[r][p]

\* ... and ctx.files remembers that tree, at the paths it was asked for.
ApiKnown(r) ==
    /\ run[r].api.changed \subseteq run[r].api.touched
    /\ \A p \in run[r].api.touched :
         run[r].api.initial[p] = run[r].before[p] /\ p \notin run[r].comp.created

\* What both remember of a path: the plan's bytes come first.
LEMMA KnownParts ==
    ASSUME TypeOK, NEW r \in Runs
    PROVE  /\ Known(r).created = run[r].comp.created
                \union {p \in run[r].api.changed : run[r].api.initial[p] = Absent}
                \union CreatedBetween(run[r].before, disk)
           /\ \A p \in Paths : Known(r).overwritten[p] =
                IF run[r].comp.overwritten[p] # Absent THEN run[r].comp.overwritten[p]
                ELSE IF p \in run[r].api.changed THEN run[r].api.initial[p] ELSE Absent
           /\ Known(r) \in Rollbacks
<1> DEFINE comp == run[r].comp
           api == run[r].api
           before == run[r].before
           known == Known(r)
<1>1. /\ comp \in Rollbacks /\ api \in Apis /\ before \in ProjectTrees /\ disk \in ProjectTrees
  BY DEF TypeOK, RunRecord
<1>2. known.created = comp.created
        \union {p \in api.changed : api.initial[p] = Absent} \union CreatedBetween(before, disk)
  BY DEF Known, MergeRollbacks, RecipeRollback, Journal
<1>3. \A p \in Paths : known.overwritten[p] =
        IF comp.overwritten[p] # Absent THEN comp.overwritten[p]
        ELSE IF p \in api.changed THEN api.initial[p] ELSE Absent
  BY DEF Known, MergeRollbacks, RecipeRollback, Journal, Restorable, EmptyTree
<1>4. known \in Rollbacks
  <2>1. known = [created |-> known.created, overwritten |-> known.overwritten]
        /\ known.overwritten = [p \in Paths |-> known.overwritten[p]]
    BY DEF Known, MergeRollbacks
  <2>2. known.created \subseteq Paths
    BY <1>1, <1>2 DEF Rollbacks, Apis, CreatedBetween
  <2>3. \A p \in Paths : known.overwritten[p] \in Content
    BY <1>1, <1>3 DEF Rollbacks, Apis, ProjectTrees, Content
  <2> HIDE DEF known
  <2>4. known.overwritten \in ProjectTrees
    BY <2>1, <2>3 DEF ProjectTrees
  <2> QED
    BY <2>1, <2>2, <2>4 DEF Rollbacks
<1> QED
  BY <1>2, <1>3, <1>4

\* Both together undo recipe.ts, but for what it changed past ctx.files.
LEMMA KnownRestores ==
    ASSUME TypeOK, NEW r \in Runs, PlanKnown(r), ApiKnown(r)
    PROVE  /\ BackAt(RevertFiles(disk, Known(r)), r, ChangedBetween(run[r].before, disk))
           /\ BackAt(RevertFiles(disk, Known(r)), r,
                     ChangedBetween(run[r].before, disk) \ Restorable(Known(r)))
           /\ Known(r) \in Rollbacks
<1> DEFINE comp == run[r].comp
           api == run[r].api
           before == run[r].before
           known == Known(r)
<1>1. /\ comp \in Rollbacks /\ api \in Apis /\ before \in ProjectTrees /\ disk \in ProjectTrees
      /\ base[r] \in ProjectTrees
  BY DEF TypeOK, RunRecord
<1>2. known.created = comp.created
        \union {p \in api.changed : api.initial[p] = Absent} \union CreatedBetween(before, disk)
  BY KnownParts
<1>3. \A p \in Paths : known.overwritten[p] =
        IF comp.overwritten[p] # Absent THEN comp.overwritten[p]
        ELSE IF p \in api.changed THEN api.initial[p] ELSE Absent
  BY KnownParts
<1>4. known \in Rollbacks
  BY KnownParts
<1>5. ASSUME NEW p \in Paths
      PROVE  \/ RevertFiles(disk, known)[p] = base[r][p]
             \/ p \in ChangedBetween(before, disk) /\ p \notin Restorable(known)
  <2> HIDE DEF known
  <2>1. RevertFiles(disk, known)[p] = IF known.overwritten[p] # Absent THEN known.overwritten[p]
                                      ELSE IF p \in known.created THEN Absent ELSE disk[p]
    BY DEF RevertFiles, Restorable
  <2>2. p \in Restorable(known) <=> known.overwritten[p] # Absent
    BY DEF Restorable
  <2>3. CASE comp.overwritten[p] # Absent
    BY <1>3, <2>1, <2>3 DEF PlanKnown
  <2>4. CASE comp.overwritten[p] = Absent /\ p \in api.changed
    <3>1. api.initial[p] = base[r][p]
      BY <2>4 DEF PlanKnown, ApiKnown
    <3>2. known.overwritten[p] = base[r][p] /\ (base[r][p] = Absent => p \in known.created)
      BY <1>2, <1>3, <2>4, <3>1
    <3> QED
      BY <2>1, <3>2
  <2>5. CASE comp.overwritten[p] = Absent /\ p \notin api.changed
    <3>1. known.overwritten[p] = Absent
      BY <1>3, <2>5
    <3>2. CASE p \in comp.created
      BY <1>2, <2>1, <2>5, <3>1, <3>2 DEF PlanKnown
    <3>3. CASE p \notin comp.created
      <4>1. before[p] = base[r][p]
        BY <2>5, <3>3 DEF PlanKnown
      <4>2. p \in known.created <=> before[p] = Absent /\ disk[p] # Absent
        BY <1>2, <2>5, <3>3 DEF CreatedBetween
      <4> QED
        BY <2>1, <2>2, <3>1, <4>1, <4>2 DEF ChangedBetween
    <3> QED
      BY <3>2, <3>3
  <2> QED
    BY <2>3, <2>4, <2>5
<1> HIDE DEF known
<1>6. BackAt(RevertFiles(disk, known), r, ChangedBetween(before, disk))
  BY <1>5 DEF BackAt
<1>7. BackAt(RevertFiles(disk, known), r, ChangedBetween(before, disk) \ Restorable(known))
  BY <1>5 DEF BackAt
<1> QED
  BY <1>4, <1>6, <1>7 DEF known

\* Nothing to undo.
LEMMA RevertNothing ==
    ASSUME NEW tree \in ProjectTrees
    PROVE  RevertFiles(tree, NoRollback) = tree /\ PartialReverts(tree, NoRollback) \subseteq {tree}
<1>1. Restorable(NoRollback) = {}
  BY DEF Restorable, NoRollback, EmptyTree
<1>2. tree = [p \in Paths |-> tree[p]]
  BY DEF ProjectTrees
<1>3. RevertFiles(tree, NoRollback) = tree
  BY <1>1, <1>2 DEF RevertFiles, NoRollback
<1>4. ASSUME NEW half \in PartialReverts(tree, NoRollback) PROVE half = tree
  BY <1>1, <1>2, <1>4 DEF PartialReverts, NoRollback
<1> QED
  BY <1>3, <1>4

\* A plan is undone by its rollback, whichever of its files were written.
LEMMA PlanUndone ==
    ASSUME NEW tree \in ProjectTrees, NEW rendered \in ProjectTrees, NEW found \in ProjectTrees,
           NEW S \in SUBSET Paths,
           \A p \in S : rendered[p] # Absent /\ found[p] = tree[p]
    PROVE  /\ RevertFiles(TreeAfterPlan(tree, rendered, S), PlanRollback(found, S)) = tree
           /\ \A p \in Paths :
                IF PlanRollback(found, S).overwritten[p] # Absent
                  THEN PlanRollback(found, S).overwritten[p] = tree[p]
                ELSE IF p \in PlanRollback(found, S).created THEN tree[p] = Absent
                ELSE TreeAfterPlan(tree, rendered, S)[p] = tree[p]
<1>1. \A p \in Paths : PlanRollback(found, S).overwritten[p] = IF p \in S THEN found[p] ELSE Absent
  BY DEF PlanRollback
<1>2. PlanRollback(found, S).created = {p \in S : found[p] = Absent}
  BY DEF PlanRollback
<1>3. \A p \in Paths : TreeAfterPlan(tree, rendered, S)[p] = IF p \in S THEN rendered[p] ELSE tree[p]
  BY DEF TreeAfterPlan
<1>4. ASSUME NEW p \in Paths
      PROVE  RevertFiles(TreeAfterPlan(tree, rendered, S), PlanRollback(found, S))[p] = tree[p]
  BY <1>1, <1>2, <1>3 DEF RevertFiles, Restorable
<1>5. RevertFiles(TreeAfterPlan(tree, rendered, S), PlanRollback(found, S)) = tree
  BY <1>4 DEF RevertFiles, ProjectTrees
<1> QED
  BY <1>1, <1>2, <1>3, <1>5

-----------------------------------------------------------------------------
(* The invariant of a run alone on its project                              *)

\* Until the plan is written the tree is the one the run began with; while
\* recipe.ts runs, plan and API account for it, or, in a dry run, the tree
\* hashed before; from then on the rollback does; and what is left when there
\* is none is that tree again, but for what is named or past ctx.files.
Restores(r, S) == BackAt(RevertFiles(disk, run[r].comp), r, S)
RunInv(r) ==
    /\ run[r].pc \in {"begin", "slots", "apply"} =>
         BackAt(disk, r, {}) /\ run[r].comp = NoRollback /\ run[r].api = FreshApi
    /\ At(r, "apply") => \A p \in Paths :
         run[r].found[p] = IF run[r].rendered[p] # Absent THEN disk[p] ELSE Absent
    /\ At(r, "recipe") =>
         IF run[r].dry THEN BackAt(run[r].before, r, {}) ELSE PlanKnown(r) /\ ApiKnown(r)
    /\ At(r, "clean") => run[r].dry /\ Restores(r, run[r].warned)
    /\ ~run[r].dry /\ run[r].pc \in {"compensate", "rollback", "finish", "ok", "failed"} =>
         \/ Restores(r, run[r].past)
         \/ At(r, "failed") /\ run[r].comp = NoRollback
    /\ run[r].pc \in {"compensate", "rollback", "finish"} => ~run[r].dry
    /\ spent.torn = 0 /\ (At(r, "undone") \/ (At(r, "failed") /\ run[r].comp = NoRollback)) =>
         BackAt(disk, r, run[r].warned \union run[r].past)

LEMMA Advance ==
    ASSUME TypeOK, NEW r \in Runs, NEW l \in RunRecord, run' = [run EXCEPT ![r] = l],
           disk' \in ProjectTrees, UNCHANGED base,
           UNCHANGED spent \/ Fault \/ TornFault
    PROVE  TypeOK' /\ run'[r] = l /\ base'[r] = base[r]
<1>1. spent' \in [faults : 0..MaxFaults, torn : 0..MaxTorn]
  BY RunAssumption DEF TypeOK, Fault, TornFault
<1> QED
  BY <1>1 DEF TypeOK

\* A fault that leaves nothing half done.
LEMMA FaultTorn ==
    ASSUME TypeOK, UNCHANGED spent \/ Fault
    PROVE  spent'.torn = spent.torn
BY DEF TypeOK, Fault

LEMMA ReturnedType ==
    ASSUME NEW r \in Runs, run[r] \in RunRecord, NEW outcome \in {"ok", "failed"}
    PROVE  /\ Returned(r, outcome) \in RunRecord
           /\ Returned(r, outcome).pc = outcome /\ Returned(r, outcome).comp = run[r].comp
           /\ Returned(r, outcome).past = run[r].past /\ Returned(r, outcome).dry = run[r].dry
           /\ Returned(r, outcome).warned = run[r].warned
           /\ \A warned \in SUBSET Paths :
                LET l == [Returned(r, "failed") EXCEPT !.comp = NoRollback, !.warned = warned] IN
                /\ l \in RunRecord /\ l.pc = "failed" /\ l.comp = NoRollback
                /\ l.past = run[r].past /\ l.warned = warned /\ l.dry = run[r].dry
BY TreeTypes DEF Returned, RunRecord, Phases

\* The steps of one call of runRecipe, and of the undo of its receipt.
CallNext(r) ==
    \/ \E policy \in Policies, dry, code \in BOOLEAN : BeginRun(r, policy, dry, code)
    \/ RunStep(r)
    \/ UndoRun(r)
    \/ UndoFails(r)

\* They keep the invariant of their call, as long as no other call is at work.
LEMMA CallStep ==
    ASSUME NEW r \in Runs, ~Mixes
    PROVE  TypeOK /\ RunInv(r) /\ [CallNext(r)]_vars => TypeOK' /\ RunInv(r)'
<1> SUFFICES ASSUME TypeOK, RunInv(r), [CallNext(r)]_vars PROVE TypeOK' /\ RunInv(r)'
  OBVIOUS
<1>0. /\ r \in Runs /\ run[r] \in RunRecord /\ disk \in ProjectTrees
      /\ base[r] \in ProjectTrees /\ run \in [Runs -> RunRecord]
  BY DEF TypeOK
<1>1. ASSUME NEW policy \in Policies, NEW dry \in BOOLEAN, NEW code \in BOOLEAN,
             BeginRun(r, policy, dry, code)
      PROVE  TypeOK' /\ RunInv(r)'
  <2>1. PICK rendered \in ProjectTrees :
          run' = [run EXCEPT ![r] = [IdleRun EXCEPT !.pc = "begin", !.policy = policy,
                                       !.dry = dry, !.code = code, !.rendered = rendered]]
    BY <1>1 DEF BeginRun
  <2> DEFINE l == [IdleRun EXCEPT !.pc = "begin", !.policy = policy, !.dry = dry, !.code = code,
                                  !.rendered = rendered]
  <2>2. l \in RunRecord
    BY TreeTypes DEF RunRecord, Phases
  <2>3. l.pc = "begin" /\ l.comp = NoRollback /\ l.api = FreshApi
    BY DEF IdleRun
  <2>4. UNCHANGED <<disk, spent>> /\ base' = [base EXCEPT ![r] = disk]
    BY <1>1 DEF BeginRun
  <2> HIDE DEF l
  <2>5. TypeOK' /\ run'[r] = l /\ base'[r] = disk
    BY <1>0, <2>1, <2>2, <2>4 DEF TypeOK, l
  <2> QED
    BY <2>3, <2>4, <2>5 DEF RunInv, At, BackAt
<1>2. CASE CheckTargets(r) \/ RefuseRun(r)
  <2>1. /\ UNCHANGED <<disk, base, spent>> /\ run[r].pc \in {"begin", "slots"}
        /\ Return(r, "failed") \/ (At(r, "begin") /\ Then(r, "slots"))
    BY <1>2 DEF CheckTargets, RefuseRun, At
  <2>2. BackAt(disk, r, {}) /\ run[r].comp = NoRollback /\ run[r].api = FreshApi
    BY <2>1 DEF RunInv
  <2>3. CASE Return(r, "failed")
    <3> DEFINE l == Returned(r, "failed")
    <3>1. /\ l \in RunRecord /\ l.pc = "failed" /\ l.comp = NoRollback
      BY <1>0, <2>2, ReturnedType
    <3>2. run' = [run EXCEPT ![r] = l]
      BY <2>3 DEF Return
    <3> HIDE DEF l
    <3>3. TypeOK' /\ run'[r] = l
      BY <1>0, <2>1, <3>1, <3>2, Advance
    <3> QED
      BY <2>1, <2>2, <3>1, <3>3 DEF RunInv, At, BackAt
  <2>4. CASE Then(r, "slots")
    <3> DEFINE l == [run[r] EXCEPT !.pc = "slots"]
    <3>1. l \in RunRecord /\ l.pc = "slots" /\ l.comp = NoRollback /\ l.api = FreshApi
      BY <1>0, <2>2 DEF RunRecord, Phases
    <3>2. run' = [run EXCEPT ![r] = l]
      BY <2>4 DEF Then
    <3> HIDE DEF l
    <3>3. TypeOK' /\ run'[r] = l
      BY <1>0, <2>1, <3>1, <3>2, Advance
    <3> QED
      BY <2>1, <2>2, <3>1, <3>3 DEF RunInv, At, BackAt
  <2> QED
    BY <2>1, <2>3, <2>4
<1>3. CASE PlanRun(r)
  <2> DEFINE found == [p \in Paths |-> IF run[r].rendered[p] # Absent THEN disk[p] ELSE Absent]
             l == [run[r] EXCEPT !.pc = "apply", !.found = found]
  <2>1. BackAt(disk, r, {}) /\ run[r].comp = NoRollback /\ run[r].api = FreshApi
    BY <1>3 DEF PlanRun, RunInv, At
  <2>2. found \in ProjectTrees
    BY <1>0 DEF ProjectTrees, Content
  <2>3. \A p \in Paths : found[p] = IF run[r].rendered[p] # Absent THEN disk[p] ELSE Absent
    OBVIOUS
  <2>4. run' = [run EXCEPT ![r] = l] /\ UNCHANGED <<disk, base, spent>>
    BY <1>3 DEF PlanRun
  <2> HIDE DEF found
  <2>5. /\ l \in RunRecord /\ l.pc = "apply" /\ l.comp = NoRollback /\ l.api = FreshApi
        /\ l.found = found /\ l.rendered = run[r].rendered
    BY <1>0, <2>1, <2>2 DEF RunRecord, Phases
  <2> HIDE DEF l
  <2>6. TypeOK' /\ run'[r] = l
    BY <1>0, <2>4, <2>5, Advance
  <2> QED
    BY <2>1, <2>3, <2>4, <2>5, <2>6 DEF RunInv, At, BackAt
<1>4. \A S \in SUBSET Planned(r) : At(r, "apply") =>
        /\ S \in SUBSET Paths /\ Planned(r) \in SUBSET Paths
        /\ \A p \in S : run[r].rendered[p] # Absent /\ run[r].found[p] = disk[p]
  BY DEF Planned, PlannedWrites, PlanOp, RunInv
<1>5. run[r].rendered \in ProjectTrees /\ run[r].found \in ProjectTrees /\ run[r].comp \in Rollbacks
  BY <1>0 DEF RunRecord
<1>6. CASE ApplyPlan(r)
  <2> DEFINE tree == TreeAfterPlan(disk, run[r].rendered, Planned(r))
             comp == PlanRollback(run[r].found, Planned(r))
             pc == IF run[r].code THEN "recipe" ELSE "finish"
             l == [run[r] EXCEPT !.pc = pc, !.comp = comp, !.before = tree]
  <2>1. At(r, "apply") /\ ~run[r].dry /\ disk' = tree /\ run' = [run EXCEPT ![r] = l]
        /\ UNCHANGED <<base, spent>>
    BY <1>6 DEF ApplyPlan
  <2>2. tree \in ProjectTrees /\ comp \in Rollbacks
    BY <1>0, <1>4, <1>5, <2>1, PlanTypes
  <2>3. /\ RevertFiles(tree, comp) = disk
        /\ \A p \in Paths :
             IF comp.overwritten[p] # Absent THEN comp.overwritten[p] = disk[p]
             ELSE IF p \in comp.created THEN disk[p] = Absent ELSE tree[p] = disk[p]
    <3>1. /\ Planned(r) \in SUBSET Paths
          /\ \A p \in Planned(r) : run[r].rendered[p] # Absent /\ run[r].found[p] = disk[p]
      BY <1>4, <2>1
    <3> QED
      BY <1>0, <1>5, <3>1, PlanUndone
  <2>4. \A p \in Paths : disk[p] = base[r][p]
    BY <2>1 DEF RunInv, At, BackAt
  <2>5. run[r].api = FreshApi
    BY <2>1 DEF RunInv, At
  <2> HIDE DEF tree, comp
  <2>6. /\ l \in RunRecord /\ l.pc = pc /\ l.comp = comp /\ l.before = tree /\ l.api = FreshApi
        /\ l.dry = run[r].dry
    BY <1>0, <2>2, <2>5 DEF RunRecord, Phases
  <2> HIDE DEF l
  <2>7. TypeOK' /\ run'[r] = l /\ base'[r] = base[r]
    BY <1>0, <2>1, <2>2, <2>6, Advance
  <2>8. PlanKnown(r)' /\ ApiKnown(r)'
    BY <2>3, <2>4, <2>6, <2>7 DEF PlanKnown, ApiKnown, FreshApi
  <2>9. Restores(r, run[r].past)'
    BY <2>1, <2>3, <2>4, <2>6, <2>7 DEF Restores, BackAt
  <2> QED
    BY <2>1, <2>6, <2>7, <2>8, <2>9 DEF RunInv, At
<1>7. CASE ApplyFails(r)
  <2>1. PICK done \in SUBSET Planned(r) :
          disk' = RevertFiles(TreeAfterPlan(disk, run[r].rendered, done),
                              PlanRollback(run[r].found, done))
    BY <1>7 DEF ApplyFails
  <2>2. At(r, "apply") /\ Fault /\ Return(r, "failed") /\ UNCHANGED base
    BY <1>7 DEF ApplyFails
  <2>3. disk' = disk
    BY <1>0, <1>4, <1>5, <2>1, <2>2, PlanUndone
  <2> DEFINE l == Returned(r, "failed")
  <2>4. l \in RunRecord /\ l.pc = "failed" /\ l.comp = NoRollback
    BY <1>0, <2>2, ReturnedType DEF RunInv, At
  <2>5. run' = [run EXCEPT ![r] = l]
    BY <2>2 DEF Return
  <2> HIDE DEF l
  <2>6. TypeOK' /\ run'[r] = l
    BY <1>0, <2>2, <2>3, <2>4, <2>5, Advance
  <2>7. BackAt(disk, r, {})
    BY <2>2 DEF RunInv, At
  <2> QED
    BY <2>2, <2>3, <2>4, <2>6, <2>7 DEF RunInv, At, BackAt
<1>8. CASE ApplyTorn(r)
  <2>1. At(r, "apply") /\ TornFault /\ Return(r, "failed") /\ UNCHANGED base
    BY <1>8 DEF ApplyTorn
  <2>2. disk' \in ProjectTrees
    <3>1. PICK done \in SUBSET Planned(r) :
         LET tree == TreeAfterPlan(disk, run[r].rendered, done)
             undo == PlanRollback(run[r].found, done)
         IN  \/ \E p \in Planned(r) \ done, b \in Bytes :
                   /\ run[r].found[p] = Absent
                   /\ disk' = [RevertFiles(tree, undo) EXCEPT ![p] = b]
             \/ disk' \in PartialReverts(tree, undo)
      BY <1>8 DEF ApplyTorn
    <3>2. done \in SUBSET Paths /\ Planned(r) \in SUBSET Paths
      BY <1>4, <2>1
    <3> DEFINE tree == TreeAfterPlan(disk, run[r].rendered, done)
               undo == PlanRollback(run[r].found, done)
    <3>3. tree \in ProjectTrees /\ undo \in Rollbacks
      BY <1>0, <1>5, <3>2, PlanTypes
    <3>4. RevertFiles(tree, undo) \in ProjectTrees /\ PartialReverts(tree, undo) \subseteq ProjectTrees
      BY <3>3, RevertType
    <3>5. \A p \in Paths, b \in Bytes :
            [RevertFiles(tree, undo) EXCEPT ![p] = b] \in ProjectTrees
      BY <3>4 DEF ProjectTrees, Content
    <3> QED
      BY <3>1, <3>2, <3>4, <3>5
  <2> DEFINE l == Returned(r, "failed")
  <2>3. l \in RunRecord /\ l.pc = "failed" /\ l.comp = NoRollback
    BY <1>0, <2>1, ReturnedType DEF RunInv, At
  <2>4. run' = [run EXCEPT ![r] = l]
    BY <2>1 DEF Return
  <2> HIDE DEF l
  <2>5. TypeOK' /\ run'[r] = l
    BY <1>0, <2>1, <2>2, <2>3, <2>4, Advance
  <2>6. spent'.torn # 0
    <3>1. spent.torn \in Nat /\ spent'.torn = spent.torn + 1
      BY <2>1, RunAssumption DEF TornFault, TypeOK
    <3> QED
      BY <3>1
  <2> QED
    BY <2>3, <2>5, <2>6 DEF RunInv, At
<1>9. CASE StartDryRun(r)
  <2>1. At(r, "apply") /\ run[r].dry /\ UNCHANGED <<disk, base, spent>> /\ BackAt(disk, r, {})
    BY <1>9 DEF StartDryRun, RunInv, At
  <2>2. CASE Return(r, "ok")
    <3> DEFINE l == Returned(r, "ok")
    <3>1. /\ l \in RunRecord /\ l.pc = "ok" /\ l.dry = run[r].dry
      BY <1>0, ReturnedType
    <3>2. run' = [run EXCEPT ![r] = l]
      BY <2>2 DEF Return
    <3> HIDE DEF l
    <3>3. TypeOK' /\ run'[r] = l
      BY <1>0, <2>1, <3>1, <3>2, Advance
    <3> QED
      BY <2>1, <3>1, <3>3 DEF RunInv, At
  <2>3. CASE run' = [run EXCEPT ![r] = [@ EXCEPT !.pc = "recipe", !.before = disk]]
    <3> DEFINE l == [run[r] EXCEPT !.pc = "recipe", !.before = disk]
    <3>1. l \in RunRecord /\ l.pc = "recipe" /\ l.dry = run[r].dry /\ l.before = disk
      BY <1>0 DEF RunRecord, Phases
    <3>2. run' = [run EXCEPT ![r] = l]
      BY <2>3
    <3> HIDE DEF l
    <3>3. TypeOK' /\ run'[r] = l
      BY <1>0, <2>1, <3>1, <3>2, Advance
    <3> QED
      BY <2>1, <3>1, <3>3 DEF RunInv, At, BackAt
  <2> QED
    BY <1>9, <2>2, <2>3 DEF StartDryRun
<1>10. ASSUME NEW p \in Paths, NEW a, At(r, "recipe"), ~run[r].dry, MayAddress(r, p),
              Remembers(a, run[r].api, disk, p), disk' \in ProjectTrees,
              run' = [run EXCEPT ![r] = [@ EXCEPT !.api = a, !.ops = run[r].ops + 1]],
              UNCHANGED <<base, spent>>
       PROVE  TypeOK' /\ RunInv(r)'
  <2> DEFINE l == [run[r] EXCEPT !.api = a, !.ops = run[r].ops + 1]
  <2>1. a \in Apis /\ run[r].ops + 1 \in Nat
    BY <1>0, <1>10 DEF Remembers, RunRecord
  <2>2. /\ l \in RunRecord /\ l.pc = "recipe" /\ l.dry = run[r].dry /\ l.api = a
        /\ l.comp = run[r].comp /\ l.before = run[r].before
    BY <1>0, <1>10, <2>1 DEF RunRecord, At
  <2>3. run' = [run EXCEPT ![r] = l]
    BY <1>10
  <2> HIDE DEF l
  <2>4. TypeOK' /\ run'[r] = l /\ base'[r] = base[r]
    BY <1>0, <1>10, <2>2, <2>3, Advance
  <2>5. PlanKnown(r) /\ ApiKnown(r)
    BY <1>10 DEF RunInv, At
  <2>6. PlanKnown(r)'
    BY <2>2, <2>4, <2>5 DEF PlanKnown
  <2>7. p \in run[r].api.changed \/ (p \notin run[r].comp.created /\ disk[p] = run[r].before[p])
    BY <1>10 DEF MayAddress
  <2>8. a.changed \subseteq a.touched /\ a.touched \subseteq Paths
    BY <1>10, <2>1, <2>5 DEF ApiKnown, Remembers, Apis
  <2>9. ASSUME NEW q \in a.touched
        PROVE  a.initial[q] = run[r].before[q] /\ q \notin run[r].comp.created
    BY <1>10, <2>5, <2>7, <2>8, <2>9 DEF ApiKnown, Remembers
  <2>10. ApiKnown(r)'
    BY <2>2, <2>4, <2>8, <2>9 DEF ApiKnown
  <2> QED
    BY <1>10, <2>2, <2>4, <2>6, <2>10 DEF RunInv, At
<1>11. run[r].api \in Apis
  BY <1>0 DEF RunRecord
<1>12. CASE RecipeWrites(r)
  <2>1. PICK p \in Paths, b \in Bytes, policy \in Policies :
          /\ MayAddress(r, p)
          /\ disk' = TreeAfterWrite(disk, p, b, policy)
          /\ run' = [run EXCEPT ![r] = [@ EXCEPT
                       !.api = ApiAfterWrite(run[r].api, disk, p, b, policy),
                       !.ops = run[r].ops + 1]]
    BY <1>12 DEF RecipeWrites
  <2>2. At(r, "recipe") /\ ~run[r].dry /\ UNCHANGED <<base, spent>>
    BY <1>12 DEF RecipeWrites, MayOperate
  <2>3. Remembers(ApiAfterWrite(run[r].api, disk, p, b, policy), run[r].api, disk, p)
        /\ disk' \in ProjectTrees
    BY <1>0, <1>11, <2>1, WriteApi
  <2> QED
    BY <1>10, <2>1, <2>2, <2>3
<1>13. CASE RecipeRemoves(r)
  <2>1. PICK p \in Paths :
          /\ MayAddress(r, p)
          /\ disk' = TreeAfterRemove(disk, p)
          /\ run' = [run EXCEPT ![r] = [@ EXCEPT
                       !.api = ApiAfterRemove(run[r].api, disk, p),
                       !.ops = run[r].ops + 1]]
    BY <1>13 DEF RecipeRemoves
  <2>2. At(r, "recipe") /\ ~run[r].dry /\ UNCHANGED <<base, spent>>
    BY <1>13 DEF RecipeRemoves, MayOperate
  <2>3. Remembers(ApiAfterRemove(run[r].api, disk, p), run[r].api, disk, p)
        /\ disk' \in ProjectTrees
    BY <1>0, <1>11, <2>1, RemoveApi
  <2> QED
    BY <1>10, <2>1, <2>2, <2>3
<1>14. CASE RecipeWritesRaw(r)
  <2> DEFINE l == [run[r] EXCEPT !.ops = run[r].ops + 1]
  <2>1. /\ At(r, "recipe") /\ run' = [run EXCEPT ![r] = l] /\ UNCHANGED <<base, spent>>
        /\ \E p \in Paths, c \in Content : disk' = [disk EXCEPT ![p] = c]
    BY <1>0, <1>14 DEF RecipeWritesRaw, MayOperate
  <2>2. disk' \in ProjectTrees
    BY <1>0, <2>1 DEF ProjectTrees
  <2>3. run[r].ops + 1 \in Nat
    BY <1>0 DEF RunRecord
  <2>4. /\ l \in RunRecord /\ l.pc = "recipe" /\ l.dry = run[r].dry /\ l.api = run[r].api
        /\ l.comp = run[r].comp /\ l.before = run[r].before
    BY <1>0, <2>1, <2>3 DEF RunRecord, At
  <2> HIDE DEF l
  <2>5. TypeOK' /\ run'[r] = l /\ base'[r] = base[r]
    BY <1>0, <2>1, <2>2, <2>4, Advance
  <2>6. IF run[r].dry THEN BackAt(run[r].before, r, {}) ELSE PlanKnown(r) /\ ApiKnown(r)
    BY <2>1 DEF RunInv, At
  <2>7. CASE run[r].dry
    <3>1. BackAt(run[r].before, r, {})'
      BY <2>4, <2>5, <2>6, <2>7 DEF BackAt
    <3> QED
      BY <2>4, <2>5, <2>7, <3>1 DEF RunInv, At
  <2>8. CASE ~run[r].dry
    <3>1. PlanKnown(r)' /\ ApiKnown(r)'
      BY <2>4, <2>5, <2>6, <2>8 DEF PlanKnown, ApiKnown
    <3> QED
      BY <2>4, <2>5, <2>8, <3>1 DEF RunInv, At
  <2> QED
    BY <2>7, <2>8
<1>15. ASSUME NEW pc \in {"finish", "rollback", "compensate"}, EndRecipe(r, pc)
       PROVE  TypeOK' /\ RunInv(r)'
  <2> DEFINE past == ChangedBetween(run[r].before, disk) \ Restorable(Known(r))
             l == [run[r] EXCEPT !.pc = pc, !.comp = Known(r), !.past = past]
  <2>1. At(r, "recipe") /\ ~run[r].dry /\ run' = [run EXCEPT ![r] = l]
        /\ UNCHANGED <<disk, base, spent>>
    BY <1>15 DEF EndRecipe
  <2>2. PlanKnown(r) /\ ApiKnown(r)
    BY <2>1 DEF RunInv, At
  <2>3. Known(r) \in Rollbacks /\ BackAt(RevertFiles(disk, Known(r)), r, past)
    BY <1>0, <2>2, KnownRestores
  <2>4. past \in SUBSET Paths
    BY DEF ChangedBetween
  <2> HIDE DEF past
  <2>5. /\ l \in RunRecord /\ l.pc = pc /\ l.dry = run[r].dry /\ l.comp = Known(r)
        /\ l.past = past
    BY <1>0, <2>3, <2>4 DEF RunRecord, Phases
  <2> HIDE DEF l
  <2>6. TypeOK' /\ run'[r] = l /\ base'[r] = base[r]
    BY <1>0, <2>1, <2>5, Advance
  <2>7. \A p \in Paths \ past : RevertFiles(disk, Known(r))[p] = base[r][p]
    BY <2>3 DEF BackAt
  <2>8. Restores(r, run[r].past)'
    <3>1. disk' = disk /\ run'[r].comp = Known(r) /\ run'[r].past = past
      BY <2>1, <2>5, <2>6
    <3> QED
      BY <2>6, <2>7, <3>1 DEF Restores, BackAt, RevertFiles
  <2> QED
    BY <2>1, <2>5, <2>6, <2>8 DEF RunInv, At
<1>16. CASE OwnCompensate(r)
  <2>1. PICK back \in SUBSET run[r].past :
          disk' = [p \in Paths |-> IF p \in back THEN run[r].before[p] ELSE disk[p]]
    BY <1>16 DEF OwnCompensate
  <2> DEFINE l == [run[r] EXCEPT !.pc = "rollback"]
  <2>2. At(r, "compensate") /\ run' = [run EXCEPT ![r] = l] /\ UNCHANGED <<base, spent>>
    BY <1>16 DEF OwnCompensate, Then
  <2>3. run[r].before \in ProjectTrees
    BY <1>0 DEF RunRecord
  <2>4. disk' \in ProjectTrees
    BY <1>0, <2>1, <2>3 DEF ProjectTrees
  <2>5. /\ l \in RunRecord /\ l.pc = "rollback" /\ l.dry = run[r].dry
        /\ l.comp = run[r].comp /\ l.past = run[r].past
    BY <1>0 DEF RunRecord, Phases
  <2> HIDE DEF l
  <2>6. TypeOK' /\ run'[r] = l /\ base'[r] = base[r]
    BY <1>0, <2>2, <2>4, <2>5, Advance
  <2>7. ~run[r].dry /\ Restores(r, run[r].past)
    BY <2>2 DEF RunInv, At
  <2>8. \A p \in Paths \ run[r].past : disk'[p] = disk[p]
    BY <2>1
  <2>9. Restores(r, run[r].past)'
    BY <2>5, <2>6, <2>7, <2>8 DEF Restores, BackAt, RevertFiles
  <2> QED
    BY <2>2, <2>5, <2>6, <2>7, <2>9 DEF RunInv, At
<1>17. CASE EndDryRun(r)
  <2>1. At(r, "recipe") /\ run[r].dry /\ UNCHANGED <<disk, base, spent>>
    BY <1>17 DEF EndDryRun
  <2>2. BackAt(run[r].before, r, {})
    BY <2>1 DEF RunInv, At
  <2> DEFINE comp == [created |-> CreatedBetween(run[r].before, disk), overwritten |-> EmptyTree]
             warned == ChangedBetween(run[r].before, disk)
             l == [run[r] EXCEPT !.pc = "clean", !.comp = comp, !.warned = warned]
  <2>3. CASE run' = [run EXCEPT ![r] = l]
    <3>1. comp \in Rollbacks /\ warned \in SUBSET Paths
      BY TreeTypes DEF Rollbacks, CreatedBetween, ChangedBetween
    <3>2. \A p \in Paths \ warned : RevertFiles(disk, comp)[p] = base[r][p]
      BY <2>2 DEF RevertFiles, Restorable, EmptyTree, CreatedBetween, ChangedBetween, BackAt
    <3> HIDE DEF comp, warned
    <3>3. /\ l \in RunRecord /\ l.pc = "clean" /\ l.dry = run[r].dry /\ l.comp = comp
          /\ l.warned = warned
      BY <1>0, <3>1 DEF RunRecord, Phases
    <3> HIDE DEF l
    <3>4. TypeOK' /\ run'[r] = l /\ base'[r] = base[r]
      BY <1>0, <2>1, <2>3, <3>3, Advance
    <3>5. disk' = disk /\ run'[r].comp = comp /\ run'[r].warned = warned
      BY <2>1, <3>3, <3>4
    <3>6. Restores(r, run[r].warned)'
      BY <3>2, <3>4, <3>5 DEF Restores, BackAt, RevertFiles
    <3> QED
      BY <2>1, <3>3, <3>4, <3>6 DEF RunInv, At
  <2>4. ASSUME NEW outcome \in {"ok", "failed"}, Return(r, outcome), disk = run[r].before
        PROVE  TypeOK' /\ RunInv(r)'
    <3> DEFINE n == Returned(r, outcome)
    <3>1. n \in RunRecord /\ n.pc = outcome /\ n.dry = run[r].dry
      BY <1>0, ReturnedType
    <3>2. run' = [run EXCEPT ![r] = n]
      BY <2>4 DEF Return
    <3> HIDE DEF n
    <3>3. TypeOK' /\ run'[r] = n
      BY <1>0, <2>1, <3>1, <3>2, Advance
    <3> QED
      BY <2>1, <2>2, <2>4, <3>1, <3>3 DEF RunInv, At, BackAt
  <2>5. \/ run' = [run EXCEPT ![r] = l]
        \/ disk = run[r].before /\ (Return(r, "ok") \/ Return(r, "failed"))
    BY <1>17 DEF EndDryRun
  <2> QED
    BY <2>3, <2>4, <2>5
\* A run is over: nothing is left to undo, or what is left undoes it.
<1>18. ASSUME NEW warned \in SUBSET Paths, ReturnUndone(r, warned), UNCHANGED <<base, spent>>,
              disk' \in ProjectTrees,
              \A p \in Paths \ (warned \union run[r].past) : disk'[p] = base[r][p]
       PROVE  TypeOK' /\ RunInv(r)'
  <2> DEFINE l == [Returned(r, "failed") EXCEPT !.comp = NoRollback, !.warned = warned]
  <2>1. /\ l \in RunRecord /\ l.pc = "failed" /\ l.comp = NoRollback /\ l.warned = warned
        /\ l.past = run[r].past
    BY <1>0, ReturnedType
  <2>2. run' = [run EXCEPT ![r] = l]
    BY <1>18 DEF ReturnUndone
  <2> HIDE DEF l
  <2>3. TypeOK' /\ run'[r] = l /\ base'[r] = base[r]
    BY <1>0, <1>18, <2>1, <2>2, Advance
  <2>4. BackAt(disk, r, run[r].warned \union run[r].past)'
    BY <1>18, <2>1, <2>3 DEF BackAt
  <2> QED
    BY <2>1, <2>3, <2>4 DEF RunInv, At
<1>19. /\ run[r].comp \in Rollbacks /\ run[r].past \in SUBSET Paths
       /\ run[r].warned \in SUBSET Paths /\ run[r].before \in ProjectTrees
  BY <1>0 DEF RunRecord
<1>20. RevertFiles(disk, run[r].comp) \in ProjectTrees
       /\ PartialReverts(disk, run[r].comp) \subseteq ProjectTrees
  BY <1>0, <1>19, RevertType
<1>21. CASE CleanDryRun(r)
  <2>1. Restores(r, run[r].warned) /\ disk' = RevertFiles(disk, run[r].comp)
        /\ ReturnUndone(r, run[r].warned) /\ UNCHANGED <<base, spent>>
    BY <1>21 DEF CleanDryRun, RunInv, At
  <2>2. \A p \in Paths \ (run[r].warned \union run[r].past) : disk'[p] = base[r][p]
    BY <2>1 DEF Restores, BackAt
  <2> QED
    BY <1>18, <1>19, <1>20, <2>1, <2>2
<1>busy. CASE Rollback(r)
  <2>1. Restores(r, run[r].past) /\ disk' = RevertFiles(disk, run[r].comp)
        /\ ReturnUndone(r, run[r].past) /\ UNCHANGED <<base, spent>>
    BY <1>busy DEF Rollback, RunInv, At
  <2>2. \A p \in Paths \ (run[r].past \union run[r].past) : disk'[p] = base[r][p]
    BY <2>1 DEF Restores, BackAt
  <2> QED
    BY <1>18, <1>19, <1>20, <2>1, <2>2
\* A revert that gives up half way leaves as much to revert as before.
<1>23. ASSUME disk' \in PartialReverts(disk, run[r].comp), Fault, UNCHANGED base,
              NEW l \in RunRecord, run' = [run EXCEPT ![r] = l], l.dry = run[r].dry,
              l.comp = run[r].comp, l.past = run[r].past, ~run[r].dry,
              Restores(r, run[r].past), l.pc \in {"ok", "failed"}
       PROVE  TypeOK' /\ RunInv(r)'
  <2>1. TypeOK' /\ run'[r] = l /\ base'[r] = base[r]
    BY <1>0, <1>20, <1>23, Advance
  <2>2. RevertFiles(disk', run[r].comp) = RevertFiles(disk, run[r].comp)
    BY <1>0, <1>19, <1>23, RevertAgain
  <2>3. \A p \in Paths \ run[r].past : RevertFiles(disk', l.comp)[p] = base[r][p]
    BY <1>23, <2>2 DEF Restores, BackAt
  <2>4. Restores(r, run[r].past)'
    BY <1>23, <2>1, <2>3 DEF Restores, BackAt, RevertFiles
  <2>5. disk' \in ProjectTrees
    BY <1>20, <1>23
  <2>6. l.comp = NoRollback => \A p \in Paths \ run[r].past : disk'[p] = base[r][p]
    BY <2>3, <2>5, RevertNothing
  <2>7. l.comp = NoRollback => BackAt(disk, r, run[r].warned \union run[r].past)'
    BY <1>23, <2>1, <2>6 DEF BackAt
  <2> QED
    BY <1>23, <2>1, <2>4, <2>7 DEF RunInv, At
<1>24. CASE RollbackFails(r)
  <2> DEFINE l == [Returned(r, "failed") EXCEPT !.warned = run[r].past]
  <2>1. /\ Fault /\ UNCHANGED base /\ disk' \in PartialReverts(disk, run[r].comp)
        /\ run' = [run EXCEPT ![r] = l] /\ ~run[r].dry /\ Restores(r, run[r].past)
    BY <1>24 DEF RollbackFails, RunInv, At
  <2>2. /\ l \in RunRecord /\ l.dry = run[r].dry /\ l.comp = run[r].comp
        /\ l.past = run[r].past /\ l.pc = "failed"
    BY <1>0, TreeTypes DEF Returned, RunRecord, Phases
  <2> HIDE DEF l
  <2> QED
    BY <1>23, <2>1, <2>2
<1>25. ASSUME NEW tree \in FormattedTrees(r)
       PROVE  /\ tree \in ProjectTrees
              /\ \A p \in Paths : tree[p] # disk[p] =>
                   p \in run[r].comp.created \union Restorable(run[r].comp) \union run[r].past
  BY <1>0 DEF FormattedTrees, Formattable, ProjectTrees, Content
<1>26. CASE FinishRun(r)
  <2>1. At(r, "finish") /\ Return(r, "ok") /\ UNCHANGED <<base, spent>>
        /\ (disk' = disk \/ disk' \in FormattedTrees(r))
    BY <1>26 DEF FinishRun
  <2>2. ~run[r].dry /\ Restores(r, run[r].past)
    BY <2>1 DEF RunInv, At
  <2> DEFINE l == Returned(r, "ok")
  <2>3. /\ l \in RunRecord /\ l.pc = "ok" /\ l.dry = run[r].dry /\ l.comp = run[r].comp
        /\ l.past = run[r].past
    BY <1>0, ReturnedType
  <2>4. run' = [run EXCEPT ![r] = l]
    BY <2>1 DEF Return
  <2>5. disk' \in ProjectTrees
    BY <1>0, <1>25, <2>1
  <2> HIDE DEF l
  <2>6. TypeOK' /\ run'[r] = l /\ base'[r] = base[r]
    BY <1>0, <2>1, <2>3, <2>4, <2>5, Advance
  <2>7. \A p \in Paths : disk'[p] # disk[p] =>
          p \in run[r].comp.created \union Restorable(run[r].comp) \union run[r].past
    BY <1>25, <2>1
  <2>8. \A p \in Paths \ run[r].past :
          RevertFiles(disk', run[r].comp)[p] = RevertFiles(disk, run[r].comp)[p]
    BY <2>7 DEF RevertFiles
  <2>9. \A p \in Paths \ run[r].past : RevertFiles(disk', run[r].comp)[p] = base[r][p]
    BY <2>2, <2>8 DEF Restores, BackAt
  <2>10. Restores(r, run[r].past)'
    BY <2>3, <2>6, <2>9 DEF Restores, BackAt, RevertFiles
  <2> QED
    BY <2>2, <2>3, <2>6, <2>10 DEF RunInv, At
<1>27. CASE FormatFails(r)
  <2>1. PICK tree \in FormattedTrees(r) : disk' = RevertFiles(tree, run[r].comp)
    BY <1>27 DEF FormatFails
  <2>2. At(r, "finish") /\ ReturnUndone(r, {}) /\ UNCHANGED <<base, spent>>
    BY <1>27 DEF FormatFails
  <2>3. Restores(r, run[r].past)
    BY <2>2 DEF RunInv, At
  <2>4. \A p \in Paths \ run[r].past :
          RevertFiles(tree, run[r].comp)[p] = RevertFiles(disk, run[r].comp)[p]
    BY <1>25 DEF RevertFiles
  <2>5. \A p \in Paths \ ({} \union run[r].past) : disk'[p] = base[r][p]
    BY <2>1, <2>3, <2>4 DEF Restores, BackAt
  <2>6. disk' \in ProjectTrees
    BY <1>19, <1>25, <2>1, RevertType
  <2> QED
    BY <1>18, <2>2, <2>5, <2>6
<1>28. ASSUME run[r].pc \in {"ok", "failed"}, ~run[r].dry,
              run[r].pc = "failed" => run[r].comp # NoRollback
       PROVE  Restores(r, run[r].past)
  BY <1>28 DEF RunInv, At
<1>29. CASE UndoRun(r)
  <2>1. PICK back \in SUBSET run[r].past :
          LET tree == RevertFiles(disk, run[r].comp)
          IN  disk' = [p \in Paths |-> IF p \in back THEN run[r].before[p] ELSE tree[p]]
    BY <1>29 DEF UndoRun
  <2> DEFINE l == [run[r] EXCEPT !.pc = "undone", !.comp = NoRollback]
  <2>2. /\ run[r].pc \in {"ok", "failed"} /\ ~run[r].dry /\ UNCHANGED <<base, spent>>
        /\ run[r].pc = "failed" => run[r].comp # NoRollback
        /\ run' = [run EXCEPT ![r] = l]
    BY <1>29 DEF UndoRun
  <2>3. disk' \in ProjectTrees
    BY <1>19, <1>20, <2>1 DEF ProjectTrees
  <2>4. l \in RunRecord /\ l.pc = "undone" /\ l.past = run[r].past
    BY <1>0, TreeTypes DEF RunRecord, Phases
  <2> HIDE DEF l
  <2>5. TypeOK' /\ run'[r] = l /\ base'[r] = base[r]
    BY <1>0, <2>2, <2>3, <2>4, Advance
  <2>6. Restores(r, run[r].past)
    BY <1>28, <2>2
  <2>7. \A p \in Paths \ run[r].past : disk'[p] = base[r][p]
    BY <2>1, <2>6 DEF Restores, BackAt
  <2>8. BackAt(disk, r, run[r].warned \union run[r].past)'
    BY <2>4, <2>5, <2>7 DEF BackAt
  <2> QED
    BY <2>4, <2>5, <2>8 DEF RunInv, At
<1>30. CASE UndoFails(r)
  <2>1. /\ run[r].pc \in {"ok", "failed"} /\ ~run[r].dry
        /\ run[r].pc = "failed" => run[r].comp # NoRollback
        /\ Fault /\ disk' \in PartialReverts(disk, run[r].comp) /\ UNCHANGED <<run, base>>
    BY <1>30 DEF UndoFails
  <2>2. Restores(r, run[r].past)
    BY <1>28, <2>1
  <2>3. run' = [run EXCEPT ![r] = run[r]]
    BY <1>0, <2>1
  <2> QED
    BY <1>0, <1>23, <2>1, <2>2, <2>3
<1>31. CASE UNCHANGED vars
  <2>1. /\ disk' = disk /\ run' = run /\ base' = base /\ spent' = spent
    BY <1>31 DEF vars
  <2>2. TypeOK'
    BY <2>1 DEF TypeOK
  <2>3. RunInv(r)'
    BY <2>1 DEF RunInv, At, BackAt, PlanKnown, ApiKnown, Restores, RevertFiles
  <2> QED
    BY <2>2, <2>3
<1>32. CASE RunStep(r)
  BY <1>2, <1>3, <1>6, <1>7, <1>8, <1>9, <1>12, <1>13, <1>14, <1>15, <1>16, <1>17, <1>21,
     <1>busy, <1>24, <1>26, <1>27, <1>32
     DEF RunStep, RecipeSucceeds, RecipeThrows, RecipeReportsFailure
<1> QED
  BY <1>1, <1>29, <1>30, <1>31, <1>32 DEF CallNext

LEMMA SoloStep ==
    ASSUME NEW r, Runs = {r}, ~Mixes
    PROVE  TypeOK /\ RunInv(r) /\ [Next]_vars => TypeOK' /\ RunInv(r)'
<1>1. [Next]_vars => [CallNext(r)]_vars
  BY DEF Next, CallNext
<1> QED
  BY <1>1, CallStep

LEMMA SoloInit ==
    ASSUME NEW r, Runs = {r}
    PROVE  Init => TypeOK /\ RunInv(r)
<1> SUFFICES ASSUME Init PROVE TypeOK /\ RunInv(r)
  OBVIOUS
<1>1. run[r] = IdleRun /\ run \in [Runs -> RunRecord]
  BY TreeTypes DEF Init
<1>2. TypeOK
  BY <1>1, TreeTypes, RunAssumption DEF Init, TypeOK
<1>3. run[r].pc = "idle"
  BY <1>1 DEF IdleRun
<1> QED
  BY <1>2, <1>3 DEF RunInv, At

\* Every run alone on its project, whose recipe.ts does not mix its two ways of
\* writing on one file, is typed and keeps what RunInv says of it.
THEOREM RunInvariant ==
    ASSUME NEW r, Runs = {r}, ~Mixes
    PROVE  Spec => [](TypeOK /\ RunInv(r))
<1>1. Init => TypeOK /\ RunInv(r)
  BY SoloInit
<1>2. TypeOK /\ RunInv(r) /\ [Next]_vars => TypeOK' /\ RunInv(r)'
  BY SoloStep
<1> QED
  BY <1>1, <1>2, PTL DEF Spec

\* Whatever step of the engine fails, a failed or undone run has left the
\* project as it found it, but for what recipe.ts changed past ctx.files.
THEOREM FailedRunLeavesNoTrace ==
    ASSUME NEW r, Runs = {r}, ~Mixes
    PROVE  Spec => []FailureLeavesNoTrace
<1>1. TypeOK /\ RunInv(r) => FailureLeavesNoTrace
  BY DEF RunInv, FailureLeavesNoTrace
<1> QED
  BY <1>1, RunInvariant, PTL

\* And at every moment of it the engine holds what restores the project.
THEOREM RunIsRecoverable ==
    ASSUME NEW r, Runs = {r}, ~Mixes
    PROVE  Spec => []Recoverable
<1>1. TypeOK /\ RunInv(r) => Recoverable
  <2> SUFFICES ASSUME TypeOK, RunInv(r), ~run[r].dry
               PROVE  /\ At(r, "recipe") =>
                           BackAt(RevertFiles(disk, Known(r)), r,
                                  ChangedBetween(run[r].before, disk))
                      /\ run[r].pc \in {"compensate", "rollback", "finish", "ok"} \/
                           (At(r, "failed") /\ run[r].comp # NoRollback) =>
                           BackAt(RevertFiles(disk, run[r].comp), r, run[r].past)
    BY DEF Recoverable
  <2>1. At(r, "recipe") => PlanKnown(r) /\ ApiKnown(r)
    BY DEF RunInv
  <2>2. At(r, "recipe") => BackAt(RevertFiles(disk, Known(r)), r,
                                  ChangedBetween(run[r].before, disk))
    BY <2>1, KnownRestores
  <2>3. run[r].pc \in {"compensate", "rollback", "finish", "ok"} \/
          (At(r, "failed") /\ run[r].comp # NoRollback) => Restores(r, run[r].past)
    BY DEF RunInv, At
  <2> QED
    BY <2>2, <2>3 DEF Restores
<1> QED
  BY <1>1, RunInvariant, PTL

-----------------------------------------------------------------------------
(* The saga: what one step of a call moves                                  *)

\* Before it fails a run that writes has no warning, and then it names files
\* that recipe.ts changed past ctx.files.
WarnsOfPast(r) ==
    /\ ~run[r].dry
    /\ run[r].warned \subseteq run[r].past
    /\ run[r].pc \notin {"failed", "undone"} => run[r].warned = {}

\* A step of a call leaves the other calls alone, and the trees all began with.
Moved(r) ==
    /\ TypeOK' /\ WarnsOfPast(r)' /\ ~At(r, "idle")'
    /\ UNCHANGED base
    /\ \A q \in Runs : q # r => run'[q] = run[q]
    /\ spent'.faults \in spent.faults..MaxFaults
    /\ spent'.torn \in spent.torn..MaxTorn

LEMMA Move ==
    ASSUME TypeOK, NEW r \in Runs, NEW l \in RunRecord, run' = [run EXCEPT ![r] = l],
           disk' \in ProjectTrees, UNCHANGED base,
           UNCHANGED spent \/ Fault \/ TornFault,
           ~l.dry, l.pc # "idle", l.warned \subseteq l.past,
           l.pc \in {"failed", "undone"} \/ l.warned = {}
    PROVE  Moved(r)
<1>1. TypeOK' /\ run'[r] = l
  BY Advance
<1>2. \A q \in Runs : q # r => run'[q] = run[q]
  BY DEF TypeOK
<1>3. spent'.faults \in spent.faults..MaxFaults /\ spent'.torn \in spent.torn..MaxTorn
  BY RunAssumption DEF TypeOK, Fault, TornFault
<1> QED
  BY <1>1, <1>2, <1>3 DEF Moved, WarnsOfPast, At

\* The step of a run that writes, whatever its recipe.ts does.
LEMMA RunStepMoves ==
    ASSUME TypeOK, NEW r \in Runs, WarnsOfPast(r), RunStep(r)
    PROVE  Moved(r) /\ ~At(r, "idle")
<1>busy. ~At(r, "idle")
  BY DEF RunStep, At, CheckTargets, RefuseRun, PlanRun, ApplyPlan, ApplyFails, ApplyTorn, StartDryRun,
     RecipeWrites, RecipeRemoves, RecipeWritesRaw, MayOperate, RecipeSucceeds, RecipeThrows,
     RecipeReportsFailure, EndRecipe, OwnCompensate, EndDryRun, CleanDryRun, Rollback,
     RollbackFails, FinishRun, FormatFails
<1> SUFFICES Moved(r)
  BY <1>busy
<1>0. /\ run[r] \in RunRecord /\ disk \in ProjectTrees /\ base[r] \in ProjectTrees
      /\ run[r].rendered \in ProjectTrees /\ run[r].found \in ProjectTrees
      /\ run[r].before \in ProjectTrees /\ run[r].api \in Apis /\ run[r].comp \in Rollbacks
      /\ run[r].past \in SUBSET Paths /\ run[r].ops \in Nat
  BY DEF TypeOK, RunRecord
<1>1. /\ ~run[r].dry /\ run[r].warned \subseteq run[r].past
      /\ run[r].pc \notin {"failed", "undone"} => run[r].warned = {}
  BY DEF WarnsOfPast
\* It returns.
<1>2. ASSUME NEW outcome \in {"ok", "failed"}, Return(r, outcome), disk' \in ProjectTrees,
             UNCHANGED base, UNCHANGED spent \/ Fault \/ TornFault,
             run[r].pc \notin {"failed", "undone"}
      PROVE  Moved(r)
  <2> DEFINE l == Returned(r, outcome)
  <2>1. /\ l \in RunRecord /\ l.pc = outcome /\ l.past = run[r].past /\ l.dry = run[r].dry
        /\ l.warned = run[r].warned
    BY <1>0, ReturnedType
  <2>2. run' = [run EXCEPT ![r] = l]
    BY <1>2 DEF Return
  <2> HIDE DEF l
  <2>3. l.pc # "idle"
    BY <2>1
  <2> QED
    BY <1>1, <1>2, <2>1, <2>2, <2>3, Move
<1>3. ASSUME NEW warned \in SUBSET run[r].past, ReturnUndone(r, warned), disk' \in ProjectTrees,
             UNCHANGED <<base, spent>>
      PROVE  Moved(r)
  <2> DEFINE l == [Returned(r, "failed") EXCEPT !.comp = NoRollback, !.warned = warned]
  <2>1. /\ l \in RunRecord /\ l.pc = "failed" /\ l.past = run[r].past /\ l.dry = run[r].dry
        /\ l.warned = warned
    BY <1>0, ReturnedType
  <2>2. run' = [run EXCEPT ![r] = l]
    BY <1>3 DEF ReturnUndone
  <2> HIDE DEF l
  <2>3. l.pc # "idle" /\ l.pc \in {"failed", "undone"}
    BY <2>1
  <2> QED
    BY <1>1, <1>3, <2>1, <2>2, <2>3, Move
\* It goes on.
<1>4. ASSUME NEW l \in RunRecord, run' = [run EXCEPT ![r] = l], disk' \in ProjectTrees,
             UNCHANGED <<base, spent>>,
             l.pc \notin {"idle", "failed", "undone"}, l.dry = run[r].dry, l.warned = run[r].warned,
             run[r].pc \notin {"failed", "undone"}
      PROVE  Moved(r)
  <2>1. ~l.dry /\ l.warned = {} /\ l.pc # "idle"
    BY <1>1, <1>4
  <2> QED
    BY <1>4, <2>1, Move
<1>5. CASE CheckTargets(r) \/ RefuseRun(r)
  <2>1. UNCHANGED <<disk, base, spent>> /\ run[r].pc \in {"begin", "slots"}
    BY <1>5 DEF CheckTargets, RefuseRun, At
  <2>2. CASE Return(r, "failed")
    BY <1>0, <1>2, <2>1, <2>2 DEF At
  <2>3. CASE Then(r, "slots")
    <3> DEFINE l == [run[r] EXCEPT !.pc = "slots"]
    <3>1. l \in RunRecord /\ l.pc = "slots" /\ l.dry = run[r].dry /\ l.warned = run[r].warned
      BY <1>0 DEF RunRecord, Phases
    <3>2. run' = [run EXCEPT ![r] = l]
      BY <2>3 DEF Then
    <3> HIDE DEF l
    <3> QED
      BY <1>0, <1>4, <2>1, <3>1, <3>2 DEF At
  <2> QED
    BY <1>5, <2>1, <2>2, <2>3 DEF CheckTargets, RefuseRun, At
<1>6. CASE PlanRun(r)
  <2> DEFINE found == [p \in Paths |-> IF run[r].rendered[p] # Absent THEN disk[p] ELSE Absent]
             l == [run[r] EXCEPT !.pc = "apply", !.found = found]
  <2>1. found \in ProjectTrees
    BY <1>0 DEF ProjectTrees, Content
  <2>2. run' = [run EXCEPT ![r] = l] /\ UNCHANGED <<disk, base, spent>> /\ run[r].pc = "slots"
    BY <1>6 DEF PlanRun, At
  <2> HIDE DEF found
  <2>3. l \in RunRecord /\ l.pc = "apply" /\ l.dry = run[r].dry /\ l.warned = run[r].warned
    BY <1>0, <2>1 DEF RunRecord, Phases
  <2> HIDE DEF l
  <2> QED
    BY <1>0, <1>4, <2>2, <2>3 DEF At
\* The trees that the writing of a plan leaves.
<1>7. \A S \in SUBSET Planned(r) : /\ S \in SUBSET Paths
                                  /\ TreeAfterPlan(disk, run[r].rendered, S) \in ProjectTrees
                                  /\ PlanRollback(run[r].found, S) \in Rollbacks
  <2> SUFFICES ASSUME NEW S \in SUBSET Planned(r)
               PROVE  /\ S \in SUBSET Paths
                      /\ TreeAfterPlan(disk, run[r].rendered, S) \in ProjectTrees
                      /\ PlanRollback(run[r].found, S) \in Rollbacks
    OBVIOUS
  <2>1. S \in SUBSET Paths
    BY DEF Planned, PlannedWrites
  <2> QED
    BY <1>0, <2>1, PlanTypes
<1>8. CASE ApplyPlan(r)
  <2> DEFINE tree == TreeAfterPlan(disk, run[r].rendered, Planned(r))
             comp == PlanRollback(run[r].found, Planned(r))
             pc == IF run[r].code THEN "recipe" ELSE "finish"
             l == [run[r] EXCEPT !.pc = pc, !.comp = comp, !.before = tree]
  <2>1. At(r, "apply") /\ disk' = tree /\ run' = [run EXCEPT ![r] = l] /\ UNCHANGED <<base, spent>>
    BY <1>8 DEF ApplyPlan
  <2>2. tree \in ProjectTrees /\ comp \in Rollbacks
    BY <1>7
  <2> HIDE DEF tree, comp
  <2>3. l \in RunRecord /\ l.pc = pc /\ l.dry = run[r].dry /\ l.warned = run[r].warned
    BY <1>0, <2>2 DEF RunRecord, Phases
  <2> HIDE DEF l
  <2> QED
    BY <1>4, <2>1, <2>2, <2>3 DEF At
<1>9. CASE ApplyFails(r)
  <2>1. /\ At(r, "apply") /\ Fault /\ Return(r, "failed") /\ UNCHANGED base
        /\ \E done \in SUBSET Planned(r) :
             disk' = RevertFiles(TreeAfterPlan(disk, run[r].rendered, done),
                                 PlanRollback(run[r].found, done))
    BY <1>9 DEF ApplyFails
  <2>2. disk' \in ProjectTrees
    BY <1>7, <2>1, RevertType
  <2> QED
    BY <1>2, <2>1, <2>2 DEF At
<1>10. CASE ApplyTorn(r)
  <2>1. /\ At(r, "apply") /\ TornFault /\ Return(r, "failed") /\ UNCHANGED base
    BY <1>10 DEF ApplyTorn
  <2>2. PICK done \in SUBSET Planned(r) :
         LET tree == TreeAfterPlan(disk, run[r].rendered, done)
             undo == PlanRollback(run[r].found, done)
         IN  \/ \E p \in Planned(r) \ done, b \in Bytes :
                   disk' = [RevertFiles(tree, undo) EXCEPT ![p] = b]
             \/ disk' \in PartialReverts(tree, undo)
    BY <1>10 DEF ApplyTorn
  <2> DEFINE tree == TreeAfterPlan(disk, run[r].rendered, done)
             undo == PlanRollback(run[r].found, done)
  <2>3. RevertFiles(tree, undo) \in ProjectTrees /\ PartialReverts(tree, undo) \subseteq ProjectTrees
    BY <1>7, RevertType
  <2>4. disk' \in ProjectTrees
    <3>1. \/ \E p \in Planned(r) \ done, b \in Bytes :
               disk' = [RevertFiles(tree, undo) EXCEPT ![p] = b]
          \/ disk' \in PartialReverts(tree, undo)
      BY <2>2
    <3> HIDE DEF tree, undo
    <3> QED
      BY <2>3, <3>1 DEF ProjectTrees, Content
  <2> QED
    BY <1>2, <2>1, <2>4 DEF At
<1>11. CASE RecipeWrites(r) \/ RecipeRemoves(r)
  <2>1. PICK api \in Apis : /\ run' = [run EXCEPT ![r] = [@ EXCEPT !.api = api, !.ops = run[r].ops + 1]]
                            /\ disk' \in ProjectTrees
    <3>1. CASE RecipeWrites(r)
      <4>1. PICK p \in Paths, b \in Bytes, policy \in Policies :
              /\ disk' = TreeAfterWrite(disk, p, b, policy)
              /\ run' = [run EXCEPT ![r] = [@ EXCEPT
                           !.api = ApiAfterWrite(run[r].api, disk, p, b, policy),
                           !.ops = run[r].ops + 1]]
        BY <3>1 DEF RecipeWrites
      <4>2. ApiAfterWrite(run[r].api, disk, p, b, policy) \in Apis /\ disk' \in ProjectTrees
        BY <1>0, <4>1, WriteApi DEF Remembers
      <4> QED
        BY <4>1, <4>2
    <3>2. CASE RecipeRemoves(r)
      <4>1. PICK p \in Paths :
              /\ disk' = TreeAfterRemove(disk, p)
              /\ run' = [run EXCEPT ![r] = [@ EXCEPT
                           !.api = ApiAfterRemove(run[r].api, disk, p),
                           !.ops = run[r].ops + 1]]
        BY <3>2 DEF RecipeRemoves
      <4>2. ApiAfterRemove(run[r].api, disk, p) \in Apis /\ disk' \in ProjectTrees
        BY <1>0, <4>1, RemoveApi DEF Remembers
      <4> QED
        BY <4>1, <4>2
    <3> QED
      BY <1>11, <3>1, <3>2
  <2>2. At(r, "recipe") /\ UNCHANGED <<base, spent>>
    BY <1>11 DEF RecipeWrites, RecipeRemoves, MayOperate
  <2> DEFINE l == [run[r] EXCEPT !.api = api, !.ops = run[r].ops + 1]
  <2>3. l \in RunRecord /\ l.pc = run[r].pc /\ l.dry = run[r].dry /\ l.warned = run[r].warned
    <3>1. run[r].ops + 1 \in Nat
      BY <1>0
    <3> HIDE DEF Apis
    <3> QED
      BY <1>0, <3>1 DEF RunRecord
  <2>4. run' = [run EXCEPT ![r] = l]
    BY <2>1
  <2> HIDE DEF l
  <2> QED
    BY <1>4, <2>1, <2>2, <2>3, <2>4 DEF At
<1>12. CASE RecipeWritesRaw(r)
  <2>1. PICK p \in Paths, c \in Content : disk' = [disk EXCEPT ![p] = c]
    BY <1>12 DEF RecipeWritesRaw
  <2> DEFINE l == [run[r] EXCEPT !.ops = run[r].ops + 1]
  <2>2. At(r, "recipe") /\ UNCHANGED <<base, spent>> /\ run' = [run EXCEPT ![r] = l]
    BY <1>12 DEF RecipeWritesRaw, MayOperate
  <2>3. l \in RunRecord /\ l.pc = run[r].pc /\ l.dry = run[r].dry /\ l.warned = run[r].warned
    BY <1>0 DEF RunRecord
  <2>4. disk' \in ProjectTrees
    BY <1>0, <2>1 DEF ProjectTrees
  <2> HIDE DEF l
  <2> QED
    BY <1>4, <2>2, <2>3, <2>4 DEF At
<1>13. ASSUME NEW pc \in {"finish", "rollback", "compensate"}, EndRecipe(r, pc)
       PROVE  Moved(r)
  <2> DEFINE past == ChangedBetween(run[r].before, disk) \ Restorable(Known(r))
             known == Known(r)
             l == [run[r] EXCEPT !.pc = pc, !.comp = known, !.past = past]
  <2>1. At(r, "recipe") /\ run' = [run EXCEPT ![r] = l] /\ UNCHANGED <<disk, base, spent>>
    BY <1>13 DEF EndRecipe
  <2>2. past \in SUBSET Paths
    BY DEF ChangedBetween
  <2>3. known \in Rollbacks
    BY KnownParts
  <2> HIDE DEF past, known
  <2>4. l \in RunRecord /\ l.pc = pc /\ l.dry = run[r].dry /\ l.warned = run[r].warned
    BY <1>0, <2>2, <2>3 DEF RunRecord, Phases
  <2> HIDE DEF l
  <2> QED
    BY <1>0, <1>4, <2>1, <2>4 DEF At
<1>14. CASE OwnCompensate(r)
  <2>1. PICK back \in SUBSET run[r].past :
          disk' = [p \in Paths |-> IF p \in back THEN run[r].before[p] ELSE disk[p]]
    BY <1>14 DEF OwnCompensate
  <2> DEFINE l == [run[r] EXCEPT !.pc = "rollback"]
  <2>2. At(r, "compensate") /\ run' = [run EXCEPT ![r] = l] /\ UNCHANGED <<base, spent>>
    BY <1>14 DEF OwnCompensate, Then
  <2>3. disk' \in ProjectTrees
    BY <1>0, <2>1 DEF ProjectTrees
  <2>4. l \in RunRecord /\ l.pc = "rollback" /\ l.dry = run[r].dry /\ l.warned = run[r].warned
    BY <1>0 DEF RunRecord, Phases
  <2> HIDE DEF l
  <2> QED
    BY <1>4, <2>2, <2>3, <2>4 DEF At
<1>15. RevertFiles(disk, run[r].comp) \in ProjectTrees
       /\ PartialReverts(disk, run[r].comp) \subseteq ProjectTrees
  BY <1>0, RevertType
<1>16. CASE CleanDryRun(r) \/ Rollback(r)
  <2>1. PICK warned \in {run[r].warned, run[r].past} :
          ReturnUndone(r, warned) /\ disk' = RevertFiles(disk, run[r].comp) /\ UNCHANGED <<base, spent>>
    BY <1>16 DEF CleanDryRun, Rollback
  <2>2. warned \in SUBSET run[r].past
    BY <1>1
  <2> QED
    BY <1>3, <1>15, <2>1, <2>2
<1>17. CASE RollbackFails(r)
  <2> DEFINE l == [Returned(r, "failed") EXCEPT !.warned = run[r].past]
  <2>1. /\ Fault /\ UNCHANGED base /\ disk' \in ProjectTrees /\ run' = [run EXCEPT ![r] = l]
    BY <1>15, <1>17 DEF RollbackFails
  <2>2. /\ l \in RunRecord /\ l.dry = run[r].dry /\ l.past = run[r].past /\ l.pc = "failed"
        /\ l.warned = run[r].past
    BY <1>0, TreeTypes DEF Returned, RunRecord, Phases
  <2> HIDE DEF l
  <2>3. l.pc # "idle" /\ l.pc \in {"failed", "undone"}
    BY <2>2
  <2> QED
    BY <1>1, <2>1, <2>2, <2>3, Move
<1>18. FormattedTrees(r) \subseteq ProjectTrees
  BY <1>0 DEF FormattedTrees, ProjectTrees, Content
<1>19. CASE FinishRun(r)
  <2>1. At(r, "finish") /\ Return(r, "ok") /\ UNCHANGED <<base, spent>> /\ disk' \in ProjectTrees
    BY <1>0, <1>18, <1>19 DEF FinishRun
  <2> QED
    BY <1>2, <2>1 DEF At
<1>20. CASE FormatFails(r)
  <2>1. PICK tree \in FormattedTrees(r) : disk' = RevertFiles(tree, run[r].comp)
    BY <1>20 DEF FormatFails
  <2>2. ReturnUndone(r, {}) /\ UNCHANGED <<base, spent>>
    BY <1>20 DEF FormatFails
  <2>3. disk' \in ProjectTrees
    BY <1>0, <1>18, <2>1, RevertType
  <2> QED
    BY <1>3, <2>2, <2>3
<1>21. Moved(r)
  BY <1>1, <1>5, <1>6, <1>8, <1>9, <1>10, <1>11, <1>12, <1>13, <1>14, <1>16, <1>17, <1>19, <1>20
     DEF RunStep, StartDryRun, EndDryRun, RecipeSucceeds, RecipeThrows, RecipeReportsFailure
<1> QED
  BY <1>21

-----------------------------------------------------------------------------
(* The invariant of the saga                                                *)

Steps == 1..NSteps

\* The tree that step r began with, or will.
TreeOf(r) == IF r \in Steps /\ ~At(r, "idle") THEN base[r] ELSE disk

\* The receipt of step r leads from the tree of the next step back to its own.
Undoes(r) ==
    \A p \in Paths \ run[r].past : RevertFiles(TreeOf(r + 1), run[r].comp)[p] = TreeOf(r)[p]

SagaType ==
    /\ TypeOK
    /\ saga \in [status : {"EXECUTING", "COMPENSATING", "SUCCESS", "FAILED"},
                 at : 0..(NSteps + 1), start : ProjectTrees]

\* The steps before the one at work are complete, those after it not begun.
Progress ==
    /\ saga.status = "EXECUTING" =>
         /\ saga.at >= 1
         /\ \A r \in Steps : (r < saga.at => At(r, "ok")) /\ (r > saga.at => At(r, "idle"))
    /\ saga.status = "COMPENSATING" =>
         /\ saga.at < NSteps
         /\ \A r \in Steps : r <= saga.at => At(r, "ok")
    /\ \A r \in Runs \ Steps : At(r, "idle")
    /\ saga.status = "FAILED" => saga.at = 0

\* The completed steps that are past their turn to be compensated.
Uncompensated == {r \in Steps : r > saga.at /\ At(r, "ok")}

\* Each of them cost a fault.
FaultsPaid ==
    saga.status \in {"COMPENSATING", "FAILED"} => Cardinality(Uncompensated) <= spent.faults

\* What a rollback has come to: the tree the last compensated step began with,
\* but for files that a receipt still accounts for.
RolledBack ==
    \A p \in Paths : \/ disk[p] = TreeOf(saga.at + 1)[p]
                     \/ \E r \in Steps : r > saga.at /\ p \in Leftover(r)

Traces ==
    /\ saga.status = "EXECUTING" =>
         /\ saga.at \in Steps => RunInv(saga.at)
         /\ \A r \in Steps : r < saga.at => Undoes(r)
    /\ saga.status = "COMPENSATING" => \A r \in Steps : r <= saga.at => Undoes(r)
    /\ saga.status # "SUCCESS" => TreeOf(1) = saga.start
    /\ saga.status \in {"COMPENSATING", "FAILED"} /\ spent.torn = 0 => RolledBack

SagaInv ==
    /\ SagaType /\ Progress /\ FaultsPaid
    /\ \A r \in Runs : WarnsOfPast(r)

\* A completed step is undone, or keeps its receipt and costs a fault.
LEMMA UndoMoves ==
    ASSUME TypeOK, NEW r \in Runs, WarnsOfPast(r), At(r, "ok")
    PROVE  /\ UndoRun(r) => /\ Moved(r) /\ At(r, "undone")' /\ UNCHANGED spent
                            /\ run'[r].comp = NoRollback /\ run'[r].past = run[r].past
           /\ UndoFails(r) => /\ Moved(r) /\ UNCHANGED run
                              /\ spent'.faults = spent.faults + 1 /\ spent'.torn = spent.torn
<1>0. /\ run[r] \in RunRecord /\ disk \in ProjectTrees
      /\ run[r].before \in ProjectTrees /\ run[r].comp \in Rollbacks
  BY DEF TypeOK, RunRecord
<1>1. /\ ~run[r].dry /\ run[r].warned \subseteq run[r].past
      /\ run[r].pc = "ok" /\ run[r].warned = {}
  BY DEF WarnsOfPast, At
<1>2. RevertFiles(disk, run[r].comp) \in ProjectTrees
      /\ PartialReverts(disk, run[r].comp) \subseteq ProjectTrees
  BY <1>0, RevertType
<1>3. ASSUME UndoRun(r)
      PROVE  /\ Moved(r) /\ At(r, "undone")' /\ UNCHANGED spent
             /\ run'[r].comp = NoRollback /\ run'[r].past = run[r].past
  <2> DEFINE l == [run[r] EXCEPT !.pc = "undone", !.comp = NoRollback]
  <2>1. run' = [run EXCEPT ![r] = l] /\ UNCHANGED <<base, spent>>
    BY <1>3 DEF UndoRun
  <2>2. PICK back \in SUBSET run[r].past :
          LET tree == RevertFiles(disk, run[r].comp)
          IN  disk' = [p \in Paths |-> IF p \in back THEN run[r].before[p] ELSE tree[p]]
    BY <1>3 DEF UndoRun
  <2>3. disk' \in ProjectTrees
    BY <1>0, <1>2, <2>2 DEF ProjectTrees
  <2>4. /\ l \in RunRecord /\ l.pc = "undone" /\ l.dry = run[r].dry /\ l.warned = run[r].warned
        /\ l.comp = NoRollback /\ l.past = run[r].past
    BY <1>0, TreeTypes DEF RunRecord, Phases
  <2> HIDE DEF l
  <2>5. Moved(r)
    <3>1. l.pc # "idle" /\ ~l.dry /\ l.warned = {}
      BY <1>1, <2>4
    <3> QED
      BY <2>1, <2>3, <2>4, <3>1, Move
  <2>6. run'[r] = l
    BY <2>1 DEF TypeOK
  <2> QED
    BY <2>1, <2>4, <2>5, <2>6 DEF At
<1>4. ASSUME UndoFails(r)
      PROVE  /\ Moved(r) /\ UNCHANGED run
             /\ spent'.faults = spent.faults + 1 /\ spent'.torn = spent.torn
  <2>1. Fault /\ UNCHANGED <<run, base>> /\ disk' \in ProjectTrees
    BY <1>2, <1>4 DEF UndoFails
  <2>2. run' = [run EXCEPT ![r] = run[r]]
    BY <2>1 DEF TypeOK
  <2>3. Moved(r)
    BY <1>0, <1>1, <2>1, <2>2, Move
  <2>4. spent'.faults = spent.faults + 1 /\ spent'.torn = spent.torn
    BY <2>1 DEF Fault, TypeOK
  <2> QED
    BY <2>1, <2>3, <2>4
<1> QED
  BY <1>3, <1>4

\* A call begins on the disk as it is.
LEMMA BeginMoves ==
    ASSUME TypeOK, NEW r \in Runs, NEW policy \in Policies, NEW code \in BOOLEAN,
           BeginRun(r, policy, FALSE, code)
    PROVE  /\ TypeOK' /\ WarnsOfPast(r)' /\ At(r, "begin")' /\ At(r, "idle")
           /\ UNCHANGED <<disk, spent>> /\ base'[r] = disk
           /\ \A q \in Runs : q # r => run'[q] = run[q] /\ base'[q] = base[q]
<1>1. PICK rendered \in ProjectTrees :
        run' = [run EXCEPT ![r] = [IdleRun EXCEPT !.pc = "begin", !.policy = policy,
                                     !.dry = FALSE, !.code = code, !.rendered = rendered]]
  BY DEF BeginRun
<1> DEFINE l == [IdleRun EXCEPT !.pc = "begin", !.policy = policy, !.dry = FALSE, !.code = code,
                                !.rendered = rendered]
<1>2. UNCHANGED <<disk, spent>> /\ base' = [base EXCEPT ![r] = disk] /\ At(r, "idle")
  BY DEF BeginRun
<1>3. l \in RunRecord
  BY TreeTypes DEF RunRecord, Phases
<1>4. l.pc = "begin" /\ l.dry = FALSE /\ l.warned = {}
  BY DEF IdleRun
<1> HIDE DEF l
<1>5. run' = [run EXCEPT ![r] = l]
  BY <1>1 DEF l
<1>6. /\ TypeOK' /\ run'[r] = l /\ base'[r] = disk
      /\ \A q \in Runs : q # r => run'[q] = run[q] /\ base'[q] = base[q]
  BY <1>2, <1>3, <1>5 DEF TypeOK
<1> QED
  BY <1>2, <1>4, <1>6 DEF WarnsOfPast, At

LEMMA OthersWarn ==
    ASSUME NEW r \in Runs, \A q \in Runs : WarnsOfPast(q), WarnsOfPast(r)',
           \A q \in Runs : q # r => run'[q] = run[q]
    PROVE  \A q \in Runs : WarnsOfPast(q)'
BY DEF WarnsOfPast

LEMMA UncompensatedFinite ==
    ASSUME SagaType
    PROVE  /\ IsFiniteSet(Uncompensated) /\ Cardinality(Uncompensated) \in Nat
           /\ spent.faults \in Nat
<1>1. IsFiniteSet(Steps)
  BY SagaAssumption, FS_Interval DEF Steps
<1>2. IsFiniteSet(Uncompensated)
  BY <1>1, FS_Subset DEF Uncompensated
<1> QED
  BY <1>2, FS_CardinalityType, RunAssumption DEF SagaType, TypeOK

LEMMA SagaStart == SagaInit => SagaInv
<1> SUFFICES ASSUME SagaInit PROVE SagaInv
  OBVIOUS
<1>1. \A r \in Runs : run[r] = IdleRun
  BY DEF SagaInit, Init
<1>2. SagaType
  BY TreeTypes, RunAssumption, SagaAssumption DEF SagaInit, Init, SagaType, TypeOK
<1>3. saga.status = "EXECUTING" /\ saga.at = 1
  BY DEF SagaInit
<1>4. \A r \in Runs : run[r].pc = "idle" /\ WarnsOfPast(r)
  BY <1>1 DEF IdleRun, WarnsOfPast
<1>5. Progress
  BY <1>3, <1>4, SagaAssumption DEF Progress, At, Steps
<1> QED
  BY <1>2, <1>3, <1>4, <1>5 DEF SagaInv, FaultsPaid

\* A step of the saga keeps its invariant.
LEMMA SagaStep == SagaInv /\ [SagaNext]_sagaVars => SagaInv'
<1> SUFFICES ASSUME SagaInv, [SagaNext]_sagaVars PROVE SagaInv'
  OBVIOUS
<1>0. /\ SagaType /\ Progress /\ FaultsPaid /\ TypeOK
      /\ \A r \in Runs : WarnsOfPast(r)
      /\ NSteps \in Nat /\ Steps \subseteq Runs
  BY SagaAssumption DEF SagaInv, SagaType, Steps
<1>t. /\ saga \in [status : {"EXECUTING", "COMPENSATING", "SUCCESS", "FAILED"},
                   at : 0..(NSteps + 1), start : ProjectTrees]
      /\ spent.faults \in Nat
  BY <1>0, RunAssumption DEF SagaType, TypeOK
\* The step at work moves.
<1>1. ASSUME NEW r \in Steps, r = saga.at, saga.status = "EXECUTING", UNCHANGED saga,
             TypeOK', WarnsOfPast(r)', \A q \in Runs : q # r => run'[q] = run[q]
      PROVE  SagaInv'
  <2>1. \A q \in Runs : WarnsOfPast(q)'
    BY <1>0, <1>1, OthersWarn
  <2>2. Progress'
    BY <1>0, <1>1 DEF Progress, At, Steps
  <2> QED
    BY <1>0, <1>1, <2>1, <2>2 DEF SagaInv, SagaType, FaultsPaid
<1>2. CASE ExecuteStep
  <2>1. PICK r \in Steps : r = saga.at
    BY <1>0, <1>2, <1>t DEF ExecuteStep, Executing, Progress, Steps
  <2>2. PICK code \in BOOLEAN : BeginRun(r, "skip", FALSE, code)
    BY <1>2, <2>1 DEF ExecuteStep
  <2>3. saga.status = "EXECUTING" /\ UNCHANGED saga /\ r \in Runs /\ "skip" \in Policies
    BY <1>0, <1>2 DEF ExecuteStep, Executing, Policies
  <2> QED
    BY <1>0, <1>1, <2>1, <2>2, <2>3, BeginMoves
<1>3. CASE StepWorks
  <2>1. PICK r \in Steps : r = saga.at
    BY <1>0, <1>3, <1>t DEF StepWorks, Executing, Progress, Steps
  <2>2. saga.status = "EXECUTING" /\ UNCHANGED saga /\ RunStep(r)
    BY <1>3, <2>1 DEF StepWorks, Executing
  <2>3. Moved(r)
    BY <1>0, <2>2, RunStepMoves
  <2> QED
    BY <1>0, <1>1, <2>1, <2>2, <2>3 DEF Moved
\* The saga moves, and no run.
<1>4. ASSUME UNCHANGED vars
      PROVE  TypeOK' /\ (\A r \in Runs : WarnsOfPast(r)') /\ (\A r \in Runs : run'[r] = run[r])
  BY <1>0, <1>4 DEF vars, TypeOK, WarnsOfPast
<1>5. CASE StepCompletes
  <2>1. /\ saga.at \in Steps /\ saga.status = "EXECUTING" /\ UNCHANGED vars /\ At(saga.at, "ok")
        /\ saga' = [saga EXCEPT !.at = saga.at + 1]
    BY <1>0, <1>5, <1>t DEF StepCompletes, Executing, Progress, Steps
  <2>2. saga'.at = saga.at + 1 /\ saga'.status = "EXECUTING" /\ SagaType'
    BY <1>0, <1>4, <1>t, <2>1 DEF SagaType, Steps
  <2>3. Progress'
    BY <1>0, <1>4, <1>t, <2>1, <2>2 DEF Progress, At, Steps
  <2> QED
    BY <1>4, <2>1, <2>2, <2>3 DEF SagaInv, FaultsPaid
<1>6. CASE StepFails
  <2>1. /\ saga.at \in Steps /\ saga.status = "EXECUTING" /\ UNCHANGED vars
        /\ run[saga.at].pc \in {"idle", "failed"}
        /\ saga' = [saga EXCEPT !.status = "COMPENSATING", !.at = saga.at - 1]
    BY <1>0, <1>6, <1>t DEF StepFails, Executing, Progress, Steps
  <2>2. saga'.at = saga.at - 1 /\ saga'.status = "COMPENSATING" /\ SagaType'
    <3>1. saga.at - 1 \in 0..(NSteps + 1)
      BY <1>0, <2>1 DEF Steps
    <3> QED
      BY <1>4, <1>t, <2>1, <3>1 DEF SagaType
  <2>3. Progress'
    BY <1>0, <1>4, <1>t, <2>1, <2>2 DEF Progress, At, Steps
  <2>4. Uncompensated' = {}
    BY <1>0, <1>4, <1>t, <2>1, <2>2 DEF Progress, At, Steps, Uncompensated
  <2>5. Cardinality(Uncompensated') <= spent'.faults
    BY <1>t, <2>1, <2>4, FS_EmptySet DEF vars
  <2> QED
    BY <1>4, <2>1, <2>2, <2>3, <2>5 DEF SagaInv, FaultsPaid
<1>7. CASE AllStepsComplete
  <2>1. saga' = [saga EXCEPT !.status = "SUCCESS"] /\ UNCHANGED vars
    BY <1>7 DEF AllStepsComplete
  <2>2. saga'.status = "SUCCESS" /\ SagaType'
    BY <1>0, <1>4, <1>t, <2>1 DEF SagaType
  <2>3. Progress'
    BY <1>0, <1>4, <2>1, <2>2 DEF Progress, At
  <2> QED
    BY <1>4, <2>1, <2>2, <2>3 DEF SagaInv, FaultsPaid
\* The next completed step is compensated, or not.
<1>8. ASSUME Compensating
      PROVE  /\ saga.at \in Steps /\ saga.status = "COMPENSATING" /\ saga.at < NSteps
             /\ At(saga.at, "ok") /\ Cardinality(Uncompensated) <= spent.faults
  BY <1>0, <1>8, <1>t DEF Compensating, Progress, Steps, FaultsPaid
<1>9. ASSUME NEW r \in Steps, r = saga.at, Compensating, Moved(r),
             saga' = [saga EXCEPT !.at = saga.at - 1]
      PROVE  /\ SagaType' /\ Progress' /\ \A q \in Runs : WarnsOfPast(q)'
             /\ saga'.at = r - 1 /\ saga'.status = "COMPENSATING"
  <2>1. saga'.at = r - 1 /\ saga'.status = "COMPENSATING" /\ SagaType'
    <3>1. saga.at - 1 \in 0..(NSteps + 1)
      BY <1>0, <1>8, <1>9 DEF Steps
    <3> QED
      BY <1>8, <1>9, <1>t, <3>1 DEF SagaType, Moved
  <2>2. \A q \in Runs : WarnsOfPast(q)'
    BY <1>0, <1>9, OthersWarn DEF Moved
  <2>3. Progress'
    BY <1>0, <1>8, <1>9, <1>t, <2>1 DEF Progress, At, Steps, Moved
  <2> QED
    BY <2>1, <2>2, <2>3
<1>10. CASE Compensate
  <2>1. PICK r \in Steps : r = saga.at
    BY <1>8, <1>10 DEF Compensate
  <2>2. Compensating /\ UndoRun(r) /\ saga' = [saga EXCEPT !.at = saga.at - 1]
    BY <1>10, <2>1 DEF Compensate
  <2>3. Moved(r) /\ At(r, "undone")' /\ UNCHANGED spent
    BY <1>0, <1>8, <2>1, <2>2, UndoMoves
  <2>4. \A q \in Steps : q > r - 1 /\ run'[q].pc = "ok" <=> q > r /\ run[q].pc = "ok"
    BY <1>0, <2>3 DEF Moved, At, Steps
  <2>5. Uncompensated' = Uncompensated
    BY <1>9, <2>1, <2>2, <2>3, <2>4 DEF Uncompensated, At, Steps
  <2> QED
    BY <1>8, <1>9, <2>1, <2>2, <2>3, <2>5 DEF SagaInv, FaultsPaid
<1>11. CASE CompensateFails
  <2>1. PICK r \in Steps : r = saga.at
    BY <1>8, <1>11 DEF CompensateFails
  <2>2. Compensating /\ UndoFails(r) /\ saga' = [saga EXCEPT !.at = saga.at - 1]
    BY <1>11, <2>1 DEF CompensateFails
  <2>3. Moved(r) /\ UNCHANGED run /\ spent'.faults = spent.faults + 1
    BY <1>0, <1>8, <2>1, <2>2, UndoMoves
  <2>4. Uncompensated' = Uncompensated \union {r}
    BY <1>0, <1>8, <1>9, <1>t, <2>1, <2>2, <2>3 DEF Uncompensated, At, Steps
  <2>5. Cardinality(Uncompensated') <= Cardinality(Uncompensated) + 1
    BY <1>0, <2>4, FS_AddElement, UncompensatedFinite
  <2>6. Cardinality(Uncompensated') <= spent'.faults
    <3>1. Cardinality(Uncompensated') \in Nat
      BY <1>0, <2>4, FS_AddElement, FS_CardinalityType, UncompensatedFinite
    <3> QED
      BY <1>0, <1>8, <2>2, <2>3, <2>5, <3>1, UncompensatedFinite
  <2> QED
    BY <1>9, <2>1, <2>2, <2>3, <2>6 DEF SagaInv, FaultsPaid
<1>12. CASE AllCompensated
  <2>1. /\ saga.status = "COMPENSATING" /\ saga.at = 0 /\ UNCHANGED vars
        /\ saga' = [saga EXCEPT !.status = "FAILED"]
    BY <1>12 DEF AllCompensated
  <2>2. saga'.at = 0 /\ saga'.status = "FAILED" /\ SagaType'
    BY <1>0, <1>4, <1>t, <2>1 DEF SagaType
  <2>3. Progress'
    BY <1>0, <1>4, <2>1, <2>2 DEF Progress, At
  <2>4. Uncompensated' = Uncompensated /\ spent' = spent
    BY <1>0, <1>4, <2>1, <2>2 DEF Uncompensated, At, vars
  <2> QED
    BY <1>0, <1>4, <2>1, <2>2, <2>3, <2>4 DEF SagaInv, FaultsPaid
<1>13. CASE UNCHANGED sagaVars
  <2>1. UNCHANGED vars /\ saga' = saga
    BY <1>13 DEF sagaVars
  <2>2. SagaType' /\ Progress'
    BY <1>0, <1>4, <2>1 DEF SagaType, Progress, At
  <2>3. Uncompensated' = Uncompensated /\ spent' = spent
    BY <1>0, <1>4, <2>1 DEF Uncompensated, At, vars
  <2> QED
    BY <1>0, <1>4, <2>1, <2>2, <2>3 DEF SagaInv, FaultsPaid
<1> QED
  BY <1>2, <1>3, <1>5, <1>6, <1>7, <1>10, <1>11, <1>12, <1>13 DEF SagaNext

\* A saga of any number of steps, over any files and faults.
THEOREM SagaInvariant == SagaSpec => []SagaInv
BY SagaStart, SagaStep, PTL DEF SagaSpec

\* No completed step is left uncompensated but for a fault of its own
\* compensation, whatever the recipes do and in whatever state they fail.
THEOREM StepsCompensated == SagaSpec => []EveryStepCompensated
<1>1. SagaInv => EveryStepCompensated
  <2> SUFFICES ASSUME SagaInv, saga.status = "FAILED"
               PROVE  Cardinality({r \in Runs : At(r, "ok")}) <= spent.faults
    BY DEF EveryStepCompensated
  <2>1. {r \in Runs : At(r, "ok")} = Uncompensated
    BY SagaAssumption DEF SagaInv, Progress, Uncompensated, At, Steps
  <2> QED
    BY <2>1 DEF SagaInv, FaultsPaid
<1> QED
  BY <1>1, SagaInvariant, PTL

-----------------------------------------------------------------------------
(* The trees of a saga                                                      *)

\* The tree a step began with stays.
LEMMA TreesStay ==
    ASSUME NEW r \in Steps, Moved(r), NEW q \in Steps, ~At(q, "idle")
    PROVE  TreeOf(q)' = TreeOf(q)
BY SagaAssumption DEF Moved, TreeOf, At, Steps

LEMMA UndoesStays ==
    ASSUME NEW r \in Steps, Moved(r), NEW q \in Steps, q < r, Undoes(q),
           \A s \in Steps : s <= r => ~At(s, "idle")
    PROVE  Undoes(q)'
<1>1. q + 1 \in Steps /\ q \in Runs /\ q # r /\ ~At(q, "idle") /\ ~At(q + 1, "idle")
  BY SagaAssumption DEF Steps
<1>2. TreeOf(q)' = TreeOf(q) /\ TreeOf(q + 1)' = TreeOf(q + 1)
  BY <1>1, TreesStay
<1>3. run'[q] = run[q]
  BY <1>1 DEF Moved
<1> QED
  BY <1>2, <1>3 DEF Undoes, RevertFiles, Restorable

LEMMA IdleInv ==
    ASSUME NEW r, At(r, "idle")
    PROVE  RunInv(r)
BY DEF RunInv, At

\* A run that completed leads back from the disk to its own tree.
LEMMA CompletedUndoes ==
    ASSUME NEW r \in Steps, RunInv(r), WarnsOfPast(r), At(r, "ok"),
           r + 1 \in Steps => At(r + 1, "idle")
    PROVE  Undoes(r)
<1>1. BackAt(RevertFiles(disk, run[r].comp), r, run[r].past)
  BY DEF RunInv, WarnsOfPast, At, Restores
<1>2. TreeOf(r) = base[r] /\ TreeOf(r + 1) = disk
  BY DEF TreeOf, At
<1> QED
  BY <1>1, <1>2 DEF Undoes, BackAt

\* A run that failed left its tree, but for what its receipt accounts for.
LEMMA FailedLeaves ==
    ASSUME TypeOK, NEW r \in Steps, RunInv(r), WarnsOfPast(r), run[r].pc \in {"idle", "failed"},
           spent.torn = 0
    PROVE  \A p \in Paths : disk[p] = TreeOf(r)[p] \/ p \in Leftover(r)
<1>1. CASE At(r, "idle")
  BY <1>1 DEF TreeOf
<1>2. CASE At(r, "failed") /\ run[r].comp = NoRollback
  <2>1. BackAt(disk, r, run[r].past)
    BY <1>2 DEF RunInv, WarnsOfPast, BackAt
  <2> QED
    BY <1>2, <2>1 DEF TreeOf, At, BackAt, Leftover
<1>3. CASE At(r, "failed") /\ run[r].comp # NoRollback
  <2>1. BackAt(RevertFiles(disk, run[r].comp), r, run[r].past)
    BY <1>3 DEF RunInv, WarnsOfPast, At, Restores
  <2>2. \A p \in Paths : p \notin Leftover(r) => RevertFiles(disk, run[r].comp)[p] = disk[p]
    BY DEF RevertFiles, Leftover
  <2>3. TreeOf(r) = base[r]
    BY <1>3 DEF TreeOf, At
  <2> QED
    BY <2>1, <2>2, <2>3 DEF BackAt, Leftover
<1> QED
  BY <1>1, <1>2, <1>3 DEF At

\* A compensation takes the disk from the tree of the next step to the one of
\* its own; where it does not, its receipt says so.
LEMMA CompensatedTo ==
    ASSUME TypeOK, NEW r \in Steps, r \in Runs, Undoes(r), At(r, "ok"), NEW p \in Paths,
           disk[p] = TreeOf(r + 1)[p]
    PROVE  /\ UndoRun(r) => disk'[p] = TreeOf(r)[p] \/ p \in run[r].past
           /\ UndoFails(r) => disk'[p] = TreeOf(r)[p] \/ p \in Leftover(r)
<1>1. RevertFiles(disk, run[r].comp)[p] = RevertFiles(TreeOf(r + 1), run[r].comp)[p]
  BY DEF RevertFiles
<1>2. p \in run[r].past \/ RevertFiles(disk, run[r].comp)[p] = TreeOf(r)[p]
  BY <1>1 DEF Undoes
<1>3. ASSUME UndoRun(r)
      PROVE  disk'[p] = TreeOf(r)[p] \/ p \in run[r].past
  <2>1. PICK back \in SUBSET run[r].past :
          LET tree == RevertFiles(disk, run[r].comp)
          IN  disk' = [q \in Paths |-> IF q \in back THEN run[r].before[q] ELSE tree[q]]
    BY <1>3 DEF UndoRun
  <2> QED
    BY <1>2, <2>1
<1>4. ASSUME UndoFails(r), p \notin Leftover(r)
      PROVE  disk'[p] = TreeOf(r)[p]
  <2>1. disk' \in PartialReverts(disk, run[r].comp)
    BY <1>4 DEF UndoFails
  <2>2. p \notin run[r].comp.created /\ p \notin Restorable(run[r].comp) /\ p \notin run[r].past
    BY <1>4 DEF Leftover
  <2>3. disk'[p] = disk[p]
    BY <2>1, <2>2 DEF PartialReverts
  <2>4. RevertFiles(disk, run[r].comp)[p] = disk[p]
    BY <2>2 DEF RevertFiles
  <2> QED
    BY <1>2, <2>2, <2>3, <2>4
<1> QED
  BY <1>3, <1>4

LEMMA TracesStart == SagaInit => Traces
<1> SUFFICES ASSUME SagaInit PROVE Traces
  OBVIOUS
<1>1. \A r \in Runs : At(r, "idle")
  BY DEF SagaInit, Init, IdleRun, At
<1>2. saga.status = "EXECUTING" /\ saga.at = 1 /\ saga.start = disk
  BY DEF SagaInit
<1>3. \A r \in Steps : RunInv(r) /\ ~(r < 1)
  BY <1>1, IdleInv, SagaAssumption DEF Steps
<1>4. TreeOf(1) = disk
  BY <1>1, SagaAssumption DEF TreeOf, Steps
<1> QED
  BY <1>2, <1>3, <1>4 DEF Traces

LEMMA TracesStep ==
    ASSUME ~Mixes
    PROVE  SagaInv /\ Traces /\ [SagaNext]_sagaVars => Traces'
<1> SUFFICES ASSUME SagaInv, Traces, [SagaNext]_sagaVars PROVE Traces'
  OBVIOUS
<1>0. /\ TypeOK /\ Progress /\ \A r \in Runs : WarnsOfPast(r)
      /\ NSteps \in Nat /\ Steps \subseteq Runs /\ Steps \subseteq Nat
      /\ saga.at \in 0..(NSteps + 1)
      /\ saga \in [status : {"EXECUTING", "COMPENSATING", "SUCCESS", "FAILED"},
                   at : 0..(NSteps + 1), start : ProjectTrees]
      /\ spent.torn \in Nat
  BY SagaAssumption, RunAssumption DEF SagaInv, SagaType, TypeOK, Steps
<1>1. CASE ExecuteStep
  <2>1. PICK r \in Steps : r = saga.at
    BY <1>0, <1>1 DEF ExecuteStep, Executing, Progress, Steps
  <2>2. PICK code \in BOOLEAN : BeginRun(r, "skip", FALSE, code)
    BY <1>1, <2>1 DEF ExecuteStep
  <2>3. saga.status = "EXECUTING" /\ UNCHANGED saga /\ r \in Runs /\ "skip" \in Policies
    BY <1>0, <1>1 DEF ExecuteStep, Executing, Policies
  <2>4. /\ At(r, "begin")' /\ At(r, "idle") /\ UNCHANGED <<disk, spent>> /\ base'[r] = disk
        /\ \A q \in Runs : q # r => run'[q] = run[q] /\ base'[q] = base[q]
    BY <1>0, <2>2, <2>3, BeginMoves
  <2>5. RunInv(r)'
    <3>1. RunInv(r)
      BY <2>1, <2>3 DEF Traces
    <3>2. CallNext(r)
      BY <2>2, <2>3 DEF CallNext
    <3> QED
      BY <1>0, <2>3, <3>1, <3>2, CallStep
  <2>6. \A q \in Nat : TreeOf(q)' = TreeOf(q)
    BY <1>0, <2>4 DEF TreeOf, At
  <2>7. \A q \in Steps : q < r => Undoes(q)'
    <3> SUFFICES ASSUME NEW q \in Steps, q < r PROVE Undoes(q)'
      OBVIOUS
    <3>1. Undoes(q) /\ run'[q] = run[q] /\ q \in Nat /\ q + 1 \in Nat
      BY <1>0, <2>1, <2>3, <2>4 DEF Traces
    <3> QED
      BY <2>6, <3>1 DEF Undoes, RevertFiles, Restorable
  <2> QED
    BY <2>1, <2>3, <2>5, <2>6, <2>7 DEF Traces
<1>2. CASE StepWorks
  <2>1. PICK r \in Steps : r = saga.at
    BY <1>0, <1>2 DEF StepWorks, Executing, Progress, Steps
  <2>2. saga.status = "EXECUTING" /\ UNCHANGED saga /\ RunStep(r) /\ r \in Runs
    BY <1>0, <1>2, <2>1 DEF StepWorks, Executing
  <2>3. Moved(r) /\ ~At(r, "idle")
    BY <1>0, <2>2, RunStepMoves
  <2>4. RunInv(r)'
    <3>1. RunInv(r)
      BY <2>1, <2>2 DEF Traces
    <3>2. CallNext(r)
      BY <2>2 DEF CallNext
    <3> QED
      BY <1>0, <2>2, <3>1, <3>2, CallStep
  <2>5. \A q \in Steps : q <= r => ~At(q, "idle")
    BY <1>0, <2>1, <2>2, <2>3 DEF Progress, At
  <2>6. \A q \in Steps : q < r => Undoes(q)'
    BY <2>1, <2>2, <2>3, <2>5, UndoesStays DEF Traces
  <2>7. TreeOf(1)' = TreeOf(1)
    <3>1. 1 \in Steps /\ 1 <= r
      BY <1>0 DEF Steps
    <3> QED
      BY <2>3, <2>5, <3>1, TreesStay
  <2> QED
    BY <2>1, <2>2, <2>4, <2>6, <2>7 DEF Traces
\* The saga moves, and no run.
<1>3. ASSUME UNCHANGED vars
      PROVE  /\ disk' = disk /\ base' = base /\ run' = run /\ spent' = spent
             /\ \A q \in Nat : TreeOf(q)' = TreeOf(q) /\ Undoes(q)' = Undoes(q)
                              /\ RunInv(q)' = RunInv(q) /\ Leftover(q)' = Leftover(q)
  <2>1. disk' = disk /\ base' = base /\ run' = run /\ spent' = spent
    BY <1>3 DEF vars
  <2>2. ASSUME NEW q \in Nat PROVE TreeOf(q)' = TreeOf(q) /\ Undoes(q)' = Undoes(q)
    BY <2>1 DEF TreeOf, Undoes, At, RevertFiles, Restorable
  <2>3. ASSUME NEW q \in Nat PROVE RunInv(q)' = RunInv(q)
    BY <2>1 DEF RunInv, At, BackAt, PlanKnown, ApiKnown, Restores, RevertFiles, Restorable
  <2>4. ASSUME NEW q \in Nat PROVE Leftover(q)' = Leftover(q)
    BY <2>1 DEF Leftover, Restorable
  <2> QED
    BY <2>1, <2>2, <2>3, <2>4
<1>4. CASE StepCompletes
  <2>1. PICK r \in Steps : r = saga.at
    BY <1>0, <1>4 DEF StepCompletes, Executing, Progress, Steps
  <2>2. /\ saga.status = "EXECUTING" /\ At(r, "ok") /\ UNCHANGED vars /\ r \in Runs /\ r \in Nat
        /\ saga'.at = r + 1 /\ saga'.status = "EXECUTING" /\ saga'.start = saga.start
    BY <1>0, <1>4, <2>1 DEF StepCompletes, Executing
  <2>3. \A q \in Steps : q > r => At(q, "idle")
    BY <2>1, <2>2 DEF Progress, SagaInv
  <2>4. r + 1 \in Steps => At(r + 1, "idle") /\ RunInv(r + 1)
    BY <2>2, <2>3, IdleInv
  <2>5. Undoes(r)
    <3>1. RunInv(r)
      BY <2>1, <2>2 DEF Traces
    <3> QED
      BY <1>0, <2>2, <2>4, <3>1, CompletedUndoes
  <2>6. \A q \in Steps : q < r + 1 => Undoes(q)
    BY <1>0, <2>1, <2>2, <2>5 DEF Traces
  <2>7. saga'.at \in Steps => RunInv(saga.at)'
    <3>1. r + 1 \in Steps => RunInv(r + 1)'
      BY <1>3, <2>2, <2>4
    <3> QED
      BY <2>2, <3>1 DEF RunInv, At, BackAt, PlanKnown, ApiKnown, Restores, RevertFiles, Restorable
  <2>8. \A q \in Steps : q < saga'.at => Undoes(q)'
    BY <1>0, <1>3, <2>2, <2>6
  <2>9. TreeOf(1)' = saga'.start
    BY <1>3, <2>2 DEF Traces
  <2> QED
    BY <2>2, <2>7, <2>8, <2>9 DEF Traces
<1>5. CASE StepFails
  <2>1. PICK r \in Steps : r = saga.at
    BY <1>0, <1>5 DEF StepFails, Executing, Progress, Steps
  <2>2. /\ saga.status = "EXECUTING" /\ run[r].pc \in {"idle", "failed"} /\ UNCHANGED vars
        /\ r \in Runs /\ r \in Nat
        /\ saga'.at = r - 1 /\ saga'.status = "COMPENSATING" /\ saga'.start = saga.start
    BY <1>0, <1>5, <2>1 DEF StepFails, Executing
  <2>3. \A q \in Steps : q <= saga'.at => Undoes(q)'
    BY <1>0, <1>3, <2>1, <2>2 DEF Traces
  <2>4. TreeOf(1)' = saga'.start
    BY <1>3, <2>2 DEF Traces
  <2>5. ASSUME spent'.torn = 0 PROVE RolledBack'
    <3>1. spent.torn = 0 /\ RunInv(r)
      BY <1>3, <2>1, <2>2, <2>5 DEF Traces
    <3>2. \A p \in Paths : disk[p] = TreeOf(r)[p] \/ p \in Leftover(r)
      BY <1>0, <2>2, <3>1, FailedLeaves
    <3>3. r > saga'.at /\ saga'.at + 1 = r /\ r - 1 + 1 = r
      BY <2>2
    <3>4. \A p \in Paths : disk'[p] = TreeOf(r)'[p] \/ p \in Leftover(r)'
      BY <1>3, <2>2, <3>2
    <3> QED
      BY <3>3, <3>4 DEF RolledBack, TreeOf, At
  <2> QED
    BY <2>2, <2>3, <2>4, <2>5 DEF Traces
<1>6. CASE AllStepsComplete
  <2>1. saga'.status = "SUCCESS"
    BY <1>0, <1>6 DEF AllStepsComplete
  <2> QED
    BY <2>1 DEF Traces
\* The next completed step is compensated, or not.
<1>7. ASSUME Compensating, Compensate \/ CompensateFails
      PROVE  Traces'
  <2>1. PICK r \in Steps : r = saga.at
    BY <1>0, <1>7 DEF Compensating, Progress, Steps
  <2>2. /\ saga.status = "COMPENSATING" /\ r \in Runs /\ r \in Nat /\ At(r, "ok")
        /\ saga'.at = r - 1 /\ saga'.status = "COMPENSATING" /\ saga'.start = saga.start
    BY <1>0, <1>7, <2>1 DEF Compensating, Compensate, CompensateFails, Progress
  <2>3. UndoRun(r) \/ UndoFails(r)
    BY <1>7, <2>1 DEF Compensate, CompensateFails
  <2>4. /\ Moved(r) /\ spent'.torn = spent.torn
        /\ UndoRun(r) => run'[r].past = run[r].past
        /\ UndoFails(r) => run'[r] = run[r]
    BY <1>0, <2>2, <2>3, UndoMoves
  <2>5. \A q \in Steps : q <= r => ~At(q, "idle")
    BY <1>0, <2>1, <2>2 DEF Progress, At
  <2>6. \A q \in Steps : q <= saga'.at => Undoes(q)'
    <3> SUFFICES ASSUME NEW q \in Steps, q <= saga'.at PROVE Undoes(q)'
      OBVIOUS
    <3>1. q < r /\ q <= saga.at
      BY <1>0, <2>1, <2>2
    <3> QED
      BY <2>2, <2>4, <2>5, <3>1, UndoesStays DEF Traces
  <2>7. TreeOf(1)' = saga'.start
    <3>1. 1 \in Steps /\ 1 <= r
      BY <1>0 DEF Steps
    <3>2. TreeOf(1)' = TreeOf(1)
      BY <2>4, <2>5, <3>1, TreesStay
    <3> QED
      BY <2>2, <3>2 DEF Traces
  <2>8. ASSUME spent'.torn = 0 PROVE RolledBack'
    <3>1. RolledBack /\ Undoes(r)
      BY <2>1, <2>2, <2>4, <2>8 DEF Traces
    <3>2. TreeOf(r)' = TreeOf(r)
      BY <1>0, <2>2, <2>4, <2>5, TreesStay
    <3>3. saga'.at + 1 = r /\ saga'.at < r
      BY <2>2
    <3>4. ASSUME NEW p \in Paths
          PROVE  disk'[p] = TreeOf(r)[p] \/ \E q \in Steps : q >= r /\ p \in Leftover(q)'
      <4>1. CASE disk[p] = TreeOf(r + 1)[p]
        <5>1. disk'[p] = TreeOf(r)[p] \/ p \in run[r].past \/ (UndoFails(r) /\ p \in Leftover(r))
          BY <1>0, <2>2, <2>3, <3>1, <4>1, CompensatedTo
        <5>2. p \in run[r].past \/ (UndoFails(r) /\ p \in Leftover(r)) => p \in Leftover(r)'
          BY <2>3, <2>4 DEF Leftover, Restorable
        <5> QED
          BY <2>2, <5>1, <5>2
      <4>2. CASE \E q \in Steps : q > r /\ p \in Leftover(q)
        <5>1. PICK q \in Steps : q > r /\ p \in Leftover(q)
          BY <4>2
        <5>2. run'[q] = run[q]
          <6>1. q # r /\ q \in Runs
            BY <1>0, <2>2, <5>1
          <6> QED
            BY <2>4, <6>1 DEF Moved
        <5>3. p \in Leftover(q)'
          BY <5>1, <5>2 DEF Leftover, Restorable
        <5>4. q >= r
          BY <1>0, <5>1
        <5> QED
          BY <5>3, <5>4
      <4> QED
        BY <2>1, <3>1, <4>1, <4>2 DEF RolledBack
    <3>5. ASSUME NEW p \in Paths
          PROVE  disk'[p] = TreeOf(r)'[p] \/ \E q \in Steps : q > saga'.at /\ p \in Leftover(q)'
      <4>1. CASE disk'[p] = TreeOf(r)[p]
        BY <3>2, <4>1
      <4>2. CASE \E q \in Steps : q >= r /\ p \in Leftover(q)'
        <5>1. PICK q \in Steps : q >= r /\ p \in Leftover(q)'
          BY <4>2
        <5>2. q > saga'.at
          BY <1>0, <2>2, <5>1
        <5> QED
          BY <5>1, <5>2
      <4> QED
        BY <3>4, <4>1, <4>2
    <3> QED
      BY <3>3, <3>5 DEF RolledBack, TreeOf, At
  <2> QED
    BY <2>2, <2>6, <2>7, <2>8 DEF Traces
<1>8. CASE AllCompensated \/ UNCHANGED sagaVars
  <2>1. /\ UNCHANGED vars /\ saga'.at = saga.at /\ saga'.start = saga.start
        /\ saga'.status = saga.status \/ (saga.status = "COMPENSATING" /\ saga'.status = "FAILED")
    BY <1>0, <1>8 DEF AllCompensated, sagaVars
  <2>2. saga.status = saga'.status /\ saga.status = "EXECUTING" =>
          /\ saga'.at \in Steps => RunInv(saga.at)'
          /\ \A q \in Steps : q < saga'.at => Undoes(q)'
    BY <1>0, <1>3, <2>1
       DEF Traces, RunInv, At, BackAt, PlanKnown, ApiKnown, Restores, RevertFiles, Restorable
  <2>3. saga.status = "COMPENSATING" => \A q \in Steps : q <= saga'.at => Undoes(q)'
    BY <1>0, <1>3, <2>1 DEF Traces
  <2>4. saga.status # "SUCCESS" => TreeOf(1)' = saga'.start
    BY <1>3, <2>1 DEF Traces
  <2>5. RolledBack => RolledBack'
    BY <1>3, <2>1 DEF RolledBack, TreeOf, At, Leftover, Restorable
  <2> QED
    BY <1>3, <2>1, <2>2, <2>3, <2>4, <2>5 DEF Traces
<1> QED
  BY <1>1, <1>2, <1>4, <1>5, <1>6, <1>7, <1>8 DEF SagaNext, Compensate, CompensateFails

\* Every step of a saga under way can be undone to the tree it began with, and a
\* rollback has come as far as its receipts say.
THEOREM SagaTraces ==
    ASSUME ~Mixes
    PROVE  SagaSpec => []Traces
<1>1. SagaInv /\ Traces /\ [SagaNext]_sagaVars => Traces'
  BY TracesStep
<1> QED
  BY <1>1, TracesStart, SagaInvariant, PTL DEF SagaSpec

\* A saga that failed leaves the project as it was, but for files that a receipt
\* can still restore or that recipe.ts changed past ctx.files: for plans of any
\* length over any files, whatever steps and compensations fail.
THEOREM FailedSagaTraces ==
    ASSUME ~Mixes
    PROVE  SagaSpec => []FailedSagaLeavesNoTrace
<1>1. SagaInv /\ Traces => FailedSagaLeavesNoTrace
  <2> SUFFICES ASSUME SagaInv, Traces, saga.status = "FAILED", spent.torn = 0, NEW p \in Paths
               PROVE  disk[p] = saga.start[p] \/ \E r \in Runs : p \in Leftover(r)
    BY DEF FailedSagaLeavesNoTrace
  <2>1. saga.at = 0 /\ RolledBack /\ TreeOf(1) = saga.start
    BY DEF SagaInv, Progress, Traces
  <2>2. disk[p] = TreeOf(1)[p] \/ \E r \in Steps : p \in Leftover(r)
    BY <2>1 DEF RolledBack
  <2> QED
    BY <2>1, <2>2, SagaAssumption DEF Steps
<1> QED
  BY <1>1, SagaInvariant, SagaTraces, PTL
=============================================================================
