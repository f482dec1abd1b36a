--------------------------- MODULE DryRun_proofs ---------------------------
(***************************************************************************)
(* A dry run reads what a real run reads: the overlay over the seed over   *)
(* the disk is the disk of the real run, for every set of paths and bytes  *)
(* and every sequence of calls.  So both runs remember the same of each    *)
(* path, and their receipts can be compared a path at a time.              *)
(***************************************************************************)
EXTENDS DryRun, TLAPS

\* The first sight of a path is remembered with its bytes.
LEMMA TouchType ==
    ASSUME NEW a \in Apis, NEW tree \in ProjectTrees, NEW p \in Paths
    PROVE  Touch(a, tree, p) \in Apis
BY DEF Touch, Apis, ProjectTrees, Content

\* A write keeps the types of the tree and of what the API remembers.
LEMMA WriteTypes ==
    ASSUME NEW a \in Apis, NEW tree \in ProjectTrees, NEW p \in Paths,
           NEW b \in Bytes, NEW onExisting \in Policies
    PROVE  /\ ApiAfterWrite(a, tree, p, b, onExisting) \in Apis
           /\ TreeAfterWrite(tree, p, b, onExisting) \in ProjectTrees
<1>1. ApiAfterWrite(a, tree, p, b, onExisting) \in Apis
  <2> DEFINE t == Touch(a, tree, p)
  <2>1. /\ t \in Apis
        /\ [t EXCEPT !.skipped = @ \ {p}] \in Apis
        /\ [t EXCEPT !.skipped = @ \union {p}] \in Apis
        /\ [t EXCEPT !.skipped = @ \ {p}, !.changed = @ \union {p}] \in Apis
    BY TouchType DEF Apis
  <2> QED
    BY <2>1 DEF ApiAfterWrite
<1>2. TreeAfterWrite(tree, p, b, onExisting) \in ProjectTrees
  BY DEF TreeAfterWrite, ProjectTrees, Content
<1> QED
  BY <1>1, <1>2

\* So does a removal.
LEMMA RemoveTypes ==
    ASSUME NEW a \in Apis, NEW tree \in ProjectTrees, NEW p \in Paths
    PROVE  /\ ApiAfterRemove(a, tree, p) \in Apis
           /\ TreeAfterRemove(tree, p) \in ProjectTrees
<1>1. ApiAfterRemove(a, tree, p) \in Apis
  BY TouchType DEF ApiAfterRemove, Apis
<1>2. TreeAfterRemove(tree, p) \in ProjectTrees
  BY DEF TreeAfterRemove, ProjectTrees, Content
<1> QED
  BY <1>1, <1>2

\* Covering a path with bytes keeps the overlay's type.
LEMMA CoverType ==
    ASSUME overlay \in Overlays, NEW p \in Paths, NEW c \in Content
    PROVE  Cover(p, c) \in Overlays
BY DEF Cover, Overlays, ProjectTrees

\* The inductive invariant: the types, and the two runs see the same files.
SameFiles == TypeOK /\ SameReads

\* It holds when the templates are planned and written.
LEMMA InitSame == Init => SameFiles
<1> SUFFICES ASSUME Init PROVE SameFiles
  OBVIOUS
<1>1. TypeOK
  BY DryRunAssumption DEF Init, TypeOK, ProjectTrees, Content, TreeAfterPlan, FreshApi,
     Apis, Overlays, EmptyTree
<1>2. DryView = disk
  <2>1. ASSUME NEW p \in Paths
        PROVE  (IF p \in Seeded THEN rendered[p] ELSE found[p]) = disk[p]
    BY DEF Init, TypeOK, Seeded, TreeAfterPlan, PlannedWrites, PlanOp
  <2> QED
    BY <2>1 DEF Init, DryView, TreeAfterPlan
<1> QED
  BY <1>1, <1>2 DEF SameFiles, SameReads

\* A write does the same to the disk and to the overlay.
LEMMA WriteSame ==
    ASSUME SameFiles, NEW p \in Paths, NEW b \in Bytes, NEW onExisting \in Policies,
           WriteFile(p, b, onExisting)
    PROVE  SameFiles'
<1>1. TypeOK'
  <2>1. DryView \in ProjectTrees
    BY DEF SameFiles, SameReads, TypeOK
  <2>2. overlay' \in Overlays
    BY CoverType DEF SameFiles, TypeOK, WriteFile, Content
  <2> QED
    BY WriteTypes, <2>1, <2>2, DryRunAssumption DEF SameFiles, TypeOK, WriteFile
<1>2. DryView' = disk'
  <2>1. Seeded' = Seeded
    BY DEF WriteFile, Seeded
  <2>2. ASSUME NEW q \in Paths PROVE DryView'[q] = disk'[q]
    BY <2>1 DEF SameFiles, SameReads, TypeOK, WriteFile, DryView, Cover, TreeAfterWrite,
       ProjectTrees, Overlays
  <2> QED
    BY <1>1, <2>2 DEF TypeOK, ProjectTrees, DryView
<1> QED
  BY <1>1, <1>2 DEF SameFiles, SameReads

\* So does a removal.
LEMMA RemoveSame ==
    ASSUME SameFiles, NEW p \in Paths, RemoveFile(p)
    PROVE  SameFiles'
<1>1. TypeOK'
  <2>1. DryView \in ProjectTrees
    BY DEF SameFiles, SameReads, TypeOK
  <2>2. overlay' \in Overlays
    BY CoverType DEF SameFiles, TypeOK, RemoveFile, Content
  <2> QED
    BY RemoveTypes, <2>1, <2>2, DryRunAssumption DEF SameFiles, TypeOK, RemoveFile
<1>2. DryView' = disk'
  <2>1. Seeded' = Seeded
    BY DEF RemoveFile, Seeded
  <2>2. ASSUME NEW q \in Paths PROVE DryView'[q] = disk'[q]
    BY <2>1 DEF SameFiles, SameReads, TypeOK, RemoveFile, DryView, Cover, TreeAfterRemove,
       ProjectTrees, Overlays
  <2> QED
    BY <1>1, <2>2 DEF TypeOK, ProjectTrees, DryView
<1> QED
  BY <1>1, <1>2 DEF SameFiles, SameReads

\* Every call does the same in both runs.
LEMMA StepSame == SameFiles /\ [Next]_vars => SameFiles'
<1> SUFFICES ASSUME SameFiles, [Next]_vars PROVE SameFiles'
  OBVIOUS
<1>1. CASE UNCHANGED vars
  BY <1>1 DEF vars, SameFiles, TypeOK, SameReads, DryView, Seeded
<1>2. CASE Next
  BY <1>2, WriteSame, RemoveSame DEF Next
<1> QED
  BY <1>1, <1>2

\* What a recipe reads through ctx.files in a dry run is what it reads in a
\* real run of the same templates on the same tree, at every moment: a recipe
\* that decides on what it reads takes the same way in both.
THEOREM DryRunReads == Spec => []SameReads
<1>1. SameFiles /\ [Next]_vars => SameFiles'
  BY StepSame
<1>2. SameFiles => SameReads
  BY DEF SameFiles
<1> QED
  BY InitSame, <1>1, <1>2, PTL DEF Spec
-----------------------------------------------------------------------------
(* The receipt of a real run.  It takes the bytes of an entry from the     *)
(* template, from the tree's diff or from the journal; each of them agrees *)
(* with the disk where it is the last word.                                *)

\* An account of a path tells what the disk holds, given what it held before.
Tells(entry, before, after) ==
    after = IF entry.op = "none" THEN before ELSE entry.bytes

\* The plan's account tells what the tree holds once the plan is written.
LEMMA PlanTells ==
    ASSUME TypeOK, NEW p \in Paths
    PROVE  /\ TemplateEntry(p) \in Entries
           /\ Tells(TemplateEntry(p), found[p], DiskAfterPlan[p])
           /\ TemplateEntry(p).op # "delete"
           /\ TemplateEntry(p).op # "none" => DiskAfterPlan[p] # Absent
           /\ TemplateEntry(p).op \in {"none", "skip"} =>
                 p \notin Seeded /\ DiskAfterPlan[p] = found[p]
           /\ p \notin Seeded => TemplateEntry(p).op \in {"none", "skip"}
<1>1. rendered[p] \in Content /\ found[p] \in Content
  BY DEF TypeOK, ProjectTrees
<1>2. DiskAfterPlan[p] = IF PlanOp(rendered[p], found[p], policy) \in {"create", "update"}
                           THEN rendered[p] ELSE found[p]
  BY DEF DiskAfterPlan, TreeAfterPlan, PlannedWrites
<1>3. CASE rendered[p] = Absent
  BY <1>1, <1>2, <1>3 DEF TemplateEntry, PlanEntry, PlanOp, Tells, Entries, NoEntry, Seeded,
     Content
<1>4. CASE rendered[p] # Absent /\ found[p] = Absent
  BY <1>1, <1>2, <1>4 DEF TemplateEntry, PlanEntry, PlanOp, Tells, Entries, Seeded
<1>5. CASE rendered[p] # Absent /\ found[p] # Absent /\ found[p] = rendered[p]
  BY <1>1, <1>2, <1>5 DEF TemplateEntry, PlanEntry, PlanOp, Tells, Entries, Seeded
<1>6. CASE rendered[p] # Absent /\ found[p] # Absent /\ found[p] # rendered[p]
  <2>1. CASE policy = "overwrite"
    BY <1>1, <1>2, <1>6, <2>1 DEF TemplateEntry, PlanEntry, PlanOp, Tells, Entries, Seeded
  <2>2. CASE policy # "overwrite"
    BY <1>1, <1>2, <1>6, <2>2 DEF TemplateEntry, PlanEntry, PlanOp, Tells, Entries, Seeded
  <2> QED
    BY <2>1, <2>2
<1> QED
  BY <1>3, <1>4, <1>5, <1>6

\* Merging an account that agrees with the disk keeps an agreement.
LEMMA MergeTells ==
    ASSUME NEW planned \in Entries, NEW change \in Entries, NEW before, NEW middle, NEW after,
           Tells(planned, before, middle), Tells(change, middle, after),
           change.op \in {"unchanged", "skip"} => after = middle
    PROVE  /\ MergeEntry(planned, change) \in Entries
           /\ Tells(MergeEntry(planned, change), before, after)
<1>1. CASE change.op = "none"
  BY <1>1 DEF MergeEntry, Tells
<1>2. CASE change.op # "none" /\ (planned.op = "none" \/ change.op = "delete")
  BY <1>2 DEF MergeEntry, Tells
<1>3. CASE planned.op # "none" /\ change.op \in {"create", "update"}
  BY <1>3 DEF MergeEntry, Tells, Entries
<1>4. CASE planned.op # "none" /\ change.op \in {"unchanged", "skip"}
  BY <1>4 DEF MergeEntry, Tells, Entries
<1> QED
  BY <1>1, <1>2, <1>3, <1>4 DEF Entries

\* The tree's diff and the journal tell what they saw change.
LEMMA ChangeTells ==
    ASSUME NEW before \in Content, NEW after \in Content
    PROVE  /\ DiffEntry(before, after) \in Entries
           /\ Tells(DiffEntry(before, after), before, after)
           /\ DiffEntry(before, after).op \notin {"unchanged", "skip"}
  BY DEF DiffEntry, Tells, Entries, NoEntry, Content

LEMMA EntryTells ==
    ASSUME NEW a \in Apis, NEW tree \in ProjectTrees, NEW p \in Paths, NEW kept \in BOOLEAN
    PROVE  /\ Entry(a, tree, p, kept) \in Entries
           /\ Tells(Entry(a, tree, p, kept), tree[p], tree[p])
<1>1. tree[p] \in Content /\ a.initial[p] \in Content
  BY DEF Apis, ProjectTrees
<1> QED
  BY <1>1 DEF Entry, Entries, NoEntry, Tells, Content

\* The bytes a real run's receipt lists are on the disk, and a path it does not
\* list is as it was, whatever the templates, the policy and the calls.
THEOREM Receipts == Spec => []ReceiptMatchesDisk
<1>1. SameFiles => ReceiptMatchesDisk
  <2> SUFFICES ASSUME SameFiles, NEW p \in Paths
               PROVE  Tells(RealEntry(p), found[p], disk[p])
    BY DEF ReceiptMatchesDisk, Tells
  <2>1. TypeOK /\ api \in Apis /\ disk \in ProjectTrees /\ disk[p] \in Content
    BY DEF SameFiles, TypeOK, ProjectTrees
  <2>2. DiskAfterPlan[p] \in Content
    BY <2>1 DEF TypeOK, ProjectTrees, DiskAfterPlan, TreeAfterPlan
  <2> DEFINE diffed == MergeEntry(TemplateEntry(p), DiffEntry(DiskAfterPlan[p], disk[p]))
             entry == Entry(api, disk, p, TRUE)
  <2>3. diffed \in Entries /\ Tells(diffed, found[p], disk[p])
    BY <2>1, <2>2, PlanTells, ChangeTells, MergeTells
  <2>4. entry \in Entries /\ Tells(entry, disk[p], disk[p])
    BY <2>1, EntryTells
  <2>5. RealEntry(p) = MergeEntry(diffed, entry)
    BY DEF RealEntry
  <2> HIDE DEF diffed, entry
  <2> QED
    BY <2>3, <2>4, <2>5, MergeTells
<1>2. SameFiles /\ [Next]_vars => SameFiles'
  BY StepSame
<1> QED
  BY InitSame, <1>1, <1>2, PTL DEF Spec
-----------------------------------------------------------------------------
(* The two receipts.                                                       *)

\* Both runs remember the same, and of each path what the plan left there: a
\* path they did not change still holds it.
SameMemory ==
    /\ api = dryApi
    /\ api.changed \subseteq api.touched
    /\ \A p \in api.touched : api.initial[p] = DiskAfterPlan[p]
    /\ \A p \in Paths \ api.changed : disk[p] = DiskAfterPlan[p]

\* Both start with nothing touched.
LEMMA InitMemory == Init => SameMemory
  BY DEF Init, SameMemory, FreshApi, DiskAfterPlan

\* A first sight of a path that was not changed remembers what the plan left.
LEMMA TouchRemembers ==
    ASSUME TypeOK, SameMemory, NEW p \in Paths
    PROVE  LET t == Touch(api, disk, p)
           IN  /\ t.changed = api.changed /\ t.skipped = api.skipped
               /\ t.touched = api.touched \union {p}
               /\ \A q \in t.touched : t.initial[q] = DiskAfterPlan[q]
<1>1. api \in Apis /\ disk \in ProjectTrees
  BY DEF TypeOK
<1>2. CASE p \in api.touched
  BY <1>1, <1>2 DEF Touch, SameMemory
<1>3. CASE p \notin api.touched
  <2>1. disk[p] = DiskAfterPlan[p]
    BY <1>3 DEF SameMemory
  <2>2. Touch(api, disk, p) = [api EXCEPT !.touched = @ \union {p}, !.initial[p] = disk[p]]
    BY <1>3 DEF Touch
  <2>3. /\ Touch(api, disk, p).changed = api.changed
        /\ Touch(api, disk, p).skipped = api.skipped
        /\ Touch(api, disk, p).touched = api.touched \union {p}
        /\ Touch(api, disk, p).initial = [api.initial EXCEPT ![p] = disk[p]]
    BY <1>1, <2>2 DEF Apis
  <2>4. api.initial \in ProjectTrees
    BY <1>1 DEF Apis
  <2> QED
    BY <2>1, <2>3, <2>4 DEF SameMemory, ProjectTrees
<1> QED
  BY <1>2, <1>3

\* What a call makes the API remember besides its first sight of the path: a
\* tree that changes has changed at this path, and the API knows it.
Remembered(a, tree, p, after, tree2) ==
    /\ after.touched = Touch(a, tree, p).touched
    /\ after.initial = Touch(a, tree, p).initial
    /\ after.changed \in {Touch(a, tree, p).changed, Touch(a, tree, p).changed \union {p}}
    /\ \A q \in Paths : tree2[q] # tree[q] => q = p /\ p \in after.changed

LEMMA WriteRemembers ==
    ASSUME NEW a \in Apis, NEW tree \in ProjectTrees, NEW p \in Paths,
           NEW b \in Bytes, NEW onExisting \in Policies
    PROVE  Remembered(a, tree, p, ApiAfterWrite(a, tree, p, b, onExisting),
                      TreeAfterWrite(tree, p, b, onExisting))
<1> DEFINE t == Touch(a, tree, p)
           after == ApiAfterWrite(a, tree, p, b, onExisting)
           op == WriteOp(tree[p], b, onExisting)
<1>1. t \in Apis
  BY TouchType
<1>2. after = CASE op = "throw" -> t
                [] op = "unchanged" -> [t EXCEPT !.skipped = @ \ {p}]
                [] op = "skip" -> [t EXCEPT !.skipped = @ \union {p}]
                [] OTHER -> [t EXCEPT !.skipped = @ \ {p}, !.changed = @ \union {p}]
  BY DEF ApiAfterWrite
<1>3. op \in {"create", "throw", "unchanged", "skip", "update"}
  BY DEF WriteOp
<1>4. \A q \in Paths : TreeAfterWrite(tree, p, b, onExisting)[q] # tree[q] =>
          q = p /\ op \in {"create", "update"}
  BY DEF TreeAfterWrite, Writes, ProjectTrees
<1> HIDE DEF t, after, op
<1>5. /\ after.touched = t.touched
      /\ after.initial = t.initial
      /\ after.changed \in {t.changed, t.changed \union {p}}
      /\ op \in {"create", "update"} => p \in after.changed
  <2>1. CASE op = "throw"
    BY <1>1, <1>2, <2>1
  <2>2. CASE op = "unchanged"
    BY <1>1, <1>2, <2>2 DEF Apis
  <2>3. CASE op = "skip"
    BY <1>1, <1>2, <2>3 DEF Apis
  <2>4. CASE op \in {"create", "update"}
    BY <1>1, <1>2, <2>4 DEF Apis
  <2> QED
    BY <1>3, <2>1, <2>2, <2>3, <2>4
<1> QED
  BY <1>4, <1>5 DEF Remembered, t, after

LEMMA RemoveRemembers ==
    ASSUME NEW a \in Apis, NEW tree \in ProjectTrees, NEW p \in Paths
    PROVE  Remembered(a, tree, p, ApiAfterRemove(a, tree, p), TreeAfterRemove(tree, p))
<1> DEFINE t == Touch(a, tree, p)
           after == ApiAfterRemove(a, tree, p)
<1>1. t \in Apis
  BY TouchType
<1>2. after = IF tree[p] = Absent THEN t
                ELSE [t EXCEPT !.skipped = @ \ {p}, !.changed = @ \union {p}]
  BY DEF ApiAfterRemove
<1>3. \A q \in Paths : TreeAfterRemove(tree, p)[q] # tree[q] => q = p /\ tree[p] # Absent
  BY DEF TreeAfterRemove, ProjectTrees
<1> HIDE DEF t, after
<1>4. /\ after.touched = t.touched
      /\ after.initial = t.initial
      /\ after.changed \in {t.changed, t.changed \union {p}}
      /\ tree[p] # Absent => p \in after.changed
  BY <1>1, <1>2 DEF Apis
<1> QED
  BY <1>3, <1>4 DEF Remembered, t, after

\* Every call makes both runs remember the same, and nothing untrue.
LEMMA CallMemory ==
    ASSUME SameFiles, SameMemory, NEW p \in Paths, api' = dryApi',
           UNCHANGED <<found, rendered, policy>>,
           Remembered(api, disk, p, api', disk')
    PROVE  SameMemory'
<1> DEFINE t == Touch(api, disk, p)
<1>1. /\ t.changed = api.changed
      /\ t.touched = api.touched \union {p}
      /\ \A q \in t.touched : t.initial[q] = DiskAfterPlan[q]
  BY TouchRemembers DEF SameFiles
<1>2. DiskAfterPlan' = DiskAfterPlan
  BY DEF DiskAfterPlan
<1>3. /\ api'.touched = t.touched
      /\ api'.initial = t.initial
      /\ api'.changed \in {t.changed, t.changed \union {p}}
      /\ \A q \in Paths : disk'[q] # disk[q] => q = p /\ p \in api'.changed
  BY DEF Remembered
<1> HIDE DEF t
<1>4. api'.changed \subseteq api'.touched
  BY <1>1, <1>3 DEF SameMemory
<1>5. \A q \in Paths \ api'.changed : disk'[q] = DiskAfterPlan[q]
  BY <1>1, <1>3 DEF SameMemory
<1> QED
  BY <1>1, <1>2, <1>3, <1>4, <1>5 DEF SameMemory

LEMMA StepMemory == SameFiles /\ SameMemory /\ [Next]_vars => SameMemory'
<1> SUFFICES ASSUME SameFiles, SameMemory, [Next]_vars PROVE SameMemory'
  OBVIOUS
<1>1. api \in Apis /\ disk \in ProjectTrees /\ DryView = disk /\ api = dryApi
  BY DEF SameFiles, TypeOK, SameReads, SameMemory
<1>2. CASE UNCHANGED vars
  BY <1>2 DEF vars, SameMemory, DiskAfterPlan
<1>3. ASSUME NEW p \in Paths, NEW b \in Bytes, NEW onExisting \in Policies,
             WriteFile(p, b, onExisting)
      PROVE  SameMemory'
  <2>1. Remembered(api, disk, p, api', disk')
    BY <1>1, <1>3, WriteRemembers DEF WriteFile
  <2> QED
    BY <1>1, <1>3, <2>1, CallMemory DEF WriteFile
<1>4. ASSUME NEW p \in Paths, RemoveFile(p)
      PROVE  SameMemory'
  <2>1. Remembered(api, disk, p, api', disk')
    BY <1>1, <1>4, RemoveRemembers DEF RemoveFile
  <2> QED
    BY <1>1, <1>4, <2>1, CallMemory DEF RemoveFile
<1> QED
  BY <1>2, <1>3, <1>4 DEF Next

\* What a path's receipts depend on: the template's account, what the plan left,
\* what is there now, and whether the last call was a skip.
LEMMA Predicts ==
    ASSUME SameFiles, SameMemory, ~SkipsAfterChange, NEW p \in Paths
    PROVE  RealEntry(p) = DryEntry(p) \/ WrittenBack(p)
<1> DEFINE planned == TemplateEntry(p)
           before == DiskAfterPlan[p]
           after == disk[p]
           diff == DiffEntry(before, after)
           real == Entry(api, disk, p, TRUE)
           dry == Entry(api, disk, p, BitsKept(p))
<1>1. /\ planned \in Entries /\ planned.op # "delete"
      /\ Tells(planned, found[p], before)
      /\ planned.op # "none" => before # Absent
      /\ p \notin Seeded => planned.op \in {"none", "skip"}
      /\ planned.op \in {"none", "skip"} => before = found[p]
  BY PlanTells DEF SameFiles
<1>2. /\ RealEntry(p) = MergeEntry(MergeEntry(planned, diff), real)
      /\ DryEntry(p) = MergeEntry(planned, dry)
  BY DEF RealEntry, DryEntry, SameFiles, SameReads, SameMemory
<1>3. before \in Content /\ after \in Content
  BY DEF SameFiles, TypeOK, DiskAfterPlan, TreeAfterPlan, ProjectTrees
<1>4. /\ p \notin api.changed => after = before
      /\ p \in api.changed => p \in api.touched /\ p \notin api.skipped
      /\ p \in api.touched => api.initial[p] = before
  BY DEF SameMemory, SkipsAfterChange
<1>5. WrittenBack(p) <=> /\ RealEntry(p).op \in {"unchanged", "skip"}
                         /\ DryEntry(p).op = "update"
                         /\ after = found[p] /\ p \in overlay.covered
  BY DEF WrittenBack
<1>6. ~BitsKept(p) => p \notin Seeded /\ p \in overlay.covered
  BY DEF BitsKept
<1> HIDE DEF planned, before, after
<1>7. CASE p \notin api.touched
  <2>1. diff = NoEntry /\ real = NoEntry /\ dry = NoEntry
    BY <1>4, <1>7 DEF DiffEntry, Entry, after, before
  <2> QED
    BY <1>2, <2>1 DEF MergeEntry, NoEntry
<1>8. CASE p \in api.touched /\ before = Absent /\ after = Absent
  <2>1. diff = NoEntry /\ real = NoEntry /\ dry = NoEntry
    BY <1>4, <1>8 DEF DiffEntry, Entry, after
  <2> QED
    BY <1>2, <2>1 DEF MergeEntry, NoEntry
<1>9. CASE p \in api.touched /\ before # Absent /\ after = Absent
  <2>1. /\ diff = [op |-> "delete", bytes |-> Absent]
        /\ real = diff /\ dry = diff
    BY <1>4, <1>9 DEF DiffEntry, Entry, after
  <2> QED
    BY <1>2, <2>1 DEF MergeEntry
<1>10. CASE p \in api.touched /\ before = Absent /\ after # Absent
  <2>1. /\ diff = [op |-> "create", bytes |-> after]
        /\ real = diff /\ dry = diff
    BY <1>4, <1>10 DEF DiffEntry, Entry, after
  <2> QED
    BY <1>1, <1>2, <1>10, <2>1 DEF MergeEntry
<1>11. CASE p \in api.touched /\ before # Absent /\ after # Absent /\ p \in api.skipped
  <2>1. /\ diff = NoEntry
        /\ real = [op |-> "skip", bytes |-> after] /\ dry = real
    BY <1>4, <1>11 DEF DiffEntry, Entry, after
  <2> QED
    BY <1>2, <2>1 DEF MergeEntry, NoEntry
<1>12. CASE /\ p \in api.touched /\ before # Absent /\ after # Absent
            /\ p \notin api.skipped /\ before # after
  <2>1. /\ diff = [op |-> "update", bytes |-> after]
        /\ real = diff /\ dry = diff
    BY <1>4, <1>12 DEF DiffEntry, Entry, after
  <2> QED
    BY <1>1, <1>2, <2>1 DEF MergeEntry, Entries
<1>13. CASE /\ p \in api.touched /\ before # Absent /\ after # Absent
            /\ p \notin api.skipped /\ before = after
  <2>1. /\ diff = NoEntry
        /\ real = [op |-> "unchanged", bytes |-> after]
        /\ dry = [op |-> IF BitsKept(p) THEN "unchanged" ELSE "update", bytes |-> after]
    BY <1>4, <1>13 DEF DiffEntry, Entry, after
  <2>2. CASE BitsKept(p)
    <3>1. dry = real
      BY <2>1, <2>2
    <3>2. MergeEntry(planned, diff) = planned
      BY <2>1 DEF MergeEntry, NoEntry
    <3> QED
      BY <1>2, <3>1, <3>2
  <2>3. CASE ~BitsKept(p)
    <3>1. MergeEntry(planned, diff) = planned
      BY <2>1 DEF MergeEntry, NoEntry
    <3>2. MergeEntry(planned, real) = IF planned.op = "none" THEN real ELSE planned
      <4> HIDE DEF diff, real, dry
      <4>1. real.op = "unchanged"
        BY <2>1
      <4> QED
        BY <4>1 DEF MergeEntry
    <3>3. dry = [op |-> "update", bytes |-> after]
      BY <2>1, <2>3
    <3>4. planned.op \in {"none", "skip"} /\ after = found[p] /\ p \in overlay.covered
      BY <1>1, <1>6, <1>13, <2>3
    <3> HIDE DEF diff, real, dry
    <3>5. MergeEntry(planned, dry).op = "update"
      BY <3>3, <3>4 DEF MergeEntry
    <3>6. RealEntry(p).op \in {"unchanged", "skip"}
      BY <1>2, <2>1, <3>1, <3>2, <3>4
    <3> QED
      BY <1>2, <1>5, <3>4, <3>5, <3>6
  <2> QED
    BY <2>2, <2>3
<1> QED
  BY <1>7, <1>8, <1>9, <1>10, <1>11, <1>12, <1>13

\* Short of a write undone under `skip` and of bytes written back, a dry run
\* predicts the operation and the bytes of every path of the real changeset.
THEOREM DryRunPredicts == Spec => []DryRunPredictsChangeset
<1>1. SameFiles /\ SameMemory => DryRunPredictsChangeset
  BY Predicts DEF DryRunPredictsChangeset
<1> QED
  BY InitSame, InitMemory, StepSame, StepMemory, <1>1, PTL DEF Spec
=============================================================================
