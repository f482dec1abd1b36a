---------------------------- MODULE RecipeFiles ----------------------------
(***************************************************************************)
(* The files of a project as the recipe engine sees them (packages/recipes *)
(* of baka): what a template plan does to a target, what the contained     *)
(* file API `ctx.files` does and remembers, what a run's rollback is made  *)
(* of, and what a receipt reports.  Pure operators; a tree maps every path *)
(* to its bytes.  Directories and permission bits are left out, but for    *)
(* what a dry run knows of the latter (see Entry).                         *)
(***************************************************************************)

CONSTANTS
    Paths,      \* project-relative paths
    Bytes,      \* file contents
    Absent      \* no file at this path

ASSUME FilesAssumption == Absent \notin Bytes

Content == Bytes \union {Absent}
ProjectTrees == [Paths -> Content]
EmptyTree == [p \in Paths |-> Absent]
Policies == {"skip", "overwrite", "fail"}
-----------------------------------------------------------------------------
(* Rollbacks.                                                              *)

\* The files a run created, and the bytes of those it overwrote (Absent for
\* a path it did not overwrite).
Rollbacks == [created : SUBSET Paths, overwritten : ProjectTrees]
NoRollback == [created |-> {}, overwritten |-> EmptyTree]
Restorable(rb) == {p \in Paths : rb.overwritten[p] # Absent}

\* revertFiles: delete what was created, then put back what was overwritten.
RevertFiles(tree, rb) ==
    [p \in Paths |-> IF p \in Restorable(rb) THEN rb.overwritten[p]
                     ELSE IF p \in rb.created THEN Absent
                     ELSE tree[p]]

\* revertFiles gives up on a deletion, or, these done, on a restore.
PartialReverts(tree, rb) ==
    {[p \in Paths |-> IF p \in gone THEN Absent ELSE tree[p]] :
        gone \in SUBSET rb.created}
    \union
    {[p \in Paths |-> IF p \in back THEN rb.overwritten[p]
                      ELSE IF p \in rb.created THEN Absent
                      ELSE tree[p]] : back \in SUBSET Restorable(rb)}

\* (Mutant: the last previous bytes win.)
MergeKeepsLast(a, b) ==
    [created |-> a.created \union b.created,
     overwritten |-> [p \in Paths |-> IF p \in Restorable(b)
                                        THEN b.overwritten[p] ELSE a.overwritten[p]]]

\* mergeRollbacks: the first previous bytes are kept.
MergeRollbacks(a, b) ==
    [created |-> a.created \union b.created,
     overwritten |-> [p \in Paths |-> IF p \in Restorable(a)
                                        THEN a.overwritten[p] ELSE b.overwritten[p]]]
-----------------------------------------------------------------------------
(* Templates.                                                              *)

\* planTemplates: what becomes of a target found with these bytes.
PlanOp(rendered, found, policy) ==
    CASE rendered = Absent -> "none"
      [] rendered # Absent /\ found = Absent -> "create"
      [] rendered # Absent /\ found = rendered -> "unchanged"
      [] OTHER -> IF policy = "overwrite" THEN "update" ELSE "skip"

PlannedWrites(rendered, found, policy) ==
    {p \in Paths : PlanOp(rendered[p], found[p], policy) \in {"create", "update"}}

\* applyPlan, on the files of S: the tree it leaves and how to undo it.  Which
\* files are new, and the bytes of the others, is what the plan found.
TreeAfterPlan(tree, rendered, S) ==
    [p \in Paths |-> IF p \in S THEN rendered[p] ELSE tree[p]]

PlanRollback(found, S) ==
    [created |-> {p \in S : found[p] = Absent},
     overwritten |-> [p \in Paths |-> IF p \in S THEN found[p] ELSE Absent]]
-----------------------------------------------------------------------------
(* ctx.files.                                                              *)

\* What the API remembers: the paths addressed and what each held when it was,
\* the paths changed (journalled, or laid over the disk in a dry run) and the
\* writes left undone because the file existed.
Apis == [touched : SUBSET Paths, initial : ProjectTrees,
         changed : SUBSET Paths, skipped : SUBSET Paths]
FreshApi == [touched |-> {}, initial |-> EmptyTree, changed |-> {}, skipped |-> {}]

Touch(api, tree, p) ==
    IF p \in api.touched
      THEN api
      ELSE [api EXCEPT !.touched = @ \union {p}, !.initial[p] = tree[p]]

WriteOp(found, bytes, policy) ==
    CASE found = Absent -> "create"
      [] found # Absent /\ policy = "fail" -> "throw"
      [] found = bytes /\ policy # "fail" -> "unchanged"
      [] OTHER -> IF policy = "skip" THEN "skip" ELSE "update"

Writes(found, bytes, policy) == WriteOp(found, bytes, policy) \in {"create", "update"}

ApiAfterWrite(api, tree, p, bytes, policy) ==
    LET touched == Touch(api, tree, p)
    IN  CASE WriteOp(tree[p], bytes, policy) = "throw" -> touched
          [] WriteOp(tree[p], bytes, policy) = "unchanged" ->
                [touched EXCEPT !.skipped = @ \ {p}]
          [] WriteOp(tree[p], bytes, policy) = "skip" ->
                [touched EXCEPT !.skipped = @ \union {p}]
          [] OTHER -> [touched EXCEPT !.skipped = @ \ {p}, !.changed = @ \union {p}]

TreeAfterWrite(tree, p, bytes, policy) ==
    IF Writes(tree[p], bytes, policy) THEN [tree EXCEPT ![p] = bytes] ELSE tree

\* remove: a path that is not there is only looked at.
ApiAfterRemove(api, tree, p) ==
    IF tree[p] = Absent
      THEN Touch(api, tree, p)
      ELSE [Touch(api, tree, p) EXCEPT !.skipped = @ \ {p}, !.changed = @ \union {p}]

TreeAfterRemove(tree, p) == [tree EXCEPT ![p] = Absent]

\* (Mutant: a file that was there is taken for a new one.)
JournalForgetsBytes(api) ==
    [created |-> api.changed, overwritten |-> EmptyTree]

\* rollback(): the first change of a path remembers what undoes it.
Journal(api) ==
    [created |-> {p \in api.changed : api.initial[p] = Absent},
     overwritten |-> [p \in Paths |-> IF p \in api.changed
                                        THEN api.initial[p] ELSE Absent]]
-----------------------------------------------------------------------------
(* The tree around a recipe.ts: diffSnapshots.                             *)

CreatedBetween(before, after) ==
    {p \in Paths : before[p] = Absent /\ after[p] # Absent}
ChangedBetween(before, after) ==
    {p \in Paths : before[p] # Absent /\ after[p] # before[p]}

\* What undoes a recipe.ts run: its journal, and the files the tree gained.
RecipeRollback(api, before, after) ==
    MergeRollbacks(Journal(api), [created |-> CreatedBetween(before, after),
                                  overwritten |-> EmptyTree])
-----------------------------------------------------------------------------
(* The changeset of a receipt: at every path an operation and the bytes it *)
(* leaves (Absent stands for the null hash of a deletion).                 *)

NoEntry == [op |-> "none", bytes |-> Absent]
Entries == [op : {"none", "create", "update", "delete", "unchanged", "skip"},
            bytes : Content]

\* The template's account of a path: a skip reports what is on the disk.
PlanEntry(rendered, found, policy) ==
    LET op == PlanOp(rendered, found, policy)
    IN  CASE op = "none" -> NoEntry
          [] op = "skip" -> [op |-> op, bytes |-> found]
          [] OTHER -> [op |-> op, bytes |-> rendered]

\* diffSnapshots' account.
DiffEntry(before, after) ==
    CASE before = after -> NoEntry
      [] before = Absent /\ after # Absent -> [op |-> "create", bytes |-> after]
      [] before # Absent /\ after = Absent -> [op |-> "delete", bytes |-> Absent]
      [] OTHER -> [op |-> "update", bytes |-> after]

\* (Mutant: a path that is gone is not accounted for.)
EntryWithoutDeletes(api, tree, p, bitsKept) ==
    LET before == api.initial[p]
        after == tree[p]
    IN  CASE p \notin api.touched \/ after = Absent -> NoEntry
          [] p \in api.touched /\ before = Absent /\ after # Absent ->
                [op |-> "create", bytes |-> after]
          [] OTHER -> [op |-> IF p \in api.skipped THEN "skip"
                              ELSE IF before = after /\ bitsKept THEN "unchanged"
                              ELSE "update",
                       bytes |-> after]

\* entries()' account of a path.  Equal bytes are `unchanged` only if the
\* permission bits compare equal too (`bitsKept`).
Entry(api, tree, p, bitsKept) ==
    LET before == api.initial[p]
        after == tree[p]
    IN  CASE p \notin api.touched \/ (before = Absent /\ after = Absent) -> NoEntry
          [] p \in api.touched /\ before # Absent /\ after = Absent ->
                [op |-> "delete", bytes |-> Absent]
          [] p \in api.touched /\ before = Absent /\ after # Absent ->
                [op |-> "create", bytes |-> after]
          [] OTHER -> [op |-> IF p \in api.skipped THEN "skip"
                              ELSE IF before = after /\ bitsKept THEN "unchanged"
                              ELSE "update",
                       bytes |-> after]

\* (Mutant: the bytes are the template's.)
MergeKeepsBytes(planned, change) ==
    CASE change.op = "none" -> planned
      [] change.op # "none" /\ (planned.op = "none" \/ change.op = "delete") -> change
      [] planned.op # "none" /\ change.op \in {"create", "update"} ->
            [op |-> IF planned.op \in {"unchanged", "skip"} THEN "update"
                                                            ELSE planned.op,
             bytes |-> planned.bytes]
      [] OTHER -> planned

\* mergeRecipeChanges, one path and one change at a time: a path the templates
\* addressed keeps its operation and takes the final bytes.
MergeEntry(planned, change) ==
    CASE change.op = "none" -> planned
      [] change.op # "none" /\ (planned.op = "none" \/ change.op = "delete") -> change
      [] planned.op # "none" /\ change.op \in {"create", "update"} ->
            [op |-> IF planned.op \in {"unchanged", "skip"} THEN "update"
                                                            ELSE planned.op,
             bytes |-> change.bytes]
      [] OTHER -> planned
=============================================================================
