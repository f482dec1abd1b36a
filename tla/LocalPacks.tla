----------------------------- MODULE LocalPacks -----------------------------
(***************************************************************************)
(* A pack on a user's machine: the pack directories the engine searches    *)
(* (packages/recipes/src/registry.ts), the lockfile (lock.ts), and the     *)
(* slot of a recipe's template, filled by a model, by hand or from the     *)
(* slot cache (slots.ts, slot-cache.ts, the slot loop of materialize.ts).  *)
(* Runs, installs, `baka lock` and POST /v1/fill are processes of their    *)
(* own over the same files.                                                *)
(*                                                                         *)
(* One pack, whose directory and manifest have the same name, with one     *)
(* recipe and one slot; what else a run does is in RecipeRun.  The cache   *)
(* is the project's; the user's, a tier below that is only read, is not    *)
(* there (`isolated`).                                                     *)
(***************************************************************************)
EXTENDS Naturals, Sequences, FiniteSets, SequencesExt

CONSTANTS
    Scopes,         \* pack directories, highest precedence first
    Packs,          \* what a folder, git or an edit puts into one
    Absent,         \* no pack, no lockfile, no value yet
    Runs,           \* runs that may be in flight
    Params,         \* normalized params
    WorkerModels,   \* models of the worker role; Absent: none configured
    MaxRuns,        \* bound: runs started
    MaxChanges      \* bound: changes to the pack directories, fills by hand and
                    \* processes killed

ASSUME LocalAssumption ==
    /\ Len(Scopes) \in Nat /\ DOMAIN Scopes = 1..Len(Scopes)
    /\ \A pack \in Packs :
         /\ pack = [export |-> pack.export, version |-> pack.version, hash |-> pack.hash,
                    template |-> pack.template]
         /\ pack.export \in {"Manifest", "default", "broken"}

VARIABLES
    dir,    \* the pack in each scope
    lock,   \* baka.lock.json
    cache,  \* .baka/slots, by key
    run,    \* the locals of each run
    done    \* how much of each bound has been spent

localVars == <<dir, lock, cache, run, done>>

\* A pack: its manifest's export ("Manifest", "default", or "broken" when the
\* file does not load), its version, the hash of its files, and its template
\* (a source, and the constructs that are in it).
IsPack(pack) == pack # Absent
HandlebarsSubset == {"param", "json", "jsonEscape", "if", "each", "slot"}

\* assertHandlebarsSubset and parseSlots, over the template's AST.
Parses(template) == template.constructs \subseteq HandlebarsSubset

\* resolvePackRoot: the first scope that has a manifest.ts of that name.
Resolved == SelectInSeq(Scopes, LAMBDA s : IsPack(dir[s]))

\* discover: the first scope whose manifest loads and exports `Manifest`; the
\* others are reported and skipped.
Loadable(pack) == IsPack(pack) /\ pack.export = "Manifest"
Discovered == SelectInSeq(Scopes, LAMBDA s : Loadable(dir[s]))

\* pinPack.
Pin(pack) == [version |-> pack.version, hash |-> pack.hash]

\* (Mutant: the version alone.)
VerifyVersion(locked, pin) == locked # Absent => locked.version = pin.version

\* verifyPin, when there is a lockfile.
VerifyPin(locked, pin) == locked # Absent => locked = pin

\* (Mutant: without the hash of the template.)
KeyOfParams(source, params, model) == <<Absent, params, model>>

\* slotCacheKey, for the one slot.
SlotCacheKey(source, params, model) == <<source, params, model>>

Sources == {pack.template.source : pack \in Packs}
Keys == (Sources \union {Absent}) \X Params \X (WorkerModels \union {"manual"})
Missing == [state |-> "missing", value |-> Absent]
Torn == [state |-> "torn", value |-> Absent]
Whole(value) == [state |-> "whole", value |-> value]

RunAt(r, pc) == run[r].pc = pc
IdleRun == [pc |-> "idle", pack |-> Absent, lock |-> Absent, params |-> Absent,
            model |-> Absent, value |-> Absent, moved |-> FALSE]
EndRun(r) == run' = [run EXCEPT ![r] = IdleRun]
SetRun(r, pc) == run' = [run EXCEPT ![r].pc = pc]
Count(what, limit) == done[what] < limit /\ done' = [done EXCEPT ![what] = @ + 1]

\* What a run asks the cache for, and what a fill of its slot is made of.
KeyOf(r) == SlotCacheKey(run[r].pack.template.source, run[r].params, run[r].model)
ManualKeyOf(r) == SlotCacheKey(run[r].pack.template.source, run[r].params, "manual")
Fill(source, params, model) == [source |-> source, params |-> params, model |-> model]
-----------------------------------------------------------------------------
\* A directory changes under the runs that have pinned what it held.
PutDir(s, pack) ==
    /\ Count("changes", MaxChanges)
    /\ dir' = [dir EXCEPT ![s] = pack]
    /\ run' = [r \in Runs |-> [run[r] EXCEPT !.moved = @ \/ RunAt(r, "pinned")]]
    /\ UNCHANGED <<lock, cache>>

\* install of a version the registry serves, which is one it could load: the
\* tarball's files, and a manifest.ts rendered by writeManifestFromJson, which
\* exports a default.
InstallFromRegistry(s) ==
    \E pack \in {p \in Packs : Loadable(p)} : PutDir(s, [pack EXCEPT !.export = "default"])

\* A folder or git install, `baka pack create`, an edit of the pack's files.
InstallFromFolder(s) == \E pack \in Packs : PutDir(s, pack)

RemoveDir(s) == IsPack(dir[s]) /\ PutDir(s, Absent)

\* `baka lock`: createLock over what discover lists, and writeLockfile.
WriteLock ==
    /\ Discovered # 0
    /\ lock' = Pin(dir[Scopes[Discovered]])
    /\ UNCHANGED <<dir, cache, run, done>>
-----------------------------------------------------------------------------
\* runRecipe up to the add-ons: the pack is resolved and its manifest loaded,
\* then its files are hashed and compared with the lockfile.
StartRun(r, params, model) ==
    /\ RunAt(r, "idle")
    /\ Count("runs", MaxRuns)
    /\ Resolved # 0
    /\ LET pack == dir[Scopes[Resolved]] IN
         /\ Loadable(pack)
         /\ VerifyPin(lock, Pin(pack))
         /\ run' = [run EXCEPT ![r] = [IdleRun EXCEPT !.pc = "pinned", !.pack = pack,
                      !.lock = lock, !.params = params, !.model = model]]
    /\ UNCHANGED <<dir, lock, cache>>

\* beforeRun of the add-ons has been awaited: the templates are read from what
\* is in the directory now.
ReadTemplates(r) ==
    /\ RunAt(r, "pinned")
    /\ IF Resolved # 0 /\ Parses(dir[Scopes[Resolved]].template)
         THEN run' = [run EXCEPT ![r].pc = "slot", ![r].pack = dir[Scopes[Resolved]]]
         ELSE EndRun(r)
    /\ UNCHANGED <<dir, lock, cache, done>>

\* The key of the model, or else that of a fill by hand; a record that is no
\* JSON ends the run, and so does a slot nothing fills.
ReadCache(r) ==
    /\ RunAt(r, "slot")
    /\ LET own == cache[KeyOf(r)]
           hit == IF own.state # "missing" THEN own ELSE cache[ManualKeyOf(r)] IN
         \/ /\ hit.state = "whole"
            /\ run' = [run EXCEPT ![r].pc = "render", ![r].value = hit.value]
         \/ hit.state = "torn" /\ EndRun(r)
         \/ /\ hit.state = "missing"
            /\ IF run[r].model = Absent THEN EndRun(r) ELSE SetRun(r, "asking")
    /\ UNCHANGED <<dir, lock, cache, done>>

\* fillSlot is awaited; a dry run does not persist what it returns.
ModelAnswers(r) ==
    /\ RunAt(r, "asking")
    /\ LET value == Fill(run[r].pack.template.source, run[r].params, run[r].model) IN
         \E dryRun \in BOOLEAN :
           /\ run' = [run EXCEPT ![r].value = value,
                                 ![r].pc = IF dryRun THEN "render" ELSE "storing"]
           /\ cache' = IF dryRun THEN cache ELSE [cache EXCEPT ![KeyOf(r)] = Torn]
    /\ UNCHANGED <<dir, lock, done>>

ModelFails(r) ==
    /\ RunAt(r, "asking")
    /\ EndRun(r)
    /\ UNCHANGED <<dir, lock, cache, done>>

\* writeSlotCache truncates the file and then writes it: after another
\* process that wrote a longer record, what is there may be neither.
StoreFill(r) ==
    /\ RunAt(r, "storing")
    /\ \/ cache' = [cache EXCEPT ![KeyOf(r)] = Whole(run[r].value)]
       \/ cache[KeyOf(r)].state = "whole" /\ cache' = [cache EXCEPT ![KeyOf(r)] = Torn]
    /\ SetRun(r, "render")
    /\ UNCHANGED <<dir, lock, done>>

\* The file is rendered and the run goes on, as in RecipeRun.
FinishRun(r) ==
    /\ RunAt(r, "render")
    /\ EndRun(r)
    /\ UNCHANGED <<dir, lock, cache, done>>

KillRun(r) ==
    /\ ~RunAt(r, "idle")
    /\ Count("changes", MaxChanges)
    /\ EndRun(r)
    /\ UNCHANGED <<dir, lock, cache>>

\* POST /v1/fill: the value is stored under the key of the template as it is
\* now; the engine may be killed in the middle of the write.
ManualFill(params) ==
    /\ Count("changes", MaxChanges)
    /\ Resolved # 0
    /\ LET pack == dir[Scopes[Resolved]]
           source == pack.template.source IN
         /\ Loadable(pack) /\ Parses(pack.template)
         /\ \E record \in {Whole(Fill(source, params, "manual")), Torn} :
              cache' = [cache EXCEPT ![SlotCacheKey(source, params, "manual")] = record]
    /\ UNCHANGED <<dir, lock, run>>

LocalInit ==
    /\ dir = [s \in ToSet(Scopes) |-> Absent]
    /\ lock = Absent
    /\ cache = [key \in Keys |-> Missing]
    /\ run = [r \in Runs |-> IdleRun]
    /\ done = [runs |-> 0, changes |-> 0]

LocalNext ==
    \/ \E s \in ToSet(Scopes) : InstallFromRegistry(s) \/ InstallFromFolder(s) \/ RemoveDir(s)
    \/ WriteLock
    \/ \E params \in Params : ManualFill(params)
    \/ \E r \in Runs :
         \/ \E params \in Params, model \in WorkerModels : StartRun(r, params, model)
         \/ ReadTemplates(r) \/ ReadCache(r) \/ ModelAnswers(r) \/ ModelFails(r)
         \/ StoreFill(r) \/ FinishRun(r) \/ KillRun(r)

LocalSpec == LocalInit /\ [][LocalNext]_localVars
-----------------------------------------------------------------------------
\* A run under a lockfile uses the files that lockfile was written for,
\* wherever they were when `baka lock` hashed them and whatever was installed,
\* edited or shadowed since, unless the pack changes while the run waits for
\* its add-ons (lock.ts:18, run-recipe.ts:302).
LockedRunIsPinned ==
    \A r \in Runs :
      ~run[r].pc \in {"idle", "pinned"} /\ run[r].lock # Absent /\ ~run[r].moved =>
        Pin(run[r].pack) = run[r].lock

\* What a run renders into a slot was made for the template it has read and
\* for its params, by its own model or by hand, through upgrades of the pack
\* under it, other runs that fill the same slot, and records torn by a kill
\* (slots.ts:429, slot-cache.ts:28, materialize.ts:225).
FillMatchesTemplate ==
    \A r \in Runs : RunAt(r, "render") =>
      /\ run[r].value.source = run[r].pack.template.source
      /\ run[r].value.params = run[r].params
      /\ run[r].value.model \in {run[r].model, "manual"}

\* What an install leaves in a directory has "the same shape the engine's
\* loader reads" (package-manager.ts:586): discover finds it there.
InstalledIsDiscovered ==
    \A s \in ToSet(Scopes) : IsPack(dir[s]) /\ dir[s].export # "broken" => Loadable(dir[s])
=============================================================================
