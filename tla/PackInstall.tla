---------------------------- MODULE PackInstall ----------------------------
(***************************************************************************)
(* The CLI's `install`, `uninstall` and `remove` of packs in one scope     *)
(* (apps/cli/src/commands/install.ts, packages/recipes/src/                *)
(* package-manager.ts): a settings file lists the installed sources and a  *)
(* directory per pack holds its files.  One command runs at a time; it may *)
(* fail at the steps that reach a registry, npm or git, and it may be      *)
(* killed between any two writes.  A settings file is written in place: it *)
(* is truncated, then filled, and a torn one reads as an empty one.        *)
(***************************************************************************)
EXTENDS Integers

CONSTANTS
    Sources,        \* <<kind, pack, version>>: what a user can install
    MaxCommands,    \* bound: commands run
    None            \* no source

ASSUME SourcesAssumption ==
    /\ \A s \in Sources : s[1] \in {"registry", "npm", "git", "local"}
    /\ None \notin Sources
    /\ MaxCommands \in Nat

\* Every source of one pack, whatever its kind and version, has one directory.
PackOf(s) == s[2]
Packs == {PackOf(s) : s \in Sources}
\* parseRegistrationScopeName finds a name in a registry or an npm source.
Scoped(s) == s[1] \in {"registry", "npm"}
Alone(s, packages) == \A t \in packages : PackOf(t) = PackOf(s) => t = s

VARIABLES
    settings,   \* the settings file: `packages`, the other keys, torn or whole
    dir,        \* what the directory of each pack holds
    cmd,        \* the running command
    ran,        \* commands run so far
    cut         \* history: packs whose last extraction did not get done, or was
                \* done beside another listed source

vars == <<settings, dir, cmd, ran, cut>>

SettingsFile == [packages : SUBSET Sources, keys : BOOLEAN, whole : BOOLEAN]
PackDir == [source : Sources \union {None}, whole : BOOLEAN]
Absent == [source |-> None, whole |-> FALSE]

\* `next` is what the file is filled with and `then` the step after that;
\* `before` is history, the settings the command started from.
Command ==
    [pc : {"idle", "remove", "extract", "extracting", "register", "rollback",
           "write", "rmdir"},
     source : Sources \union {None}, pack : Packs \union {None},
     next : SettingsFile, then : {"idle", "remove", "rmdir"},
     exit : {"none", "ok", "failed"}, before : SettingsFile]

\* readSettingsFrom: a file that does not parse has no packages and no keys.
ReadSettings == IF settings.whole THEN settings
                ELSE [packages |-> {}, keys |-> FALSE, whole |-> TRUE]

At(pc) == cmd.pc = pc
Goto(pc) == cmd' = [cmd EXCEPT !.pc = pc]
Exit(status) == cmd' = [cmd EXCEPT !.pc = "idle", !.exit = status]
-----------------------------------------------------------------------------
\* A command starts: it has read the settings and written nothing.
Begin(source, pack) ==
    [cmd EXCEPT !.source = source, !.pack = pack, !.exit = "none",
                !.before = ReadSettings]
Begins == /\ At("idle")
          /\ ran < MaxCommands
          /\ ran' = ran + 1

\* `baka install @scope/name`: the pack is resolved and checked for a name
\* collision, its tarball downloaded and verified; nothing is written yet, and
\* a failure of any of it ends the command.
InstallRegistry(s) ==
    /\ Begins
    /\ s[1] = "registry"
    /\ \/ cmd' = [Begin(s, PackOf(s)) EXCEPT !.pc = "remove"]
       \/ cmd' = [Begin(s, PackOf(s)) EXCEPT !.exit = "failed"]
    /\ UNCHANGED <<settings, dir, cut>>

\* `baka install npm:... | git:...`: a source that is listed is extracted again.
ReinstallSource(s) ==
    /\ Begins
    /\ s[1] # "registry" /\ s \in ReadSettings.packages
    /\ cmd' = [Begin(s, PackOf(s)) EXCEPT !.pc = "remove"]
    /\ UNCHANGED <<settings, dir, cut>>

\* A command that writes the settings first and then does the rest.
WriteFirst(c, packages, then) ==
    /\ settings' = [settings EXCEPT !.whole = FALSE]
    /\ cmd' = [c EXCEPT !.pc = "write", !.then = then,
                        !.next = [ReadSettings EXCEPT !.packages = packages]]
    /\ UNCHANGED <<dir, cut>>

\* ... and one that is not is listed before it is fetched.
InstallSource(s) ==
    /\ Begins
    /\ s[1] # "registry" /\ s \notin ReadSettings.packages
    /\ WriteFirst(Begin(s, PackOf(s)), ReadSettings.packages \union {s}, "remove")

\* `baka uninstall @scope/name`: every source of that name is taken off the list.
Uninstall(p) ==
    /\ Begins
    /\ LET named == {s \in ReadSettings.packages : Scoped(s) /\ PackOf(s) = p}
       IN  /\ named # {}
           /\ WriteFirst(Begin(None, p), ReadSettings.packages \ named, "rmdir")

\* `baka remove <source>`: removeSource of one listed source.
Remove(s) ==
    /\ Begins
    /\ s \in ReadSettings.packages
    /\ WriteFirst(Begin(None, PackOf(s)), ReadSettings.packages \ {s}, "rmdir")

\* writeFileSync is done.
FillSettings ==
    /\ At("write")
    /\ settings' = cmd.next
    /\ Goto(cmd.then)
    /\ UNCHANGED <<dir, ran, cut>>

\* rmSync of the old directory begins: what it held is no longer whole.
RemoveOld ==
    /\ At("remove")
    /\ dir' = [dir EXCEPT ![cmd.pack].whole = FALSE]
    /\ Goto("extract")
    /\ UNCHANGED <<settings, ran, cut>>

\* extractRegistryTarball, npm pack and tar, git clone or a link: first files.
BeginExtract ==
    /\ At("extract")
    /\ dir' = [dir EXCEPT ![cmd.pack] = [source |-> cmd.source, whole |-> FALSE]]
    /\ Goto("extracting")
    /\ UNCHANGED <<settings, ran, cut>>

\* History: the directory now holds the source, which may not be the only one.
Settles(packages) ==
    cut' = IF Alone(cmd.source, packages) THEN cut \ {cmd.pack} ELSE cut \union {cmd.pack}

\* ... and the last of them.  A source install is done; a registry one is not
\* registered yet.
FinishExtract ==
    /\ At("extracting")
    /\ dir' = [dir EXCEPT ![cmd.pack].whole = TRUE]
    /\ IF cmd.source[1] = "registry"
         THEN Goto("register") /\ UNCHANGED cut
         ELSE Exit("ok") /\ Settles(ReadSettings.packages)
    /\ UNCHANGED <<settings, ran>>

\* Extraction throws, before or after its first file.  A registry install
\* exits; a source install calls removeSource first.
ExtractFails ==
    /\ cmd.pc \in {"extract", "extracting"}
    /\ dir' = [dir EXCEPT ![cmd.pack] = IF At("extract") THEN Absent ELSE @]
    /\ IF cmd.source[1] = "registry"
         THEN Exit("failed") /\ cut' = cut \union {cmd.pack}
         ELSE /\ Goto("rollback")
              /\ cut' = IF Alone(cmd.source, ReadSettings.packages)
                          THEN cut ELSE cut \union {cmd.pack}
    /\ UNCHANGED <<settings, ran>>

\* (Mutant: the list is not read first.)
RegisterAlone ==
    /\ At("register")
    /\ settings' = [settings EXCEPT !.whole = FALSE]
    /\ cmd' = [cmd EXCEPT !.pc = "write", !.then = "idle", !.exit = "ok",
                          !.next = [packages |-> {cmd.source}, keys |-> FALSE,
                                    whole |-> TRUE]]
    /\ Settles({})
    /\ UNCHANGED <<dir, ran>>

\* (Mutant: only the same source is replaced.)
RegisterBeside ==
    /\ At("register")
    /\ settings' = [settings EXCEPT !.whole = FALSE]
    /\ cmd' = [cmd EXCEPT !.pc = "write", !.then = "idle", !.exit = "ok",
                          !.next = [packages |-> ReadSettings.packages
                                                   \union {cmd.source},
                                    keys |-> FALSE, whole |-> TRUE]]
    /\ Settles({})
    /\ UNCHANGED <<dir, ran>>

\* The source replaces every other source of its name, in a file that gets
\* `packages` and no other key.
Register ==
    /\ At("register")
    /\ settings' = [settings EXCEPT !.whole = FALSE]
    /\ LET others == {s \in ReadSettings.packages :
                        ~(Scoped(s) /\ PackOf(s) = cmd.pack)}
       IN  /\ cmd' = [cmd EXCEPT !.pc = "write", !.then = "idle", !.exit = "ok",
                                 !.next = [packages |-> others \union {cmd.source},
                                           keys |-> FALSE, whole |-> TRUE]]
           /\ Settles(others)
    /\ UNCHANGED <<dir, ran>>

\* (Mutant: it is left out.)
RollBackNothing ==
    /\ At("rollback")
    /\ Exit("failed")
    /\ UNCHANGED <<settings, dir, ran, cut>>

\* removeSource after a failed source install; its exit is a failure.
RollBack ==
    /\ At("rollback")
    /\ IF cmd.source \in ReadSettings.packages
         THEN WriteFirst([cmd EXCEPT !.exit = "failed"],
                         ReadSettings.packages \ {cmd.source}, "rmdir")
         ELSE Exit("failed") /\ UNCHANGED <<settings, dir, cut>>
    /\ UNCHANGED ran

\* rmSync of the directory of a pack that is no longer listed.
RemoveDir ==
    /\ At("rmdir")
    /\ dir' = [dir EXCEPT ![cmd.pack] = Absent]
    /\ Goto("idle")
    /\ UNCHANGED <<settings, ran, cut>>

\* The process dies: what is written stays.
Kill ==
    /\ ~At("idle")
    /\ Exit("none")
    /\ cut' = IF cmd.pc \in {"write", "rmdir"} THEN cut ELSE cut \union {cmd.pack}
    /\ UNCHANGED <<settings, dir, ran>>

InitialSettings == [packages |-> {}, keys |-> TRUE, whole |-> TRUE]
Init ==
    /\ settings = InitialSettings
    /\ dir = [p \in Packs |-> Absent]
    /\ cmd = [pc |-> "idle", source |-> None, pack |-> None,
              next |-> InitialSettings, then |-> "idle", exit |-> "none",
              before |-> InitialSettings]
    /\ ran = 0
    /\ cut = {}

Next ==
    \/ \E p \in Packs : Uninstall(p)
    \/ \E s \in Sources : InstallRegistry(s) \/ ReinstallSource(s)
                          \/ InstallSource(s) \/ Remove(s)
    \/ FillSettings \/ RemoveOld \/ BeginExtract \/ FinishExtract
    \/ ExtractFails \/ Register \/ RollBack \/ RemoveDir \/ Kill

Spec == Init /\ [][Next]_vars
-----------------------------------------------------------------------------
\* The settings, the directories and the running command have their types.
TypeOK ==
    /\ settings \in SettingsFile
    /\ dir \in [Packs -> PackDir]
    /\ cmd \in Command
    /\ ran \in Nat
    /\ cut \subseteq Packs

Installed(s) == dir[PackOf(s)] = [source |-> s, whole |-> TRUE]

\* listInstalledPackages takes every listed source to be in the directory of its
\* pack.  Between commands it is there, from that source and whole, but for a
\* pack whose last extraction did not get done, because an upgrade threw or a
\* process died, and for one that was listed from two sources at once, which
\* share the directory.
ListedIsInstalled ==
    At("idle") => \A s \in ReadSettings.packages : Installed(s) \/ PackOf(s) \in cut

\* Whatever failed upgrades and kills left behind, an install that succeeds
\* repairs its pack: its source is listed, alone of its name ("the upgrade
\* replaces the registration in place"), and the directory holds it.
SuccessHeals ==
    (At("idle") /\ cmd.exit = "ok" /\ cmd.source # None) =>
        /\ cmd.source \in ReadSettings.packages /\ Installed(cmd.source)
        /\ cmd.source[1] = "registry" =>
              \A s \in ReadSettings.packages :
                  Scoped(s) /\ PackOf(s) = cmd.pack => s = cmd.source

\* A command lists or unlists sources of its own pack only, and keeps the keys of
\* the file, through every rewrite and a rollback; but Register drops the keys
\* (package-manager.ts:207-208: "which every rewrite preserves").
RestOfFileKept ==
    settings.whole =>
        /\ \A s \in Sources : PackOf(s) # cmd.pack =>
              (s \in settings.packages <=> s \in cmd.before.packages)
        /\ cmd.source = None \/ cmd.source[1] # "registry" =>
              (settings.keys <=> cmd.before.keys)
=============================================================================
