------------------------- MODULE PackInstall_proofs -------------------------
(***************************************************************************)
(* Any number of packs, sources and commands, each of which may fail or be *)
(* killed at any step.  ListInv follows a source from the list to its      *)
(* directory: a command in flight may leave its own pack unfinished, and   *)
(* no other.                                                               *)
(***************************************************************************)
EXTENDS PackInstall, TLAPS

Fetching == {"remove", "extract", "extracting", "register", "rollback"}

\* What a command in flight knows of itself.
CmdInv ==
    /\ cmd.source # None => cmd.pack = PackOf(cmd.source)
    /\ ~At("idle") => cmd.pack \in Packs
    /\ cmd.pc \in Fetching => cmd.source # None
    /\ At("register") => cmd.source[1] = "registry"
    /\ At("rollback") => cmd.source[1] # "registry"
    /\ At("write") => ~settings.whole /\ cmd.next.whole
    /\ At("write") /\ cmd.then # "rmdir" => cmd.source # None
    /\ At("write") /\ cmd.then = "remove" => cmd.source[1] # "registry"
    /\ At("write") /\ cmd.then = "idle" => cmd.source[1] = "registry"
    /\ cmd.exit = "ok" => At("idle") \/ (At("write") /\ cmd.then = "idle")

\* The packages that are listed, or will be when the file is filled.
List == IF At("write") THEN cmd.next.packages ELSE ReadSettings.packages

LEMMA PackTypes ==
    /\ \A s \in Sources : PackOf(s) \in Packs /\ s # None
    /\ TypeOK => ReadSettings \in SettingsFile
    /\ TypeOK => List \in SUBSET Sources
<1>1. TypeOK => ReadSettings \in SettingsFile
  BY DEF ReadSettings, TypeOK, SettingsFile
<1>2. TypeOK => List \in SUBSET Sources
  BY <1>1 DEF List, TypeOK, Command, SettingsFile
<1>3. \A s \in Sources : PackOf(s) \in Packs /\ s # None
  BY SourcesAssumption DEF Packs
<1> QED
  BY <1>1, <1>2, <1>3

\* What is left of a command that begins: the settings it read.
LEMMA BeginType ==
    ASSUME TypeOK, NEW source \in Sources \union {None}, NEW pack \in Packs
    PROVE  LET c == Begin(source, pack) IN
           /\ c \in Command
           /\ c.source = source /\ c.pack = pack /\ c.exit = "none" /\ c.before = ReadSettings
           /\ \A pc \in {"remove", "idle"} : [c EXCEPT !.pc = pc] \in Command
           /\ [c EXCEPT !.exit = "failed"] \in Command
           /\ c.pc = cmd.pc
<1>1. ReadSettings \in SettingsFile
  BY PackTypes
<1> QED
  BY <1>1 DEF Begin, TypeOK, Command

\* The step of a command that writes the settings first.
LEMMA WriteFirstStep ==
    ASSUME TypeOK, NEW c \in Command, NEW packages \in SUBSET Sources,
           NEW then \in {"idle", "remove", "rmdir"}, WriteFirst(c, packages, then)
    PROVE  /\ settings' \in SettingsFile /\ ~settings'.whole
           /\ cmd' \in Command /\ cmd'.pc = "write" /\ cmd'.then = then
           /\ cmd'.source = c.source /\ cmd'.pack = c.pack /\ cmd'.exit = c.exit
           /\ cmd'.before = c.before
           /\ cmd'.next.packages = packages /\ cmd'.next.keys = ReadSettings.keys
           /\ cmd'.next.whole /\ UNCHANGED <<dir, cut>>
<1>1. ReadSettings \in SettingsFile /\ ReadSettings.whole
  BY PackTypes DEF ReadSettings
<1> DEFINE n == [ReadSettings EXCEPT !.packages = packages]
<1>2. n \in SettingsFile /\ n.packages = packages /\ n.keys = ReadSettings.keys /\ n.whole
  BY <1>1 DEF SettingsFile
<1> HIDE DEF n
<1>3. cmd' = [c EXCEPT !.pc = "write", !.then = then, !.next = n]
  BY DEF WriteFirst, n
<1>4. settings' = [settings EXCEPT !.whole = FALSE] /\ UNCHANGED <<dir, cut>>
  BY DEF WriteFirst
<1> QED
  BY <1>2, <1>3, <1>4 DEF Command, TypeOK, SettingsFile

-----------------------------------------------------------------------------
(* Types, and what a command knows of itself                                *)

LEMMA TypeStep == TypeOK /\ CmdInv /\ [Next]_vars => TypeOK' /\ CmdInv'
<1> SUFFICES ASSUME TypeOK, CmdInv, [Next]_vars PROVE TypeOK' /\ CmdInv'
  OBVIOUS
<1>0. /\ settings \in SettingsFile /\ dir \in [Packs -> PackDir] /\ cmd \in Command
      /\ ran \in Nat /\ cut \subseteq Packs /\ ReadSettings \in SettingsFile
      /\ \A s \in Sources : PackOf(s) \in Packs /\ s # None
  BY PackTypes DEF TypeOK
<1>1. ASSUME NEW c \in Command, Begins, NEW packages \in SUBSET Sources,
             NEW then \in {"remove", "rmdir"}, WriteFirst(c, packages, then), c.exit = "none",
             c.pack \in Packs, c.source # None => c.pack = PackOf(c.source),
             then = "remove" => c.source # None /\ c.source[1] # "registry"
      PROVE  TypeOK' /\ CmdInv'
  <2>1. /\ settings' \in SettingsFile /\ ~settings'.whole
        /\ cmd' \in Command /\ cmd'.pc = "write" /\ cmd'.then = then
        /\ cmd'.source = c.source /\ cmd'.pack = c.pack /\ cmd'.exit = c.exit
        /\ cmd'.next.whole /\ UNCHANGED <<dir, cut>>
    BY <1>1, WriteFirstStep
  <2>2. ran' \in Nat
    BY <1>0, <1>1 DEF Begins
  <2> QED
    BY <1>0, <1>1, <2>1, <2>2 DEF TypeOK, CmdInv, At, Fetching
<1>2. ASSUME NEW p \in Packs, Uninstall(p)
      PROVE  TypeOK' /\ CmdInv'
  <2>1. PICK packages \in SUBSET Sources : WriteFirst(Begin(None, p), packages, "rmdir")
    BY <1>0, <1>2 DEF Uninstall, SettingsFile
  <2> DEFINE c == Begin(None, p)
  <2>2. c \in Command /\ c.source = None /\ c.pack = p /\ c.exit = "none"
    BY <1>0, BeginType
  <2>3. Begins
    BY <1>2 DEF Uninstall
  <2> HIDE DEF c
  <2>4. WriteFirst(c, packages, "rmdir")
    BY <2>1 DEF c
  <2> QED
    BY <1>0, <1>1, <2>2, <2>3, <2>4
<1>3. ASSUME NEW s \in Sources, InstallRegistry(s) \/ ReinstallSource(s)
      PROVE  TypeOK' /\ CmdInv'
  <2> DEFINE c == Begin(s, PackOf(s))
  <2>1. /\ c \in Command /\ c.source = s /\ c.pack = PackOf(s) /\ c.exit = "none"
        /\ c.pc = cmd.pc
    BY <1>0, BeginType
  <2> HIDE DEF c
  <2>2. /\ cmd' = [c EXCEPT !.pc = "remove"] \/ cmd' = [c EXCEPT !.exit = "failed"]
        /\ ran' \in Nat /\ UNCHANGED <<settings, dir, cut>> /\ At("idle")
    BY <1>0, <1>3 DEF InstallRegistry, ReinstallSource, Begins, c
  <2>3. /\ cmd' \in Command /\ cmd'.source = s /\ cmd'.pack = PackOf(s)
        /\ cmd'.pc \in {"remove", "idle"} /\ cmd'.exit \in {"none", "failed"}
    BY <2>1, <2>2 DEF Command, At
  <2> QED
    BY <1>0, <2>2, <2>3 DEF TypeOK, CmdInv, At, Fetching
<1>4. ASSUME NEW s \in Sources, InstallSource(s)
      PROVE  TypeOK' /\ CmdInv'
  <2>1. PICK packages \in SUBSET Sources : WriteFirst(Begin(s, PackOf(s)), packages, "remove")
    BY <1>0, <1>4 DEF InstallSource, SettingsFile
  <2> DEFINE c == Begin(s, PackOf(s))
  <2>2. c \in Command /\ c.source = s /\ c.pack = PackOf(s) /\ c.exit = "none"
    BY <1>0, BeginType
  <2>3. Begins /\ s[1] # "registry"
    BY <1>4 DEF InstallSource
  <2> HIDE DEF c
  <2>4. WriteFirst(c, packages, "remove")
    BY <2>1 DEF c
  <2> QED
    BY <1>0, <1>1, <2>2, <2>3, <2>4
<1>5. ASSUME NEW s \in Sources, Remove(s)
      PROVE  TypeOK' /\ CmdInv'
  <2>1. PICK packages \in SUBSET Sources : WriteFirst(Begin(None, PackOf(s)), packages, "rmdir")
    BY <1>0, <1>5 DEF Remove, SettingsFile
  <2> DEFINE c == Begin(None, PackOf(s))
  <2>2. c \in Command /\ c.source = None /\ c.pack = PackOf(s) /\ c.exit = "none"
    BY <1>0, BeginType
  <2>3. Begins
    BY <1>5 DEF Remove
  <2> HIDE DEF c
  <2>4. WriteFirst(c, packages, "rmdir")
    BY <2>1 DEF c
  <2> QED
    BY <1>0, <1>1, <2>2, <2>3, <2>4
<1>6. CASE FillSettings
  BY <1>0, <1>6 DEF FillSettings, Goto, At, TypeOK, CmdInv, Command, Fetching
<1>7. CASE RemoveOld
  BY <1>0, <1>7 DEF RemoveOld, Goto, At, TypeOK, CmdInv, Command, Fetching, PackDir
<1>8. CASE BeginExtract
  BY <1>0, <1>8 DEF BeginExtract, Goto, At, TypeOK, CmdInv, Command, Fetching, PackDir
<1>9. CASE FinishExtract
  BY <1>0, <1>9 DEF FinishExtract, Goto, Exit, At, TypeOK, CmdInv, Command, Fetching, PackDir, Settles
<1>10. CASE ExtractFails
  BY <1>0, <1>10 DEF ExtractFails, Goto, Exit, At, TypeOK, CmdInv, Command, Fetching, PackDir, Absent
<1>11. CASE Register
  BY <1>0, <1>11 DEF Register, At, TypeOK, CmdInv, Command, Fetching, SettingsFile, Settles
<1>12. CASE RollBack
  <2> DEFINE c == [cmd EXCEPT !.exit = "failed"]
  <2>1. CASE cmd.source \in ReadSettings.packages
    <3>1. /\ c \in Command /\ c.source = cmd.source /\ c.pack = cmd.pack
          /\ c.exit = "failed"
      BY <1>0 DEF Command
    <3>2. WriteFirst(c, ReadSettings.packages \ {cmd.source}, "rmdir") /\ UNCHANGED ran
      BY <1>12, <2>1 DEF RollBack
    <3>3. ReadSettings.packages \ {cmd.source} \in SUBSET Sources
      BY <1>0 DEF SettingsFile
    <3> HIDE DEF c
    <3>4. /\ settings' \in SettingsFile /\ ~settings'.whole
          /\ cmd' \in Command /\ cmd'.pc = "write" /\ cmd'.then = "rmdir"
          /\ cmd'.source = c.source /\ cmd'.pack = c.pack /\ cmd'.exit = c.exit
          /\ cmd'.next.whole /\ UNCHANGED <<dir, cut>>
      BY <3>1, <3>2, <3>3, WriteFirstStep
    <3> QED
      BY <1>0, <1>12, <3>1, <3>2, <3>4 DEF RollBack, TypeOK, CmdInv, At, Fetching
  <2>2. CASE cmd.source \notin ReadSettings.packages
    BY <1>0, <1>12, <2>2 DEF RollBack, Exit, At, TypeOK, CmdInv, Command, Fetching
  <2> QED
    BY <2>1, <2>2
<1>13. CASE RemoveDir
  BY <1>0, <1>13 DEF RemoveDir, Goto, At, TypeOK, CmdInv, Command, Fetching, PackDir, Absent
<1>14. CASE Kill
  BY <1>0, <1>14 DEF Kill, Exit, At, TypeOK, CmdInv, Command, Fetching
<1>15. CASE UNCHANGED vars
  BY <1>15 DEF vars, TypeOK, CmdInv, At
<1> QED
  BY <1>2, <1>3, <1>4, <1>5, <1>6, <1>7, <1>8, <1>9, <1>10, <1>11, <1>12, <1>13, <1>14, <1>15
     DEF Next

-----------------------------------------------------------------------------
(* The list and the directories                                             *)

\* f has what the command started from, but for its own pack.
Rest(f) ==
    /\ \A s \in Sources : PackOf(s) # cmd.pack =>
          (s \in f.packages <=> s \in cmd.before.packages)
    /\ cmd.source = None \/ cmd.source[1] # "registry" => (f.keys <=> cmd.before.keys)

RestInv ==
    /\ settings.whole => Rest(settings)
    /\ At("write") => Rest(cmd.next)
    /\ ~At("idle") /\ ~At("write") => Rest(ReadSettings)

\* A command is fetching its pack, or taking it away.
InFlight == cmd.pc \in Fetching \/ (At("write") /\ cmd.then = "remove")
TakesAway == At("rmdir") \/ (At("write") /\ cmd.then = "rmdir")

Healed ==
    /\ cmd.source \in List /\ Installed(cmd.source)
    /\ cmd.source[1] = "registry" =>
          \A s \in List : Scoped(s) /\ PackOf(s) = cmd.pack => s = cmd.source

ListInv ==
    /\ \A s \in List : Installed(s) \/ PackOf(s) \in cut \/ (InFlight /\ PackOf(s) = cmd.pack)
    /\ \A s, t \in List : s # t /\ PackOf(s) = PackOf(t) =>
          PackOf(s) \in cut \/ (InFlight /\ cmd.source \in {s, t})
    /\ TakesAway => \A s \in List : PackOf(s) = cmd.pack => cmd.pack \in cut
    /\ At("rollback") =>
          \A s \in List : PackOf(s) = cmd.pack /\ s # cmd.source => cmd.pack \in cut
    /\ At("extracting") => dir[cmd.pack].source = cmd.source
    /\ At("register") => Installed(cmd.source)
    /\ InFlight /\ ~At("rollback") /\ cmd.source[1] # "registry" => cmd.source \in List
    /\ \/ At("write") /\ cmd.then = "idle"
       \/ At("idle") /\ cmd.exit = "ok" /\ cmd.source # None
       => Healed

LEMMA ListStep ==
    TypeOK /\ CmdInv /\ RestInv /\ ListInv /\ [Next]_vars => RestInv' /\ ListInv'
<1> SUFFICES ASSUME TypeOK, CmdInv, RestInv, ListInv, [Next]_vars PROVE RestInv' /\ ListInv'
  OBVIOUS
<1>0. /\ settings \in SettingsFile /\ dir \in [Packs -> PackDir] /\ cmd \in Command
      /\ ran \in Nat /\ cut \subseteq Packs /\ ReadSettings \in SettingsFile
      /\ \A s \in Sources : PackOf(s) \in Packs /\ s # None
      /\ List \subseteq Sources /\ (settings.whole => ReadSettings = settings)
  BY PackTypes DEF TypeOK, ReadSettings
<1>1. ASSUME NEW c \in Command, At("idle"), NEW packages \in SUBSET Sources,
             NEW then \in {"remove", "rmdir"}, WriteFirst(c, packages, then), c.exit = "none",
             c.before = ReadSettings,
             \A s \in Sources : PackOf(s) # c.pack => (s \in packages <=> s \in ReadSettings.packages),
             then = "remove" => /\ c.source \in Sources /\ c.pack = PackOf(c.source)
                                /\ packages = ReadSettings.packages \union {c.source},
             then = "rmdir" => /\ packages \subseteq ReadSettings.packages
                               /\ \A s \in packages : PackOf(s) = c.pack => c.pack \in cut
      PROVE  RestInv' /\ ListInv'
  <2>1. /\ settings' \in SettingsFile /\ ~settings'.whole
        /\ cmd' \in Command /\ cmd'.pc = "write" /\ cmd'.then = then
        /\ cmd'.source = c.source /\ cmd'.pack = c.pack /\ cmd'.exit = c.exit
        /\ cmd'.before = c.before
        /\ cmd'.next.packages = packages /\ cmd'.next.keys = ReadSettings.keys
        /\ cmd'.next.whole /\ UNCHANGED <<dir, cut>>
    BY <1>1, WriteFirstStep
  <2>2. RestInv'
    BY <1>1, <2>1 DEF RestInv, Rest, At
  <2>3. List = ReadSettings.packages /\ List' = packages
    BY <1>1, <2>1 DEF List, At
  <2>4. InFlight' <=> then = "remove"
    BY <2>1 DEF InFlight, At, Fetching
  <2>5. ASSUME NEW s \in packages
        PROVE  Installed(s)' \/ PackOf(s) \in cut' \/ (InFlight' /\ PackOf(s) = cmd'.pack)
    BY <1>1, <2>1, <2>3, <2>4 DEF ListInv, InFlight, At, Fetching, Installed
  <2>6. ASSUME NEW s \in packages, NEW t \in packages, s # t, PackOf(s) = PackOf(t)
        PROVE  PackOf(s) \in cut' \/ (InFlight' /\ cmd'.source \in {s, t})
    BY <1>1, <2>1, <2>3, <2>4, <2>6 DEF ListInv, InFlight, At, Fetching
  <2> QED
    BY <1>1, <2>1, <2>2, <2>3, <2>4, <2>5, <2>6 DEF ListInv, TakesAway, At, Fetching
<1>2. ASSUME NEW p \in Packs, Uninstall(p)
      PROVE  RestInv' /\ ListInv'
  <2> DEFINE named == {s \in ReadSettings.packages : Scoped(s) /\ PackOf(s) = p}
             packages == ReadSettings.packages \ named
             c == Begin(None, p)
  <2>1. WriteFirst(c, packages, "rmdir") /\ At("idle") /\ named # {}
    BY <1>2 DEF Uninstall, Begins
  <2>2. c \in Command /\ c.source = None /\ c.pack = p /\ c.exit = "none" /\ c.before = ReadSettings
    BY <1>0, BeginType
  <2>3. packages \in SUBSET Sources
    BY <1>0 DEF SettingsFile
  <2>4. List = ReadSettings.packages
    BY <2>1 DEF List, At
  <2>5. \A s \in packages : PackOf(s) = p => p \in cut
    BY <2>1, <2>4 DEF ListInv, InFlight, At, Fetching
  <2>6. \A s \in Sources : PackOf(s) # p => (s \in packages <=> s \in ReadSettings.packages)
    OBVIOUS
  <2> HIDE DEF c, packages
  <2>7. packages \subseteq ReadSettings.packages
    BY DEF packages
  <2> QED
    BY <1>1, <2>1, <2>2, <2>3, <2>5, <2>6, <2>7
<1>3. ASSUME NEW s \in Sources, InstallRegistry(s) \/ ReinstallSource(s)
      PROVE  RestInv' /\ ListInv'
  <2> DEFINE c == Begin(s, PackOf(s))
  <2>1. /\ c \in Command /\ c.source = s /\ c.pack = PackOf(s) /\ c.exit = "none"
        /\ c.pc = cmd.pc /\ c.before = ReadSettings
    BY <1>0, BeginType
  <2> HIDE DEF c
  <2>2. /\ cmd' = [c EXCEPT !.pc = "remove"] \/ cmd' = [c EXCEPT !.exit = "failed"]
        /\ UNCHANGED <<settings, dir, cut>> /\ At("idle")
        /\ s[1] = "registry" \/ s \in ReadSettings.packages
    BY <1>3 DEF InstallRegistry, ReinstallSource, Begins, c
  <2>3. /\ cmd'.source = s /\ cmd'.pack = PackOf(s) /\ cmd'.before = ReadSettings
        /\ cmd'.pc \in {"remove", "idle"} /\ cmd'.exit \in {"none", "failed"}
    BY <2>1, <2>2 DEF Command, At
  <2>4. ReadSettings' = ReadSettings /\ List = ReadSettings.packages /\ List' = List
    BY <2>2, <2>3 DEF ReadSettings, List, At
  <2>5. RestInv'
    BY <1>0, <2>2, <2>3, <2>4 DEF RestInv, Rest, At
  <2>6. \A t \in List : Installed(t) \/ PackOf(t) \in cut
    BY <2>2 DEF ListInv, InFlight, At, Fetching
  <2>7. \A t, u \in List : t # u /\ PackOf(t) = PackOf(u) => PackOf(t) \in cut
    BY <2>2 DEF ListInv, InFlight, At, Fetching
  <2> QED
    BY <2>2, <2>3, <2>4, <2>5, <2>6, <2>7
       DEF ListInv, InFlight, TakesAway, At, Fetching, Installed
<1>4. ASSUME NEW s \in Sources, InstallSource(s)
      PROVE  RestInv' /\ ListInv'
  <2> DEFINE c == Begin(s, PackOf(s))
             packages == ReadSettings.packages \union {s}
  <2>1. WriteFirst(c, packages, "remove") /\ At("idle")
    BY <1>4 DEF InstallSource, Begins
  <2>2. /\ c \in Command /\ c.source = s /\ c.pack = PackOf(s) /\ c.exit = "none"
        /\ c.before = ReadSettings
    BY <1>0, BeginType
  <2>3. packages \in SUBSET Sources
    BY <1>0 DEF SettingsFile
  <2>4. \A t \in Sources : PackOf(t) # PackOf(s) => (t \in packages <=> t \in ReadSettings.packages)
    OBVIOUS
  <2> HIDE DEF c
  <2> QED
    BY <1>1, <2>1, <2>2, <2>3, <2>4
<1>5. ASSUME NEW s \in Sources, Remove(s)
      PROVE  RestInv' /\ ListInv'
  <2> DEFINE c == Begin(None, PackOf(s))
             packages == ReadSettings.packages \ {s}
  <2>1. WriteFirst(c, packages, "rmdir") /\ At("idle") /\ s \in ReadSettings.packages
    BY <1>5 DEF Remove, Begins
  <2>2. /\ c \in Command /\ c.source = None /\ c.pack = PackOf(s) /\ c.exit = "none"
        /\ c.before = ReadSettings
    BY <1>0, BeginType
  <2>3. packages \in SUBSET Sources
    BY <1>0 DEF SettingsFile
  <2>4. List = ReadSettings.packages
    BY <2>1 DEF List, At
  <2>5. \A t \in packages : PackOf(t) = PackOf(s) => PackOf(s) \in cut
    BY <2>1, <2>4 DEF ListInv, InFlight, At, Fetching
  <2>6. \A t \in Sources : PackOf(t) # PackOf(s) => (t \in packages <=> t \in ReadSettings.packages)
    OBVIOUS
  <2> HIDE DEF c, packages
  <2>7. packages \subseteq ReadSettings.packages
    BY DEF packages
  <2> QED
    BY <1>1, <2>1, <2>2, <2>3, <2>5, <2>6, <2>7
<1>6. CASE FillSettings
  <2>1. /\ At("write") /\ settings' = cmd.next /\ cmd' = [cmd EXCEPT !.pc = cmd.then]
        /\ UNCHANGED <<dir, cut>> /\ cmd.next.whole
    BY <1>6 DEF FillSettings, Goto, CmdInv
  <2>2. /\ cmd'.pc = cmd.then /\ cmd'.then = cmd.then /\ cmd'.source = cmd.source
        /\ cmd'.pack = cmd.pack /\ cmd'.exit = cmd.exit /\ cmd'.before = cmd.before
        /\ cmd.then \in {"idle", "remove", "rmdir"}
    BY <1>0, <2>1 DEF Command
  <2>3. ReadSettings' = cmd.next /\ List' = List
    BY <2>1, <2>2 DEF ReadSettings, List, At
  <2>4. RestInv'
    BY <2>1, <2>2, <2>3 DEF RestInv, Rest, At
  <2> QED
    BY <2>1, <2>2, <2>3, <2>4
       DEF ListInv, InFlight, TakesAway, Healed, At, Fetching, Installed, CmdInv
\* Steps of the command that is fetching, which leave the list alone.
<1>7. ASSUME ~At("write"), UNCHANGED settings, cmd'.pc # "write", cmd'.source = cmd.source,
             cmd'.pack = cmd.pack, cmd'.before = cmd.before
      PROVE  /\ List' = List /\ List = ReadSettings.packages
             /\ ~At("idle") => RestInv'
  BY <1>0, <1>7 DEF List, ReadSettings, RestInv, Rest, At
<1>8. CASE RemoveOld \/ BeginExtract
  <2>1. /\ cmd.pc \in {"remove", "extract"} /\ UNCHANGED <<settings, cut>>
        /\ \/ cmd' = [cmd EXCEPT !.pc = "extract"]
              /\ dir' = [dir EXCEPT ![cmd.pack].whole = FALSE]
           \/ cmd' = [cmd EXCEPT !.pc = "extracting"]
              /\ dir' = [dir EXCEPT ![cmd.pack] = [source |-> cmd.source, whole |-> FALSE]]
    BY <1>8 DEF RemoveOld, BeginExtract, Goto, At
  <2>2. cmd.pack \in Packs
    BY <2>1 DEF CmdInv, At
  <2>3. /\ cmd'.pc \in {"extract", "extracting"} /\ cmd'.source = cmd.source
        /\ cmd'.pack = cmd.pack /\ cmd'.before = cmd.before
        /\ \A p \in Packs : p # cmd.pack => dir'[p] = dir[p]
        /\ cmd'.pc = "extracting" => dir'[cmd.pack].source = cmd.source
    BY <1>0, <2>1, <2>2 DEF Command
  <2>4. List' = List /\ List = ReadSettings.packages /\ RestInv'
    BY <1>7, <2>1, <2>3 DEF At
  <2>5. InFlight /\ InFlight'
    BY <2>1, <2>3 DEF InFlight, At, Fetching
  <2>6. \A s \in List : PackOf(s) # cmd.pack => (Installed(s) <=> Installed(s)')
    BY <1>0, <2>3 DEF Installed
  <2> QED
    BY <2>1, <2>3, <2>4, <2>5, <2>6 DEF ListInv, TakesAway, At
<1>9. CASE FinishExtract
  <2>1. /\ At("extracting") /\ UNCHANGED settings
        /\ dir' = [dir EXCEPT ![cmd.pack].whole = TRUE]
        /\ \/ /\ cmd.source[1] = "registry" /\ cmd' = [cmd EXCEPT !.pc = "register"]
              /\ UNCHANGED cut
           \/ /\ cmd.source[1] # "registry"
              /\ cmd' = [cmd EXCEPT !.pc = "idle", !.exit = "ok"]
              /\ Settles(ReadSettings.packages)
    BY <1>9 DEF FinishExtract, Goto, Exit
  <2>2. /\ cmd.pack \in Packs /\ cmd.source # None /\ cmd.pack = PackOf(cmd.source)
        /\ dir[cmd.pack].source = cmd.source
    BY <2>1 DEF CmdInv, At, Fetching, ListInv
  <2>3. dir'[cmd.pack] = [source |-> cmd.source, whole |-> TRUE]
        /\ \A p \in Packs : p # cmd.pack => dir'[p] = dir[p]
    BY <1>0, <2>1, <2>2 DEF PackDir
  <2>4. /\ cmd'.source = cmd.source /\ cmd'.pack = cmd.pack /\ cmd'.before = cmd.before
        /\ cmd'.pc \in {"register", "idle"}
        /\ cmd.source[1] = "registry" => cmd'.pc = "register" /\ cut' = cut
        /\ cmd.source[1] # "registry" => cmd'.pc = "idle" /\ Settles(ReadSettings.packages)
    BY <1>0, <2>1 DEF Command
  <2>5. List' = List /\ List = ReadSettings.packages /\ RestInv'
    BY <1>7, <2>1, <2>4 DEF At
  <2>6. Installed(cmd.source)' /\ cmd.source \in Sources
    BY <1>0, <2>2, <2>3, <2>4 DEF Installed, Command
  <2>7. \A s \in List : PackOf(s) # cmd.pack => (Installed(s) <=> Installed(s)')
    BY <1>0, <2>3 DEF Installed
  <2>8. /\ InFlight
        /\ \A s \in List : PackOf(s) # cmd.pack => Installed(s) \/ PackOf(s) \in cut
        /\ \A s, t \in List : s # t /\ PackOf(s) = PackOf(t) /\ PackOf(s) # cmd.pack =>
             PackOf(s) \in cut
    BY <1>0, <2>1, <2>2 DEF ListInv, InFlight, At, Fetching
  <2>9. CASE cmd.source[1] = "registry"
    <3>1. InFlight' /\ cut' = cut /\ cmd'.pc = "register"
      BY <2>4, <2>9 DEF InFlight, At, Fetching
    <3>2. \A s, t \in List : s # t /\ PackOf(s) = PackOf(t) =>
            PackOf(s) \in cut \/ cmd.source \in {s, t}
      BY DEF ListInv
    <3>3. \A s \in List' : Installed(s)' \/ PackOf(s) \in cut'
                            \/ (InFlight' /\ PackOf(s) = cmd'.pack)
      BY <2>4, <2>5, <2>7, <2>8, <3>1
    <3>4. Installed(cmd.source)'
      BY <2>4, <2>6 DEF Installed
    <3> QED
      BY <2>4, <2>5, <2>9, <3>1, <3>2, <3>3, <3>4 DEF ListInv, TakesAway, At
  <2>10. CASE cmd.source[1] # "registry"
    <3>1. /\ cut' = IF Alone(cmd.source, List) THEN cut \ {cmd.pack} ELSE cut \union {cmd.pack}
          /\ cmd'.pc = "idle"
      BY <2>4, <2>5, <2>10 DEF Settles
    <3>2. \A s \in List : PackOf(s) = cmd.pack => s = cmd.source \/ cmd.pack \in cut'
      BY <2>2, <3>1 DEF Alone
    <3>3. \A p \in Packs : p # cmd.pack => (p \in cut' <=> p \in cut)
      BY <3>1
    <3>4. \A s \in List : Installed(s)' \/ PackOf(s) \in cut'
      <4>1. \A s \in List : s = cmd.source => Installed(s)'
        BY <2>2, <2>3 DEF Installed
      <4> QED
        BY <1>0, <2>7, <2>8, <3>2, <3>3, <4>1
    <3>5. \A s, t \in List : s # t /\ PackOf(s) = PackOf(t) => PackOf(s) \in cut'
      BY <1>0, <2>8, <3>2, <3>3
    <3>6. cmd.source \in List
      BY <2>1, <2>8, <2>10 DEF ListInv, At
    <3>7. Healed'
      BY <2>4, <2>5, <2>6, <2>10, <3>6 DEF Healed, Installed
    <3> QED
      BY <2>4, <2>5, <3>1, <3>4, <3>5, <3>7 DEF ListInv, InFlight, TakesAway, At, Fetching
  <2> QED
    BY <2>9, <2>10
<1>10. CASE ExtractFails
  <2>1. /\ cmd.pc \in {"extract", "extracting"} /\ UNCHANGED settings
        /\ dir' = [dir EXCEPT ![cmd.pack] = IF At("extract") THEN Absent ELSE @]
        /\ \/ /\ cmd' = [cmd EXCEPT !.pc = "idle", !.exit = "failed"]
              /\ cut' = cut \union {cmd.pack}
           \/ /\ cmd.source[1] # "registry" /\ cmd' = [cmd EXCEPT !.pc = "rollback"]
              /\ cut' = IF Alone(cmd.source, ReadSettings.packages)
                          THEN cut ELSE cut \union {cmd.pack}
    BY <1>10 DEF ExtractFails, Goto, Exit
  <2>2. cmd.pack \in Packs /\ cmd.source # None /\ cmd.pack = PackOf(cmd.source)
    BY <2>1 DEF CmdInv, At, Fetching
  <2>3. /\ cmd'.source = cmd.source /\ cmd'.pack = cmd.pack /\ cmd'.before = cmd.before
        /\ (cmd'.pc = "idle" /\ cmd'.exit = "failed") \/ cmd'.pc = "rollback"
        /\ \A p \in Packs : p # cmd.pack => dir'[p] = dir[p]
        /\ cut \subseteq cut'
        /\ cmd'.pc = "idle" => cmd.pack \in cut'
        /\ cmd'.pc = "rollback" =>
             Alone(cmd.source, ReadSettings.packages) \/ cmd.pack \in cut'
    BY <1>0, <2>1 DEF Command
  <2>4. List' = List /\ List = ReadSettings.packages /\ RestInv'
    BY <1>7, <2>1, <2>3 DEF At
  <2>5. \A s \in List : PackOf(s) # cmd.pack => (Installed(s) <=> Installed(s)')
    BY <1>0, <2>3 DEF Installed
  <2>6. cmd'.pc = "rollback" =>
          /\ InFlight'
          /\ \A s \in List : PackOf(s) = cmd.pack /\ s # cmd.source => cmd.pack \in cut'
    BY <2>2, <2>3, <2>4 DEF Alone, InFlight, At, Fetching
  <2>7. /\ \A s \in List : PackOf(s) # cmd.pack => Installed(s)' \/ PackOf(s) \in cut'
        /\ \A s, t \in List : s # t /\ PackOf(s) = PackOf(t) /\ PackOf(s) # cmd.pack =>
             PackOf(s) \in cut'
    BY <1>0, <2>1, <2>2, <2>3, <2>5 DEF ListInv, InFlight, At, Fetching
  <2>8. CASE cmd'.pc = "idle" /\ cmd'.exit = "failed"
    BY <2>3, <2>4, <2>7, <2>8 DEF ListInv, InFlight, TakesAway, At, Fetching
  <2>9. CASE cmd'.pc = "rollback"
    BY <2>3, <2>4, <2>6, <2>7, <2>9 DEF ListInv, TakesAway, At
  <2> QED
    BY <2>3, <2>8, <2>9
<1>11. CASE Register
  <2> DEFINE others == {s \in ReadSettings.packages : ~(Scoped(s) /\ PackOf(s) = cmd.pack)}
             n == [packages |-> others \union {cmd.source}, keys |-> FALSE, whole |-> TRUE]
  <2>1. /\ At("register") /\ settings' = [settings EXCEPT !.whole = FALSE]
        /\ cmd' = [cmd EXCEPT !.pc = "write", !.then = "idle", !.exit = "ok", !.next = n]
        /\ cut' = IF Alone(cmd.source, others) THEN cut \ {cmd.pack} ELSE cut \union {cmd.pack}
        /\ UNCHANGED dir
    BY <1>11 DEF Register, Settles
  <2>2. /\ cmd.source \in Sources /\ cmd.pack = PackOf(cmd.source) /\ cmd.source[1] = "registry"
        /\ cmd.pack \in Packs
    BY <1>0, <2>1 DEF CmdInv, At, Fetching, Command
  <2>3. /\ cmd'.pc = "write" /\ cmd'.then = "idle" /\ cmd'.exit = "ok" /\ cmd'.next = n
        /\ cmd'.source = cmd.source /\ cmd'.pack = cmd.pack /\ cmd'.before = cmd.before
    BY <1>0, <2>1 DEF Command
  <2>4. List = ReadSettings.packages /\ List' = others \union {cmd.source}
        /\ others \subseteq Sources
    BY <1>0, <2>1, <2>3 DEF List, At, SettingsFile
  <2>5. RestInv'
    <3>1. Rest(ReadSettings) /\ ~settings'.whole
      BY <1>0, <2>1 DEF RestInv, At, SettingsFile
    <3>2. \A s \in Sources : PackOf(s) # cmd.pack =>
            (s \in others \union {cmd.source} <=> s \in cmd.before.packages)
      BY <2>2, <3>1 DEF Rest
    <3>3. cmd.source # None
      BY <1>0, <2>2
    <3> HIDE DEF others
    <3> QED
      BY <2>2, <2>3, <3>1, <3>2, <3>3 DEF RestInv, Rest, At
  <2>6. Installed(cmd.source) /\ Scoped(cmd.source)
    BY <2>1, <2>2 DEF ListInv, At, Scoped
  <2>7. /\ \A s \in List : PackOf(s) # cmd.pack => Installed(s) \/ PackOf(s) \in cut
        /\ \A s, t \in List : s # t /\ PackOf(s) = PackOf(t) /\ PackOf(s) # cmd.pack =>
             PackOf(s) \in cut
    BY <1>0, <2>2 DEF ListInv
  <2>8. \A s \in others \union {cmd.source} : PackOf(s) = cmd.pack =>
          s = cmd.source \/ cmd.pack \in cut'
    BY <2>1, <2>2 DEF Alone
  <2>9. \A p \in Packs : p # cmd.pack => (p \in cut' <=> p \in cut)
    BY <2>1
  <2>10. \A s \in others \union {cmd.source} : Installed(s) \/ PackOf(s) \in cut'
    BY <1>0, <2>4, <2>6, <2>7, <2>8, <2>9
  <2>11. \A s, t \in others \union {cmd.source} : s # t /\ PackOf(s) = PackOf(t) =>
           PackOf(s) \in cut'
    BY <1>0, <2>2, <2>4, <2>7, <2>8, <2>9
  <2>12. Healed'
    BY <2>1, <2>3, <2>4, <2>6 DEF Healed, Installed
  <2> HIDE DEF others, n
  <2> QED
    BY <2>1, <2>3, <2>4, <2>5, <2>10, <2>11, <2>12
       DEF ListInv, InFlight, TakesAway, At, Fetching, Installed
<1>12. CASE RollBack
  <2>1. /\ At("rollback") /\ List = ReadSettings.packages /\ InFlight
        /\ cmd.source # None /\ cmd.pack = PackOf(cmd.source) /\ cmd.source[1] # "registry"
    BY <1>12 DEF RollBack, At, List, InFlight, Fetching, CmdInv
  <2>2. /\ \A s \in List : PackOf(s) # cmd.pack => Installed(s) \/ PackOf(s) \in cut
        /\ \A s, t \in List : s # t /\ PackOf(s) = PackOf(t) /\ cmd.source \notin {s, t} =>
             PackOf(s) \in cut
        /\ \A s \in List : PackOf(s) = cmd.pack /\ s # cmd.source => cmd.pack \in cut
        /\ Rest(ReadSettings)
    BY <2>1 DEF ListInv, RestInv, At
  <2>3. CASE cmd.source \in ReadSettings.packages
    <3> DEFINE c == [cmd EXCEPT !.exit = "failed"]
               packages == ReadSettings.packages \ {cmd.source}
    <3>1. /\ c \in Command /\ c.source = cmd.source /\ c.pack = cmd.pack
          /\ c.exit = "failed" /\ c.before = cmd.before
      BY <1>0 DEF Command
    <3>2. WriteFirst(c, packages, "rmdir")
      BY <1>12, <2>3 DEF RollBack
    <3>3. packages \in SUBSET Sources
      BY <1>0 DEF SettingsFile
    <3> HIDE DEF c
    <3>4. /\ settings' \in SettingsFile /\ ~settings'.whole
          /\ cmd'.pc = "write" /\ cmd'.then = "rmdir"
          /\ cmd'.source = cmd.source /\ cmd'.pack = cmd.pack /\ cmd'.exit = "failed"
          /\ cmd'.before = cmd.before /\ cmd'.next.packages = packages
          /\ cmd'.next.keys = ReadSettings.keys /\ UNCHANGED <<dir, cut>>
      BY <3>1, <3>2, <3>3, WriteFirstStep
    <3>5. RestInv'
      BY <2>1, <2>2, <3>4 DEF RestInv, Rest, At
    <3>6. List' = packages
      BY <3>4 DEF List, At
    <3>7. \A s \in packages : s \in List /\ s # cmd.source
      BY <2>1
    <3> HIDE DEF packages
    <3> QED
      BY <2>1, <2>2, <3>4, <3>5, <3>6, <3>7
         DEF ListInv, InFlight, TakesAway, At, Fetching, Installed
  <2>4. CASE cmd.source \notin ReadSettings.packages
    <3>1. UNCHANGED <<settings, dir, cut>> /\ cmd' = [cmd EXCEPT !.pc = "idle", !.exit = "failed"]
      BY <1>12, <2>4 DEF RollBack, Exit
    <3>2. /\ cmd'.pc = "idle" /\ cmd'.exit = "failed" /\ cmd'.source = cmd.source
          /\ cmd'.pack = cmd.pack /\ cmd'.before = cmd.before
      BY <1>0, <3>1 DEF Command
    <3>3. List' = List /\ RestInv'
      BY <1>7, <2>1, <3>1, <3>2 DEF At
    <3>4. \A s \in List : s # cmd.source
      BY <2>1, <2>4
    <3> QED
      BY <2>1, <2>2, <3>1, <3>2, <3>3, <3>4
         DEF ListInv, InFlight, TakesAway, At, Fetching, Installed
  <2> QED
    BY <2>3, <2>4
<1>13. CASE RemoveDir
  <2>1. /\ At("rmdir") /\ UNCHANGED <<settings, cut>>
        /\ dir' = [dir EXCEPT ![cmd.pack] = Absent] /\ cmd' = [cmd EXCEPT !.pc = "idle"]
    BY <1>13 DEF RemoveDir, Goto
  <2>2. cmd'.pc = "idle" /\ cmd'.source = cmd.source /\ cmd'.pack = cmd.pack
        /\ cmd'.before = cmd.before /\ cmd'.exit = cmd.exit /\ cmd.exit # "ok"
    BY <1>0, <2>1 DEF Command, CmdInv, At
  <2>3. List' = List /\ RestInv'
    BY <1>7, <2>1, <2>2 DEF At
  <2>4. \A s \in List : PackOf(s) # cmd.pack => (Installed(s) <=> Installed(s)')
    BY <1>0, <2>1 DEF Installed
  <2> QED
    BY <2>1, <2>2, <2>3, <2>4 DEF ListInv, InFlight, TakesAway, At, Fetching
<1>14. CASE Kill
  <2>1. /\ ~At("idle") /\ cmd' = [cmd EXCEPT !.pc = "idle", !.exit = "none"]
        /\ cut' = IF cmd.pc \in {"write", "rmdir"} THEN cut ELSE cut \union {cmd.pack}
        /\ UNCHANGED <<settings, dir>>
    BY <1>14 DEF Kill, Exit
  <2>2. cmd'.pc = "idle" /\ cmd'.exit = "none" /\ cmd'.source = cmd.source
        /\ cmd'.pack = cmd.pack /\ cmd'.before = cmd.before
    BY <1>0, <2>1 DEF Command
  <2>3. CASE At("write")
    <3>1. ~settings.whole
      BY <2>3 DEF CmdInv
    <3>2. List' = {}
      BY <2>1, <2>2, <3>1 DEF List, ReadSettings, At
    <3>3. RestInv'
      BY <2>1, <2>2, <3>1 DEF RestInv, At
    <3> QED
      BY <2>2, <3>2, <3>3 DEF ListInv, InFlight, TakesAway, At, Fetching
  <2>4. CASE ~At("write")
    <3>1. List' = List /\ RestInv'
      BY <1>7, <2>1, <2>2, <2>4 DEF At
    <3>2. cut \subseteq cut' /\ (cmd.pack \in cut' \/ At("rmdir"))
      BY <2>1, <2>4 DEF At
    <3>3. \A s \in List : Installed(s) \/ PackOf(s) \in cut'
      BY <3>2 DEF ListInv, InFlight, TakesAway, At, Fetching
    <3>4. \A s, t \in List : s # t /\ PackOf(s) = PackOf(t) => PackOf(s) \in cut'
      BY <2>4, <3>2 DEF ListInv, InFlight, At, Fetching, CmdInv
    <3> QED
      BY <2>1, <2>2, <3>1, <3>3, <3>4 DEF ListInv, InFlight, TakesAway, At, Fetching, Installed
  <2> QED
    BY <2>3, <2>4
<1>15. CASE UNCHANGED vars
  BY <1>15 DEF vars, RestInv, Rest, ListInv, Healed, List, ReadSettings, InFlight, TakesAway, At,
               Fetching, Installed
<1> QED
  BY <1>2, <1>3, <1>4, <1>5, <1>6, <1>8, <1>9, <1>10, <1>11, <1>12, <1>13, <1>14, <1>15 DEF Next

LEMMA InitInv == Init => TypeOK /\ CmdInv /\ RestInv /\ ListInv
<1> SUFFICES ASSUME Init PROVE TypeOK /\ CmdInv /\ RestInv /\ ListInv
  OBVIOUS
<1>1. InitialSettings \in SettingsFile
  BY DEF InitialSettings, SettingsFile
<1>2. TypeOK
  BY <1>1, SourcesAssumption DEF Init, TypeOK, Command, PackDir, Absent
<1>3. CmdInv
  BY DEF Init, CmdInv, At, Fetching
<1>4. List = {}
  BY DEF Init, List, ReadSettings, At, InitialSettings
<1>5. RestInv
  BY DEF Init, RestInv, Rest, At, InitialSettings
<1>6. ListInv
  BY <1>4 DEF Init, ListInv, InFlight, TakesAway, At, Fetching
<1> QED
  BY <1>2, <1>3, <1>5, <1>6

THEOREM InstallInvariant == Spec => [](TypeOK /\ CmdInv /\ RestInv /\ ListInv)
<1>1. TypeOK /\ CmdInv /\ RestInv /\ ListInv /\ [Next]_vars
        => TypeOK' /\ CmdInv' /\ RestInv' /\ ListInv'
  BY TypeStep, ListStep
<1> QED
  BY <1>1, InitInv, PTL DEF Spec

\* Between commands a listed source is in its directory, unless the history
\* tells of an extraction that did not get done or of a shared directory.
THEOREM ListedAreInstalled == Spec => []ListedIsInstalled
<1>1. ListInv => ListedIsInstalled
  BY DEF ListInv, ListedIsInstalled, List, InFlight, At, Fetching
<1> QED
  BY <1>1, InstallInvariant, PTL

\* A command that reports success has left its pack listed and whole, whatever
\* the commands before it left behind.
THEOREM InstallsHeal == Spec => []SuccessHeals
<1>1. ListInv => SuccessHeals
  BY DEF ListInv, SuccessHeals, Healed, List, At
<1> QED
  BY <1>1, InstallInvariant, PTL

\* No command touches what the settings say of other packs.
THEOREM OtherPacksStay == Spec => []RestOfFileKept
<1>1. RestInv => RestOfFileKept
  BY DEF RestInv, Rest, RestOfFileKept
<1> QED
  BY <1>1, InstallInvariant, PTL
=============================================================================
