----------------------- MODULE RegistryClient_proofs -----------------------
(***************************************************************************)
(* Which keys are in the config file and where they are sent, for any      *)
(* number of commands, registries and keys.  A root that a command has     *)
(* read may be written back much later, over a file others have changed:   *)
(* so the invariant speaks of the copies the commands hold as well as of   *)
(* the file, and of what they are about to add to them.  Nothing ever      *)
(* leaves `granted`, so what was granted once may be written back.         *)
(***************************************************************************)
EXTENDS RegistryClient, SequenceTheorems, TLAPS

\* Every key of root was granted for its registry.
Known(root, g) ==
  /\ root \in Root
  /\ \A u \in Urls : root.registries[u] # NoValue => <<u, root.registries[u]>> \in g

\* What a command holds: a known copy of the file, a key that was granted by
\* the time it is about to be stored, and a whole block by the time it is edited.
ProcOK(l, g) ==
  /\ l \in Proc
  /\ Known(l.root, g)
  /\ l.step \in {"read_block", "prompt"} => l.cmd \in {"role", "init"} /\ l.key = NoValue
  /\ l.step \in {"verify", "callback"} => l.cmd = "login"
  /\ l.step = "prompt" /\ l.cmd = "role" => l.block \in Block
  /\ l.step \in {"read_root", "write"} /\ l.key # NoValue => <<l.url, l.key>> \in g

ConfigInv ==
  /\ file \in File
  /\ Known(file.root, granted)
  /\ proc \in [Writers -> Proc]
  /\ \A p \in Writers : ProcOK(proc[p], granted)

\* What was granted stays granted.
LEMMA GrantedGrows ==
    ASSUME NEW g, NEW h, g \subseteq h, NEW l, ProcOK(l, g)
    PROVE  ProcOK(l, h)
BY DEF ProcOK, Known

\* A file without a section, and a command that has read none.
LEMMA BlankKnown == ASSUME NEW g PROVE Known(BlankRoot, g) /\ ProcOK(IdleProc, g)
<1>1. BlankRoot \in Root
  BY DEF BlankRoot, Root
<1>2. Known(BlankRoot, g)
  BY <1>1 DEF Known, BlankRoot
<1>3. IdleProc \in Proc
  BY <1>1 DEF IdleProc, Proc
<1> QED
  BY <1>2, <1>3 DEF ProcOK, IdleProc

\* The file a command reads is a known one.
LEMMA ReadKnown == ConfigInv => Known(ReadRoot, granted)
BY BlankKnown DEF ConfigInv, ReadRoot

\* A step that changes the locals of one command and not the file.
LEMMA OneProc ==
    ASSUME ConfigInv, NEW p \in Writers, NEW l,
           proc' = [proc EXCEPT ![p] = l], file' = file,
           granted \subseteq granted', ProcOK(l, granted')
    PROVE  ConfigInv'
<1>1. \A q \in Writers : ProcOK(proc'[q], granted')
  BY GrantedGrows DEF ConfigInv
<1>2. Known(file'.root, granted') /\ file' \in File
  BY DEF ConfigInv, Known
<1>3. proc' \in [Writers -> Proc]
  BY DEF ConfigInv, ProcOK
<1> QED
  BY <1>1, <1>2, <1>3 DEF ConfigInv

\* The keys that earlier commands left in the file count as granted.
LEMMA InitConfigInv == ConfigInit => ConfigInv
<1> SUFFICES ASSUME ConfigInit PROVE ConfigInv
  OBVIOUS
<1>1. file \in File
  BY ConfigAssumption, BlankKnown DEF ConfigInit, File, Known
<1>2. Known(file.root, granted)
  BY <1>1 DEF ConfigInit, Known, GrantedIn, File, Root
<1>3. proc = [p \in Writers |-> IdleProc]
  BY DEF ConfigInit
<1> QED
  BY <1>1, <1>2, <1>3, BlankKnown DEF ConfigInv, ProcOK

\* A command that starts has read nothing yet.
LEMMA StartInvariant ==
    ASSUME ConfigInv, NEW p \in Writers, NEW l, ProcOK(l, granted), Start(p, l)
    PROVE  ConfigInv' /\ granted' = granted
BY OneProc DEF Start

\* The locals a command starts with.
LEMMA StartLocals ==
    ASSUME NEW g
    PROVE  /\ \A todo \in SUBSET Roles, cmd \in {"role", "init"} :
                ProcOK([IdleProc EXCEPT !.cmd = cmd, !.step = "read_block", !.todo = todo], g)
           /\ \A u \in Urls, k \in Keys :
                ProcOK([IdleProc EXCEPT !.cmd = "login", !.step = "verify", !.url = u, !.key = k], g)
           /\ \A u \in Urls :
                ProcOK([IdleProc EXCEPT !.cmd = "login", !.step = "callback", !.url = u], g)
           /\ \A u \in Urls :
                ProcOK([IdleProc EXCEPT !.cmd = "logout", !.step = "read_root", !.url = u], g)
<1>0. Known(BlankRoot, g) /\ BlankRoot \in Root
  BY BlankKnown DEF Known
<1>1. ASSUME NEW todo \in SUBSET Roles, NEW cmd \in {"role", "init"}
      PROVE  ProcOK([IdleProc EXCEPT !.cmd = cmd, !.step = "read_block", !.todo = todo], g)
  BY <1>0 DEF ProcOK, IdleProc, Proc
<1>2. ASSUME NEW u \in Urls, NEW k \in Keys
      PROVE  ProcOK([IdleProc EXCEPT !.cmd = "login", !.step = "verify", !.url = u, !.key = k], g)
  BY <1>0 DEF ProcOK, IdleProc, Proc
<1>3. ASSUME NEW u \in Urls
      PROVE  /\ ProcOK([IdleProc EXCEPT !.cmd = "login", !.step = "callback", !.url = u], g)
             /\ ProcOK([IdleProc EXCEPT !.cmd = "logout", !.step = "read_root", !.url = u], g)
  BY <1>0 DEF ProcOK, IdleProc, Proc
<1> QED
  BY <1>1, <1>2, <1>3

\* No step of a command stores or hands on a key that was not granted.
LEMMA ConfigStepInvariant ==
    ASSUME ConfigInv, NEW p \in Writers, Config(p)
    PROVE  ConfigInv' /\ granted \subseteq granted'
<1>0. ProcOK(proc[p], granted) /\ proc[p] \in Proc
  BY DEF ConfigInv
<1>1. \A g : ProcOK(IdleProc, g)
  BY BlankKnown
<1>2. ASSUME NEW r \in Roles, StartRole(p, r)
      PROVE  ConfigInv' /\ granted \subseteq granted'
  <2>1. ProcOK([IdleProc EXCEPT !.cmd = "role", !.step = "read_block", !.todo = {r}], granted)
    BY StartLocals
  <2> QED
    BY <1>2, <2>1, StartInvariant DEF StartRole
<1>3. ASSUME StartInit(p)
      PROVE  ConfigInv' /\ granted \subseteq granted'
  <2>1. PICK todo \in SUBSET Roles :
          Start(p, [IdleProc EXCEPT !.cmd = "init", !.step = "read_block", !.todo = todo])
    BY <1>3 DEF StartInit
  <2>2. ProcOK([IdleProc EXCEPT !.cmd = "init", !.step = "read_block", !.todo = todo], granted)
    BY StartLocals
  <2> QED
    BY <2>1, <2>2, StartInvariant
<1>4. ASSUME NEW u \in Urls, NEW k \in Keys, StartTokenLogin(p, u, k)
      PROVE  ConfigInv' /\ granted \subseteq granted'
  <2>1. ProcOK([IdleProc EXCEPT !.cmd = "login", !.step = "verify", !.url = u, !.key = k], granted)
    BY StartLocals
  <2> QED
    BY <1>4, <2>1, StartInvariant DEF StartTokenLogin
<1>5. ASSUME NEW u \in Urls, StartBrowserLogin(p, u) \/ StartLogout(p, u)
      PROVE  ConfigInv' /\ granted \subseteq granted'
  <2>1. /\ ProcOK([IdleProc EXCEPT !.cmd = "login", !.step = "callback", !.url = u], granted)
        /\ ProcOK([IdleProc EXCEPT !.cmd = "logout", !.step = "read_root", !.url = u], granted)
    BY StartLocals
  <2> QED
    BY <1>5, <2>1, StartInvariant DEF StartBrowserLogin, StartLogout
<1>6. ASSUME ReadBlock(p)
      PROVE  ConfigInv' /\ granted \subseteq granted'
  <2> DEFINE block == ReadRoot.roles[First(proc[p].todo)]
             l == [proc[p] EXCEPT !.step = "prompt", !.block = block, !.stale = {}]
  <2>1. ReadRoot \in Root /\ First(proc[p].todo) \in Roles
    BY ReadKnown DEF Known, First, Roles
  <2>2. block \in Block \cup {NoValue}
    BY <2>1 DEF Root
  <2>3. CASE End(p)
    BY <1>1, <1>6, <2>3, OneProc DEF ReadBlock, End
  <2>4. CASE ~(Corrupt \/ (proc[p].cmd = "role" /\ block = NoValue))
    <3>1. ProcOK(l, granted)
      BY <1>0, <1>6, <2>2, <2>4 DEF ProcOK, Proc, ReadBlock
    <3>2. proc' = [proc EXCEPT ![p] = l]
      BY <1>6, <2>4 DEF ReadBlock
    <3> QED
      BY <1>6, <3>1, <3>2, OneProc DEF ReadBlock
  <2> QED
    BY <1>6, <2>3, <2>4 DEF ReadBlock
<1>7. ASSUME AnswerPrompts(p)
      PROVE  ConfigInv' /\ granted \subseteq granted'
  <2>1. PICK b \in Edits(proc[p].cmd, proc[p].block) :
          proc' = [proc EXCEPT ![p] = [proc[p] EXCEPT !.block = b, !.step = "read_root"]]
    BY <1>7 DEF AnswerPrompts
  <2>2. b \in Block
    <3>1. proc[p].cmd \in {"role", "init"} /\ (proc[p].cmd = "role" => proc[p].block \in Block)
      BY <1>0, <1>7 DEF ProcOK, AnswerPrompts
    <3>2. CASE proc[p].cmd = "init"
      BY <2>1, <3>2 DEF Edits, Block
    <3>3. CASE proc[p].cmd = "role"
      <4>1. \/ \E m \in Models : b = [proc[p].block EXCEPT !.model = m]
            \/ \E s \in Seeds : b = [proc[p].block EXCEPT !.seed = s]
        BY <2>1, <3>3 DEF Edits
      <4> QED
        BY <3>1, <3>3, <4>1 DEF Block
    <3> QED
      BY <3>1, <3>2, <3>3
  <2> DEFINE l == [proc[p] EXCEPT !.block = b, !.step = "read_root"]
  <2>3. l \in Proc
    BY <1>0, <2>2 DEF Proc
  <2>4. /\ l.root = proc[p].root /\ l.url = proc[p].url /\ l.key = proc[p].key
        /\ l.step = "read_root"
    BY <1>0 DEF Proc
  <2>5. ProcOK(l, granted)
    BY <1>0, <1>7, <2>3, <2>4 DEF ProcOK, AnswerPrompts
  <2> QED
    BY <1>7, <2>1, <2>5, OneProc DEF AnswerPrompts
<1>8. ASSUME VerifyToken(p)
      PROVE  ConfigInv' /\ granted \subseteq granted'
  <2> DEFINE l == [proc[p] EXCEPT !.step = "read_root"]
  <2>1. CASE End(p) /\ UNCHANGED granted
    BY <1>1, <1>8, <2>1, OneProc DEF VerifyToken, End
  <2>2. CASE granted' = granted \cup {<<proc[p].url, proc[p].key>>} /\ Goto(p, "read_root")
    <3>1. ProcOK(proc[p], granted')
      BY <1>0, <2>2, GrantedGrows
    <3>2. ProcOK(l, granted')
      BY <1>0, <2>2, <3>1 DEF ProcOK, Proc
    <3> QED
      BY <1>8, <2>2, <3>2, OneProc DEF VerifyToken, Goto
  <2> QED
    BY <1>8, <2>1, <2>2 DEF VerifyToken
<1>9. ASSUME ReceiveCallback(p)
      PROVE  ConfigInv' /\ granted \subseteq granted'
  <2>1. PICK own \in BOOLEAN, k \in Keys \cup {NoValue} : AcceptCallback(p, own, k)
    BY <1>9 DEF ReceiveCallback
  <2> DEFINE l == [proc[p] EXCEPT !.key = k, !.step = "read_root"]
  <2>2. CASE own /\ k # NoValue
    <3>1. granted' = granted \cup {<<proc[p].url, k>>} /\ proc' = [proc EXCEPT ![p] = l]
      BY <2>1, <2>2 DEF AcceptCallback
    <3>2. ProcOK(proc[p], granted')
      BY <1>0, <3>1, GrantedGrows
    <3>3. ProcOK(l, granted')
      BY <3>1, <3>2 DEF ProcOK, Proc
    <3> QED
      BY <1>9, <3>1, <3>3, OneProc DEF ReceiveCallback
  <2>3. CASE ~(own /\ k # NoValue)
    BY <1>1, <1>9, <2>1, <2>3, OneProc DEF ReceiveCallback, AcceptCallback, End
  <2> QED
    BY <2>2, <2>3
<1>10. ASSUME CallbackTimeout(p)
       PROVE  ConfigInv' /\ granted \subseteq granted'
  BY <1>1, <1>10, OneProc DEF CallbackTimeout, End
<1>11. ASSUME ReadConfig(p)
       PROVE  ConfigInv' /\ granted \subseteq granted'
  <2> DEFINE l == [proc[p] EXCEPT !.step = "write", !.root = ReadRoot, !.stale = @ \ {"root"}]
  <2>1. CASE Corrupt
    BY <1>1, <1>11, <2>1, OneProc DEF ReadConfig, End
  <2>2. CASE ~Corrupt
    <3>1. ProcOK(l, granted)
      BY <1>0, <1>11, ReadKnown DEF ProcOK, Proc, ReadConfig, Known
    <3>2. proc' = [proc EXCEPT ![p] = l]
      BY <1>11, <2>2 DEF ReadConfig
    <3> QED
      BY <1>11, <3>1, <3>2, OneProc DEF ReadConfig
  <2> QED
    BY <2>1, <2>2
<1>12. \A q \in Writers : ProcOK(MakeStale(q), granted)
  BY DEF ConfigInv, MakeStale, ProcOK, Proc
<1>13. ASSUME WriteConfig(p)
       PROVE  ConfigInv' /\ granted \subseteq granted'
  <2> DEFINE l == proc[p]
             rest == l.todo \ {First(l.todo)}
             next == [IdleProc EXCEPT !.cmd = "init", !.step = "read_block", !.todo = rest]
  <2>1. First(l.todo) \in Roles /\ rest \in SUBSET Roles
    BY <1>0 DEF First, Roles, Proc
  <2>2. Known(WithRole(l.root, First(l.todo), l.block), granted)
    BY <1>0, <2>1 DEF WithRole, ProcOK, Proc, Known, Root
  <2>3. Known(WithCredential(l.root, l.url, l.key), granted)
    <3>1. WithCredential(l.root, l.url, l.key) \in Root
      BY <1>0 DEF WithCredential, Proc, Root
    <3>2. \A u \in Urls : WithCredential(l.root, l.url, l.key).registries[u]
                              = IF u = l.url THEN l.key ELSE l.root.registries[u]
      BY <1>0 DEF WithCredential, Proc, Root
    <3> QED
      BY <1>0, <1>13, <3>1, <3>2 DEF ProcOK, Known, WriteConfig
  <2>4. Known(Updated(p), granted)
    BY <2>2, <2>3 DEF Updated
  <2>5. ProcOK(next, granted)
    BY <2>1, StartLocals
  <2>6. \A q \in Writers : ProcOK(proc'[q], granted)
    BY <1>1, <1>12, <1>13, <2>5 DEF WriteConfig
  <2>7. proc' \in [Writers -> Proc]
    <3>1. proc' = [q \in Writers |-> proc'[q]]
      BY <1>13 DEF WriteConfig
    <3> QED
      BY <2>6, <3>1 DEF ProcOK
  <2>8. file' \in File /\ Known(file'.root, granted) /\ granted' = granted
    BY <1>13, <2>4 DEF WriteConfig, File, Known
  <2> QED
    BY <2>6, <2>7, <2>8 DEF ConfigInv
<1>14. ASSUME Kill(p)
       PROVE  ConfigInv' /\ granted \subseteq granted'
  <2>1. CASE UNCHANGED file /\ End(p)
    BY <1>1, <1>14, <2>1, OneProc DEF Kill, End
  <2>2. CASE /\ \E kind \in {"empty", "torn"} : file' = [kind |-> kind, root |-> BlankRoot]
             /\ proc' = [q \in Writers |-> IF q = p THEN IdleProc ELSE MakeStale(q)]
    <3>1. \A q \in Writers : ProcOK(proc'[q], granted)
      BY <1>1, <1>12, <2>2
    <3>2. proc' \in [Writers -> Proc]
      BY <1>1, <1>12, <2>2 DEF ProcOK
    <3>3. Known(BlankRoot, granted) /\ file' \in File /\ file'.root = BlankRoot
      BY <2>2, BlankKnown DEF File, Known
    <3>4. granted' = granted
      BY <1>14 DEF Kill
    <3> QED
      BY <3>1, <3>2, <3>3, <3>4 DEF ConfigInv
  <2> QED
    BY <1>14, <2>1, <2>2 DEF Kill
<1> QED
  BY <1>2, <1>3, <1>4, <1>5, <1>6, <1>7, <1>8, <1>9, <1>10, <1>11, <1>13, <1>14
  DEF Config, ConfigStep

-----------------------------------------------------------------------------
(* The commands that read                                                   *)

Outcomes == {"awaited", "match", "no_match"} \cup Failures
Row == [status : {"none", "pending", "ready", "failed"}, commit : Commits \cup {NoValue}]

\* (Of the version a read resolves only where it comes from is said.)
CallRec ==
  [cmd : {"none", "search", "info", "preview", "whoami", "org", "publish"},
   step : {"idle", "search", "detail", "version", "previews", "recipe", "account", "post", "poll"},
   mcp : BOOLEAN, urls : Seq(Urls), keys : Seq(Keys \cup {NoValue}), answers : Seq(Outcomes),
   ver : Versions \cup {NoValue} \cup {Max(S) : S \in SUBSET Versions},
   commit : Commits \cup {NoValue}, late : BOOLEAN, tick : BOOLEAN]

\* Only a search has several registries, an answer of each; a publish has its version.
CallOK(l, g) ==
  /\ l \in CallRec
  /\ \A i \in DOMAIN l.urls : l.keys[i] # NoValue => <<l.urls[i], l.keys[i]>> \in g
  /\ l.step # "idle" => l.urls # <<>>
  /\ l.step = "search" <=> l.cmd = "search"
  /\ l.cmd = "search" => DOMAIN l.answers = DOMAIN l.urls
  /\ l.step \in {"post", "poll"} => l.ver \in Versions

ReportOK(r, rd) ==
  /\ r.status = "published" => <<r.url, r.ver, r.commit>> \in rd
  /\ r.cmd = "search" =>
       /\ r.answered \cap r.warned = {}
       /\ r.status = "died" <=> r.answered = {}

RowsInv ==
  /\ rows \in [Urls -> [Versions -> Row]]
  /\ \A u \in Urls, v \in Versions :
       rows[u][v].status = "ready" => <<u, v, rows[u][v].commit>> \in readies

IInv ==
  /\ ConfigInv
  /\ RowsInv
  /\ call \in [Clients -> CallRec]
  /\ \A c \in Clients : CallOK(call[c], granted)
  /\ report = [c \in Clients |-> report[c]]
  /\ \A c \in Clients : ReportOK(report[c], readies)

\* The locals of a command at rest, and a report that says nothing.
LEMMA IdleOK == ASSUME NEW g PROVE CallOK(IdleCall, g) /\ ReportOK(NoReport, g)
<1>1. <<>> \in Seq(Urls) /\ <<>> \in Seq(Keys \cup {NoValue}) /\ <<>> \in Seq(Outcomes)
  OBVIOUS
<1>2. IdleCall \in CallRec
  BY <1>1 DEF IdleCall, CallRec
<1> QED
  BY <1>2 DEF CallOK, IdleCall, ReportOK, NoReport

\* At least one registry is found, and every one is a normalized URL.
LEMMA UrlListType ==
    ASSUME NEW flag \in Forms \cup {NoValue}, NEW project \in Seq(Forms)
    PROVE  UrlList(flag, project) \in Seq(Urls) /\ UrlList(flag, project) # <<>>
<1>1. ASSUME NEW u \in Urls PROVE <<u>> \in Seq(Urls) /\ <<u>> # <<>>
  BY <1>1
<1>2. CASE project # <<>>
  <2> DEFINE urls == [i \in DOMAIN project |-> NormalUrl[project[i]]]
  <2>1. Len(project) \in Nat /\ DOMAIN project = 1..Len(project) /\ Len(project) # 0
    BY <1>2, EmptySeq, LenProperties
  <2>2. \A i \in DOMAIN project : urls[i] \in Urls
    BY FormsAssumption, ElementOfSeq, <2>1
  <2>3. urls \in [1..Len(project) -> Urls]
    BY <2>1, <2>2
  <2>4. urls \in Seq(Urls) /\ Len(urls) = Len(project)
    BY <2>1, <2>3, SeqDef, LenProperties
  <2>5. urls # <<>>
    BY <2>1, <2>4
  <2> QED
    BY <1>1, <2>4, <2>5, FormsAssumption DEF UrlList
<1>3. CASE project = <<>>
  BY <1>1, <1>3, FormsAssumption DEF UrlList
<1> QED
  BY <1>2, <1>3

\* A step of one command that leaves the config file alone.
LEMMA OneCall ==
    ASSUME IInv, NEW c \in Clients, NEW l, NEW r,
           call' = [call EXCEPT ![c] = l], CallOK(l, granted),
           report' \in {report, [report EXCEPT ![c] = r]}, ReportOK(r, readies),
           UNCHANGED <<rows, readies, file, proc, granted>>
    PROVE  IInv'
<1>1. ConfigInv' /\ RowsInv'
  BY DEF IInv, ConfigInv, RowsInv
<1>2. call' \in [Clients -> CallRec] /\ \A d \in Clients : CallOK(call'[d], granted')
  BY DEF IInv, CallOK
<1>3. /\ report' = [d \in Clients |-> report'[d]]
      /\ \A d \in Clients : ReportOK(report'[d], readies')
  BY DEF IInv
<1> QED
  BY <1>1, <1>2, <1>3 DEF IInv

\* A command that ends with an answer, which is never a publication.
LEMMA AnswerStep ==
    ASSUME IInv, NEW c \in Clients, call[c].cmd # "search",
           NEW status, status # "published", Answer(c, status),
           UNCHANGED <<rows, readies, file, proc, granted>>
    PROVE  IInv'
<1> DEFINE r == [NoReport EXCEPT !.cmd = call[c].cmd, !.status = status]
<1>1. ReportOK(r, readies)
  BY DEF ReportOK, NoReport
<1> HIDE DEF r
<1>2. call' = [call EXCEPT ![c] = IdleCall] /\ report' = [report EXCEPT ![c] = r]
  BY DEF Answer, r
<1> QED
  BY <1>1, <1>2, IdleOK, OneCall

\* A command that starts.
LEMMA BeginStep ==
    ASSUME IInv, NEW c \in Clients, NEW l, CallOK(l, granted), Begin(c, l)
    PROVE  IInv'
BY IdleOK, OneCall DEF Begin

\* A request that leads to the next one.
LEMMA ProceedStep ==
    ASSUME IInv, NEW c \in Clients, call[c].cmd # "search", call[c].step # "idle",
           NEW step \in {"version", "previews", "recipe"},
           Proceed(c, step), Requests
    PROVE  IInv'
<1> DEFINE l == [call[c] EXCEPT !.step = step]
<1>1. CallOK(call[c], granted) /\ call[c] \in CallRec
  BY DEF IInv
<1>2. l \in CallRec
  BY <1>1 DEF CallRec
<1>3. /\ l.cmd = call[c].cmd /\ l.urls = call[c].urls /\ l.keys = call[c].keys
      /\ l.answers = call[c].answers /\ l.step = step
  BY <1>1 DEF CallRec
<1> HIDE DEF l
<1>4. CallOK(l, granted)
  BY <1>1, <1>2, <1>3 DEF CallOK
<1>5. call' = [call EXCEPT ![c] = l] /\ UNCHANGED <<report, rows, readies, file, proc, granted>>
  BY DEF Proceed, Requests, configVars, l
<1> QED
  BY <1>4, <1>5, IdleOK, OneCall

\* The key stored for a registry may be sent to it, and to it alone.
LEMMA StoredKeyGranted ==
    ASSUME IInv, NEW u \in Urls
    PROVE  /\ StoredKey(u) \in Keys \cup {NoValue}
           /\ StoredKey(u) # NoValue => <<u, StoredKey(u)>> \in granted
BY ReadKnown DEF IInv, Known, Root, StoredKey

\* A command for one registry that carries the stored key.
LEMMA OneRegistry ==
    ASSUME IInv, NEW u \in Urls, NEW cmd \in {"info", "preview", "whoami", "org", "publish"},
           NEW step \in {"detail", "version", "account", "post"}, NEW mcp \in BOOLEAN,
           NEW ver \in Versions \cup {NoValue}, step = "post" => ver \in Versions
    PROVE  CallOK([IdleCall EXCEPT !.cmd = cmd, !.mcp = mcp, !.urls = <<u>>,
                     !.keys = <<StoredKey(u)>>, !.ver = ver, !.step = step], granted)
<1> DEFINE l == [IdleCall EXCEPT !.cmd = cmd, !.mcp = mcp, !.urls = <<u>>,
                   !.keys = <<StoredKey(u)>>, !.ver = ver, !.step = step]
<1>1. StoredKey(u) \in Keys \cup {NoValue}
  BY StoredKeyGranted
<1>2. <<u>> \in Seq(Urls) /\ <<StoredKey(u)>> \in Seq(Keys \cup {NoValue})
  BY <1>1
<1>3. IdleCall \in CallRec
  BY IdleOK DEF CallOK
<1>4. l \in CallRec
  BY <1>2, <1>3 DEF CallRec
<1>5. /\ l.cmd = cmd /\ l.step = step /\ l.ver = ver
      /\ l.urls = <<u>> /\ l.keys = <<StoredKey(u)>>
  BY DEF IdleCall
<1> HIDE DEF l
<1>6. \A i \in DOMAIN l.urls : l.urls[i] = u /\ l.keys[i] = StoredKey(u)
  BY <1>5
<1>7. CallOK(l, granted)
  BY <1>4, <1>5, <1>6, StoredKeyGranted DEF CallOK
<1> QED
  BY <1>7 DEF l

LEMMA InitIInv == Init => IInv
<1> SUFFICES ASSUME Init PROVE IInv
  OBVIOUS
<1>1. ConfigInv
  BY InitConfigInv DEF Init
<1>2. RowsInv
  BY DEF Init, RowsInv, NoRow, Row
<1>3. call \in [Clients -> CallRec] /\ \A c \in Clients : CallOK(call[c], granted)
  BY IdleOK DEF Init, CallOK
<1>4. report = [c \in Clients |-> report[c]] /\ \A c \in Clients : ReportOK(report[c], readies)
  BY IdleOK DEF Init
<1> QED
  BY <1>1, <1>2, <1>3, <1>4 DEF IInv

\* The locals of a search: each registry with no key or with its own.
LEMMA SearchLocals ==
    ASSUME IInv, NEW urls \in Seq(Urls), urls # <<>>, NEW mcp \in BOOLEAN,
           NEW keys, keys = [i \in DOMAIN urls |-> IF mcp THEN StoredKey(urls[i]) ELSE NoValue]
    PROVE  CallOK(Search(urls, keys, mcp), granted)
<1> DEFINE answers == [i \in DOMAIN urls |-> "awaited"]
           l == Search(urls, keys, mcp)
<1>1. /\ Len(urls) \in Nat /\ DOMAIN urls = 1..Len(urls)
      /\ \A i \in DOMAIN urls : urls[i] \in Urls
  BY LenProperties, ElementOfSeq
<1>2. /\ keys \in [1..Len(urls) -> Keys \cup {NoValue}]
      /\ answers \in [1..Len(urls) -> Outcomes]
  BY <1>1, StoredKeyGranted DEF Outcomes
<1>3. keys \in Seq(Keys \cup {NoValue}) /\ answers \in Seq(Outcomes)
  BY <1>1, <1>2, SeqDef
<1>4. DOMAIN answers = DOMAIN urls
  OBVIOUS
<1> HIDE DEF answers
<1>5. l = [IdleCall EXCEPT !.cmd = "search", !.step = "search", !.mcp = mcp, !.urls = urls,
                           !.keys = keys, !.answers = answers]
  BY DEF Search, answers
<1>6. l \in CallRec
  BY <1>3, <1>5, IdleOK DEF CallRec, CallOK
<1>7. /\ l.cmd = "search" /\ l.step = "search" /\ l.urls = urls
      /\ l.keys = keys /\ l.answers = answers
  BY <1>5 DEF IdleCall
<1> HIDE DEF l
<1>8. \A i \in DOMAIN urls : keys[i] # NoValue => <<urls[i], keys[i]>> \in granted
  BY <1>1, StoredKeyGranted
<1>9. CallOK(l, granted)
  BY <1>4, <1>6, <1>7, <1>8 DEF CallOK
<1> QED
  BY <1>9 DEF l

\* A command starts with the keys of its own registries.
LEMMA StartCommandInvariant ==
    ASSUME IInv, NEW c \in Clients, StartCommand(c)
    PROVE  IInv'
<1>1. ASSUME NEW flag \in Flags PROVE SingleUrl(flag) \in Urls
  <2>1. <<>> \in Seq(Forms)
    OBVIOUS
  <2>2. UrlList(flag, <<>>) \in Seq(Urls) /\ UrlList(flag, <<>>) # <<>>
    BY <2>1, UrlListType DEF Flags
  <2> QED
    BY <2>2 DEF SingleUrl
<1>2. ASSUME NEW flag \in Flags, StartSearch(c, flag)
      PROVE  IInv'
  <2> DEFINE urls == UrlList(flag, Project)
             keys == [i \in DOMAIN urls |-> NoValue]
  <2>1. urls \in Seq(Urls) /\ urls # <<>>
    BY UrlListType, FormsAssumption DEF Flags
  <2>2. Begin(c, Search(urls, keys, FALSE))
    BY <1>2 DEF StartSearch
  <2> HIDE DEF urls
  <2>3. keys = [i \in DOMAIN urls |-> IF FALSE THEN StoredKey(urls[i]) ELSE NoValue]
    OBVIOUS
  <2>4. CallOK(Search(urls, keys, FALSE), granted)
    BY <2>1, <2>3, SearchLocals
  <2> QED
    BY <2>2, <2>4, BeginStep
<1>3. ASSUME StartToolSearch(c)
      PROVE  IInv'
  <2> DEFINE urls == UrlList(NoValue, Project)
             keys == [i \in DOMAIN urls |-> StoredKey(urls[i])]
  <2>1. urls \in Seq(Urls) /\ urls # <<>>
    BY UrlListType, FormsAssumption
  <2>2. Begin(c, Search(urls, keys, TRUE))
    BY <1>3 DEF StartToolSearch
  <2> HIDE DEF urls
  <2>3. keys = [i \in DOMAIN urls |-> IF TRUE THEN StoredKey(urls[i]) ELSE NoValue]
    OBVIOUS
  <2>4. CallOK(Search(urls, keys, TRUE), granted)
    BY <2>1, <2>3, SearchLocals
  <2> QED
    BY <2>2, <2>4, BeginStep
<1>4. ASSUME NEW flag \in Flags, NEW cmd \in {"info", "preview"}, NEW ver \in Versions \cup {NoValue},
             StartRead(c, cmd, flag, ver)
      PROVE  IInv'
  <2> DEFINE u == SingleUrl(flag)
             step == IF cmd = "preview" /\ ver # NoValue THEN "version" ELSE "detail"
  <2>1. u \in Urls
    BY <1>1
  <2>2. CallOK(Ask(cmd, u, ver, FALSE, step), granted)
    <3> HIDE DEF u
    <3>1. step \in {"detail", "version"}
      OBVIOUS
    <3> HIDE DEF step
    <3> QED
      BY <2>1, <3>1, OneRegistry DEF Ask
  <2> QED
    BY <1>4, <2>2, BeginStep DEF StartRead
<1>5. ASSUME NEW cmd \in {"info", "preview"}, NEW ver \in Versions \cup {NoValue},
             StartToolRead(c, cmd, ver)
      PROVE  IInv'
  <2> DEFINE u == UrlList(NoValue, Project)[1]
  <2>1. u \in Urls
    <3>1. UrlList(NoValue, Project) \in Seq(Urls) /\ UrlList(NoValue, Project) # <<>>
      BY UrlListType, FormsAssumption
    <3> QED
      BY <3>1
  <2>2. Begin(c, Ask(cmd, u, ver, TRUE, "detail"))
    BY <1>5 DEF StartToolRead
  <2> HIDE DEF u
  <2>3. CallOK(Ask(cmd, u, ver, TRUE, "detail"), granted)
    BY <2>1, OneRegistry DEF Ask
  <2> QED
    BY <2>2, <2>3, BeginStep
<1>6. ASSUME NEW flag \in Flags, NEW cmd \in {"whoami", "org"}, StartAccount(c, cmd, flag)
      PROVE  IInv'
  <2> DEFINE u == SingleUrl(flag)
  <2>1. u \in Urls
    BY <1>1
  <2>2. Begin(c, Account(cmd, u))
    BY <1>6 DEF StartAccount
  <2> HIDE DEF u
  <2>3. CallOK(Ask(cmd, u, NoValue, FALSE, "account"), granted)
    BY <2>1, OneRegistry DEF Ask
  <2> QED
    BY <2>2, <2>3, BeginStep DEF Account
<1>7. ASSUME NEW flag \in Flags, NEW v \in Versions, StartPublish(c, flag, v)
      PROVE  IInv'
  <2> DEFINE u == SingleUrl(flag)
  <2>1. u \in Urls
    BY <1>1
  <2>2. Begin(c, Ask("publish", u, v, FALSE, "post"))
    BY <1>7 DEF StartPublish
  <2> HIDE DEF u
  <2>3. CallOK(Ask("publish", u, v, FALSE, "post"), granted)
    BY <2>1, OneRegistry DEF Ask
  <2> QED
    BY <2>2, <2>3, BeginStep
<1> QED
  BY <1>2, <1>3, <1>4, <1>5, <1>6, <1>7 DEF StartCommand

\* The steps of the commands that only read: an answer, or the next request.
LEMMA ReadStep ==
    ASSUME IInv, NEW c \in Clients,
           \/ FetchInfoPayload(c) \/ PreviewPack(c) \/ FetchPreviewRecipe(c)
           \/ ToolGetPack(c) \/ ToolGetPreview(c) \/ WhoamiAnswers(c) \/ OrgAnswers(c)
    PROVE  IInv'
<1>1. call[c].cmd # "search" /\ call[c].step # "idle" /\ Requests
  BY DEF FetchInfoPayload, PreviewPack, FetchPreviewRecipe, ToolGetPack, ToolGetPreview,
         WhoamiAnswers, OrgAnswers, Reading
<1>2. UNCHANGED <<rows, readies, file, proc, granted>>
  BY <1>1 DEF Requests, configVars
<1>3. ASSUME NEW status, status # "published", Answer(c, status)
      PROVE  IInv'
  BY <1>1, <1>2, <1>3, AnswerStep
<1>4. ASSUME NEW step \in {"version", "previews", "recipe"}, Proceed(c, step)
      PROVE  IInv'
  BY <1>1, <1>4, ProceedStep
<1>5. ASSUME Fails(c) PROVE IInv'
  BY <1>3, <1>5 DEF Fails, Failures
<1>6. ASSUME NEW next \in {"version", "previews"}, NEW none, none # "published",
             GetPackDetail(c, next, none)
      PROVE  IInv'
  <2> DEFINE ver == IF call[c].ver # NoValue THEN call[c].ver ELSE Latest(call[c].urls[1])
             l == [call[c] EXCEPT !.ver = ver, !.step = next]
  <2>1. CASE ~(Found(c) /\ ver # NoValue /\ report' = report /\ call' = [call EXCEPT ![c] = l])
    BY <1>3, <1>5, <1>6, <2>1 DEF GetPackDetail
  <2>2. CASE Found(c) /\ ver # NoValue /\ report' = report /\ call' = [call EXCEPT ![c] = l]
    <3>1. CallOK(call[c], granted) /\ call[c] \in CallRec
      BY DEF IInv
    <3>2. Ready(call[c].urls[1]) \in SUBSET Versions
      BY DEF Ready
    <3>3. ver \in Versions \cup {NoValue} \cup {Max(S) : S \in SUBSET Versions}
      BY <3>1, <3>2 DEF CallRec, Latest
    <3> HIDE DEF ver
    <3>4. l \in CallRec
      BY <3>1, <3>3 DEF CallRec
    <3>5. /\ l.cmd = call[c].cmd /\ l.urls = call[c].urls /\ l.keys = call[c].keys
          /\ l.answers = call[c].answers /\ l.step = next
      BY <3>1 DEF CallRec
    <3> HIDE DEF l
    <3>6. CallOK(l, granted)
      BY <1>1, <3>1, <3>4, <3>5 DEF CallOK
    <3> QED
      BY <1>2, <2>2, <3>6, IdleOK, OneCall
  <2> QED
    BY <2>1, <2>2
<1>7. ASSUME GetVersionDetail(c, {"previews", "recipe"}) PROVE IInv'
  BY <1>3, <1>4, <1>5, <1>7 DEF GetVersionDetail
<1>8. ASSUME GetPackPreviews(c) PROVE IInv'
  BY <1>3, <1>4, <1>5, <1>8 DEF GetPackPreviews
<1>9. ASSUME GetRecipePreview(c) PROVE IInv'
  BY <1>3, <1>9 DEF GetRecipePreview, Failures
<1>10. CASE FetchInfoPayload(c) \/ ToolGetPack(c)
  BY <1>3, <1>5, <1>6, <1>10 DEF FetchInfoPayload, ToolGetPack
<1>11. CASE PreviewPack(c) \/ FetchPreviewRecipe(c) \/ ToolGetPreview(c)
  BY <1>6, <1>7, <1>8, <1>9, <1>11 DEF PreviewPack, FetchPreviewRecipe, ToolGetPreview
<1>12. CASE WhoamiAnswers(c) \/ OrgAnswers(c)
  BY <1>3, <1>5, <1>12 DEF WhoamiAnswers, OrgAnswers
<1> QED
  BY <1>10, <1>11, <1>12

\* Each registry of a search answers once, and the verdict is drawn when all have.
LEMMA SearchStep ==
    ASSUME IInv, NEW c \in Clients,
           \/ \E i \in DOMAIN call[c].urls : SourceAnswers(c, i)
           \/ FinishSearch(c)
    PROVE  IInv'
<1>0. /\ CallOK(call[c], granted) /\ call[c] \in CallRec
      /\ call[c].urls \in Seq(Urls) /\ call[c].answers \in Seq(Outcomes)
  BY DEF IInv, CallRec
<1>1. ASSUME NEW i \in DOMAIN call[c].urls, SourceAnswers(c, i)
      PROVE  IInv'
  <2>1. PICK a \in Outcomes : call' = [call EXCEPT ![c].answers[i] = a]
    BY <1>1 DEF SourceAnswers, Outcomes
  <2> DEFINE answers == [call[c].answers EXCEPT ![i] = a]
             l == [call[c] EXCEPT !.answers = answers]
  <2>2. call[c].cmd = "search" /\ DOMAIN call[c].answers = DOMAIN call[c].urls
    BY <1>0, <1>1 DEF CallOK, SourceAnswers
  <2>3. answers \in Seq(Outcomes) /\ DOMAIN answers = DOMAIN call[c].urls
    <3>1. i \in 1..Len(call[c].answers)
      BY <1>0, <2>2, LenProperties
    <3>2. answers \in Seq(Outcomes)
      BY <1>0, <3>1, ExceptSeq
    <3> QED
      BY <2>2, <3>2
  <2>4. call' = [call EXCEPT ![c] = l]
    BY <2>1
  <2> HIDE DEF answers
  <2>5. l \in CallRec
    BY <1>0, <2>3 DEF CallRec
  <2>6. /\ l.cmd = call[c].cmd /\ l.urls = call[c].urls /\ l.keys = call[c].keys
        /\ l.answers = answers /\ l.step = call[c].step /\ l.ver = call[c].ver
    BY <1>0 DEF CallRec
  <2> HIDE DEF l
  <2>7. CallOK(l, granted)
    BY <1>0, <2>3, <2>5, <2>6 DEF CallOK
  <2>8. UNCHANGED <<rows, report, readies, file, proc, granted>>
    BY <1>1 DEF SourceAnswers, configVars
  <2> QED
    BY <2>4, <2>7, <2>8, IdleOK, OneCall
<1>2. ASSUME FinishSearch(c)
      PROVE  IInv'
  <2> DEFINE with(as) == {i \in DOMAIN call[c].urls : call[c].answers[i] \in as}
             hits == with({"match"})
             answered == with({"match", "no_match"})
             warned == with(Failures)
             r == [NoReport EXCEPT !.cmd = "search", !.hits = hits, !.answered = answered,
                     !.warned = warned,
                     !.status = IF SearchDies(hits, answered, warned) THEN "died" ELSE "ok"]
  <2>1. /\ call' = [call EXCEPT ![c] = IdleCall] /\ report' = [report EXCEPT ![c] = r]
        /\ UNCHANGED <<rows, readies, file, proc, granted>>
    BY <1>2 DEF FinishSearch, configVars
  <2>2. call[c].urls # <<>> /\ DOMAIN call[c].answers = DOMAIN call[c].urls
    BY <1>0, <1>2 DEF CallOK, FinishSearch
  <2>3. DOMAIN call[c].urls # {}
    <3>1. Len(call[c].urls) \in Nat /\ Len(call[c].urls) # 0
      BY <1>0, <2>2, EmptySeq, LenProperties
    <3>2. 1 \in 1..Len(call[c].urls)
      BY <3>1
    <3> QED
      BY <1>0, <3>2, LenProperties
  <2>4. \A i \in DOMAIN call[c].urls : call[c].answers[i] \in Outcomes \ {"awaited"}
    BY <1>0, <1>2, <2>2, ElementOfSeq, LenProperties DEF FinishSearch
  <2>5. answered \cap warned = {}
    BY DEF Failures
  <2>6. answered = {} <=> SearchDies(hits, answered, warned)
    BY <2>3, <2>4 DEF SearchDies, Outcomes
  <2>7. /\ r.cmd = "search" /\ r.answered = answered /\ r.warned = warned
        /\ r.status = IF SearchDies(hits, answered, warned) THEN "died" ELSE "ok"
    BY DEF NoReport
  <2> HIDE DEF r, hits, answered, warned
  <2>8. ReportOK(r, readies)
    BY <2>5, <2>6, <2>7 DEF ReportOK
  <2> HIDE DEF with
  <2> QED
    BY <2>1, <2>8, IdleOK, OneCall
<1> QED
  BY <1>1, <1>2

\* A registry that changes keeps what became ready in the history.
LEMMA SetRowStep ==
    ASSUME RowsInv, NEW u \in Urls, NEW v \in Versions, NEW status \in {"pending", "ready", "failed"},
           NEW commit \in Commits \cup {NoValue}, SetRow(u, v, status, commit)
    PROVE  RowsInv' /\ readies \subseteq readies'
<1>1. rows' \in [Urls -> [Versions -> Row]] /\ readies \subseteq readies'
  BY DEF RowsInv, SetRow, Row
<1>2. ASSUME NEW x \in Urls, NEW w \in Versions, rows'[x][w].status = "ready"
      PROVE  <<x, w, rows'[x][w].commit>> \in readies'
  <2>1. CASE x = u /\ w = v
    BY <1>2, <2>1 DEF RowsInv, SetRow
  <2>2. CASE ~(x = u /\ w = v)
    <3>1. rows'[x][w] = rows[x][w]
      BY <2>2 DEF RowsInv, SetRow
    <3> QED
      BY <1>1, <1>2, <3>1 DEF RowsInv
  <2> QED
    BY <2>1, <2>2
<1> QED
  BY <1>1, <1>2 DEF RowsInv

\* A step that changes the rows and, of the commands, at most one that ends
\* or goes on.
LEMMA RowsStep ==
    ASSUME IInv, RowsInv', readies \subseteq readies', UNCHANGED <<file, proc, granted>>,
           call' = call \/ \E c \in Clients, l \in CallRec :
                             call' = [call EXCEPT ![c] = l] /\ CallOK(l, granted),
           report' = report \/ \E c \in Clients : \E r :
                             report' = [report EXCEPT ![c] = r] /\ ReportOK(r, readies')
    PROVE  IInv'
<1>1. ConfigInv'
  BY DEF IInv, ConfigInv
<1>2. call' \in [Clients -> CallRec] /\ \A d \in Clients : CallOK(call'[d], granted')
  BY DEF IInv, CallOK
<1>3. \A d \in Clients : ReportOK(report[d], readies')
  BY DEF IInv, ReportOK
<1>4. /\ report' = [d \in Clients |-> report'[d]]
      /\ \A d \in Clients : ReportOK(report'[d], readies')
  BY <1>3 DEF IInv
<1> QED
  BY <1>1, <1>2, <1>4 DEF IInv

LEMMA RegistryChangesStep == ASSUME IInv, RegistryChanges PROVE IInv'
<1>1. RowsInv /\ UNCHANGED <<call, report, file, proc, granted>>
  BY DEF IInv, RegistryChanges, configVars
<1>2. PICK u \in Urls, v \in Versions :
        \/ \E c \in Commits : SetRow(u, v, "pending", c)
        \/ \E status \in {"ready", "failed"} : SetRow(u, v, status, rows[u][v].commit)
        \/ rows' = [rows EXCEPT ![u] = [w \in Versions |-> NoRow]] /\ UNCHANGED readies
  BY DEF RegistryChanges
<1>3. rows[u][v].commit \in Commits \cup {NoValue}
  BY <1>1 DEF RowsInv, Row
<1>4. ASSUME rows' = [rows EXCEPT ![u] = [w \in Versions |-> NoRow]], UNCHANGED readies
      PROVE  RowsInv' /\ readies \subseteq readies'
  <2>1. [w \in Versions |-> NoRow] \in [Versions -> Row]
    BY DEF NoRow, Row
  <2>2. rows' \in [Urls -> [Versions -> Row]]
    BY <1>1, <1>4, <2>1 DEF RowsInv
  <2>3. ASSUME NEW x \in Urls, NEW w \in Versions, rows'[x][w].status = "ready"
        PROVE  <<x, w, rows'[x][w].commit>> \in readies'
    <3>1. CASE x = u
      BY <1>1, <1>4, <2>3, <3>1 DEF RowsInv, NoRow
    <3>2. CASE x # u
      BY <1>1, <1>4, <2>3, <3>2 DEF RowsInv
    <3> QED
      BY <3>1, <3>2
  <2> QED
    BY <1>4, <2>2, <2>3 DEF RowsInv
<1>5. RowsInv' /\ readies \subseteq readies'
  <2>1. CASE \E c \in Commits : SetRow(u, v, "pending", c)
    BY <1>1, <2>1, SetRowStep
  <2>2. CASE \E status \in {"ready", "failed"} : SetRow(u, v, status, rows[u][v].commit)
    BY <1>1, <1>3, <2>2, SetRowStep
  <2> QED
    BY <1>2, <1>4, <2>1, <2>2
<1> QED
  BY <1>1, <1>5, RowsStep

\* What publish prints was read from a row that had become ready.
LEMMA PublishStep ==
    ASSUME IInv, NEW c \in Clients,
           \/ \E commit \in Commits : PublishAnswers(c, commit)
           \/ PollAnswers(c) \/ PollDeadline(c)
    PROVE  IInv'
<1> DEFINE u == call[c].urls[1]
           v == call[c].ver
<1>1. RowsInv /\ CallOK(call[c], granted) /\ call[c] \in CallRec
  BY DEF IInv
<1>2. /\ call[c].step \in {"post", "poll"} /\ call[c].cmd # "search"
      /\ UNCHANGED <<file, proc, granted>>
  BY <1>1 DEF PublishAnswers, PollAnswers, PollDeadline, Requests, configVars, CallOK
<1>3. u \in Urls /\ v \in Versions
  BY <1>1, <1>2 DEF CallOK, CallRec
<1>4. ASSUME NEW l, l \in {[call[c] EXCEPT !.step = "poll", !.commit = commit] : commit \in Commits}
                         \cup {[call[c] EXCEPT !.late = TRUE], [call[c] EXCEPT !.tick = ~@]}
      PROVE  CallOK(l, granted)
  <2> DEFINE Goal == /\ l \in CallRec
                     /\ l.cmd = call[c].cmd /\ l.urls = call[c].urls /\ l.keys = call[c].keys
                     /\ l.answers = call[c].answers /\ l.ver = call[c].ver
                     /\ l.step \in {"post", "poll"}
  <2>1. ASSUME \E commit \in Commits : l = [call[c] EXCEPT !.step = "poll", !.commit = commit] PROVE Goal
    BY <1>1, <2>1 DEF CallRec
  <2>2. ASSUME l = [call[c] EXCEPT !.late = TRUE] PROVE Goal
    BY <1>1, <1>2, <2>2 DEF CallRec
  <2>3. ASSUME l = [call[c] EXCEPT !.tick = ~@] PROVE Goal
    BY <1>1, <1>2, <2>3 DEF CallRec
  <2>4. Goal
    BY <1>4, <2>1, <2>2, <2>3
  <2> QED
    BY <1>1, <1>2, <2>4 DEF CallOK
<1>5. ASSUME RowsInv', readies \subseteq readies', NEW status, status # "published", Answer(c, status)
      PROVE  IInv'
  <2> DEFINE r == [NoReport EXCEPT !.cmd = call[c].cmd, !.status = status]
  <2>1. ReportOK(r, readies')
    BY <1>2, <1>5 DEF ReportOK, NoReport
  <2> HIDE DEF r
  <2>2. call' = [call EXCEPT ![c] = IdleCall] /\ report' = [report EXCEPT ![c] = r]
    BY <1>5 DEF Answer, r
  <2>3. IdleCall \in CallRec /\ CallOK(IdleCall, granted)
    BY IdleOK DEF CallOK
  <2> QED
    BY <1>2, <1>5, <2>1, <2>2, <2>3, RowsStep
<1>6. ASSUME RowsInv', readies \subseteq readies', NEW commit \in Commits, Accepted(c, commit)
      PROVE  IInv'
  <2> DEFINE l == [call[c] EXCEPT !.step = "poll", !.commit = commit]
  <2>1. call' = [call EXCEPT ![c] = l] /\ report' = report
    BY <1>6 DEF Accepted
  <2>2. CallOK(l, granted)
    BY <1>4
  <2> HIDE DEF l
  <2> QED
    BY <1>2, <1>6, <2>1, <2>2, RowsStep DEF CallOK
<1>7. ASSUME NEW commit \in Commits, PublishAnswers(c, commit)
      PROVE  IInv'
  <2>1. RowsInv' /\ readies \subseteq readies'
    <3>1. CASE SetRow(u, v, "pending", commit)
      BY <1>1, <1>3, <3>1, SetRowStep
    <3>2. CASE UNCHANGED <<rows, readies>>
      BY <1>1, <3>2 DEF RowsInv
    <3> QED
      BY <1>7, <3>1, <3>2 DEF PublishAnswers
  <2>2. Accepted(c, commit) \/ \E status \in Failures \cup {"refused"} : Answer(c, status)
    BY <1>7 DEF PublishAnswers, Failures
  <2> QED
    BY <1>5, <1>6, <2>1, <2>2 DEF Failures
<1>8. ASSUME PollAnswers(c)
      PROVE  IInv'
  <2>1. UNCHANGED <<rows, readies>> /\ RowsInv'
    BY <1>1, <1>8 DEF PollAnswers, Requests, RowsInv
  <2>2. CASE \E status \in Failures \cup {"not_found", "timed_out"} : Answer(c, status)
    BY <1>5, <2>1, <2>2 DEF Failures
  <2>3. CASE ReportVersion(c, rows[u][v])
    <3> DEFINE row == rows[u][v]
               r == [NoReport EXCEPT !.cmd = "publish", !.url = u, !.ver = v,
                       !.status = IF row.status = "ready" THEN "published" ELSE "failed",
                       !.commit = row.commit]
    <3>1. row.status = "ready" => <<u, v, row.commit>> \in readies
      BY <1>1, <1>3 DEF RowsInv
    <3>2. call' = [call EXCEPT ![c] = IdleCall] /\ report' = [report EXCEPT ![c] = r]
      BY <2>3 DEF ReportVersion
    <3> HIDE DEF row
    <3>3. /\ r.cmd = "publish" /\ r.url = u /\ r.ver = v /\ r.commit = row.commit
          /\ r.status = IF row.status = "ready" THEN "published" ELSE "failed"
      BY DEF NoReport
    <3> HIDE DEF r
    <3>4. ReportOK(r, readies)
      BY <3>1, <3>3 DEF ReportOK
    <3>5. UNCHANGED <<rows, readies, file, proc, granted>>
      BY <1>2, <2>1
    <3> HIDE DEF u, v
    <3> QED
      BY <3>2, <3>4, <3>5, IdleOK, OneCall
  <2>4. CASE call' = [call EXCEPT ![c].tick = ~@] /\ UNCHANGED report
    <3> DEFINE l == [call[c] EXCEPT !.tick = ~@]
    <3>1. call' = [call EXCEPT ![c] = l]
      BY <2>4
    <3>2. CallOK(l, granted)
      BY <1>4
    <3> HIDE DEF l
    <3> QED
      BY <1>2, <2>1, <2>4, <3>1, <3>2, IdleOK, OneCall
  <2> QED
    BY <1>8, <2>2, <2>3, <2>4 DEF PollAnswers
<1>9. ASSUME PollDeadline(c)
      PROVE  IInv'
  <2> DEFINE l == [call[c] EXCEPT !.late = TRUE]
  <2>1. call' = [call EXCEPT ![c] = l] /\ UNCHANGED <<rows, report, readies>>
    BY <1>9 DEF PollDeadline
  <2>2. CallOK(l, granted)
    BY <1>4
  <2> HIDE DEF l
  <2> QED
    BY <1>2, <2>1, <2>2, IdleOK, OneCall
<1> QED
  BY <1>7, <1>8, <1>9

\* The commands that rewrite the config file take no key back from a request.
LEMMA ConfigKeepsCalls ==
    ASSUME IInv, NEW p \in Writers, Config(p)
    PROVE  IInv'
<1>1. ConfigInv' /\ granted \subseteq granted'
  BY ConfigStepInvariant DEF IInv
<1>2. UNCHANGED <<rows, call, report, readies>>
  BY DEF Config, clientVars
<1>3. \A c \in Clients : CallOK(call[c], granted')
  BY <1>1 DEF IInv, CallOK
<1> QED
  BY <1>1, <1>2, <1>3 DEF IInv, RowsInv

LEMMA NextIInv == IInv /\ [Next]_vars => IInv'
<1> SUFFICES ASSUME IInv, [Next]_vars PROVE IInv'
  OBVIOUS
<1>1. CASE RegistryChanges
  BY <1>1, RegistryChangesStep
<1>2. CASE \E p \in Writers : Config(p)
  BY <1>2, ConfigKeepsCalls
<1>3. CASE \E c \in Clients : StartCommand(c)
  BY <1>3, StartCommandInvariant
<1>4. CASE \E c \in Clients : CommandStep(c)
  BY <1>4, ReadStep, SearchStep, PublishStep DEF CommandStep
<1>5. CASE \E c \in Clients : PollDeadline(c)
  BY <1>5, PublishStep
<1>6. CASE UNCHANGED vars
  BY <1>6 DEF vars, configVars, clientVars, IInv, ConfigInv, RowsInv
<1> QED
  BY <1>1, <1>2, <1>3, <1>4, <1>5, <1>6 DEF Next

THEOREM ClientInvariant == Spec => []IInv
BY InitIInv, NextIInv, PTL DEF Spec

\* A registry's key is in the config file only if that registry vouched for
\* it, however many commands rewrite the file at once and wherever they die.
THEOREM StoredKeysWereGranted == Spec => []KeysWereGranted
<1>1. IInv => KeysWereGranted
  BY ReadKnown DEF IInv, Known, KeysWereGranted
<1> QED
  BY <1>1, ClientInvariant, PTL

\* A request carries no key but one its own registry vouched for, for any
\* number of registries asked at once.
THEOREM KeysGoHome == Spec => []KeyGoesHome
<1>1. IInv => KeyGoesHome
  BY DEF IInv, CallOK, KeyGoesHome
<1> QED
  BY <1>1, ClientInvariant, PTL

\* What publish prints became ready, whatever the registry does meanwhile.
THEOREM PublishedBecameReady == Spec => []PublishedWasReady
<1>1. IInv => PublishedWasReady
  BY DEF IInv, ReportOK, PublishedWasReady
<1> QED
  BY <1>1, ClientInvariant, PTL

\* A search of any number of registries dies exactly when none answered.
THEOREM SearchSurvivesOneAnswer == Spec => []SearchDiesAlone
<1>1. IInv => SearchDiesAlone
  BY DEF IInv, ReportOK, SearchDiesAlone
<1> QED
  BY <1>1, ClientInvariant, PTL

-----------------------------------------------------------------------------
(* What a write keeps                                                       *)

\* A copy that no write has made stale is what the file holds, and a block of
\* a role that is being edited differs from it in one field at most.
Fresh(l, root) ==
  /\ l.step = "write" /\ "root" \notin l.stale => l.root = root
  /\ l.step = "prompt" /\ l.cmd = "role" /\ "block" \notin l.stale =>
       l.block = root.roles[First(l.todo)]
  /\ l.step \in {"read_root", "write"} /\ l.cmd = "role" /\ "block" \notin l.stale =>
       \/ l.block.seed = root.roles[First(l.todo)].seed
       \/ l.block.model = root.roles[First(l.todo)].model

FreshInv == \A p \in Writers : Fresh(proc[p], ReadRoot)

\* A step of one command that leaves the file alone.
LEMMA OneFresh ==
    ASSUME IInv, FreshInv, NEW p \in Writers, NEW l,
           proc' = [proc EXCEPT ![p] = l], file' = file, Fresh(l, ReadRoot)
    PROVE  FreshInv'
<1>1. ReadRoot' = ReadRoot
  BY DEF ReadRoot
<1>2. \A q \in Writers : proc'[q] = IF q = p THEN l ELSE proc[q]
  BY DEF IInv, ConfigInv
<1> QED
  BY <1>1, <1>2 DEF FreshInv

\* A write, or a kill in the middle of one, makes every other copy stale.
LEMMA AllStale ==
    ASSUME IInv, NEW p \in Writers, NEW l,
           proc' = [q \in Writers |-> IF q = p THEN l ELSE MakeStale(q)],
           l.step \in {"idle", "read_block"}
    PROVE  FreshInv'
<1>1. ASSUME NEW q \in Writers PROVE Fresh(proc'[q], ReadRoot')
  <2>1. CASE q = p
    BY <2>1 DEF Fresh
  <2>2. CASE q # p
    <3>1. proc'[q] = MakeStale(q) /\ proc[q] \in Proc
      BY <2>2 DEF IInv, ConfigInv
    <3>2. /\ proc'[q].step = proc[q].step
          /\ proc[q].step # "idle" => proc'[q].stale = {"block", "root"}
      BY <3>1 DEF MakeStale, Proc
    <3> QED
      BY <3>2 DEF Fresh
  <2> QED
    BY <2>1, <2>2
<1> QED
  BY <1>1 DEF FreshInv

LEMMA ConfigFresh ==
    ASSUME IInv, FreshInv, NEW p \in Writers, Config(p)
    PROVE  FreshInv'
<1>0. proc[p] \in Proc /\ ProcOK(proc[p], granted) /\ Fresh(proc[p], ReadRoot)
  BY DEF IInv, ConfigInv, FreshInv
<1>1. Fresh(IdleProc, ReadRoot) /\ IdleProc.step = "idle"
  BY DEF Fresh, IdleProc
<1>2. ASSUME End(p), file' = file PROVE FreshInv'
  BY <1>1, <1>2, OneFresh DEF End
<1>3. CASE \/ \E r \in Roles : StartRole(p, r)
           \/ StartInit(p)
           \/ \E u \in Urls, k \in Keys : StartTokenLogin(p, u, k)
           \/ \E u \in Urls : StartBrowserLogin(p, u) \/ StartLogout(p, u)
  <2>1. ASSUME NEW l, Start(p, l), l.step \in {"read_block", "verify", "callback", "read_root"},
               l.step = "read_root" => l.cmd = "logout"
        PROVE  FreshInv'
    <3>1. Fresh(l, ReadRoot)
      BY <2>1 DEF Fresh
    <3> QED
      BY <2>1, <3>1, OneFresh DEF Start
  <2>2. ASSUME NEW r \in Roles, StartRole(p, r) PROVE FreshInv'
    <3> DEFINE l == [IdleProc EXCEPT !.cmd = "role", !.step = "read_block", !.todo = {r}]
    <3>1. Start(p, l)
      BY <2>2 DEF StartRole
    <3>2. l.step = "read_block"
      BY DEF IdleProc
    <3> HIDE DEF l
    <3> QED
      BY <2>1, <3>1, <3>2
  <2>3. ASSUME StartInit(p) PROVE FreshInv'
    <3>1. PICK todo : Start(p, [IdleProc EXCEPT !.cmd = "init", !.step = "read_block", !.todo = todo])
      BY <2>3 DEF StartInit
    <3> DEFINE l == [IdleProc EXCEPT !.cmd = "init", !.step = "read_block", !.todo = todo]
    <3>2. l.step = "read_block"
      BY DEF IdleProc
    <3> HIDE DEF l
    <3> QED
      BY <2>1, <3>1, <3>2 DEF l
  <2>4. ASSUME NEW u \in Urls, NEW k \in Keys, StartTokenLogin(p, u, k) PROVE FreshInv'
    <3> DEFINE l == [IdleProc EXCEPT !.cmd = "login", !.step = "verify", !.url = u, !.key = k]
    <3>1. Start(p, l)
      BY <2>4 DEF StartTokenLogin
    <3>2. l.step = "verify"
      BY DEF IdleProc
    <3> HIDE DEF l
    <3> QED
      BY <2>1, <3>1, <3>2
  <2>5. ASSUME NEW u \in Urls, StartBrowserLogin(p, u) PROVE FreshInv'
    <3> DEFINE l == [IdleProc EXCEPT !.cmd = "login", !.step = "callback", !.url = u]
    <3>1. Start(p, l)
      BY <2>5 DEF StartBrowserLogin
    <3>2. l.step = "callback"
      BY DEF IdleProc
    <3> HIDE DEF l
    <3> QED
      BY <2>1, <3>1, <3>2
  <2>6. ASSUME NEW u \in Urls, StartLogout(p, u) PROVE FreshInv'
    <3> DEFINE l == [IdleProc EXCEPT !.cmd = "logout", !.step = "read_root", !.url = u]
    <3>1. Start(p, l)
      BY <2>6 DEF StartLogout
    <3>2. l.step = "read_root" /\ l.cmd = "logout"
      BY DEF IdleProc
    <3> HIDE DEF l
    <3> QED
      BY <2>1, <3>1, <3>2
  <2> QED
    BY <1>3, <2>2, <2>3, <2>4, <2>5, <2>6
<1>4. CASE ReadBlock(p)
  <2> DEFINE block == ReadRoot.roles[First(proc[p].todo)]
             l == [proc[p] EXCEPT !.step = "prompt", !.block = block, !.stale = {}]
  <2>1. CASE End(p)
    BY <1>2, <1>4, <2>1 DEF ReadBlock
  <2>2. CASE proc' = [proc EXCEPT ![p] = l]
    <3>1. l.step = "prompt" /\ l.block = block /\ l.todo = proc[p].todo
      BY <1>0 DEF Proc
    <3>2. Fresh(l, ReadRoot)
      BY <3>1 DEF Fresh
    <3> QED
      BY <1>4, <2>2, <3>2, OneFresh DEF ReadBlock
  <2> QED
    BY <1>4, <2>1, <2>2 DEF ReadBlock
<1>5. CASE AnswerPrompts(p)
  <2>1. PICK b \in Edits(proc[p].cmd, proc[p].block) :
          proc' = [proc EXCEPT ![p] = [proc[p] EXCEPT !.block = b, !.step = "read_root"]]
    BY <1>5 DEF AnswerPrompts
  <2> DEFINE l == [proc[p] EXCEPT !.block = b, !.step = "read_root"]
  <2>2. ASSUME proc[p].cmd = "role"
        PROVE  b.seed = proc[p].block.seed \/ b.model = proc[p].block.model
    <3>1. proc[p].block \in Block
      BY <1>0, <1>5, <2>2 DEF ProcOK, AnswerPrompts
    <3>2. \/ \E m \in Models : b = [proc[p].block EXCEPT !.model = m]
          \/ \E s \in Seeds : b = [proc[p].block EXCEPT !.seed = s]
      BY <2>1, <2>2 DEF Edits
    <3> QED
      BY <3>1, <3>2 DEF Block
  <2>3. /\ l.step = "read_root" /\ l.cmd = proc[p].cmd /\ l.block = b
        /\ l.stale = proc[p].stale /\ l.todo = proc[p].todo
    BY <1>0 DEF Proc
  <2> HIDE DEF l
  <2>4. Fresh(l, ReadRoot)
    BY <1>0, <1>5, <2>2, <2>3 DEF Fresh, AnswerPrompts
  <2> QED
    BY <1>5, <2>1, <2>4, OneFresh DEF AnswerPrompts, l
<1>6. CASE VerifyToken(p) \/ ReceiveCallback(p) \/ CallbackTimeout(p)
  <2> SUFFICES ASSUME ~End(p) PROVE FreshInv'
    BY <1>2, <1>6 DEF VerifyToken, ReceiveCallback, CallbackTimeout
  <2>1. PICK k : proc' = [proc EXCEPT ![p] = [proc[p] EXCEPT !.key = k, !.step = "read_root"]]
    <3>1. CASE VerifyToken(p)
      <4>1. proc[p] = [proc[p] EXCEPT !.key = proc[p].key]
        BY <1>0 DEF Proc
      <4>2. proc' = [proc EXCEPT ![p] = [proc[p] EXCEPT !.step = "read_root"]]
        BY <3>1 DEF VerifyToken, Goto
      <4>3. [proc[p] EXCEPT !.step = "read_root"]
              = [proc[p] EXCEPT !.key = proc[p].key, !.step = "read_root"]
        BY <4>1
      <4> QED
        BY <4>2, <4>3
    <3>2. CASE ReceiveCallback(p)
      BY <3>2 DEF ReceiveCallback, AcceptCallback
    <3>3. ~CallbackTimeout(p)
      BY DEF CallbackTimeout
    <3> QED
      BY <1>6, <3>1, <3>2, <3>3
  <2> DEFINE l == [proc[p] EXCEPT !.key = k, !.step = "read_root"]
  <2>2. proc[p].cmd # "role"
    BY <1>0, <1>6 DEF VerifyToken, ReceiveCallback, CallbackTimeout, ProcOK
  <2>3. l.step = "read_root" /\ l.cmd = proc[p].cmd
    BY <1>0 DEF Proc
  <2> HIDE DEF l
  <2>4. Fresh(l, ReadRoot)
    BY <2>2, <2>3 DEF Fresh
  <2> QED
    BY <1>6, <2>1, <2>4, OneFresh DEF VerifyToken, ReceiveCallback, CallbackTimeout, l
<1>7. CASE ReadConfig(p)
  <2> DEFINE l == [proc[p] EXCEPT !.step = "write", !.root = ReadRoot, !.stale = @ \ {"root"}]
  <2>1. CASE End(p)
    BY <1>2, <1>7, <2>1 DEF ReadConfig
  <2>2. CASE proc' = [proc EXCEPT ![p] = l]
    <3>1. /\ l.step = "write" /\ l.root = ReadRoot /\ l.cmd = proc[p].cmd /\ l.todo = proc[p].todo
          /\ l.block = proc[p].block /\ l.stale = proc[p].stale \ {"root"}
      BY <1>0 DEF Proc
    <3> HIDE DEF l
    <3>2. Fresh(l, ReadRoot)
      BY <1>0, <1>7, <3>1 DEF Fresh, ReadConfig
    <3> QED
      BY <1>7, <2>2, <3>2, OneFresh DEF ReadConfig
  <2> QED
    BY <1>7, <2>1, <2>2 DEF ReadConfig
<1>8. CASE WriteConfig(p)
  BY <1>1, <1>8, AllStale DEF WriteConfig, IdleProc
<1>9. CASE Kill(p)
  BY <1>1, <1>2, <1>9, AllStale DEF Kill
<1> QED
  BY <1>3, <1>4, <1>5, <1>6, <1>7, <1>8, <1>9 DEF Config, ConfigStep

LEMMA NextFresh == IInv /\ FreshInv /\ [Next]_vars => FreshInv'
<1> SUFFICES ASSUME IInv, FreshInv, [Next]_vars PROVE FreshInv'
  OBVIOUS
<1>1. CASE \E p \in Writers : Config(p)
  BY <1>1, ConfigFresh
<1>2. CASE UNCHANGED <<file, proc>>
  BY <1>2 DEF FreshInv, ReadRoot
<1>3. CASE RegistryChanges \/ \E c \in Clients : StartCommand(c) \/ CommandStep(c) \/ PollDeadline(c)
  <2>1. CASE RegistryChanges
    BY <1>2, <2>1 DEF RegistryChanges, configVars
  <2>2. ASSUME NEW c \in Clients, StartCommand(c) PROVE FreshInv'
    <3>1. \E l : Begin(c, l)
      BY <2>2 DEF StartCommand, StartSearch, StartRead, StartAccount, StartPublish,
                  StartToolSearch, StartToolRead
    <3> QED
      BY <1>2, <3>1 DEF Begin
  <2>3. ASSUME NEW c \in Clients, CommandStep(c) \/ PollDeadline(c) PROVE FreshInv'
    <3>1. UNCHANGED configVars
      BY <2>3 DEF CommandStep, SourceAnswers, FinishSearch, FetchInfoPayload, PreviewPack,
         FetchPreviewRecipe, ToolGetPack, ToolGetPreview, WhoamiAnswers, OrgAnswers,
         PublishAnswers, PollAnswers, PollDeadline, Requests
    <3> QED
      BY <1>2, <3>1 DEF configVars
  <2> QED
    BY <1>3, <2>1, <2>2, <2>3
<1> QED
  BY <1>1, <1>2, <1>3 DEF Next, vars, configVars

\* What the file holds after a write of a copy that is still current.
LEMMA WriteKeeps ==
    ASSUME IInv, FreshInv, NEW p \in Writers, WriteConfig(p)
    PROVE  KeepsTheRest(p)
<1> DEFINE l == proc[p]
           old == ReadRoot
           new == file'.root
           r == First(l.todo)
<1>1. l \in Proc /\ Fresh(l, old) /\ l.step = "write"
  BY DEF IInv, ConfigInv, FreshInv, WriteConfig
<1>2. new = Updated(p)
  BY DEF WriteConfig
<1>3. l.root \in Root /\ r \in Roles
  BY <1>1 DEF Proc, First, Roles
<1>4. /\ l.cmd \in {"role", "init"} =>
           /\ new.registries = l.root.registries
           /\ \A s \in Roles : new.roles[s] = IF s = r THEN l.block ELSE l.root.roles[s]
      /\ l.cmd \notin {"role", "init"} =>
           /\ new.roles = l.root.roles
           /\ \A u \in Urls : u # l.url => new.registries[u] = l.root.registries[u]
  BY <1>2, <1>3 DEF Updated, WithRole, WithCredential, Root
<1>5. ASSUME "root" \notin l.stale PROVE l.root = old
  BY <1>1, <1>5 DEF Fresh
<1>6. ASSUME l.cmd = "role", l.stale = {}
      PROVE  new.roles[r].seed = old.roles[r].seed \/ new.roles[r].model = old.roles[r].model
  BY <1>1, <1>3, <1>4, <1>6 DEF Fresh
<1> HIDE DEF l, old, new, r
<1>7. "root" \notin l.stale =>
        /\ \A s \in Roles : new.roles[s] # old.roles[s] => l.cmd \in {"role", "init"} /\ s = r
        /\ \A u \in Urls : new.registries[u] # old.registries[u] => u = l.url
        /\ l.cmd = "role" /\ l.stale = {} =>
             \/ new.roles[r].seed = old.roles[r].seed
             \/ new.roles[r].model = old.roles[r].model
  BY <1>4, <1>5, <1>6
<1> QED
  BY <1>7 DEF KeepsTheRest, l, old, new, r

\* A command whose copy is current when it writes changes its own section and
\* nothing else, whatever it overlapped before.
THEOREM FreshWritesKeepTheRest == Spec => FreshWriteKeepsTheRest
<1>1. Init => FreshInv
  BY DEF Init, ConfigInit, FreshInv, Fresh, IdleProc
<1>2. IInv /\ FreshInv /\ [Next]_vars => [\A p \in Writers : WriteConfig(p) => KeepsTheRest(p)]_configVars
  BY WriteKeeps
<1> QED
  BY <1>1, <1>2, ClientInvariant, NextFresh, PTL DEF Spec, FreshWriteKeepsTheRest
=============================================================================
