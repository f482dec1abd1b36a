---------------------------- MODULE RegistryClient ----------------------------
(***************************************************************************)
(* The commands that talk to a registry: baka search, registry info,       *)
(* registry preview, registry whoami, publish and org                      *)
(* (apps/cli/src/commands, apps/cli/src/lib), and the three registry tools *)
(* of the MCP server (apps/mcp/src).  They find their registries through   *)
(* one chain (packages/protocol/src/registry-config.ts), take the key of   *)
(* each from the file of UserConfig, which other commands rewrite          *)
(* meanwhile, and send one request after another to registries whose       *)
(* versions change between two requests.                                   *)
(***************************************************************************)
EXTENDS UserConfig, Sequences, FiniteSetsExt

CONSTANTS
  Clients,     \* commands and tool calls that read
  Forms,       \* spellings of a registry URL
  NormalUrl,   \* [Forms -> Urls], normalizeRegistryUrl
  EnvUrl,      \* BAKA_REGISTRY_URL, or NoValue
  Project,     \* the registries list of .baka/settings.json, a sequence of Forms
  DefaultUrl,  \* the documented default
  Private,     \* the registries whose pack is org-visible
  Versions,    \* version numbers of the pack
  Commits,     \* commits a version may be published from
  MaxChanges   \* bound on the changes of the registries

ASSUME FormsAssumption ==
  /\ NormalUrl \in [Forms -> Urls]
  /\ DefaultUrl \in Urls
  /\ EnvUrl \in Forms \cup {NoValue}
  /\ Project \in Seq(Forms)

VARIABLES
  rows,      \* what each registry holds of the pack: [Urls -> [Versions -> row]]
  call,      \* the locals of each client
  report,    \* what each client printed or returned last
  readies,   \* history: every <<url, version, commit>> that became ready
  changes    \* how often the registries have changed

clientVars == <<rows, call, report, readies, changes>>
vars == <<configVars, clientVars>>

NoRow == [status |-> "none", commit |-> NoValue]
IdleCall == [cmd |-> "none", step |-> "idle", mcp |-> FALSE, urls |-> <<>>, keys |-> <<>>,
             answers |-> <<>>, ver |-> NoValue, commit |-> NoValue, late |-> FALSE, tick |-> FALSE]
NoReport == [cmd |-> "none", status |-> "none", url |-> NoValue, ver |-> NoValue,
             commit |-> NoValue, hits |-> {}, answered |-> {}, warned |-> {}]

-----------------------------------------------------------------------------
(* Which registries, which key                                              *)

\* Flag, then environment, then the project's list, then the default.
UrlList(flag, project) ==
  IF flag # NoValue THEN <<NormalUrl[flag]>>
  ELSE IF EnvUrl # NoValue THEN <<NormalUrl[EnvUrl]>>
  ELSE IF project # <<>> THEN [i \in DOMAIN project |-> NormalUrl[project[i]]]
  ELSE <<DefaultUrl>>

\* The commands for one registry pass no cwd to the resolver, so none of them
\* reads the project's list; search and the MCP tools do.
SingleUrl(flag) == UrlList(flag, <<>>)[1]

\* The CLI dies over a file that does not parse, the MCP server reads it as empty.
StoredKeyOfDefault(u) == ReadRoot.registries[DefaultUrl]
StoredKey(u) == ReadRoot.registries[u]

-----------------------------------------------------------------------------
(* The registries                                                           *)

Present(u) == {v \in Versions : rows[u][v].status # "none"}
Ready(u) == {v \in Versions : rows[u][v].status = "ready"}
Latest(u) == IF Ready(u) = {} THEN NoValue ELSE Max(Ready(u))
Visible(u, k) == Present(u) # {} /\ (u \in Private => k # NoValue /\ IssuedBy[k] = u)

\* How a request may end, besides the connection failing and a 5xx.
Served(u, k, v) == Visible(u, k) /\ v \in Present(u)
Failures == {"unreachable", "http_error"}

SetRow(u, v, status, commit) ==
  /\ rows' = [rows EXCEPT ![u][v] = [status |-> status, commit |-> commit]]
  /\ readies' = IF status = "ready" THEN readies \cup {<<u, v, commit>>} ELSE readies

\* Bounded to the changes while somebody asks.
RegistryChanges ==
  /\ changes < MaxChanges
  /\ \E c \in Clients : call[c].step # "idle"
  /\ changes' = changes + 1
  /\ \E u \in Urls, v \in Versions :
       \/ \E c \in Commits :
            /\ rows[u][v].status # "ready"
            /\ SetRow(u, v, "pending", c)
       \/ /\ rows[u][v].status = "pending"
          /\ \E status \in {"ready", "failed"} : SetRow(u, v, status, rows[u][v].commit)
       \/ /\ Present(u) # {}
          /\ rows' = [rows EXCEPT ![u] = [w \in Versions |-> NoRow]]
          /\ UNCHANGED readies
  /\ UNCHANGED <<call, report, configVars>>

-----------------------------------------------------------------------------
(* One request after another                                                *)

Begin(c, locals) ==
  /\ call[c].step = "idle"
  /\ started < MaxCommands
  /\ started' = started + 1
  /\ call' = [call EXCEPT ![c] = locals]
  /\ report' = [report EXCEPT ![c] = NoReport]
  /\ UNCHANGED <<rows, readies, changes, file, proc, granted>>

Answer(c, status) ==
  /\ call' = [call EXCEPT ![c] = IdleCall]
  /\ report' = [report EXCEPT ![c] = [NoReport EXCEPT !.cmd = call[c].cmd, !.status = status]]

Proceed(c, step) ==
  /\ call' = [call EXCEPT ![c].step = step]
  /\ UNCHANGED report

Requests == UNCHANGED <<rows, readies, changes, configVars>>

\* A command for one registry, with the key stored for it.
Ask(cmd, url, ver, mcp, step) ==
  [IdleCall EXCEPT !.cmd = cmd, !.mcp = mcp, !.urls = <<url>>, !.keys = <<StoredKey(url)>>,
                   !.ver = ver, !.step = step]

-----------------------------------------------------------------------------
(* baka search, baka_registry_search                                        *)

Search(urls, keys, mcp) ==
  [IdleCall EXCEPT !.cmd = "search", !.step = "search", !.mcp = mcp, !.urls = urls, !.keys = keys,
                   !.answers = [i \in DOMAIN urls |-> "awaited"]]

\* The CLI asks every registry without a key, ...
StartSearch(c, flag) ==
  LET urls == UrlList(flag, Project) IN
  Begin(c, Search(urls, [i \in DOMAIN urls |-> NoValue], FALSE))

\* ... the tool each of them with its own.
StartToolSearch(c) ==
  LET urls == UrlList(NoValue, Project) IN
  Begin(c, Search(urls, [i \in DOMAIN urls |-> StoredKey(urls[i])], TRUE))

\* Promise.all: the sources answer in any order, and a failure of one is kept
\* as that source's warning.
SourceAnswers(c, i) ==
  /\ call[c].step = "search"
  /\ call[c].answers[i] = "awaited"
  /\ \E a \in Failures \cup {IF Visible(call[c].urls[i], call[c].keys[i]) THEN "match" ELSE "no_match"} :
       call' = [call EXCEPT ![c].answers[i] = a]
  /\ UNCHANGED <<rows, report, readies, changes, configVars>>

SearchDiesUnmatched(hits, answered, warned) == hits = {} /\ warned # {}
SearchDies(hits, answered, warned) == hits = {} /\ answered = {} /\ warned # {}

FinishSearch(c) ==
  LET with(as) == {i \in DOMAIN call[c].urls : call[c].answers[i] \in as}
      hits == with({"match"})
      answered == with({"match", "no_match"})
      warned == with(Failures)
  IN /\ call[c].step = "search"
     /\ with({"awaited"}) = {}
     /\ report' = [report EXCEPT ![c] =
          [NoReport EXCEPT !.cmd = "search", !.hits = hits, !.answered = answered, !.warned = warned,
             !.status = IF SearchDies(hits, answered, warned) THEN "died" ELSE "ok"]]
     /\ call' = [call EXCEPT ![c] = IdleCall]
     /\ UNCHANGED <<rows, readies, changes, configVars>>

-----------------------------------------------------------------------------
(* registry info, registry preview, baka_registry_get_pack, _get_preview    *)

\* The CLI's preview of a pinned version skips the pack detail.
StartRead(c, cmd, flag, ver) ==
  /\ ~Corrupt
  /\ Begin(c, Ask(cmd, SingleUrl(flag), ver, FALSE,
                   IF cmd = "preview" /\ ver # NoValue THEN "version" ELSE "detail"))

\* The tools take the first registry of the list.
StartToolRead(c, cmd, ver) ==
  Begin(c, Ask(cmd, UrlList(NoValue, Project)[1], ver, TRUE, "detail"))

Reading(c, cmd, mcp, step) == call[c].cmd = cmd /\ call[c].mcp = mcp /\ call[c].step = step
Fails(c) == \E f \in Failures : Answer(c, f)
Found(c) == Visible(call[c].urls[1], call[c].keys[1])
FoundVersion(c) == Served(call[c].urls[1], call[c].keys[1], call[c].ver)

\* GET /v1/packs/:scope/:name; without a pinned version its latest is taken,
\* and without one of those the command ends with `none`.
GetPackDetail(c, next, none) ==
  LET resolved == IF call[c].ver # NoValue THEN call[c].ver ELSE Latest(call[c].urls[1]) IN
  \/ Fails(c)
  \/ ~Found(c) /\ Answer(c, "not_found")
  \/ Found(c) /\ resolved = NoValue /\ Answer(c, none)
  \/ /\ Found(c) /\ resolved # NoValue
     /\ call' = [call EXCEPT ![c].ver = resolved, ![c].step = next]
     /\ UNCHANGED report

\* GET .../:version.
GetVersionDetail(c, steps) ==
  \/ Fails(c)
  \/ ~FoundVersion(c) /\ Answer(c, "not_found")
  \/ FoundVersion(c) /\ \E step \in steps : Proceed(c, step)

\* GET .../previews: a 404 reads as no previews.  The tool and the CLI's --json
\* then ask for each recipe; the plain listing is done.
GetPackPreviews(c) ==
  \/ Fails(c)
  \/ Answer(c, "shown")
  \/ FoundVersion(c) /\ Proceed(c, "recipe")

\* GET .../previews/:recipeId, one request standing for all: a recipe without a
\* record is left out of a list and ends the command that asked for it alone.
GetRecipePreview(c) == \E f \in Failures \cup {"shown", "not_found"} : Answer(c, f)

\* Info shows the pack without a manifest when the version is gone.
FetchInfoPayload(c) ==
  /\ \/ Reading(c, "info", FALSE, "detail") /\ GetPackDetail(c, "version", "shown")
     \/ Reading(c, "info", FALSE, "version") /\ (Fails(c) \/ Answer(c, "shown"))
  /\ Requests

\* baka_registry_get_pack.
ToolGetPack(c) ==
  /\ \/ Reading(c, "info", TRUE, "detail") /\ GetPackDetail(c, "version", "shown")
     \/ Reading(c, "info", TRUE, "version") /\ (Fails(c) \/ Answer(c, "shown"))
  /\ Requests

\* --recipe asks for one recipe instead of the list.
PreviewPack(c) ==
  /\ \/ Reading(c, "preview", FALSE, "detail") /\ GetPackDetail(c, "version", "no_version")
     \/ Reading(c, "preview", FALSE, "version") /\ GetVersionDetail(c, {"previews", "recipe"})
     \/ Reading(c, "preview", FALSE, "previews") /\ GetPackPreviews(c)
  /\ Requests

FetchPreviewRecipe(c) ==
  /\ Reading(c, "preview", FALSE, "recipe") /\ GetRecipePreview(c)
  /\ Requests

\* baka_registry_get_preview never asks for the version.
ToolGetPreview(c) ==
  /\ \/ Reading(c, "preview", TRUE, "detail") /\ GetPackDetail(c, "previews", "no_version")
     \/ Reading(c, "preview", TRUE, "previews") /\ GetPackPreviews(c)
     \/ Reading(c, "preview", TRUE, "recipe") /\ GetRecipePreview(c)
  /\ Requests

-----------------------------------------------------------------------------
(* registry whoami, org create, org list, org invite                        *)

\* requireCredential: without a stored key none of them sends anything.
Account(cmd, url) == Ask(cmd, url, NoValue, FALSE, "account")

StartAccount(c, cmd, flag) ==
  LET url == SingleUrl(flag) IN
  /\ ~Corrupt
  /\ StoredKey(url) # NoValue
  /\ Begin(c, Account(cmd, url))

\* GET /api/auth/get-session, one request.
WhoamiAnswers(c) ==
  /\ call[c].cmd = "whoami" /\ call[c].step = "account"
  /\ Fails(c) \/ Answer(c, "rejected") \/ Answer(c, "shown")
  /\ Requests

\* POST /v1/orgs, GET /v1/orgs, POST /v1/orgs/:slug/invite, one request.
OrgAnswers(c) ==
  /\ call[c].cmd = "org" /\ call[c].step = "account"
  /\ Fails(c) \/ Answer(c, "refused") \/ Answer(c, "shown")
  /\ Requests

-----------------------------------------------------------------------------
(* baka publish                                                             *)

StartPublish(c, flag, v) ==
  LET url == SingleUrl(flag) IN
  /\ ~Corrupt
  /\ StoredKey(url) # NoValue
  /\ Begin(c, Ask("publish", url, v, FALSE, "post"))

Accepted(c, commit) ==
  /\ call' = [call EXCEPT ![c].step = "poll", ![c].commit = commit]
  /\ UNCHANGED report

\* POST /v1/publish.  A connection that fails may do so after the registry
\* accepted: the row is there and the command says it could not reach it.
PublishAnswers(c, commit) ==
  LET u == call[c].urls[1]
      v == call[c].ver
      row == rows[u][v]
      accepts == row.status # "ready"
  IN /\ call[c].step = "post"
     /\ \/ /\ accepts
           /\ SetRow(u, v, "pending", commit)
           /\ Accepted(c, commit) \/ Answer(c, "unreachable")
        \/ /\ row.status = "ready" /\ row.commit = commit
           /\ Accepted(c, commit)
           /\ UNCHANGED <<rows, readies>>
        \/ /\ \E f \in Failures \cup {"refused"} : Answer(c, f)
           /\ UNCHANGED <<rows, readies>>
     /\ UNCHANGED <<changes, configVars>>

\* A deadline computed inside the loop.
PollDeadlineRestarted(c) ==
  /\ call[c].step = "poll"
  /\ call' = [call EXCEPT ![c].late = FALSE]
  /\ UNCHANGED <<rows, report, readies, changes, configVars>>

\* Sixty seconds after the first poll.
PollDeadline(c) ==
  /\ call[c].step = "poll"
  /\ ~call[c].late
  /\ call' = [call EXCEPT ![c].late = TRUE]
  /\ UNCHANGED <<rows, report, readies, changes, configVars>>

Terminal(row) == row.status \in {"ready", "failed"}

\* Prints the commit of the answer to the POST.
ReportAccepted(c, row) ==
  /\ call' = [call EXCEPT ![c] = IdleCall]
  /\ report' = [report EXCEPT ![c] =
       [NoReport EXCEPT !.cmd = "publish", !.url = call[c].urls[1], !.ver = call[c].ver,
          !.status = IF row.status = "ready" THEN "published" ELSE "failed", !.commit = call[c].commit]]

ReportVersion(c, row) ==
  /\ call' = [call EXCEPT ![c] = IdleCall]
  /\ report' = [report EXCEPT ![c] =
       [NoReport EXCEPT !.cmd = "publish", !.url = call[c].urls[1], !.ver = call[c].ver,
          !.status = IF row.status = "ready" THEN "published" ELSE "failed", !.commit = row.commit]]

\* GET .../:version every half second until the status is terminal; what is
\* printed is what this answer says, its commit included.
PollAnswers(c) ==
  LET u == call[c].urls[1]
      v == call[c].ver
      row == rows[u][v]
  IN /\ call[c].step = "poll"
     /\ \/ \E f \in Failures : Answer(c, f)
        \/ /\ ~Served(u, call[c].keys[1], v)
           /\ Answer(c, "not_found")
        \/ /\ Served(u, call[c].keys[1], v) /\ Terminal(row)
           /\ ReportVersion(c, row)
        \/ /\ Served(u, call[c].keys[1], v) /\ ~Terminal(row) /\ call[c].late
           /\ Answer(c, "timed_out")
        \/ /\ Served(u, call[c].keys[1], v) /\ ~Terminal(row) /\ ~call[c].late
           /\ call' = [call EXCEPT ![c].tick = ~@]
           /\ UNCHANGED report
     /\ Requests

-----------------------------------------------------------------------------
Config(p) ==
  /\ \/ \E r \in Roles : StartRole(p, r)
     \/ StartInit(p)
     \/ \E u \in Urls, k \in Keys : StartTokenLogin(p, u, k)
     \/ \E u \in Urls : StartBrowserLogin(p, u) \/ StartLogout(p, u)
     \/ ConfigStep(p)
     \/ Kill(p)
  /\ UNCHANGED clientVars

Flags == Forms \cup {NoValue}

StartCommand(c) ==
  \/ \E flag \in Flags :
       \/ StartSearch(c, flag)
       \/ \E cmd \in {"info", "preview"}, ver \in Versions \cup {NoValue} : StartRead(c, cmd, flag, ver)
       \/ \E cmd \in {"whoami", "org"} : StartAccount(c, cmd, flag)
       \/ \E v \in Versions : StartPublish(c, flag, v)
  \/ StartToolSearch(c)
  \/ \E cmd \in {"info", "preview"}, ver \in Versions \cup {NoValue} : StartToolRead(c, cmd, ver)

CommandStep(c) ==
  \/ \E i \in DOMAIN call[c].urls : SourceAnswers(c, i)
  \/ FinishSearch(c)
  \/ FetchInfoPayload(c) \/ PreviewPack(c) \/ FetchPreviewRecipe(c)
  \/ ToolGetPack(c) \/ ToolGetPreview(c)
  \/ WhoamiAnswers(c) \/ OrgAnswers(c)
  \/ \E commit \in Commits : PublishAnswers(c, commit)
  \/ PollAnswers(c)

Init ==
  /\ ConfigInit
  /\ rows = [u \in Urls |-> [v \in Versions |-> NoRow]]
  /\ call = [c \in Clients |-> IdleCall]
  /\ report = [c \in Clients |-> NoReport]
  /\ readies = {}
  /\ changes = 0

Next ==
  \/ RegistryChanges
  \/ \E p \in Writers : Config(p)
  \/ \E c \in Clients : StartCommand(c)
  \/ \E c \in Clients : CommandStep(c)
  \/ \E c \in Clients : PollDeadline(c)

\* A registry answers or the connection fails, and the deadline of a publish
\* passes; no registry has to finish an ingest.
Fairness == \A c \in Clients : WF_vars(CommandStep(c)) /\ WF_vars(PollDeadline(c))

Spec == Init /\ [][Next]_vars /\ Fairness

-----------------------------------------------------------------------------
(* Properties                                                               *)

\* A key goes to no registry but its own: the requests of a call to its i-th
\* registry carry no key or one that this registry vouched for in a login,
\* however many registries are asked at once and whoever rewrites the file.
KeyGoesHome ==
  \A c \in Clients : \A i \in DOMAIN call[c].urls :
    call[c].keys[i] # NoValue => <<call[c].urls[i], call[c].keys[i]>> \in granted

\* What publish prints is a version that became ready from the commit printed,
\* although the row it was accepted for may be removed and published again
\* from elsewhere while it polls.
PublishedWasReady ==
  \A c \in Clients :
    report[c].status = "published" => <<report[c].url, report[c].ver, report[c].commit>> \in readies

\* A search dies exactly when no registry answered: a registry that answered
\* with nothing that matches is never taken for one that could not be asked.
SearchDiesAlone ==
  \A c \in Clients :
    report[c].cmd = "search" =>
      /\ report[c].answered \cap report[c].warned = {}
      /\ report[c].status = "died" <=> report[c].answered = {}

\* Every command that talks to a registry ends, a publish at the latest at its
\* deadline although the registry never settles the version.
CommandsEnd == \A c \in Clients : (call[c].step # "idle") ~> (call[c].step = "idle")

=============================================================================
