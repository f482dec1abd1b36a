------------------------------ MODULE UserConfig ------------------------------
(***************************************************************************)
(* The one configuration file of a user, <BAKA_HOME>/config.json, and the  *)
(* commands that rewrite it: baka init and baka role keep the blocks of    *)
(* the two roles in it (packages/agent/src/config/store.ts), baka registry *)
(* login and logout one API key per registry                               *)
(* (apps/cli/src/lib/registry-credentials.ts).  Every command is a process *)
(* of its own: it reads the whole file, changes its part and writes the    *)
(* whole file back.  Nothing locks the file, so another command may write  *)
(* in between, and a command may be killed at any step.                    *)
(***************************************************************************)
EXTENDS Naturals, FiniteSets

CONSTANTS
  Writers,      \* the commands that may rewrite the file, at most one at a time each
  Urls,         \* normalized registry base URLs
  Keys,         \* API keys
  IssuedBy,     \* [Keys -> Urls]: the registry that issued a key
  Models,       \* values of a role block's fields that every prompt covers
  Seeds,        \* values of the one field no prompt covers
  NoValue,      \* an absent block, key or field
  InitialRoots, \* what earlier commands left in the file
  MaxCommands   \* bound on the commands of a behaviour


VARIABLES
  file,      \* config.json
  proc,      \* the locals of each command that rewrites it
  granted,   \* history: the <<url, key>> a registry vouched for in a login
  started    \* how many commands have started

configVars == <<file, proc, granted, started>>

Roles == {"worker", "validator"}
Block == [model: Models, seed: Seeds \cup {NoValue}]
Root == [roles: [Roles -> Block \cup {NoValue}], registries: [Urls -> Keys \cup {NoValue}]]
GrantedIn(root) == {uk \in Urls \X Keys : root.registries[uk[1]] = uk[2]}
BlankRoot == [roles |-> [r \in Roles |-> NoValue], registries |-> [u \in Urls |-> NoValue]]

ASSUME ConfigAssumption ==
  /\ IssuedBy \in [Keys -> Urls]
  /\ InitialRoots \subseteq Root
  /\ \A root \in InitialRoots : \A uk \in GrantedIn(root) : IssuedBy[uk[2]] = uk[1]

\* "empty" is what a kill right after the truncation leaves, "torn" a kill in the middle of the text.
File == [kind: {"absent", "empty", "torn", "whole"}, root: Root]

\* Both stores read an absent and an empty file as a file with no section, and
\* raise the same error over one that does not parse.
Corrupt == file.kind = "torn"
ReadRoot == IF file.kind = "whole" THEN file.root ELSE BlankRoot

IdleProc == [cmd |-> "none", step |-> "idle", url |-> NoValue, key |-> NoValue, todo |-> {},
             block |-> NoValue, root |-> BlankRoot, stale |-> {}]

Proc == [cmd : {"none", "role", "init", "login", "logout"},
         step : {"idle", "read_block", "prompt", "verify", "callback", "read_root", "write"},
         url : Urls \cup {NoValue}, key : Keys \cup {NoValue}, todo : SUBSET Roles,
         block : Block \cup {NoValue}, root : Root, stale : SUBSET {"block", "root"}]

Goto(p, step) == proc' = [proc EXCEPT ![p].step = step]
End(p) == proc' = [proc EXCEPT ![p] = IdleProc]

Start(p, locals) ==
  /\ proc[p].step = "idle"
  /\ started < MaxCommands
  /\ started' = started + 1
  /\ proc' = [proc EXCEPT ![p] = locals]
  /\ UNCHANGED <<file, granted>>

-----------------------------------------------------------------------------
(* baka role, baka init                                                     *)

\* --field sets one field of the block that was read; the interactive edit sets
\* every field but the seed, which it takes over from that block.
StartRole(p, r) == Start(p, [IdleProc EXCEPT !.cmd = "role", !.step = "read_block", !.todo = {r}])

\* A first run, or a confirmed re-init, prompts for both roles, otherwise only
\* for those that are missing; the worker comes first.
First(todo) == IF "worker" \in todo THEN "worker" ELSE "validator"

StartInit(p) ==
  /\ ~Corrupt
  /\ \E all \in BOOLEAN :
       LET wanted == {r \in Roles : all \/ ReadRoot.roles[r] = NoValue} IN
       /\ all \/ \E r \in Roles : ReadRoot.roles[r] # NoValue
       /\ wanted # {}
       /\ Start(p, [IdleProc EXCEPT !.cmd = "init", !.step = "read_block", !.todo = wanted])

\* The block as it is before the prompts.
ReadBlock(p) ==
  /\ proc[p].step = "read_block"
  /\ LET block == ReadRoot.roles[First(proc[p].todo)] IN
     IF Corrupt \/ (proc[p].cmd = "role" /\ block = NoValue)
     THEN End(p)
     ELSE proc' = [proc EXCEPT ![p].step = "prompt", ![p].block = block, ![p].stale = {}]
  /\ UNCHANGED <<file, granted, started>>

\* The blocks an edit may make of the one that was read.
Edits(cmd, block) ==
  IF cmd = "init" THEN {[model |-> m, seed |-> NoValue] : m \in Models}
  ELSE {[block EXCEPT !.model = m] : m \in Models} \cup {[block EXCEPT !.seed = s] : s \in Seeds}

AnswerPrompts(p) ==
  /\ proc[p].step = "prompt"
  /\ \E b \in Edits(proc[p].cmd, proc[p].block) :
       proc' = [proc EXCEPT ![p].block = b, ![p].step = "read_root"]
  /\ UNCHANGED <<file, granted, started>>

-----------------------------------------------------------------------------
(* baka registry login and logout                                           *)

StartTokenLogin(p, u, k) ==
  Start(p, [IdleProc EXCEPT !.cmd = "login", !.step = "verify", !.url = u, !.key = k])

\* GET /api/auth/get-session answers with the key's user, or the login dies.
VerifyToken(p) ==
  /\ proc[p].step = "verify"
  /\ \/ /\ IssuedBy[proc[p].key] = proc[p].url
        /\ granted' = granted \cup {<<proc[p].url, proc[p].key>>}
        /\ Goto(p, "read_root")
     \/ /\ End(p)
        /\ UNCHANGED granted
  /\ UNCHANGED <<file, started>>

StartBrowserLogin(p, u) ==
  Start(p, [IdleProc EXCEPT !.cmd = "login", !.step = "callback", !.url = u])

\* The first request on the callback path settles the login: it is the
\* registry's redirect when it carries this login's state, and anything else
\* (the tab of an earlier login, another page) when it does not.
AcceptAnyState(p, own, k) ==
  IF k # NoValue
  THEN /\ granted' = IF own THEN granted \cup {<<proc[p].url, k>>} ELSE granted
       /\ proc' = [proc EXCEPT ![p].key = k, ![p].step = "read_root"]
  ELSE /\ End(p)
       /\ UNCHANGED granted

AcceptCallback(p, own, k) ==
  IF own /\ k # NoValue
  THEN /\ granted' = granted \cup {<<proc[p].url, k>>}
       /\ proc' = [proc EXCEPT ![p].key = k, ![p].step = "read_root"]
  ELSE /\ End(p)
       /\ UNCHANGED granted

ReceiveCallback(p) ==
  /\ proc[p].step = "callback"
  /\ \E own \in BOOLEAN, k \in Keys \cup {NoValue} :
       /\ own /\ k # NoValue => IssuedBy[k] = proc[p].url
       /\ AcceptCallback(p, own, k)
  /\ UNCHANGED <<file, started>>

\* Five minutes without a request.
CallbackTimeout(p) ==
  /\ proc[p].step = "callback"
  /\ End(p)
  /\ UNCHANGED <<file, granted, started>>

\* logout reads the credential first and has nothing to do without one.
StartLogout(p, u) ==
  /\ ~Corrupt
  /\ ReadRoot.registries[u] # NoValue
  /\ Start(p, [IdleProc EXCEPT !.cmd = "logout", !.step = "read_root", !.url = u])

-----------------------------------------------------------------------------
(* The read and the write every one of them ends in                         *)

ReadConfig(p) ==
  /\ proc[p].step = "read_root"
  /\ IF Corrupt
     THEN End(p)
     ELSE proc' = [proc EXCEPT ![p].step = "write", ![p].root = ReadRoot, ![p].stale = @ \ {"root"}]
  /\ UNCHANGED <<file, granted, started>>

WithRole(root, r, block) == [root EXCEPT !.roles[r] = block]
WithCredentialAlone(root, u, k) == [BlankRoot EXCEPT !.registries = [root.registries EXCEPT ![u] = k]]
WithCredential(root, u, k) == [root EXCEPT !.registries[u] = k]

Updated(p) ==
  IF proc[p].cmd \in {"role", "init"}
  THEN WithRole(proc[p].root, First(proc[p].todo), proc[p].block)
  ELSE WithCredential(proc[p].root, proc[p].url, proc[p].key)

\* What another command holds of the file is out of date from here on (history).
MakeStale(q) == [proc[q] EXCEPT !.stale = IF proc[q].step = "idle" THEN {} ELSE {"block", "root"}]

WriteConfig(p) ==
  /\ proc[p].step = "write"
  /\ file' = [kind |-> "whole", root |-> Updated(p)]
  /\ LET rest == proc[p].todo \ {First(proc[p].todo)} IN
     proc' = [q \in Writers |->
                IF q # p THEN MakeStale(q)
                ELSE IF rest = {} THEN IdleProc
                ELSE [IdleProc EXCEPT !.cmd = "init", !.step = "read_block", !.todo = rest]]
  /\ UNCHANGED <<granted, started>>

\* The process dies; in the middle of writeFileSync it leaves what it had written.
Kill(p) ==
  /\ proc[p].step # "idle"
  /\ \/ /\ UNCHANGED file
        /\ End(p)
     \/ /\ proc[p].step = "write"
        /\ \E kind \in {"empty", "torn"} : file' = [kind |-> kind, root |-> BlankRoot]
        /\ proc' = [q \in Writers |-> IF q = p THEN IdleProc ELSE MakeStale(q)]
  /\ UNCHANGED <<granted, started>>

-----------------------------------------------------------------------------
ConfigInit ==
  /\ \/ file = [kind |-> "absent", root |-> BlankRoot]
     \/ \E root \in InitialRoots : file = [kind |-> "whole", root |-> root]
  /\ proc = [p \in Writers |-> IdleProc]
  /\ granted = GrantedIn(file.root)
  /\ started = 0

ConfigStep(p) ==
  \/ ReadBlock(p)
  \/ AnswerPrompts(p)
  \/ VerifyToken(p)
  \/ ReceiveCallback(p)
  \/ CallbackTimeout(p)
  \/ ReadConfig(p)
  \/ WriteConfig(p)

ConfigNext ==
  \E p \in Writers :
    \/ \E r \in Roles : StartRole(p, r)
    \/ StartInit(p)
    \/ \E u \in Urls, k \in Keys : StartTokenLogin(p, u, k)
    \/ \E u \in Urls : StartBrowserLogin(p, u) \/ StartLogout(p, u)
    \/ ConfigStep(p)
    \/ Kill(p)

-----------------------------------------------------------------------------
(* Properties                                                               *)

\* Whatever commands overlap, are killed or write back an old file, a key is
\* stored for a registry only if that registry vouched for it in some login:
\* a token its session endpoint took, or a redirect that carried the login's
\* own state (registry.ts:80 and :125 come before both writes).
KeysWereGranted ==
  \A u \in Urls : ReadRoot.registries[u] # NoValue => <<u, ReadRoot.registries[u]>> \in granted

\* A command whose copy of the file is still current when it writes changes
\* its own section and nothing else, and an edit of a role whose block is
\* still current keeps the field it did not ask for.
KeepsTheRest(p) ==
  LET old == ReadRoot
      new == file'.root
      r == First(proc[p].todo)
  IN "root" \notin proc[p].stale =>
       /\ \A s \in Roles : new.roles[s] # old.roles[s] => proc[p].cmd \in {"role", "init"} /\ s = r
       /\ \A u \in Urls : new.registries[u] # old.registries[u] => u = proc[p].url
       /\ proc[p].cmd = "role" /\ proc[p].stale = {} =>
            \/ new.roles[r].seed = old.roles[r].seed
            \/ new.roles[r].model = old.roles[r].model

FreshWriteKeepsTheRest == [][\A p \in Writers : WriteConfig(p) => KeepsTheRest(p)]_configVars

=============================================================================
