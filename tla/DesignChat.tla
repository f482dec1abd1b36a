----------------------------- MODULE DesignChat -----------------------------
(***************************************************************************)
(* The chat in which a user and a language model design a pack             *)
(* (workflows/pack-management/src/design): a session goes through the      *)
(* phases DISCOVER, DEFINE, DEVELOP, DELIVER and DONE, asks the user to    *)
(* approve what the model finished, and is saved to a file so that a later *)
(* process resumes it.  What the model answers is a choice: the schema     *)
(* admits any phase, finished or not, with any content, though the prompt  *)
(* asks for the current one.                                               *)
(***************************************************************************)
EXTENDS Integers, Sequences, SequencesExt

CONSTANTS
    Designs,        \* non-empty lists of designed recipes
    None,           \* no design
    MaxTurns,       \* options.maxTurns of one process
    MaxSessions,    \* bound: processes started on the session
    MaxMessages     \* bound: messages of the history

ASSUME ChatAssumption ==
    /\ None \notin Designs
    /\ MaxTurns \in Nat /\ MaxSessions \in Nat /\ MaxMessages \in Nat

VARIABLES
    chat,       \* the session in memory
    saved,      \* the session file, .design-state.json
    pc,         \* where the process waits
    turns,      \* turns of this process
    exit,       \* how the last process ended
    sessions,   \* processes started so far
    approved,   \* history: the designs approved at the DEVELOP gate
    written,    \* history: the designs whose files were written
    astray      \* history: the user jumped to a phase, the model answered for
                \* another phase than the current one, or the process died
                \* while it asked for the approval of a design

vars == <<chat, saved, pc, turns, exit, sessions, approved, written, astray>>

Phases == {"DISCOVER", "DEFINE", "DEVELOP", "DELIVER", "DONE"}
PayloadPhases == Phases \ {"DONE"}
Roles == {"user", "assistant"}
Contents == Designs \union {None}

\* The preferences and the roster matter only by being there.
Session == [phase : Phases, history : Seq(Roles), roster : BOOLEAN,
            design : Contents]
FreshSession == [phase |-> "DISCOVER", history |-> <<>>, roster |-> FALSE,
                 design |-> None]

Waits == {"off", "loop", "prompt", "bootstrap", "llm", "defineGate",
          "developGate", "deliverGate", "consistency"}
Exits == {"none", "user-exit", "done", "consistency-failure", "rejected",
          "max-turns"}

Say(c, role) == [c EXCEPT !.history = Append(@, role)]
Unsay(c) == [c EXCEPT !.history = Front(@)]
SetPhase(c, phase) == [c EXCEPT !.phase = phase]

\* onStateChanged: the session becomes c and is written to its file.
Save(c) == chat' = c /\ saved' = c

\* The loop ends; running out of turns overrides what the last turn said.
Leave(c, how) ==
    /\ pc' = "off"
    /\ exit' = IF turns >= MaxTurns /\ c.phase # "DONE" THEN "max-turns" ELSE how

Idle == UNCHANGED <<turns, exit, sessions, approved, written>>
Quiet == Idle /\ UNCHANGED astray
\* What leaves the way from phase to phase.
Strays == Idle /\ astray' = TRUE
-----------------------------------------------------------------------------
\* A process loads the session.  Without a history it opens the conversation
\* with the brief.
StartSession ==
    /\ pc = "off"
    /\ sessions < MaxSessions
    /\ sessions' = sessions + 1
    /\ turns' = 0
    /\ exit' = "none"
    /\ IF saved.history = <<>>
         THEN Save(Say(saved, "user")) /\ pc' = "bootstrap"
         ELSE chat' = saved /\ pc' = "loop" /\ UNCHANGED saved
    /\ UNCHANGED <<approved, written, astray>>

\* while (phase !== "DONE" && turns < maxTurns)
NextTurn ==
    /\ pc = "loop"
    /\ IF chat.phase # "DONE" /\ turns < MaxTurns
         THEN pc' = "prompt" /\ turns' = turns + 1 /\ UNCHANGED exit
         ELSE Leave(chat, "user-exit") /\ UNCHANGED turns
    /\ UNCHANGED <<chat, saved, sessions, approved, written, astray>>

\* The user types a message; it is saved before the model is asked.
TypeMessage ==
    /\ pc = "prompt"
    /\ Len(chat.history) < MaxMessages
    /\ Save(Say(chat, "user"))
    /\ pc' = "llm"
    /\ Quiet

\* (Mutant: the file keeps the message.)
LLMFailsUnsaved ==
    /\ pc \in {"llm", "bootstrap"}
    /\ chat' = Unsay(chat)
    /\ pc' = "loop"
    /\ UNCHANGED saved
    /\ Quiet

\* The model cannot be reached or its answer does not fit the schema: the
\* message is taken back.
LLMFails ==
    /\ pc \in {"llm", "bootstrap"}
    /\ Save(Unsay(chat))
    /\ pc' = "loop"
    /\ Quiet

\* applyPayload: what an answer of a phase does to the session, whatever phase
\* the session is in.
ApplyPayload(c, phase, finished, roster, design) ==
    CASE phase = "DISCOVER" -> IF finished THEN SetPhase(c, "DEFINE") ELSE c
      [] phase = "DEFINE" ->
           [c EXCEPT !.roster = roster, !.phase = IF finished THEN "DEVELOP" ELSE @]
      [] phase = "DEVELOP" ->
           [c EXCEPT !.design = design, !.phase = IF finished THEN "DELIVER" ELSE @]
      [] phase = "DELIVER" -> c

\* The gate that follows an answer, if any.
GateAfter(c, phase, finished) ==
    CASE finished /\ phase = "DEFINE" /\ c.roster -> "defineGate"
      [] finished /\ phase = "DEVELOP" /\ c.design # None -> "developGate"
      [] OTHER -> IF c.phase = "DELIVER" THEN "deliverGate" ELSE "loop"

\* An answer to the brief is saved and followed by no gate; an answer to a
\* message is saved only if it is of a phase that it finishes.
LLMReplies ==
    /\ pc \in {"llm", "bootstrap"}
    /\ \E phase \in PayloadPhases, finished \in BOOLEAN, roster \in BOOLEAN,
          design \in Contents :
         LET next == ApplyPayload(Say(chat, "assistant"), phase, finished,
                                  roster, design)
         IN  /\ astray' = (astray \/ phase # chat.phase)
             /\ IF pc = "bootstrap"
               THEN Save(next) /\ pc' = "loop"
               ELSE /\ chat' = next
                    /\ saved' = IF finished /\ phase # "DELIVER" THEN next ELSE saved
                    /\ pc' = GateAfter(next, phase, finished)
    /\ Idle

\* The user approves the roster, or sends it back with a note.
DefineGate ==
    /\ pc = "defineGate"
    /\ \E phase \in {"DEVELOP", "DEFINE"} : Save(Say(SetPhase(chat, phase), "user"))
    /\ pc' = "loop"
    /\ Quiet

\* The user approves the design: the delivery is asked about next.
ApproveDesign ==
    /\ pc = "developGate"
    /\ Save(Say(chat, "user"))
    /\ approved' = approved \union {chat.design}
    /\ pc' = "deliverGate"
    /\ UNCHANGED <<turns, exit, sessions, written, astray>>

\* (Mutant: the delivery is asked about after a rejection, too.)
RejectDesignAndGoOn ==
    /\ pc = "developGate"
    /\ Save(Say(SetPhase(chat, "DEVELOP"), "user"))
    /\ pc' = "deliverGate"
    /\ Quiet

\* ... or sends it back.
RejectDesign ==
    /\ pc = "developGate"
    /\ Save(Say(SetPhase(chat, "DEVELOP"), "user"))
    /\ pc' = "loop"
    /\ Quiet

\* runDeliver writes the files of the pack and starts the consistency test; a
\* pack without recipes is done.
ApproveDelivery ==
    /\ pc = "deliverGate"
    /\ written' = written \union {chat.design}
    /\ IF chat.design = None
         THEN Save(SetPhase(chat, "DONE")) /\ Leave(chat', "done")
         ELSE pc' = "consistency" /\ UNCHANGED <<chat, saved, exit>>
    /\ UNCHANGED <<turns, sessions, approved, astray>>

\* (Mutant: the session is closed instead of sent back.)
RejectDeliveryAsDone ==
    /\ pc = "deliverGate"
    /\ Save(SetPhase(chat, "DONE"))
    /\ Leave(chat', "rejected")
    /\ UNCHANGED <<turns, sessions, approved, written, astray>>

RejectDelivery ==
    /\ pc = "deliverGate"
    /\ Save(SetPhase(chat, "DEVELOP"))
    /\ Leave(chat', "rejected")
    /\ UNCHANGED <<turns, sessions, approved, written, astray>>

\* The consistency test passes, fails, or throws out of the loop, which the
\* one of /consistency may do at the prompt as well.
ConsistencyPasses ==
    /\ pc = "consistency"
    /\ Save(SetPhase(chat, "DONE"))
    /\ Leave(chat', "done")
    /\ UNCHANGED <<turns, sessions, approved, written, astray>>

ConsistencyFails ==
    /\ pc = "consistency"
    /\ Save(SetPhase(chat, "DEVELOP"))
    /\ Leave(chat', "consistency-failure")
    /\ UNCHANGED <<turns, sessions, approved, written, astray>>

ConsistencyThrows ==
    /\ pc \in {"consistency", "prompt"}
    /\ pc' = "off"
    /\ UNCHANGED <<chat, saved>>
    /\ Quiet

\* /exit, /quit, or the end of the input: the CLI prints that the session is
\* saved.
Exit ==
    /\ pc = "prompt"
    /\ Leave(chat, "user-exit")
    /\ UNCHANGED <<chat, saved, turns, sessions, approved, written, astray>>

\* /save, /show, /rewind, /undo, /validate and /help only save.
SlashSave ==
    /\ pc = "prompt"
    /\ Save(chat)
    /\ pc' = "loop"
    /\ Quiet

\* An empty line, an unknown command, or /consistency: no state change.
SlashNothing ==
    /\ pc = "prompt"
    /\ pc' = "loop"
    /\ UNCHANGED <<chat, saved>>
    /\ Quiet

\* /back <phase>
SlashBack ==
    /\ pc = "prompt"
    /\ \E phase \in PayloadPhases : Save(SetPhase(chat, phase))
    /\ pc' = "loop"
    /\ Strays

\* advanceOnSkip
PhaseAfter(phase) ==
    CASE phase = "DISCOVER" -> "DEFINE"
      [] phase = "DEFINE"   -> "DEVELOP"
      [] phase = "DEVELOP"  -> "DELIVER"
      [] OTHER              -> "DONE"

\* /skip: the step into DELIVER asks about the delivery at once.
SlashSkip ==
    /\ pc = "prompt"
    /\ Save(SetPhase(chat, PhaseAfter(chat.phase)))
    /\ pc' = IF chat'.phase = "DELIVER" THEN "deliverGate" ELSE "loop"
    /\ Strays

\* The process dies, for one by Ctrl-C at a prompt.
Kill ==
    /\ pc # "off"
    /\ pc' = "off"
    /\ UNCHANGED <<chat, saved>>
    /\ astray' = (astray \/ pc = "developGate")
    /\ Idle

Init ==
    /\ chat = FreshSession
    /\ saved = FreshSession
    /\ pc = "off"
    /\ turns = 0
    /\ exit = "none"
    /\ sessions = 0
    /\ approved = {}
    /\ written = {}
    /\ astray = FALSE

Next ==
    \/ StartSession \/ NextTurn \/ TypeMessage \/ LLMFails \/ LLMReplies
    \/ DefineGate \/ ApproveDesign \/ RejectDesign
    \/ ApproveDelivery \/ RejectDelivery
    \/ ConsistencyPasses \/ ConsistencyFails \/ ConsistencyThrows
    \/ Exit \/ SlashSave \/ SlashNothing \/ SlashBack \/ SlashSkip
    \/ Kill

Spec == Init /\ [][Next]_vars
-----------------------------------------------------------------------------
\* The sessions and the process have their types.
TypeOK ==
    /\ chat \in Session /\ saved \in Session
    /\ pc \in Waits
    /\ turns \in Nat /\ sessions \in Nat
    /\ exit \in Exits
    /\ approved \in SUBSET Designs
    /\ written \in SUBSET Contents
    /\ astray \in BOOLEAN

\* What a process that dies while it waits for the user loses: at a prompt the
\* file is the session, or misses the model's last answer and what it proposed;
\* it is always in the same phase.
SaveLagsOneReply ==
    pc = "prompt" =>
        /\ saved.phase = chat.phase
        /\ \/ saved = chat
           \/ /\ chat.history = Append(saved.history, "assistant")
              /\ saved.roster = chat.roster \/ saved.design = chat.design

\* hooks.ts:157-158: "the LLM has designed the recipe; the user must approve
\* (or send back) before DELIVER": the recipes whose files were written were
\* approved, whatever was rejected, failed, ended or resumed in between, as long
\* as every step was from phase to phase.
DeliveredWasApproved == ~astray => written \subseteq approved \union {None}

\* ... and "done" is a pack whose files were written from the session's design.
DoneIsWritten == ~astray /\ chat.phase = "DONE" => chat.design \in written
=============================================================================
