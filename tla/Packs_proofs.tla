---------------------------- MODULE Packs_proofs ----------------------------
(***************************************************************************)
(* A pack on its way from a chat to a user's machine: what was approved    *)
(* before it was written (DesignChat), what its screening has looked at    *)
(* (Screening), and what a run finds of it where it is installed           *)
(* (LocalPacks).  For any designs and sessions, any trees and publishes,   *)
(* any pack directories, packs and runs.                                   *)
(***************************************************************************)
EXTENDS DesignChat, Screening, LocalPacks, SequenceTheorems, WellFoundedInduction, TLAPS

(* DesignChat: the session in memory and the session file                  *)

\* What the chat's operators do to a session.
LEMMA SayType ==
    ASSUME NEW c \in Session, NEW role \in Roles
    PROVE  /\ Say(c, role) \in Session
           /\ Say(c, role).phase = c.phase /\ Say(c, role).design = c.design
           /\ Say(c, role).roster = c.roster
           /\ Say(c, role).history = Append(c.history, role)
           /\ Len(Say(c, role).history) = Len(c.history) + 1
BY DEF Session, Say, Roles

LEMMA SetPhaseType ==
    ASSUME NEW c \in Session, NEW phase \in Phases
    PROVE  /\ SetPhase(c, phase) \in Session
           /\ SetPhase(c, phase).phase = phase /\ SetPhase(c, phase).design = c.design
           /\ SetPhase(c, phase).roster = c.roster
           /\ SetPhase(c, phase).history = c.history
BY DEF Session, SetPhase

LEMMA UnsayType ==
    ASSUME NEW c \in Session
    PROVE  /\ Unsay(c) \in Session
           /\ Unsay(c).phase = c.phase /\ Unsay(c).design = c.design
           /\ c.history # <<>> => Len(Unsay(c).history) = Len(c.history) - 1
<1> DEFINE rest == Front(c.history)
<1>1. c.history \in Seq(Roles)
  BY DEF Session
<1>2. rest \in Seq(Roles) /\ (c.history # <<>> => Len(rest) = Len(c.history) - 1)
  <2>1. rest = SubSeq(c.history, 1, Len(c.history) - 1)
    BY DEF Front
  <2>2. Len(c.history) \in Nat /\ (c.history # <<>> => Len(c.history) > 0)
    BY <1>1, EmptySeq
  <2>3. CASE c.history = <<>>
    BY <1>1, <2>1, <2>3, SubSeqProperties
  <2>4. CASE c.history # <<>>
    BY <1>1, <2>1, <2>2, <2>4, SubSeqProperties
  <2> QED
    BY <2>3, <2>4
<1>3. Unsay(c) = [c EXCEPT !.history = rest]
  BY DEF Unsay
<1> HIDE DEF rest
<1> QED
  BY <1>2, <1>3 DEF Session

LEMMA PayloadType ==
    ASSUME NEW c \in Session, NEW phase \in PayloadPhases, NEW finished \in BOOLEAN,
           NEW roster \in BOOLEAN, NEW design \in Contents,
           NEW next, next = ApplyPayload(c, phase, finished, roster, design)
    PROVE  /\ next \in Session
           /\ next.history = c.history
           /\ next.roster = c.roster \/ next.design = c.design
           /\ phase # "DEVELOP" => next.design = c.design
           /\ ~(finished /\ phase # "DELIVER") => next.phase = c.phase
           /\ finished /\ phase = "DISCOVER" => next.phase = "DEFINE"
           /\ finished /\ phase = "DEFINE" => next.phase = "DEVELOP"
           /\ finished /\ phase = "DEVELOP" => next.phase = "DELIVER"
<1>1. CASE phase = "DISCOVER"
  <2>1. next = IF finished THEN SetPhase(c, "DEFINE") ELSE c
    BY <1>1 DEF ApplyPayload
  <2> QED
    BY <1>1, <2>1, SetPhaseType DEF Phases
<1>2. CASE phase = "DEFINE"
  <2>1. next = [c EXCEPT !.roster = roster, !.phase = IF finished THEN "DEVELOP" ELSE c.phase]
    BY <1>2 DEF ApplyPayload
  <2> QED
    BY <1>2, <2>1 DEF Session, Phases
<1>3. CASE phase = "DEVELOP"
  <2>1. next = [c EXCEPT !.design = design, !.phase = IF finished THEN "DELIVER" ELSE c.phase]
    BY <1>3 DEF ApplyPayload
  <2> QED
    BY <1>3, <2>1 DEF Session, Phases
<1>4. CASE phase = "DELIVER"
  <2>1. next = c
    BY <1>4 DEF ApplyPayload
  <2> QED
    BY <1>4, <2>1
<1> QED
  BY <1>1, <1>2, <1>3, <1>4 DEF PayloadPhases, Phases

-----------------------------------------------------------------------------
(* What the file lags behind                                                *)

Lags ==
    /\ saved.phase = chat.phase
    /\ \/ saved = chat
       \/ /\ chat.history = Append(saved.history, "assistant")
          /\ saved.roster = chat.roster \/ saved.design = chat.design

\* Between a prompt and the model's answer the file is the session; what the
\* user is asked to approve is a design.
LagInv ==
    /\ pc \in {"loop", "prompt"} => Lags
    /\ pc \in {"llm", "bootstrap"} => saved = chat /\ chat.history # <<>>
    /\ pc = "developGate" => chat.design # None

\* A step that saves its session, with no message to be taken back.
LEMMA SavedStep ==
    ASSUME NEW c \in Session, Save(c), pc' \in Waits \ {"llm", "bootstrap", "developGate"}
    PROVE  chat' \in Session /\ saved' \in Session /\ LagInv'
BY DEF Save, LagInv, Lags

LEMMA TypeStep == TypeOK /\ LagInv /\ [Next]_vars => TypeOK' /\ LagInv'
<1> SUFFICES ASSUME TypeOK, LagInv, [Next]_vars PROVE TypeOK' /\ LagInv'
  OBVIOUS
<1> USE DEF TypeOK
<1>0. ASSUME NEW c \in Session, NEW how \in Exits, Leave(c, how)
      PROVE  pc' \in Waits \ {"llm", "bootstrap", "developGate", "loop", "prompt"} /\ exit' \in Exits
  BY <1>0 DEF Leave, Waits, Exits
<1>1. CASE StartSession
  <2>1. CASE saved.history = <<>>
    <3>1. Save(Say(saved, "user")) /\ pc' = "bootstrap"
      BY <1>1, <2>1 DEF StartSession
    <3>2. Len(Say(saved, "user").history) # 0
      <4>1. Len(saved.history) \in Nat
        BY DEF Session
      <4> QED
        BY <4>1, SayType DEF Roles
    <3>3. Say(saved, "user").history # <<>> /\ Say(saved, "user") \in Session
      BY <3>2, SayType DEF Roles
    <3> QED
      BY <1>1, <3>1, <3>3 DEF StartSession, Save, LagInv, Exits, Waits
  <2>2. CASE saved.history # <<>>
    BY <1>1, <2>2 DEF StartSession, LagInv, Lags, Exits, Waits
  <2> QED
    BY <2>1, <2>2
<1>2. CASE NextTurn
  <2>1. CASE pc' = "prompt" /\ turns' = turns + 1 /\ UNCHANGED exit
    BY <1>2, <2>1 DEF NextTurn, LagInv, Lags, Waits
  <2>2. CASE Leave(chat, "user-exit") /\ UNCHANGED turns
    BY <1>0, <1>2, <2>2 DEF NextTurn, LagInv, Exits
  <2> QED
    BY <1>2, <2>1, <2>2 DEF NextTurn
<1>3. CASE TypeMessage
  <2>1. Say(chat, "user") \in Session /\ Len(Say(chat, "user").history) # 0
    <3>1. Len(chat.history) \in Nat
      BY DEF Session
    <3> QED
      BY <3>1, SayType DEF Roles
  <2>2. Say(chat, "user").history # <<>>
    BY <2>1
  <2> QED
    BY <1>3, <2>1, <2>2 DEF TypeMessage, Save, Quiet, Idle, LagInv, Waits
<1>4. CASE LLMFails
  <2>1. pc' = "loop" /\ Save(Unsay(chat)) /\ Unsay(chat) \in Session
    BY <1>4, UnsayType DEF LLMFails
  <2> QED
    BY <1>4, <2>1, SavedStep DEF LLMFails, Quiet, Idle, Waits
<1>5. CASE LLMReplies
  <2>1. PICK phase \in PayloadPhases, finished \in BOOLEAN, roster \in BOOLEAN, design \in Contents :
          LET next == ApplyPayload(Say(chat, "assistant"), phase, finished, roster, design)
          IN  /\ astray' = (astray \/ phase # chat.phase)
              /\ IF pc = "bootstrap"
                   THEN Save(next) /\ pc' = "loop"
                   ELSE /\ chat' = next
                        /\ saved' = IF finished /\ phase # "DELIVER" THEN next ELSE saved
                        /\ pc' = GateAfter(next, phase, finished)
    BY <1>5 DEF LLMReplies
  <2> DEFINE said == Say(chat, "assistant")
             next == ApplyPayload(said, phase, finished, roster, design)
  <2>2. /\ said \in Session /\ said.phase = chat.phase /\ said.design = chat.design
        /\ said.roster = chat.roster
        /\ said.history = Append(chat.history, "assistant")
    BY SayType DEF Roles
  <2>3. /\ next \in Session /\ next.history = Append(chat.history, "assistant")
        /\ next.roster = chat.roster \/ next.design = chat.design
        /\ ~(finished /\ phase # "DELIVER") => next.phase = chat.phase
    <3> DEFINE n == next
    <3>1. n = ApplyPayload(said, phase, finished, roster, design)
      OBVIOUS
    <3> HIDE DEF said, n
    <3>2. /\ n \in Session /\ n.history = said.history
          /\ n.roster = said.roster \/ n.design = said.design
          /\ ~(finished /\ phase # "DELIVER") => n.phase = said.phase
      BY <2>2, <3>1, PayloadType
    <3> QED
      BY <2>2, <3>2 DEF n
  <2>4. /\ astray' \in BOOLEAN /\ saved = chat /\ UNCHANGED <<turns, exit, sessions, approved, written>>
        /\ pc \in {"llm", "bootstrap"}
    BY <1>5, <2>1 DEF LLMReplies, Idle, LagInv
  <2>5. /\ GateAfter(next, phase, finished) \in Waits \ {"llm", "bootstrap"}
        /\ GateAfter(next, phase, finished) = "developGate" => next.design # None
    BY DEF GateAfter, Waits
  <2>6. CASE pc = "bootstrap"
    <3>1. Save(next) /\ pc' = "loop"
      BY <2>1, <2>6
    <3> HIDE DEF next
    <3> QED
      BY <2>3, <2>4, <3>1, SavedStep DEF Waits
  <2>7. CASE pc # "bootstrap"
    <3>1. /\ chat' = next
          /\ saved' = IF finished /\ phase # "DELIVER" THEN next ELSE saved
          /\ pc' \in Waits \ {"llm", "bootstrap"} /\ (pc' = "developGate" => next.design # None)
      BY <2>1, <2>5, <2>7
    <3> HIDE DEF next
    <3> QED
      BY <2>3, <2>4, <3>1 DEF LagInv, Lags
  <2> QED
    BY <2>6, <2>7
<1>6. CASE DefineGate
  <2>1. PICK phase \in {"DEVELOP", "DEFINE"} : Save(Say(SetPhase(chat, phase), "user"))
    BY <1>6 DEF DefineGate
  <2>2. Say(SetPhase(chat, phase), "user") \in Session
    BY SayType, SetPhaseType DEF Roles, Phases
  <2> QED
    BY <1>6, <2>1, <2>2, SavedStep DEF DefineGate, Quiet, Idle, Waits
<1>7. CASE ApproveDesign
  <2>1. Say(chat, "user") \in Session
    BY SayType DEF Roles
  <2>2. chat.design \in Designs
    BY <1>7 DEF ApproveDesign, LagInv, Session, Contents
  <2> QED
    BY <1>7, <2>1, <2>2, SavedStep DEF ApproveDesign, Waits
<1>8. CASE RejectDesign
  <2>1. Say(SetPhase(chat, "DEVELOP"), "user") \in Session
    BY SayType, SetPhaseType DEF Roles, Phases
  <2> QED
    BY <1>8, <2>1, SavedStep DEF RejectDesign, Quiet, Idle, Waits
<1>9. CASE ApproveDelivery
  <2>1. written' \in SUBSET Contents /\ UNCHANGED <<turns, sessions, approved, astray>>
    BY <1>9 DEF ApproveDelivery, Session
  <2>2. CASE pc' = "consistency" /\ UNCHANGED <<chat, saved, exit>>
    BY <2>1, <2>2 DEF LagInv, Waits
  <2>3. CASE Save(SetPhase(chat, "DONE")) /\ Leave(chat', "done")
    <3>1. chat' \in Session /\ SetPhase(chat, "DONE") \in Session
      BY <2>3, SetPhaseType DEF Save, Phases
    <3>2. pc' \in Waits \ {"llm", "bootstrap", "developGate"} /\ exit' \in Exits
      BY <1>0, <2>3, <3>1 DEF Exits
    <3> QED
      BY <2>1, <2>3, <3>1, <3>2, SavedStep
  <2> QED
    BY <1>9, <2>2, <2>3 DEF ApproveDelivery
<1>10. CASE RejectDelivery \/ ConsistencyPasses \/ ConsistencyFails
  <2>1. PICK phase \in Phases, how \in Exits : Save(SetPhase(chat, phase)) /\ Leave(chat', how)
    BY <1>10 DEF RejectDelivery, ConsistencyPasses, ConsistencyFails, Phases, Exits
  <2>2. chat' \in Session /\ SetPhase(chat, phase) \in Session
    BY <2>1, SetPhaseType DEF Save
  <2>3. pc' \in Waits \ {"llm", "bootstrap", "developGate"} /\ exit' \in Exits
    BY <1>0, <2>1, <2>2
  <2> QED
    BY <1>10, <2>1, <2>2, <2>3, SavedStep DEF RejectDelivery, ConsistencyPasses, ConsistencyFails
<1>11. CASE SlashSave
  BY <1>11, SavedStep DEF SlashSave, Quiet, Idle, Waits
<1>12. CASE SlashBack \/ SlashSkip
  <2>1. PICK phase \in Phases : Save(SetPhase(chat, phase))
    <3>1. PhaseAfter(chat.phase) \in Phases
      BY DEF PhaseAfter, Phases
    <3> QED
      BY <1>12, <3>1 DEF SlashBack, SlashSkip, PayloadPhases
  <2>2. SetPhase(chat, phase) \in Session
    BY SetPhaseType
  <2> QED
    BY <1>12, <2>1, <2>2, SavedStep DEF SlashBack, SlashSkip, Strays, Idle, Waits
<1>13. CASE ConsistencyThrows \/ SlashNothing \/ Kill
  BY <1>13 DEF ConsistencyThrows, SlashNothing, Kill, Quiet, Idle, LagInv, Lags, Waits
<1>14. CASE Exit
  BY <1>0, <1>14 DEF Exit, LagInv, Exits
<1>15. CASE UNCHANGED vars
  BY <1>15 DEF vars, LagInv, Lags
<1> QED
  BY <1>1, <1>2, <1>3, <1>4, <1>5, <1>6, <1>7, <1>8, <1>9, <1>10, <1>11, <1>12, <1>13, <1>14,
     <1>15 DEF Next

THEOREM ChatTypes == Spec => [](TypeOK /\ LagInv)
<1>1. Init => TypeOK /\ LagInv
  <2>1. FreshSession \in Session
    BY DEF FreshSession, Session, Phases, Contents
  <2> SUFFICES ASSUME Init PROVE TypeOK /\ LagInv
    OBVIOUS
  <2>2. pc = "off"
    BY DEF Init
  <2>3. LagInv
    BY <2>2 DEF LagInv
  <2>4. TypeOK
    BY <2>1, <2>2 DEF Init, TypeOK, Waits, Exits
  <2> QED
    BY <2>3, <2>4
<1> QED
  BY <1>1, TypeStep, PTL DEF Spec

\* A process that dies while it waits for the user loses at most the model's
\* last answer, and never the phase.
THEOREM OneReplyIsLost == Spec => []SaveLagsOneReply
<1>1. LagInv => SaveLagsOneReply
  BY DEF LagInv, Lags, SaveLagsOneReply
<1> QED
  BY <1>1, ChatTypes, PTL

-----------------------------------------------------------------------------
(* From phase to phase                                                      *)

Cleared == approved \union {None}

\* A session whose delivery may be asked about has a design that was approved,
\* one that is done has one that was written; only a fresh one has no history,
\* which is why the brief is never answered past DISCOVER.
SessionOK(c) ==
    /\ c.phase = "DELIVER" => c.design \in Cleared \/ pc = "developGate"
    /\ c.phase = "DONE" => c.design \in written
    /\ c.phase # "DISCOVER" => c.history # <<>>
OnPath ==
    /\ SessionOK(chat) /\ SessionOK(saved)
    /\ written \subseteq Cleared
    /\ pc = "llm" /\ chat.phase # "DISCOVER" => Len(chat.history) > 1
    /\ pc = "bootstrap" => chat.phase = "DISCOVER"
    /\ pc = "deliverGate" => chat.design \in Cleared
    /\ pc = "consistency" => chat.design \in written
    /\ pc \in {"deliverGate", "consistency"} => chat.history # <<>>
PathInv == ~astray => OnPath

LEMMA SavedOnPath ==
    ASSUME NEW c \in Session, Save(c), c.phase # "DISCOVER" => c.history # <<>>,
           c.phase = "DELIVER" => c.design \in Cleared',
           c.phase = "DONE" => c.design \in written',
           written' \subseteq Cleared',
           \/ pc' \in {"loop", "off"}
           \/ pc' = "deliverGate" /\ c.design \in Cleared' /\ c.history # <<>>
    PROVE  OnPath'
BY DEF Save, OnPath, SessionOK

\* What was said is not nothing.
LEMMA SaidSomething ==
    ASSUME NEW c \in Session, NEW role \in Roles
    PROVE  Say(c, role).history # <<>>
<1>1. Len(c.history) \in Nat
  BY DEF Session
<1>2. Len(Say(c, role).history) # 0
  BY <1>1, SayType
<1> QED
  BY <1>2

LEMMA PathStep == TypeOK /\ LagInv /\ PathInv /\ [Next]_vars => PathInv'
<1> SUFFICES ASSUME TypeOK, LagInv, PathInv, [Next]_vars, ~astray' PROVE OnPath'
  BY DEF PathInv
<1>0. chat \in Session /\ saved \in Session
  BY DEF TypeOK
<1>1. CASE StartSession
  <2>1. OnPath /\ UNCHANGED <<approved, written>>
    BY <1>1 DEF StartSession, PathInv
  <2>2. CASE saved.history = <<>>
    <3>1. Save(Say(saved, "user")) /\ pc' = "bootstrap" /\ saved.phase = "DISCOVER"
      BY <1>1, <2>1, <2>2 DEF StartSession, OnPath, SessionOK
    <3>2. Say(saved, "user").phase = "DISCOVER"
      BY <1>0, <3>1, SayType DEF Roles
    <3> QED
      BY <2>1, <3>1, <3>2 DEF Save, OnPath, SessionOK, Cleared
  <2>3. CASE saved.history # <<>>
    <3>1. chat' = saved /\ saved' = saved /\ pc' = "loop" /\ pc = "off"
      BY <1>1, <2>3 DEF StartSession
    <3> QED
      BY <2>1, <3>1 DEF OnPath, SessionOK, Cleared
  <2> QED
    BY <2>2, <2>3
<1>2. CASE NextTurn
  <2>1. OnPath /\ UNCHANGED <<chat, saved, approved, written>> /\ pc = "loop"
        /\ pc' \in {"prompt", "off"}
    BY <1>2 DEF NextTurn, PathInv, Leave
  <2> QED
    BY <2>1 DEF OnPath, SessionOK, Cleared
<1>3. CASE TypeMessage
  <2>1. OnPath /\ UNCHANGED <<approved, written>> /\ pc = "prompt" /\ pc' = "llm"
        /\ Save(Say(chat, "user"))
    BY <1>3 DEF TypeMessage, Quiet, Idle, PathInv
  <2>2. /\ chat' = Say(chat, "user") /\ saved' = chat'
        /\ chat'.phase = chat.phase /\ chat'.design = chat.design
        /\ Len(chat'.history) = Len(chat.history) + 1
        /\ chat'.history # <<>>
    BY <1>0, <2>1, SayType, SaidSomething DEF Save, Roles
  <2>3. chat.phase # "DISCOVER" => Len(chat.history) > 0
    BY <1>0, <2>1, EmptySeq DEF OnPath, SessionOK, Session
  <2>4. chat'.phase # "DISCOVER" => Len(chat'.history) > 1
    <3>1. Len(chat.history) \in Nat
      BY <1>0 DEF Session
    <3> QED
      BY <2>2, <2>3, <3>1
  <2> QED
    BY <2>1, <2>2, <2>4 DEF OnPath, SessionOK, Cleared
<1>4. CASE LLMFails
  <2>1. OnPath /\ UNCHANGED <<approved, written>> /\ pc' = "loop" /\ Save(Unsay(chat))
        /\ pc \in {"llm", "bootstrap"} /\ chat.history # <<>>
    BY <1>4 DEF LLMFails, Quiet, Idle, PathInv, LagInv
  <2>2. /\ Unsay(chat) \in Session /\ Unsay(chat).phase = chat.phase
        /\ Unsay(chat).design = chat.design
        /\ Len(Unsay(chat).history) = Len(chat.history) - 1
    BY <1>0, <2>1, UnsayType
  <2>3. Unsay(chat).phase # "DISCOVER" => Unsay(chat).history # <<>>
    <3> SUFFICES ASSUME chat.phase # "DISCOVER" PROVE Unsay(chat).history # <<>>
      BY <2>2
    <3>1. Len(chat.history) > 1 /\ Len(chat.history) \in Nat
      BY <1>0, <2>1 DEF OnPath, Session
    <3>2. \A n \in Nat : n > 1 => n - 1 # 0
      OBVIOUS
    <3>3. Len(Unsay(chat).history) # 0
      BY <2>2, <3>1, <3>2
    <3> QED
      BY <3>3
  <2> QED
    BY <2>1, <2>2, <2>3, SavedOnPath DEF OnPath, SessionOK, Cleared
<1>5. CASE LLMReplies
  <2>1. PICK phase \in PayloadPhases, finished \in BOOLEAN, roster \in BOOLEAN, design \in Contents :
          LET next == ApplyPayload(Say(chat, "assistant"), phase, finished, roster, design)
          IN  /\ astray' = (astray \/ phase # chat.phase)
              /\ IF pc = "bootstrap"
                   THEN Save(next) /\ pc' = "loop"
                   ELSE /\ chat' = next
                        /\ saved' = IF finished /\ phase # "DELIVER" THEN next ELSE saved
                        /\ pc' = GateAfter(next, phase, finished)
    BY <1>5 DEF LLMReplies
  <2>2. OnPath /\ UNCHANGED <<approved, written>> /\ pc \in {"llm", "bootstrap"}
        /\ phase = chat.phase /\ saved = chat
    BY <1>5, <2>1 DEF LLMReplies, Idle, PathInv, LagInv
  <2> DEFINE said == Say(chat, "assistant")
             next == ApplyPayload(said, phase, finished, roster, design)
  <2>3. /\ said \in Session /\ said.phase = chat.phase /\ said.design = chat.design
        /\ said.roster = chat.roster /\ said.history # <<>>
    BY <1>0, SayType, SaidSomething DEF Roles
  <2>4. /\ next = ApplyPayload(said, phase, finished, roster, design)
        /\ pc = "bootstrap" => Save(next) /\ pc' = "loop"
        /\ pc # "bootstrap" => /\ chat' = next
                               /\ saved' = IF finished /\ phase # "DELIVER" THEN next ELSE saved
                               /\ pc' = GateAfter(next, phase, finished)
    BY <2>1
  <2> HIDE DEF said, next
  <2>5. /\ next \in Session /\ next.history # <<>>
        /\ phase # "DEVELOP" => next.design = chat.design
        /\ ~(finished /\ phase # "DELIVER") => next.phase = chat.phase
        /\ finished /\ phase = "DISCOVER" => next.phase = "DEFINE"
        /\ finished /\ phase = "DEFINE" => next.phase = "DEVELOP"
        /\ finished /\ phase = "DEVELOP" => next.phase = "DELIVER"
    <3>1. /\ next \in Session /\ next.history = said.history
          /\ phase # "DEVELOP" => next.design = said.design
          /\ ~(finished /\ phase # "DELIVER") => next.phase = said.phase
          /\ finished /\ phase = "DISCOVER" => next.phase = "DEFINE"
          /\ finished /\ phase = "DEFINE" => next.phase = "DEVELOP"
          /\ finished /\ phase = "DEVELOP" => next.phase = "DELIVER"
      BY <2>3, <2>4, PayloadType
    <3> QED
      BY <2>3, <3>1
  <2>6. next.phase # "DONE"
    BY <2>2, <2>5 DEF PayloadPhases, Phases
  <2>7. CASE pc = "bootstrap"
    <3>1. next.phase # "DELIVER"
      BY <2>2, <2>5, <2>7 DEF OnPath
    <3> QED
      BY <2>2, <2>4, <2>5, <2>6, <2>7, <3>1, SavedOnPath DEF OnPath, Cleared
  <2>8. CASE pc # "bootstrap"
    <3>1. next.phase = "DELIVER" => next.design \in Cleared \/ pc' = "developGate"
      <4>1. CASE finished /\ phase = "DEVELOP"
        BY <2>4, <2>8, <4>1 DEF GateAfter, Cleared
      <4>2. CASE ~(finished /\ phase = "DEVELOP")
        BY <2>2, <2>5, <4>2 DEF OnPath, SessionOK, PayloadPhases, Phases
      <4> QED
        BY <4>1, <4>2
    <3>2. pc' \in {"defineGate", "developGate", "deliverGate", "loop"}
          /\ (pc' = "deliverGate" => next.phase = "DELIVER")
      BY <2>4, <2>8 DEF GateAfter
    <3>3. SessionOK(chat)'
      BY <2>2, <2>4, <2>5, <2>6, <2>8, <3>1 DEF SessionOK, Cleared
    <3>4. SessionOK(saved)'
      <4>1. CASE finished /\ phase # "DELIVER"
        BY <2>4, <2>8, <3>3, <4>1 DEF SessionOK
      <4>2. CASE ~(finished /\ phase # "DELIVER")
        <5>1. UNCHANGED saved /\ pc # "developGate"
          BY <2>2, <2>4, <2>8, <4>2
        <5> QED
          BY <2>2, <5>1 DEF SessionOK, OnPath, Cleared
      <4> QED
        BY <4>1, <4>2
    <3> QED
      BY <2>2, <2>4, <2>5, <2>8, <3>1, <3>2, <3>3, <3>4 DEF OnPath, Cleared
  <2> QED
    BY <2>7, <2>8
<1>6. CASE DefineGate
  <2>1. PICK phase \in {"DEVELOP", "DEFINE"} : Save(Say(SetPhase(chat, phase), "user"))
    BY <1>6 DEF DefineGate
  <2> DEFINE c == Say(SetPhase(chat, phase), "user")
  <2>2. c \in Session /\ c.phase = phase /\ c.history # <<>>
    <3>1. SetPhase(chat, phase) \in Session /\ SetPhase(chat, phase).phase = phase
      BY <1>0, SetPhaseType DEF Phases
    <3> QED
      BY <3>1, SayType, SaidSomething DEF Roles
  <2>3. OnPath /\ UNCHANGED <<approved, written>> /\ pc' = "loop"
    BY <1>6 DEF DefineGate, Quiet, Idle, PathInv
  <2> HIDE DEF c
  <2> QED
    BY <2>1, <2>2, <2>3, SavedOnPath DEF OnPath, Cleared, c
<1>7. CASE ApproveDesign
  <2> DEFINE c == Say(chat, "user")
  <2>1. /\ OnPath /\ Save(c) /\ pc' = "deliverGate" /\ UNCHANGED written
        /\ approved' = approved \union {chat.design}
    BY <1>7 DEF ApproveDesign, PathInv
  <2>2. c \in Session /\ c.phase = chat.phase /\ c.design = chat.design /\ c.history # <<>>
    BY <1>0, SayType, SaidSomething DEF Roles
  <2> HIDE DEF c
  <2> QED
    BY <2>1, <2>2, SavedOnPath DEF OnPath, SessionOK, Cleared
<1>8. CASE RejectDesign
  <2> DEFINE c == Say(SetPhase(chat, "DEVELOP"), "user")
  <2>1. OnPath /\ Save(c) /\ pc' = "loop" /\ UNCHANGED <<approved, written>>
    BY <1>8 DEF RejectDesign, Quiet, Idle, PathInv
  <2>2. c \in Session /\ c.phase = "DEVELOP" /\ c.history # <<>>
    <3>1. SetPhase(chat, "DEVELOP") \in Session /\ SetPhase(chat, "DEVELOP").phase = "DEVELOP"
      BY <1>0, SetPhaseType DEF Phases
    <3> QED
      BY <3>1, SayType, SaidSomething DEF Roles
  <2> HIDE DEF c
  <2> QED
    BY <2>1, <2>2, SavedOnPath DEF OnPath, Cleared
<1>9. CASE ApproveDelivery
  <2>1. /\ OnPath /\ written' = written \union {chat.design} /\ UNCHANGED approved
        /\ pc = "deliverGate" /\ chat.design \in Cleared
    BY <1>9 DEF ApproveDelivery, PathInv, OnPath
  <2>2. CASE chat.design = None
    <3> DEFINE c == SetPhase(chat, "DONE")
    <3>1. Save(c) /\ pc' = "off"
      BY <1>9, <2>2 DEF ApproveDelivery, Leave
    <3>2. c \in Session /\ c.phase = "DONE" /\ c.design = chat.design /\ c.history = chat.history
      BY <1>0, SetPhaseType DEF Phases
    <3> HIDE DEF c
    <3> QED
      BY <2>1, <2>2, <3>1, <3>2, SavedOnPath DEF OnPath, Cleared
  <2>3. CASE chat.design # None
    <3>1. pc' = "consistency" /\ UNCHANGED <<chat, saved>>
      BY <1>9, <2>3 DEF ApproveDelivery
    <3> QED
      BY <2>1, <3>1 DEF OnPath, SessionOK, Cleared
  <2> QED
    BY <2>2, <2>3
<1>10. CASE RejectDelivery \/ ConsistencyFails
  <2> DEFINE c == SetPhase(chat, "DEVELOP")
  <2>1. /\ OnPath /\ Save(c) /\ pc' = "off" /\ UNCHANGED <<approved, written>>
        /\ chat.history # <<>>
    BY <1>10 DEF RejectDelivery, ConsistencyFails, Leave, PathInv, OnPath
  <2>2. c \in Session /\ c.phase = "DEVELOP" /\ c.history = chat.history
    BY <1>0, SetPhaseType DEF Phases
  <2> HIDE DEF c
  <2> QED
    BY <2>1, <2>2, SavedOnPath DEF OnPath, Cleared
<1>11. CASE ConsistencyPasses
  <2> DEFINE c == SetPhase(chat, "DONE")
  <2>1. /\ OnPath /\ Save(c) /\ pc' = "off" /\ UNCHANGED <<approved, written>>
        /\ chat.history # <<>> /\ chat.design \in written
    BY <1>11 DEF ConsistencyPasses, Leave, PathInv, OnPath
  <2>2. c \in Session /\ c.phase = "DONE" /\ c.history = chat.history /\ c.design = chat.design
    BY <1>0, SetPhaseType DEF Phases
  <2> HIDE DEF c
  <2> QED
    BY <2>1, <2>2, SavedOnPath DEF OnPath, Cleared
<1>12. CASE SlashSave
  <2>1. OnPath /\ Save(chat) /\ pc' = "loop" /\ pc = "prompt" /\ UNCHANGED <<approved, written>>
    BY <1>12 DEF SlashSave, Quiet, Idle, PathInv
  <2> QED
    BY <1>0, <2>1, SavedOnPath DEF OnPath, SessionOK, Cleared
<1>13. CASE ConsistencyThrows \/ SlashNothing \/ Kill \/ Exit
  <2>1. /\ OnPath /\ UNCHANGED <<chat, saved, approved, written>>
        /\ pc' \in {"loop", "off"} /\ pc # "developGate"
    BY <1>13 DEF ConsistencyThrows, SlashNothing, Kill, Exit, Leave, Quiet, Idle, PathInv
  <2> QED
    BY <2>1 DEF OnPath, SessionOK, Cleared
<1>14. CASE SlashBack \/ SlashSkip
  BY <1>14 DEF SlashBack, SlashSkip, Strays
<1>15. CASE UNCHANGED vars
  BY <1>15 DEF vars, PathInv, OnPath, SessionOK, Cleared
<1> QED
  BY <1>1, <1>2, <1>3, <1>4, <1>5, <1>6, <1>7, <1>8, <1>9, <1>10, <1>11, <1>12, <1>13, <1>14,
     <1>15 DEF Next

LEMMA ChatOnPath == Spec => []PathInv
<1>1. Init => PathInv
  BY DEF Init, FreshSession, PathInv, OnPath, SessionOK, Cleared
<1> QED
  BY <1>1, ChatTypes, PathStep, PTL DEF Spec

\* Whatever was rejected, failed, killed or resumed in between, no design was
\* written that had not been approved, as long as every step was from phase to
\* phase.
THEOREM WrittenWasApproved == Spec => []DeliveredWasApproved
<1>1. PathInv => DeliveredWasApproved
  BY DEF PathInv, OnPath, Cleared, DeliveredWasApproved
<1> QED
  BY <1>1, ChatOnPath, PTL

\* ... and a session that is done had the files of its design written.
THEOREM DoneHasFiles == Spec => []DoneIsWritten
<1>1. PathInv => DoneIsWritten
  BY DEF PathInv, OnPath, SessionOK, DoneIsWritten
<1> QED
  BY <1>1, ChatOnPath, PTL

-----------------------------------------------------------------------------
(* Screening: the rows of one version, over any trees and publishes         *)

ManifestTrees == Trees \union {NoTree}
OutputFiles ==
    {<<"preview">>} \union
    UNION {UNION {tree.recipes[i].writes : i \in Recipes(tree)} : tree \in Trees}
PreviewEntries ==
    [recipe : RecipeIds, status : {"needs-llm", "screened", "timed-out", "failed"},
     files : SUBSET OutputFiles]
Verdicts == {"none", "failed", "unverified", "screened"}
JobSteps == {"idle", "scan", "dry-run", "validate", "verdict", "tier", "load", "ready",
             "crash", "failed"}

ScreenTypeOK ==
    /\ version \in [status : {"none", "pending", "ingesting", "ready", "failed"},
                    tree : ManifestTrees, public : BOOLEAN]
    /\ job \in [at : JobSteps, tree : ManifestTrees, per : Seq(PreviewEntries),
                reason : {"none", "timeout", "failure"}, verdict : Verdicts]
    /\ result \in [verdict : Verdicts, per : Seq(PreviewEntries), tree : ManifestTrees]
    /\ previews \in [RecipeIds -> [state : {"none", "rendered", "needs-llm", "timed-out", "failed"},
                                   files : SUBSET OutputFiles, tree : ManifestTrees]]

\* The dry run has come to the recipes in their order, and reported of each
\* what it can do.
Reported(tree, per) ==
    /\ Len(per) <= Len(tree.recipes)
    /\ \A i \in 1..Len(per) :
         /\ per[i].recipe = tree.recipes[i].id
         /\ tree.recipes[i].reasoning \/ per[i].status \in Outcomes(tree.recipes[i])

\* ... and nothing that fails a version, or leaves it unverified.
NothingFailed(per) == \A i \in 1..Len(per) : per[i].status \notin {"timed-out", "failed"}

\* What `screened` means.
ServesClean(tree, per) ==
    /\ Findings(tree) = {}
    /\ \A i \in Recipes(tree) :
         \/ tree.recipes[i].reasoning
         \/ /\ per[i].status = "screened"
            /\ \A f \in per[i].files : Matches(f, tree.recipes[i].patterns)
            /\ tree.recipes[i].ends = "returns" /\ tree.recipes[i].tsc # "fails"

\* A verdict that lets a version pass, and what it was reached on.
Passes(tree, per, verdict) ==
    /\ Len(per) = Len(tree.recipes)
    /\ Reported(tree, per)
    /\ verdict = "screened" => ServesClean(tree, per)

\* The row is of this tree, and lets it pass.
Settled(tree) == result.tree = tree /\ Passes(tree, result.per, result.verdict)

\* What the job knows at each of its steps, and a version that is served.
JobKnows ==
    /\ ~At("idle") => version.status = "ingesting" /\ job.tree = version.tree
    /\ IF version.status = "none" THEN ~version.public ELSE version.tree \in Trees
    /\ ~version.public => /\ result = NoResult
                          /\ job.at \notin {"dry-run", "validate", "verdict", "tier"}
    /\ At("scan") => job.per = <<>> /\ job.reason = "none"
    /\ job.at \in {"dry-run", "validate"} =>
         /\ Findings(job.tree) = {} /\ Reported(job.tree, job.per)
         /\ job.reason = "none" => NothingFailed(job.per)
    /\ At("validate") => job.reason = "none" /\ Len(job.per) = Len(job.tree.recipes)
    /\ job.at \in {"verdict", "tier"} /\ job.verdict # "failed" =>
         Passes(job.tree, job.per, job.verdict)
    /\ At("tier") => result = VerdictRow
    /\ version.public /\ (job.at \in {"load", "ready"} \/ Ready) => Settled(version.tree)

ScreenInv == ScreenTypeOK /\ JobKnows

\* The previews of the recipes reported so far are those of the report.
Kept(tree, per) == \A i \in 1..Len(per) : previews[per[i].recipe] = RowOf(per[i], tree)

PreviewsKept ==
    /\ job.at \in {"dry-run", "validate", "verdict", "tier"} => Kept(job.tree, job.per)
    /\ version.public /\ (job.at \in {"load", "ready"} \/ Ready) => Kept(version.tree, result.per)

\* The job is at a recipe of its tree.
LEMMA AtRecipe ==
    ASSUME ScreenInv, MoreRecipes
    PROVE  /\ job.tree \in Trees /\ version.status = "ingesting" /\ version.public
           /\ Len(job.per) \in Nat /\ Len(job.per) + 1 \in Recipes(job.tree)
           /\ NextRecipe = job.tree.recipes[Len(job.per) + 1]
           /\ NextRecipe.id \in RecipeIds
<1>1. At("dry-run") /\ Len(job.per) < Len(job.tree.recipes) /\ job.per \in Seq(PreviewEntries)
  BY DEF MoreRecipes, ScreenInv, ScreenTypeOK
<1>2. version.status = "ingesting" /\ job.tree = version.tree /\ version.public
  BY <1>1 DEF ScreenInv, JobKnows, At
<1>3. job.tree \in Trees
  BY <1>2 DEF ScreenInv, JobKnows
<1>4. Len(job.per) \in Nat /\ Len(job.tree.recipes) \in Nat
  BY <1>1, <1>3, ScreenAssumption
<1>5. Len(job.per) + 1 \in Recipes(job.tree)
  BY <1>1, <1>4 DEF Recipes
<1> QED
  BY <1>1, <1>2, <1>3, <1>4, <1>5, ScreenAssumption DEF NextRecipe, Recipes

\* What the files of a report can be.
LEMMA FilesTyped ==
    ASSUME NEW tree \in Trees, NEW i \in Recipes(tree)
    PROVE  /\ SentinelFiles(tree.recipes[i]) \subseteq OutputFiles
           /\ Written(tree.recipes[i]) \subseteq OutputFiles
<1>1. SentinelFiles(tree.recipes[i]) \subseteq OutputFiles
  BY DEF SentinelFiles, NoFiles, OutputFiles
<1>2. Written(tree.recipes[i]) \subseteq tree.recipes[i].writes
  BY DEF Written
<1>3. tree.recipes[i].writes \subseteq OutputFiles
  BY DEF OutputFiles
<1> QED
  BY <1>1, <1>2, <1>3

\* What a report says of the next recipe.
ReportOf(entry, reason, recipe) ==
    /\ entry.recipe = recipe.id
    /\ recipe.reasoning \/ entry.status \in Outcomes(recipe)
    /\ reason = "none" => entry.status \notin {"timed-out", "failed"}

LEMMA DryRunReports ==
    ASSUME ScreenInv, DryRunReasoning \/ DryRunRecipe
    PROVE  \E entry \in PreviewEntries, reason \in {"none", "timeout", "failure"} :
             MoreRecipes /\ Report(entry, reason) /\ ReportOf(entry, reason, NextRecipe)
<1>0. MoreRecipes
  BY DEF DryRunReasoning, DryRunRecipe
<1> DEFINE recipe == NextRecipe
<1>1. /\ recipe.id \in RecipeIds
      /\ SentinelFiles(recipe) \subseteq OutputFiles /\ Written(recipe) \subseteq OutputFiles
  BY <1>0, AtRecipe, FilesTyped
<1> HIDE DEF recipe
<1>2. ASSUME NEW status \in {"needs-llm", "screened", "timed-out", "failed"},
             NEW files \in SUBSET OutputFiles
      PROVE  /\ Entry(recipe, status, files) \in PreviewEntries
             /\ Entry(recipe, status, files).recipe = recipe.id
             /\ Entry(recipe, status, files).status = status
  BY <1>1 DEF Entry, PreviewEntries
<1>3. CASE DryRunReasoning
  <2>1. PICK kept \in SUBSET SentinelFiles(recipe) :
          Report(Entry(recipe, "needs-llm", kept), "none")
    BY <1>3 DEF DryRunReasoning, Captures, recipe
  <2>2. recipe.reasoning
    BY <1>3 DEF DryRunReasoning, recipe
  <2>3. kept \in SUBSET OutputFiles
    BY <1>1
  <2> DEFINE entry == Entry(recipe, "needs-llm", kept)
  <2>4. entry \in PreviewEntries /\ entry.recipe = recipe.id /\ entry.status = "needs-llm"
    BY <1>2, <2>3
  <2> HIDE DEF entry
  <2>5. ReportOf(entry, "none", recipe)
    BY <2>2, <2>4 DEF ReportOf
  <2> QED
    BY <1>0, <2>1, <2>4, <2>5 DEF entry, recipe
<1>4. CASE DryRunRecipe
  <2>1. PICK outcome \in Outcomes(recipe) :
         LET files == IF outcome = "screened" THEN Written(recipe) ELSE NoFiles IN
           \E kept \in Captures(files, MaxDrops - used.drops) :
             Report(Entry(recipe, outcome, kept),
                    CASE outcome = "timed-out" -> "timeout"
                      [] outcome = "failed" -> "failure"
                      [] OTHER -> "none")
    BY <1>4 DEF DryRunRecipe, recipe
  <2> DEFINE files == IF outcome = "screened" THEN Written(recipe) ELSE NoFiles
             reason == CASE outcome = "timed-out" -> "timeout"
                         [] outcome = "failed" -> "failure"
                         [] OTHER -> "none"
  <2>2. PICK kept \in SUBSET files : Report(Entry(recipe, outcome, kept), reason)
    BY <2>1 DEF Captures
  <2>3. files \subseteq OutputFiles
    BY <1>1 DEF NoFiles
  <2>4. outcome \in {"screened", "timed-out", "failed"}
    BY DEF Outcomes
  <2>5. /\ reason \in {"none", "timeout", "failure"}
        /\ reason = "none" => outcome \notin {"timed-out", "failed"}
    BY <2>4
  <2> DEFINE entry == Entry(recipe, outcome, kept)
  <2>6. entry \in PreviewEntries /\ entry.recipe = recipe.id /\ entry.status = outcome
    BY <1>2, <2>3, <2>4
  <2> HIDE DEF entry, reason
  <2>7. ReportOf(entry, reason, recipe)
    BY <2>5, <2>6 DEF ReportOf
  <2> QED
    BY <1>0, <2>2, <2>5, <2>6, <2>7 DEF entry, recipe
<1> QED
  BY <1>3, <1>4

\* A report adds to what the job knows.
LEMMA ReportedMore ==
    ASSUME NEW tree, NEW per \in Seq(PreviewEntries), NEW entry \in PreviewEntries,
           NEW reason, Len(per) < Len(tree.recipes), Len(tree.recipes) \in Nat,
           Reported(tree, per), ReportOf(entry, reason, tree.recipes[Len(per) + 1])
    PROVE  /\ Append(per, entry) \in Seq(PreviewEntries)
           /\ Reported(tree, Append(per, entry))
           /\ NothingFailed(per) /\ reason = "none" => NothingFailed(Append(per, entry))
<1> DEFINE new == Append(per, entry)
<1>1. /\ new \in Seq(PreviewEntries) /\ Len(new) = Len(per) + 1 /\ Len(per) \in Nat
      /\ \A i \in 1..Len(per) : new[i] = per[i]
      /\ new[Len(per) + 1] = entry
  OBVIOUS
<1> HIDE DEF new
<1>2. \A i \in 1..Len(new) : i \in 1..Len(per) \/ i = Len(per) + 1
  BY <1>1
<1>3. Reported(tree, new)
  <2>1. Len(new) <= Len(tree.recipes)
    BY <1>1
  <2>2. ASSUME NEW i \in 1..Len(new)
        PROVE  /\ new[i].recipe = tree.recipes[i].id
               /\ tree.recipes[i].reasoning \/ new[i].status \in Outcomes(tree.recipes[i])
    <3>1. CASE i \in 1..Len(per)
      BY <1>1, <3>1 DEF Reported
    <3>2. CASE i = Len(per) + 1
      BY <1>1, <3>2 DEF ReportOf
    <3> QED
      BY <1>2, <3>1, <3>2
  <2> QED
    BY <2>1, <2>2 DEF Reported
<1>4. NothingFailed(per) /\ reason = "none" => NothingFailed(new)
  BY <1>1, <1>2 DEF NothingFailed, ReportOf
<1> QED
  BY <1>1, <1>3, <1>4 DEF new

LEMMA ScreenStart == ScreenInit => ScreenInv /\ PreviewsKept
<1> SUFFICES ASSUME ScreenInit PROVE ScreenInv /\ PreviewsKept
  OBVIOUS
<1>1. /\ version.status = "none" /\ version.public = FALSE
      /\ job.at = "idle" /\ job.per = <<>>
      /\ result = NoResult
  BY DEF ScreenInit, NoVersion, IdleJob
<1>2. ScreenTypeOK
  BY DEF ScreenInit, ScreenTypeOK, NoVersion, IdleJob, NoResult, NoRow, NoFiles, ManifestTrees,
     Verdicts, JobSteps
<1>3. JobKnows
  BY <1>1 DEF JobKnows, At, Ready
<1>4. PreviewsKept
  BY <1>1 DEF PreviewsKept, Ready
<1> QED
  BY <1>2, <1>3, <1>4 DEF ScreenInv

\* The fields that the assignments of a step to the job leave.
LEMMA JobFields ==
    ASSUME ScreenTypeOK
    PROVE  /\ \A at : LET j == [job EXCEPT !.at = at] IN
                j.at = at /\ j.tree = job.tree /\ j.per = job.per /\ j.reason = job.reason
                /\ j.verdict = job.verdict
           /\ \A at, verdict : LET j == [job EXCEPT !.at = at, !.verdict = verdict] IN
                j.at = at /\ j.tree = job.tree /\ j.per = job.per /\ j.reason = job.reason
                /\ j.verdict = verdict
           /\ \A at \in JobSteps : [job EXCEPT !.at = at] \in
                [at : JobSteps, tree : ManifestTrees, per : Seq(PreviewEntries),
                 reason : {"none", "timeout", "failure"}, verdict : Verdicts]
           /\ \A at \in JobSteps, verdict \in Verdicts :
                [job EXCEPT !.at = at, !.verdict = verdict] \in
                [at : JobSteps, tree : ManifestTrees, per : Seq(PreviewEntries),
                 reason : {"none", "timeout", "failure"}, verdict : Verdicts]
BY DEF ScreenTypeOK

\* A step that moves the job, and nothing that anyone reads, but for the verdict.
LEMMA JobMoves ==
    ASSUME ScreenTypeOK, NEW at \in JobSteps, NEW verdict \in Verdicts,
           \/ job' = [job EXCEPT !.at = at] /\ verdict = job.verdict
           \/ job' = [job EXCEPT !.at = at, !.verdict = verdict],
           UNCHANGED <<version, previews, result>>
    PROVE  /\ ScreenTypeOK'
           /\ job'.at = at /\ job'.tree = job.tree /\ job'.per = job.per
           /\ job'.reason = job.reason /\ job'.verdict = verdict
           /\ version' = version /\ previews' = previews /\ result' = result
<1>1. CASE job' = [job EXCEPT !.at = at] /\ verdict = job.verdict
  BY <1>1, JobFields DEF ScreenTypeOK
<1>2. CASE job' = [job EXCEPT !.at = at, !.verdict = verdict]
  BY <1>2, JobFields DEF ScreenTypeOK
<1> QED
  BY <1>1, <1>2

LEMMA ScreenStep == ScreenInv /\ [ScreenNext]_screenVars => ScreenInv'
<1> SUFFICES ASSUME ScreenInv, [ScreenNext]_screenVars PROVE ScreenInv'
  OBVIOUS
<1>0. ScreenTypeOK /\ JobKnows
  BY DEF ScreenInv
<1>1. ASSUME NEW tree \in Trees, NEW public \in BOOLEAN, Publish(tree, public)
      PROVE  ScreenInv'
  <2>1. /\ version.status \in {"none", "failed"}
        /\ version.status = "failed" => public = version.public
        /\ version' = [status |-> "pending", tree |-> tree, public |-> public]
        /\ UNCHANGED <<job, previews, result>>
    BY <1>1 DEF Publish
  <2>2. version'.status = "pending" /\ version'.tree = tree /\ version'.public = public
    BY <2>1
  <2>3. ScreenTypeOK'
    BY <1>0, <2>1 DEF ScreenTypeOK, ManifestTrees
  <2>4. job.at = "idle" /\ job'.at = "idle"
    BY <1>0, <2>1 DEF JobKnows, At
  <2>5. ~public => result = NoResult
    BY <1>0, <2>1 DEF JobKnows
  <2> QED
    BY <2>1, <2>2, <2>3, <2>4, <2>5 DEF ScreenInv, JobKnows, At, Ready
<1>2. CASE Claim
  <2>1. /\ version.status = "pending" /\ job.at = "idle"
        /\ version' = [version EXCEPT !.status = "ingesting"]
        /\ job' = [IdleJob EXCEPT !.at = "scan", !.tree = version.tree]
        /\ UNCHANGED <<previews, result>>
    BY <1>2 DEF Claim, At
  <2>a. job' = [at |-> "scan", tree |-> version.tree, per |-> <<>>, reason |-> "none",
                verdict |-> "none"]
    BY <2>1 DEF IdleJob
  <2>2. /\ version'.status = "ingesting" /\ version'.tree = version.tree
        /\ version'.public = version.public
    BY <1>0, <2>1 DEF ScreenTypeOK
  <2>3. job'.at = "scan" /\ job'.tree = version.tree /\ job'.per = <<>> /\ job'.reason = "none"
    BY <2>1 DEF IdleJob
  <2>4. ScreenTypeOK'
    <3>1. <<>> \in Seq(PreviewEntries) /\ version.tree \in ManifestTrees
      BY <1>0 DEF ScreenTypeOK
    <3>2. job' \in [at : JobSteps, tree : ManifestTrees, per : Seq(PreviewEntries),
                    reason : {"none", "timeout", "failure"}, verdict : Verdicts]
      BY <2>a, <3>1 DEF JobSteps, Verdicts
    <3>3. version' \in [status : {"none", "pending", "ingesting", "ready", "failed"},
                        tree : ManifestTrees, public : BOOLEAN]
      BY <1>0, <2>1 DEF ScreenTypeOK
    <3> QED
      BY <1>0, <2>1, <3>2, <3>3 DEF ScreenTypeOK
  <2> QED
    BY <1>0, <2>1, <2>2, <2>3, <2>4 DEF ScreenInv, JobKnows, At, Ready
\* While a job is at work its version is served by nobody.
<1>b. ~At("idle") => /\ version.status = "ingesting" /\ ~Ready
                     /\ job.tree = version.tree /\ version.tree \in Trees
  BY <1>0 DEF JobKnows, Ready
\* An exception.
<1>3. ASSUME ~At("idle"), NEW at \in {"crash", "failed"}, Goto(at),
             UNCHANGED <<version, previews, result>>
      PROVE  ScreenInv'
  <2>1. ScreenTypeOK' /\ job'.at = at /\ job'.tree = job.tree
        /\ version' = version /\ result' = result
    BY <1>0, <1>3, JobMoves DEF JobSteps, ScreenTypeOK, Goto
  <2> QED
    BY <1>0, <1>3, <1>b, <2>1 DEF ScreenInv, JobKnows, At, Ready
<1>4. CASE Scan
  <2>1. At("scan") /\ UNCHANGED <<version, previews, result>> /\ ~At("idle")
        /\ job.per = <<>> /\ job.reason = "none"
    BY <1>0, <1>4 DEF Scan, Rows, At, JobKnows
  <2>2. CASE Goto("crash")
    BY <1>3, <2>1, <2>2
  <2>3. CASE ~version.public /\ job' = [job EXCEPT !.at = "load"]
    <3>1. ScreenTypeOK' /\ job'.at = "load" /\ job'.tree = job.tree
          /\ version' = version /\ result' = result
      BY <1>0, <2>1, <2>3, JobMoves DEF JobSteps, ScreenTypeOK
    <3> QED
      BY <1>0, <1>b, <2>1, <2>3, <3>1 DEF ScreenInv, JobKnows, At, Ready
  <2>4. CASE version.public /\ job' = [job EXCEPT !.at = "verdict", !.verdict = "failed"]
    <3>1. ScreenTypeOK' /\ job'.at = "verdict" /\ job'.tree = job.tree /\ job'.verdict = "failed"
          /\ version' = version /\ result' = result
      BY <1>0, <2>1, <2>4, JobMoves DEF JobSteps, Verdicts
    <3> QED
      BY <1>0, <1>b, <2>1, <2>4, <3>1 DEF ScreenInv, JobKnows, At, Ready
  <2>5. CASE version.public /\ Findings(job.tree) = {} /\ job' = [job EXCEPT !.at = "dry-run"]
    <3>1. ScreenTypeOK' /\ job'.at = "dry-run" /\ job'.tree = job.tree
          /\ job'.per = <<>> /\ job'.reason = "none" /\ version' = version /\ result' = result
      BY <1>0, <2>1, <2>5, JobMoves DEF JobSteps, ScreenTypeOK
    <3>2. Reported(job'.tree, job'.per) /\ NothingFailed(job'.per)
      <4>1. Len(job.tree.recipes) \in Nat
        BY <1>b, <2>1, ScreenAssumption
      <4> QED
        BY <3>1, <4>1 DEF Reported, NothingFailed
    <3>3. Findings(job'.tree) = {}
      BY <2>5, <3>1
    <3> QED
      BY <1>0, <1>b, <2>1, <2>5, <3>1, <3>2, <3>3 DEF ScreenInv, JobKnows, At, Ready
  <2> QED
    BY <1>4, <2>2, <2>3, <2>4, <2>5 DEF Scan
<1>5. CASE DryRunReasoning \/ DryRunRecipe
  <2>1. PICK entry \in PreviewEntries, reason \in {"none", "timeout", "failure"} :
          MoreRecipes /\ Report(entry, reason) /\ ReportOf(entry, reason, NextRecipe)
    BY <1>5, DryRunReports
  <2>2. /\ job.tree \in Trees /\ version.status = "ingesting" /\ version.public
        /\ Len(job.per) + 1 \in Recipes(job.tree) /\ NextRecipe = job.tree.recipes[Len(job.per) + 1]
    BY <2>1, AtRecipe
  <2>3. /\ At("dry-run") /\ job.per \in Seq(PreviewEntries) /\ Len(job.per) < Len(job.tree.recipes)
        /\ Len(job.tree.recipes) \in Nat /\ Reported(job.tree, job.per) /\ Findings(job.tree) = {}
        /\ job.reason = "none" => NothingFailed(job.per)
    BY <1>0, <2>1, <2>2, ScreenAssumption DEF MoreRecipes, ScreenTypeOK, JobKnows, At
  <2> DEFINE per == Append(job.per, entry)
             why == IF job.reason = "none" THEN reason ELSE job.reason
  <2>4. /\ per \in Seq(PreviewEntries) /\ Reported(job.tree, per)
        /\ why = "none" => NothingFailed(per)
    BY <2>1, <2>2, <2>3, ReportedMore
  <2>5. job' = [job EXCEPT !.per = per, !.reason = why] /\ UNCHANGED <<version, result>>
        /\ previews' = [previews EXCEPT ![entry.recipe] = RowOf(entry, job.tree)]
    BY <2>1 DEF Report, PreviewRow
  <2> HIDE DEF per
  <2>6. /\ job'.at = "dry-run" /\ job'.tree = job.tree /\ job'.per = per /\ job'.reason = why
    BY <1>0, <2>3, <2>5 DEF ScreenTypeOK, At
  <2>7. ScreenTypeOK'
    <3>1. RowOf(entry, job.tree) \in
            [state : {"none", "rendered", "needs-llm", "timed-out", "failed"},
             files : SUBSET OutputFiles, tree : ManifestTrees]
      BY <2>2 DEF RowOf, StateOf, PreviewEntries, ManifestTrees
    <3>2. entry.recipe \in RecipeIds
      BY DEF PreviewEntries
    <3> QED
      BY <1>0, <2>4, <2>5, <3>1, <3>2 DEF ScreenTypeOK
  <2> HIDE DEF why
  <2> QED
    BY <1>0, <1>b, <2>2, <2>3, <2>4, <2>5, <2>6, <2>7 DEF ScreenInv, JobKnows, At, Ready
<1>6. CASE DryRunThrows \/ StoreThrows
  <2>1. ~At("idle") /\ Goto("crash") /\ UNCHANGED <<version, previews, result>>
    BY <1>6 DEF DryRunThrows, StoreThrows, MoreRecipes, Fail, Rows, At
  <2> QED
    BY <1>3, <2>1
\* The dry run is at an end.
<1>7. CASE ApplyDryRunVerdict
  <2>1. At("dry-run") /\ ~MoreRecipes /\ UNCHANGED <<version, previews, result>> /\ ~At("idle")
    BY <1>7 DEF ApplyDryRunVerdict, Rows, At
  <2>2. /\ Reported(job.tree, job.per) /\ Findings(job.tree) = {}
        /\ job.reason = "none" => NothingFailed(job.per)
        /\ version.public
    BY <1>0, <2>1 DEF JobKnows, At
  <2>3. Len(job.per) = Len(job.tree.recipes)
    <3>1. Len(job.per) \in Nat /\ Len(job.tree.recipes) \in Nat
      BY <1>0, <1>b, <2>1, ScreenAssumption DEF ScreenTypeOK
    <3> QED
      BY <2>1, <2>2, <3>1 DEF MoreRecipes, Reported
  <2>4. ASSUME NEW verdict \in {"unverified", "failed"},
               job' = [job EXCEPT !.at = "verdict", !.verdict = verdict]
        PROVE  ScreenInv'
    <3>1. ScreenTypeOK' /\ job'.at = "verdict" /\ job'.tree = job.tree /\ job'.per = job.per
          /\ job'.verdict = verdict /\ version' = version /\ result' = result
      BY <1>0, <2>1, <2>4, JobMoves DEF JobSteps, Verdicts
    <3>2. Passes(job'.tree, job'.per, job'.verdict)
      BY <2>2, <2>3, <3>1 DEF Passes
    <3> QED
      BY <1>0, <1>b, <2>1, <2>2, <3>1, <3>2 DEF ScreenInv, JobKnows, At, Ready
  <2>5. CASE job.reason = "none" /\ job' = [job EXCEPT !.at = "validate"]
    <3>1. ScreenTypeOK' /\ job'.at = "validate" /\ job'.tree = job.tree /\ job'.per = job.per
          /\ job'.reason = "none" /\ version' = version /\ result' = result
      BY <1>0, <2>1, <2>5, JobMoves DEF JobSteps, ScreenTypeOK
    <3>2. /\ Reported(job'.tree, job'.per) /\ Findings(job'.tree) = {} /\ NothingFailed(job'.per)
          /\ Len(job'.per) = Len(job'.tree.recipes)
      BY <2>2, <2>3, <2>5, <3>1
    <3> QED
      BY <1>0, <1>b, <2>1, <2>2, <3>1, <3>2 DEF ScreenInv, JobKnows, At, Ready
  <2>6. job.reason \in {"none", "timeout", "failure"}
    BY <1>0 DEF ScreenTypeOK
  <2> QED
    BY <1>7, <2>4, <2>5, <2>6 DEF ApplyDryRunVerdict
\* A version whose output is valid is clean.
<1>8. CASE ValidateOutput
  <2>1. At("validate") /\ UNCHANGED <<version, previews, result>> /\ ~At("idle")
    BY <1>8 DEF ValidateOutput, Rows, At
  <2>2. /\ Reported(job.tree, job.per) /\ Findings(job.tree) = {} /\ NothingFailed(job.per)
        /\ Len(job.per) = Len(job.tree.recipes) /\ version.public
    BY <1>0, <2>1 DEF JobKnows, At
  <2>3. OutputValid(job.tree, job.per) => ServesClean(job.tree, job.per)
    <3> SUFFICES ASSUME OutputValid(job.tree, job.per), NEW i \in Recipes(job.tree),
                        ~job.tree.recipes[i].reasoning
                 PROVE  /\ job.per[i].status = "screened"
                        /\ \A f \in job.per[i].files : Matches(f, job.tree.recipes[i].patterns)
                        /\ job.tree.recipes[i].ends = "returns" /\ job.tree.recipes[i].tsc # "fails"
      BY <2>2 DEF ServesClean
    <3>1. i \in 1..Len(job.per)
      BY <2>2 DEF Recipes
    <3>2. job.per[i].status = "screened" /\ job.tree.recipes[i].ends = "returns"
      BY <2>2, <3>1 DEF Reported, NothingFailed, Outcomes, RunsToEnd
    <3>3. i \in Rendered(job.per)
      BY <3>1, <3>2 DEF Rendered
    <3> QED
      BY <3>2, <3>3 DEF OutputValid, WritesSubset, TypeChecks
  <2>4. ASSUME NEW verdict \in {"screened", "failed"},
               verdict = "screened" => OutputValid(job.tree, job.per),
               job' = [job EXCEPT !.at = "verdict", !.verdict = verdict]
        PROVE  ScreenInv'
    <3>1. ScreenTypeOK' /\ job'.at = "verdict" /\ job'.tree = job.tree /\ job'.per = job.per
          /\ job'.verdict = verdict /\ version' = version /\ result' = result
      BY <1>0, <2>1, <2>4, JobMoves DEF JobSteps, Verdicts
    <3>2. Passes(job'.tree, job'.per, job'.verdict)
      BY <2>2, <2>3, <2>4, <3>1 DEF Passes
    <3> QED
      BY <1>0, <1>b, <2>1, <2>2, <3>1, <3>2 DEF ScreenInv, JobKnows, At, Ready
  <2> QED
    BY <1>3, <1>8, <2>1, <2>4 DEF ValidateOutput
<1>9. CASE WriteVerdict
  <2>1. At("verdict") /\ result' = VerdictRow /\ job' = [job EXCEPT !.at = "tier"]
        /\ UNCHANGED <<version, previews>> /\ ~At("idle")
    BY <1>9 DEF WriteVerdict, Goto, At
  <2>2. /\ job'.at = "tier" /\ job'.tree = job.tree /\ job'.per = job.per /\ job'.verdict = job.verdict
        /\ version' = version
    BY <1>0, <2>1, JobFields
  <2>3. ScreenTypeOK'
    <3>1. VerdictRow \in [verdict : Verdicts, per : Seq(PreviewEntries), tree : ManifestTrees]
      BY <1>0 DEF ScreenTypeOK, VerdictRow
    <3> QED
      BY <1>0, <2>1, <3>1, JobFields DEF ScreenTypeOK, JobSteps
  <2>4. version.public /\ (job.verdict # "failed" => Passes(job.tree, job.per, job.verdict))
    BY <1>0, <2>1 DEF JobKnows, At
  <2>5. result' = VerdictRow'
    BY <2>1, <2>2 DEF VerdictRow
  <2> QED
    BY <1>0, <1>b, <2>1, <2>2, <2>3, <2>4, <2>5 DEF ScreenInv, JobKnows, At, Ready
<1>10. CASE UpdateTier
  <2>1. At("tier") /\ UNCHANGED <<version, previews, result>> /\ ~At("idle")
        /\ Goto(IF job.verdict = "failed" THEN "crash" ELSE "load")
    BY <1>10 DEF UpdateTier, At
  <2>2. CASE job.verdict = "failed"
    BY <1>3, <2>1, <2>2
  <2>3. CASE job.verdict # "failed"
    <3>1. ScreenTypeOK' /\ job'.at = "load" /\ job'.tree = job.tree
          /\ version' = version /\ result' = result
      BY <1>0, <2>1, <2>3, JobMoves DEF JobSteps, ScreenTypeOK, Goto
    <3>2. Settled(version.tree)
      <4>1. result = VerdictRow /\ Passes(job.tree, job.per, job.verdict) /\ job.tree = version.tree
        BY <1>0, <1>b, <2>1, <2>3 DEF JobKnows, At
      <4> QED
        BY <4>1 DEF Settled, VerdictRow
    <3>3. Settled(version.tree)'
      BY <3>1, <3>2 DEF Settled
    <3> QED
      BY <1>0, <1>b, <2>1, <3>1, <3>3 DEF ScreenInv, JobKnows, At, Ready
  <2> QED
    BY <2>2, <2>3
<1>11. CASE CheckLoadability
  <2>1. At("load") /\ UNCHANGED <<version, previews, result>> /\ ~At("idle")
        /\ Goto(IF Loads(job.tree) THEN "ready" ELSE "crash")
    BY <1>11 DEF CheckLoadability, Rows, At
  <2>2. CASE ~Loads(job.tree)
    BY <1>3, <2>1, <2>2
  <2>3. CASE Loads(job.tree)
    <3>1. ScreenTypeOK' /\ job'.at = "ready" /\ job'.tree = job.tree
          /\ version' = version /\ result' = result
      BY <1>0, <2>1, <2>3, JobMoves DEF JobSteps, ScreenTypeOK, Goto
    <3>2. version.public => Settled(version.tree)
      BY <1>0, <2>1 DEF JobKnows, At
    <3>3. version'.public => Settled(version.tree)'
      BY <3>1, <3>2 DEF Settled
    <3> QED
      BY <1>0, <1>b, <2>1, <3>1, <3>3 DEF ScreenInv, JobKnows, At, Ready
  <2> QED
    BY <2>2, <2>3
\* The job ends, or is killed: the verdict of a version that is served is its own.
<1>12. ASSUME NEW status \in {"ready", "failed", "pending"}, ~At("idle"),
              status = "ready" => At("ready"),
              version' = [version EXCEPT !.status = status], job' = IdleJob,
              UNCHANGED <<previews, result>>
       PROVE  ScreenInv'
  <2>1. /\ version'.status = status /\ version'.tree = version.tree
        /\ version'.public = version.public /\ job'.at = "idle" /\ result' = result
    BY <1>0, <1>12 DEF ScreenTypeOK, IdleJob
  <2>2. ScreenTypeOK'
    BY <1>0, <1>12 DEF ScreenTypeOK, IdleJob, JobSteps, Verdicts, ManifestTrees
  <2>3. version'.public /\ Ready' => Settled(version.tree)'
    <3>1. version.public /\ At("ready") => Settled(version.tree)
      BY <1>0 DEF JobKnows, At
    <3> QED
      BY <1>12, <2>1, <3>1 DEF Settled, Ready
  <2> QED
    BY <1>0, <1>b, <1>12, <2>1, <2>2, <2>3 DEF ScreenInv, JobKnows, At, Ready
<1>13. CASE MarkReady \/ MarkFailed \/ KillServer
  <2>1. PICK status \in {"ready", "failed", "pending"} :
          /\ ~At("idle")
          /\ status = "ready" => At("ready")
          /\ version' = [version EXCEPT !.status = status] /\ job' = IdleJob
          /\ UNCHANGED <<previews, result>>
    BY <1>13 DEF MarkReady, MarkFailed, KillServer, At
  <2> QED
    BY <1>12, <2>1
<1>14. CASE CrashTier
  <2>1. ~At("idle") /\ Goto("failed") /\ UNCHANGED <<version, previews, result>>
    BY <1>14 DEF CrashTier, At
  <2> QED
    BY <1>3, <2>1
<1>15. CASE UNCHANGED screenVars
  BY <1>0, <1>15 DEF screenVars, ScreenInv, ScreenTypeOK, JobKnows, At, Ready, Settled, VerdictRow
<1> QED
  BY <1>1, <1>2, <1>4, <1>5, <1>6, <1>7, <1>8, <1>9, <1>10, <1>11, <1>13, <1>14, <1>15
     DEF ScreenNext

\* What each job knows and what each served version carries, over any trees,
\* publishes, kills and lost files.
THEOREM ScreenInvariant == ScreenSpec => []ScreenInv
BY ScreenStart, ScreenStep, PTL DEF ScreenSpec

\* The verdict shown for a version that is served was reached on its own tree,
\* and `screened` means that every layer found that tree clean.
THEOREM ScreenedIsClean == ScreenSpec => []ScreenedServesClean
<1>1. ScreenInv => ScreenedServesClean
  <2> SUFFICES ASSUME ScreenInv, Ready, result.verdict = "screened"
               PROVE  /\ Findings(version.tree) = {}
                      /\ Len(result.per) = Len(version.tree.recipes)
                      /\ ServesClean(version.tree, result.per)
    BY DEF ScreenedServesClean, ServesClean
  <2>1. version.public
    BY DEF ScreenInv, JobKnows, NoResult
  <2>2. Passes(version.tree, result.per, result.verdict)
    BY <2>1 DEF ScreenInv, JobKnows, Settled
  <2> QED
    BY <2>2 DEF Passes, ServesClean
<1> QED
  BY <1>1, ScreenInvariant, PTL

-----------------------------------------------------------------------------
\* No manifest names two recipes alike.  The schema of a manifest does not say
\* so: of two that are, the second report overwrites the preview of the first.
DistinctIds ==
    \A tree \in Trees : \A i, j \in Recipes(tree) :
        tree.recipes[i].id = tree.recipes[j].id => i = j

\* The row a report writes is that of no recipe reported before.
LEMMA KeptMore ==
    ASSUME DistinctIds, NEW tree \in Trees, NEW per \in Seq(PreviewEntries),
           NEW entry \in PreviewEntries, NEW reason,
           Len(per) + 1 \in Recipes(tree), Reported(tree, per),
           ReportOf(entry, reason, tree.recipes[Len(per) + 1]),
           ScreenTypeOK, Kept(tree, per)
    PROVE  \A i \in 1..Len(Append(per, entry)) :
             [previews EXCEPT ![entry.recipe] = RowOf(entry, tree)][Append(per, entry)[i].recipe]
               = RowOf(Append(per, entry)[i], tree)
<1> DEFINE new == Append(per, entry)
           rows == [previews EXCEPT ![entry.recipe] = RowOf(entry, tree)]
<1>1. /\ Len(new) = Len(per) + 1 /\ Len(per) \in Nat
      /\ \A i \in 1..Len(per) : new[i] = per[i] /\ per[i] \in PreviewEntries
      /\ new[Len(per) + 1] = entry
  OBVIOUS
<1>2. entry.recipe \in RecipeIds
  BY DEF PreviewEntries
<1>3. /\ rows[entry.recipe] = RowOf(entry, tree)
      /\ \A id \in RecipeIds \ {entry.recipe} : rows[id] = previews[id]
  BY <1>2 DEF ScreenTypeOK
<1> HIDE DEF new, rows
<1> SUFFICES ASSUME NEW i \in 1..Len(new) PROVE rows[new[i].recipe] = RowOf(new[i], tree)
  BY DEF new, rows
<1>4. CASE i \in 1..Len(per)
  <2>1. new[i] = per[i] /\ per[i].recipe \in RecipeIds
    BY <1>1, <1>4 DEF PreviewEntries
  <2>2. i \in Recipes(tree) /\ i # Len(per) + 1
    BY <1>1, <1>4 DEF Recipes
  <2>3. per[i].recipe # entry.recipe
    <3>1. per[i].recipe = tree.recipes[i].id /\ entry.recipe = tree.recipes[Len(per) + 1].id
      BY <1>4 DEF Reported, ReportOf
    <3> QED
      BY <2>2, <3>1 DEF DistinctIds
  <2>4. previews[per[i].recipe] = RowOf(per[i], tree)
    BY <1>4 DEF Kept
  <2> QED
    BY <1>3, <2>1, <2>3, <2>4
<1>5. CASE i = Len(per) + 1
  BY <1>1, <1>3, <1>5
<1> QED
  BY <1>1, <1>4, <1>5

LEMMA PreviewsStep ==
    ASSUME DistinctIds
    PROVE  ScreenInv /\ PreviewsKept /\ [ScreenNext]_screenVars => PreviewsKept'
<1> SUFFICES ASSUME ScreenInv, PreviewsKept, [ScreenNext]_screenVars PROVE PreviewsKept'
  OBVIOUS
<1>0. ScreenTypeOK /\ JobKnows
  BY DEF ScreenInv
<1>b. ~At("idle") => version.status = "ingesting" /\ job.tree = version.tree /\ version.tree \in Trees
  BY <1>0 DEF JobKnows
\* Nobody knows anything of a version that waits, is abandoned or is given up.
<1>1. ASSUME job'.at \in {"idle", "scan", "crash", "failed"}, version'.status # "ready"
      PROVE  PreviewsKept'
  BY <1>1 DEF PreviewsKept, Ready
<1>2. CASE \E tree \in Trees, public \in BOOLEAN : Publish(tree, public)
  <2>1. version.status \in {"none", "failed"} /\ version'.status = "pending" /\ job' = job
    BY <1>2 DEF Publish
  <2>2. job'.at = "idle"
    BY <1>0, <2>1 DEF JobKnows, At
  <2> QED
    BY <1>1, <2>1, <2>2
<1>3. CASE Claim
  <2>1. job'.at = "scan" /\ version'.status = "ingesting"
    BY <1>0, <1>3 DEF Claim, IdleJob, ScreenTypeOK
  <2> QED
    BY <1>1, <2>1
<1>4. ASSUME ~At("idle"), NEW at \in {"crash", "failed"}, Goto(at),
             UNCHANGED <<version, previews, result>>
      PROVE  PreviewsKept'
  <2>1. job'.at = at /\ version' = version
    BY <1>0, <1>4, JobFields DEF Goto
  <2> QED
    BY <1>1, <1>b, <1>4, <2>1
\* A step of the job that writes no row.
<1>5. ASSUME At("scan") \/ At("dry-run") \/ At("validate"), UNCHANGED <<version, previews, result>>,
             NEW at \in {"dry-run", "validate", "verdict"}, NEW verdict \in Verdicts,
             \/ job' = [job EXCEPT !.at = at]
             \/ job' = [job EXCEPT !.at = at, !.verdict = verdict]
      PROVE  PreviewsKept'
  <2>1. job'.at = at /\ job'.tree = job.tree /\ job'.per = job.per /\ version' = version
    <3>1. at \in JobSteps /\ job.verdict \in Verdicts
      BY <1>0 DEF JobSteps, ScreenTypeOK
    <3>2. CASE job' = [job EXCEPT !.at = at]
      BY <1>0, <1>5, <3>1, <3>2, JobMoves
    <3>3. CASE job' = [job EXCEPT !.at = at, !.verdict = verdict]
      BY <1>0, <1>5, <3>1, <3>3, JobMoves
    <3> QED
      BY <1>5, <3>2, <3>3
  <2>2. Kept(job.tree, job.per)
    <3>1. CASE At("scan")
      BY <1>0, <3>1 DEF JobKnows, Kept
    <3>2. CASE At("dry-run") \/ At("validate")
      BY <3>2 DEF PreviewsKept, At
    <3> QED
      BY <1>5, <3>1, <3>2
  <2>3. Kept(job.tree, job.per)'
    BY <1>5, <2>1, <2>2 DEF Kept
  <2> QED
    BY <1>b, <1>5, <2>1, <2>3 DEF PreviewsKept, Ready, At
<1>6. CASE Scan
  <2>1. At("scan") /\ UNCHANGED <<version, previews, result>> /\ ~At("idle")
    BY <1>6 DEF Scan, Rows, At
  <2>2. CASE Goto("crash")
    BY <1>4, <2>1, <2>2
  <2>3. CASE ~version.public /\ job' = [job EXCEPT !.at = "load"]
    <3>1. job'.at = "load" /\ version' = version
      BY <1>0, <2>1, <2>3, JobFields
    <3> QED
      BY <2>3, <3>1 DEF PreviewsKept
  <2> QED
    BY <1>5, <1>6, <2>1, <2>2, <2>3 DEF Scan, Verdicts
<1>7. CASE DryRunReasoning \/ DryRunRecipe
  <2>1. PICK entry \in PreviewEntries, reason \in {"none", "timeout", "failure"} :
          MoreRecipes /\ Report(entry, reason) /\ ReportOf(entry, reason, NextRecipe)
    BY <1>7, DryRunReports
  <2>2. /\ job.tree \in Trees /\ version.status = "ingesting"
        /\ Len(job.per) + 1 \in Recipes(job.tree) /\ NextRecipe = job.tree.recipes[Len(job.per) + 1]
    BY <2>1, AtRecipe
  <2>3. /\ At("dry-run") /\ job.per \in Seq(PreviewEntries) /\ Reported(job.tree, job.per)
        /\ Kept(job.tree, job.per)
    BY <1>0, <2>1 DEF MoreRecipes, ScreenTypeOK, JobKnows, At, PreviewsKept
  <2>4. /\ job' = [job EXCEPT !.per = Append(job.per, entry),
                              !.reason = IF job.reason = "none" THEN reason ELSE job.reason]
        /\ UNCHANGED <<version, result>>
        /\ previews' = [previews EXCEPT ![entry.recipe] = RowOf(entry, job.tree)]
    BY <2>1 DEF Report, PreviewRow
  <2>5. /\ job'.at = "dry-run" /\ job'.tree = job.tree /\ job'.per = Append(job.per, entry)
    BY <1>0, <2>3, <2>4 DEF ScreenTypeOK, At
  <2>6. Kept(job.tree, job.per)'
    <3>1. \A i \in 1..Len(Append(job.per, entry)) :
             [previews EXCEPT ![entry.recipe] = RowOf(entry, job.tree)]
                 [Append(job.per, entry)[i].recipe]
               = RowOf(Append(job.per, entry)[i], job.tree)
      BY <1>0, <2>1, <2>2, <2>3, KeptMore
    <3> QED
      BY <2>4, <2>5, <3>1 DEF Kept
  <2> QED
    BY <2>2, <2>4, <2>5, <2>6 DEF PreviewsKept, Ready
<1>8. CASE DryRunThrows \/ StoreThrows \/ CrashTier
  <2>1. PICK at \in {"crash", "failed"} :
          ~At("idle") /\ Goto(at) /\ UNCHANGED <<version, previews, result>>
    BY <1>8 DEF DryRunThrows, StoreThrows, CrashTier, MoreRecipes, Fail, Rows, At
  <2> QED
    BY <1>4, <2>1
<1>9. CASE ApplyDryRunVerdict
  <2>1. At("dry-run") /\ UNCHANGED <<version, previews, result>>
    BY <1>9 DEF ApplyDryRunVerdict, Rows
  <2>2. job.reason \in {"none", "timeout", "failure"}
    BY <1>0 DEF ScreenTypeOK
  <2> QED
    BY <1>5, <1>9, <2>1, <2>2 DEF ApplyDryRunVerdict, Verdicts
<1>10. CASE ValidateOutput
  <2>1. At("validate") /\ UNCHANGED <<version, previews, result>> /\ ~At("idle")
    BY <1>10 DEF ValidateOutput, Rows, At
  <2> QED
    BY <1>4, <1>5, <1>10, <2>1 DEF ValidateOutput, Verdicts
\* The rows the verdict is written with are those of the report.
<1>11. CASE WriteVerdict
  <2>1. /\ At("verdict") /\ job' = [job EXCEPT !.at = "tier"] /\ UNCHANGED <<version, previews>>
    BY <1>11 DEF WriteVerdict, Goto
  <2>2. /\ job'.at = "tier" /\ job'.tree = job.tree /\ job'.per = job.per
    BY <1>0, <2>1, JobFields
  <2>3. Kept(job.tree, job.per)'
    BY <2>1, <2>2 DEF PreviewsKept, Kept, At
  <2> QED
    BY <1>b, <2>1, <2>2, <2>3 DEF PreviewsKept, Ready, At
<1>12. CASE UpdateTier
  <2>1. At("tier") /\ UNCHANGED <<version, previews, result>> /\ ~At("idle")
        /\ Goto(IF job.verdict = "failed" THEN "crash" ELSE "load")
    BY <1>12 DEF UpdateTier, At
  <2>2. CASE Goto("crash")
    BY <1>4, <2>1, <2>2
  <2>3. CASE Goto("load")
    <3>1. job'.at = "load"
      BY <1>0, <2>3, JobFields DEF Goto
    <3>2. Kept(job.tree, job.per) /\ result = VerdictRow /\ job.tree = version.tree
      BY <1>0, <1>b, <2>1 DEF JobKnows, PreviewsKept, At
    <3>3. Kept(version.tree, result.per)'
      BY <2>1, <3>2 DEF Kept, VerdictRow
    <3> QED
      BY <3>1, <3>3 DEF PreviewsKept
  <2> QED
    BY <2>1, <2>2, <2>3
<1>13. CASE CheckLoadability
  <2>1. At("load") /\ UNCHANGED <<version, previews, result>> /\ ~At("idle")
        /\ Goto(IF Loads(job.tree) THEN "ready" ELSE "crash")
    BY <1>13 DEF CheckLoadability, Rows, At
  <2>2. CASE Goto("crash")
    BY <1>4, <2>1, <2>2
  <2>3. CASE Goto("ready")
    <3>1. job'.at = "ready"
      BY <1>0, <2>3, JobFields DEF Goto
    <3>2. version'.public => Kept(version.tree, result.per)'
      BY <2>1 DEF PreviewsKept, Kept, At
    <3> QED
      BY <3>1, <3>2 DEF PreviewsKept
  <2> QED
    BY <2>1, <2>2, <2>3
<1>14. CASE MarkReady
  <2>1. /\ At("ready") /\ version' = [version EXCEPT !.status = "ready"] /\ job' = IdleJob
        /\ UNCHANGED <<previews, result>>
    BY <1>14 DEF MarkReady
  <2>2. version'.tree = version.tree /\ version'.public = version.public /\ job'.at = "idle"
    BY <1>0, <2>1 DEF ScreenTypeOK, IdleJob
  <2>3. version'.public => Kept(version.tree, result.per)'
    BY <2>1, <2>2 DEF PreviewsKept, Kept, At
  <2> QED
    BY <2>2, <2>3 DEF PreviewsKept
<1>15. CASE MarkFailed \/ KillServer
  <2>1. job' = IdleJob /\ version'.status \in {"failed", "pending"}
    BY <1>0, <1>15 DEF MarkFailed, KillServer, ScreenTypeOK
  <2> QED
    BY <1>1, <2>1 DEF IdleJob
<1>16. CASE UNCHANGED screenVars
  BY <1>16 DEF screenVars, PreviewsKept, Kept, Ready
<1> QED
  BY <1>2, <1>3, <1>6, <1>7, <1>8, <1>9, <1>10, <1>11, <1>12, <1>13, <1>14, <1>15, <1>16
     DEF ScreenNext

\* The preview of each recipe of a public version that is served is of its own
\* tree, and is what its verdict was reached on, whatever was published before
\* and wherever a job was killed between two previews.
THEOREM PreviewsOfVerdict ==
    ASSUME DistinctIds
    PROVE  ScreenSpec => []PreviewsMatchVerdict
<1>1. ScreenInv /\ PreviewsKept => PreviewsMatchVerdict
  <2> SUFFICES ASSUME ScreenInv, PreviewsKept, Ready, version.public
               PROVE  /\ result.tree = version.tree
                      /\ \A id \in Declared : previews[id].tree = version.tree
                      /\ Kept(version.tree, result.per)
    BY DEF PreviewsMatchVerdict, Kept
  <2>1. Settled(version.tree) /\ Kept(version.tree, result.per)
    BY DEF ScreenInv, JobKnows, PreviewsKept
  <2>2. ASSUME NEW id \in Declared PROVE previews[id].tree = version.tree
    <3>1. PICK i \in Recipes(version.tree) : id = version.tree.recipes[i].id
      BY DEF Declared
    <3>2. i \in 1..Len(result.per) /\ result.per[i].recipe = id
      BY <2>1, <3>1 DEF Settled, Passes, Reported, Recipes
    <3>3. previews[id] = RowOf(result.per[i], version.tree)
      BY <2>1, <3>2 DEF Kept
    <3> QED
      BY <3>3 DEF RowOf
  <2> QED
    BY <2>1, <2>2 DEF Settled
<1> QED
  BY <1>1, ScreenStart, ScreenInvariant, PreviewsStep, PTL DEF ScreenSpec

-----------------------------------------------------------------------------
(* LocalPacks: what a slot is filled with, and what a lockfile pins,       *)
(* whatever is installed, edited, shadowed, torn or killed meanwhile        *)

\* A non-empty set of numbers has a least one.
LEMMA HasLeast ==
    ASSUME NEW I \in SUBSET Nat, I # {}
    PROVE  \E i \in I : \A j \in I : i <= j
<1> DEFINE R == OpToRel(<, Nat)
<1>1. IsWellFoundedOn(R, Nat)
  BY NatLessThanWellFounded
<1>2. \A i, j \in Nat : <<i, j>> \in R <=> i < j
  BY DEF OpToRel
<1> HIDE DEF R
<1>3. PICK i \in I : \A j \in I : ~(<<j, i>> \in R)
  BY <1>1, WFMin
<1>4. \A j \in I : ~(j < i)
  BY <1>2, <1>3
<1>5. \A j \in I : i <= j
  BY <1>4
<1> QED
  BY <1>5

\* resolvePackRoot and discover name a scope that has what they look for.
LEMMA ResolvedIsPack ==
    ASSUME Resolved # 0
    PROVE  Scopes[Resolved] \in ToSet(Scopes) /\ IsPack(dir[Scopes[Resolved]])
<1> DEFINE I == {i \in 1..Len(Scopes) : IsPack(dir[Scopes[i]])}
<1>1. Resolved = IF I # {} THEN Min(I) ELSE 0
  BY DEF Resolved, SelectInSeq
<1>2. I # {} /\ I \in SUBSET Nat
  BY <1>1, LocalAssumption
<1>3. Min(I) = CHOOSE i \in I : \A j \in I : i <= j
  BY DEF Min
<1> HIDE DEF I
<1>4. Resolved \in I
  BY <1>1, <1>2, <1>3, HasLeast
<1> QED
  BY <1>4, LocalAssumption DEF I, ToSet

LEMMA DiscoveredIsPack ==
    ASSUME Discovered # 0
    PROVE  Scopes[Discovered] \in ToSet(Scopes) /\ IsPack(dir[Scopes[Discovered]])
<1> DEFINE I == {i \in 1..Len(Scopes) : Loadable(dir[Scopes[i]])}
<1>1. Discovered = IF I # {} THEN Min(I) ELSE 0
  BY DEF Discovered, SelectInSeq
<1>2. I # {} /\ I \in SUBSET Nat
  BY <1>1, LocalAssumption
<1>3. Min(I) = CHOOSE i \in I : \A j \in I : i <= j
  BY DEF Min
<1> HIDE DEF I
<1>4. Discovered \in I
  BY <1>1, <1>2, <1>3, HasLeast
<1> QED
  BY <1>4, LocalAssumption DEF I, ToSet, Loadable

LEMMA ResolvedStays ==
    ASSUME UNCHANGED dir
    PROVE  Resolved' = Resolved
<1> DEFINE I == {i \in 1..Len(Scopes) : IsPack(dir[Scopes[i]])}
<1>1. Resolved = IF I # {} THEN Min(I) ELSE 0
  BY DEF Resolved, SelectInSeq
<1>2. Resolved' = IF I' # {} THEN Min(I') ELSE 0
  BY DEF Resolved, SelectInSeq
<1>3. I' = I
  OBVIOUS
<1> HIDE DEF I
<1> QED
  BY <1>1, <1>2, <1>3

-----------------------------------------------------------------------------
(* Types                                                                    *)

\* What a directory may hold: a pack, as it is or with a manifest the
\* installer rendered.
FromRegistry(pack) == [pack EXCEPT !.export = "default"]
Held == Packs \union {FromRegistry(pack) : pack \in Packs} \union {Absent}
Pins == {Pin(pack) : pack \in Held} \union {Absent}
Models == WorkerModels \union {"manual"}
Fills == [source : Sources, params : Params, model : Models]
Record == [state : {"missing", "torn", "whole"}, value : Fills \union {Absent}]
Run == [pc : {"idle", "pinned", "slot", "asking", "storing", "render"},
        pack : Held, lock : Pins, params : Params \union {Absent},
        model : WorkerModels \union {Absent}, value : Fills \union {Absent},
        moved : BOOLEAN]

LocalTypeOK ==
    /\ dir \in [ToSet(Scopes) -> Held]
    /\ lock \in Pins
    /\ cache \in [Keys -> Record]
    /\ run \in [Runs -> Run]
    /\ \A r \in Runs : ~RunAt(r, "idle") =>
         run[r].pack # Absent /\ run[r].params \in Params /\ run[r].model \in WorkerModels
    /\ \A r \in Runs : run[r].pc \in {"storing", "render"} => run[r].value \in Fills
    /\ \A key \in Keys : cache[key].state = "whole" => cache[key].value \in Fills

LEMMA HeldSource ==
    ASSUME NEW pack \in Held, pack # Absent
    PROVE  pack.template.source \in Sources
<1>1. CASE pack \in Packs
  BY <1>1 DEF Sources
<1>2. ASSUME NEW p \in Packs, pack = FromRegistry(p) PROVE pack.template = p.template
  <2>1. p = [export |-> p.export, version |-> p.version, hash |-> p.hash, template |-> p.template]
    BY LocalAssumption
  <2> QED
    BY <1>2, <2>1 DEF FromRegistry
<1> QED
  BY <1>1, <1>2 DEF Held, Sources

\* The keys of a run that has started.
LEMMA RunKeys ==
    ASSUME LocalTypeOK, NEW r \in Runs, ~RunAt(r, "idle")
    PROVE  /\ KeyOf(r) \in Keys /\ ManualKeyOf(r) \in Keys
           /\ KeyOf(r)[1] = run[r].pack.template.source /\ KeyOf(r)[2] = run[r].params
           /\ KeyOf(r)[3] = run[r].model
           /\ ManualKeyOf(r)[1] = run[r].pack.template.source /\ ManualKeyOf(r)[2] = run[r].params
           /\ ManualKeyOf(r)[3] = "manual"
           /\ Fill(run[r].pack.template.source, run[r].params, run[r].model) \in Fills
<1>1. run[r].pack.template.source \in Sources
  BY HeldSource DEF LocalTypeOK, Run
<1>2. run[r].params \in Params /\ run[r].model \in WorkerModels
  BY DEF LocalTypeOK
<1> QED
  BY <1>1, <1>2 DEF KeyOf, ManualKeyOf, SlotCacheKey, Keys, Fill, Fills, Models

LEMMA LocalTypeStep == LocalTypeOK /\ [LocalNext]_localVars => LocalTypeOK'
<1> SUFFICES ASSUME LocalTypeOK, [LocalNext]_localVars PROVE LocalTypeOK'
  OBVIOUS
<1> USE DEF RunAt
<1>0. IdleRun \in Run /\ IdleRun.pc = "idle"
  BY DEF IdleRun, Run, Held, Pins
<1>1. ASSUME NEW s \in ToSet(Scopes), NEW pack \in Held, PutDir(s, pack)
      PROVE  LocalTypeOK'
  <2>1. dir' \in [ToSet(Scopes) -> Held] /\ UNCHANGED <<lock, cache>>
    BY <1>1 DEF PutDir, LocalTypeOK
  <2>2. /\ run' \in [Runs -> Run]
        /\ \A r \in Runs : /\ run'[r].pc = run[r].pc /\ run'[r].pack = run[r].pack
                           /\ run'[r].params = run[r].params /\ run'[r].model = run[r].model
                           /\ run'[r].value = run[r].value
    <3>1. ASSUME NEW r \in Runs
          PROVE  LET next == [run[r] EXCEPT !.moved = @ \/ RunAt(r, "pinned")] IN
                 /\ next \in Run /\ next.pc = run[r].pc /\ next.pack = run[r].pack
                 /\ next.params = run[r].params /\ next.model = run[r].model
                 /\ next.value = run[r].value
      <4>1. run[r] \in Run
        BY DEF LocalTypeOK
      <4> QED
        BY <4>1 DEF Run
    <3> QED
      BY <1>1, <3>1 DEF PutDir
  <2> QED
    BY <2>1, <2>2 DEF LocalTypeOK
<1>2. ASSUME NEW s \in ToSet(Scopes),
             InstallFromRegistry(s) \/ InstallFromFolder(s) \/ RemoveDir(s)
      PROVE  LocalTypeOK'
  <2>1. \A pack \in Packs : pack \in Held /\ [pack EXCEPT !.export = "default"] \in Held
    BY DEF Held, FromRegistry
  <2>2. Absent \in Held
    BY DEF Held
  <2> QED
    BY <1>1, <1>2, <2>1, <2>2 DEF InstallFromRegistry, InstallFromFolder, RemoveDir
<1>3. CASE WriteLock
  <2>1. dir[Scopes[Discovered]] \in Held
    BY <1>3, DiscoveredIsPack DEF WriteLock, LocalTypeOK
  <2>2. lock' \in Pins /\ UNCHANGED <<dir, cache, run>>
    BY <1>3, <2>1 DEF WriteLock, Pins
  <2> QED
    BY <2>2 DEF LocalTypeOK
<1>4. ASSUME NEW params \in Params, ManualFill(params)
      PROVE  LocalTypeOK'
  <2> DEFINE source == dir[Scopes[Resolved]].template.source
             value == Fill(source, params, "manual")
             key == SlotCacheKey(source, params, "manual")
  <2>1. source \in Sources
    BY <1>4, ResolvedIsPack, HeldSource DEF ManualFill, LocalTypeOK, IsPack
  <2>2. value \in Fills /\ key \in Keys
    BY <2>1 DEF Fill, Fills, Models, SlotCacheKey, Keys
  <2>3. PICK record \in {Whole(value), Torn} : cache' = [cache EXCEPT ![key] = record]
    BY <1>4 DEF ManualFill
  <2>4. UNCHANGED <<dir, lock, run>>
    BY <1>4 DEF ManualFill
  <2> HIDE DEF source, value, key
  <2>5. record \in Record /\ (record.state = "whole" => record.value \in Fills)
    BY <2>2, <2>3 DEF Whole, Torn, Record
  <2> QED
    BY <2>2, <2>3, <2>4, <2>5 DEF LocalTypeOK
<1>5. ASSUME NEW r \in Runs, EndRun(r), UNCHANGED <<dir, lock, cache>>
      PROVE  LocalTypeOK'
  BY <1>0, <1>5 DEF EndRun, LocalTypeOK
<1>6. ASSUME NEW r \in Runs, NEW l \in Run, run' = [run EXCEPT ![r] = l],
             l.pc # "idle" => l.pack # Absent /\ l.params \in Params /\ l.model \in WorkerModels,
             l.pc \in {"storing", "render"} => l.value \in Fills,
             UNCHANGED <<dir, lock, cache>>
      PROVE  LocalTypeOK'
  BY <1>6 DEF LocalTypeOK
<1>7. ASSUME NEW r \in Runs, NEW params \in Params, NEW model \in WorkerModels,
             StartRun(r, params, model)
      PROVE  LocalTypeOK'
  <2> DEFINE pack == dir[Scopes[Resolved]]
             l == [IdleRun EXCEPT !.pc = "pinned", !.pack = pack, !.lock = lock,
                                  !.params = params, !.model = model]
  <2>1. pack \in Held /\ pack # Absent /\ lock \in Pins
    BY <1>7, ResolvedIsPack DEF StartRun, LocalTypeOK, IsPack
  <2>2. run' = [run EXCEPT ![r] = l] /\ UNCHANGED <<dir, lock, cache>>
    BY <1>7 DEF StartRun
  <2> HIDE DEF pack
  <2>3. l \in Run /\ l.pc = "pinned" /\ l.pack = pack /\ l.params = params /\ l.model = model
    BY <2>1 DEF IdleRun, Run
  <2> HIDE DEF l
  <2> QED
    BY <1>6, <2>1, <2>2, <2>3
<1>8. ASSUME NEW r \in Runs, ReadTemplates(r)
      PROVE  LocalTypeOK'
  <2> DEFINE l == [run[r] EXCEPT !.pc = "slot", !.pack = dir[Scopes[Resolved]]]
  <2>1. CASE EndRun(r)
    BY <1>5, <1>8, <2>1 DEF ReadTemplates
  <2>2. CASE ~EndRun(r)
    <3>1. dir[Scopes[Resolved]] \in Held /\ dir[Scopes[Resolved]] # Absent
      BY <1>8, <2>2, ResolvedIsPack DEF ReadTemplates, LocalTypeOK, IsPack
    <3>2. run[r] \in Run /\ run[r].params \in Params /\ run[r].model \in WorkerModels
      BY <1>8 DEF ReadTemplates, LocalTypeOK
    <3>3. run' = [run EXCEPT ![r] = l] /\ UNCHANGED <<dir, lock, cache>>
      BY <1>8, <2>2 DEF ReadTemplates
    <3>4. l \in Run /\ l.pc = "slot" /\ l.pack = dir[Scopes[Resolved]]
          /\ l.params = run[r].params /\ l.model = run[r].model
      BY <3>1, <3>2 DEF Run
    <3> HIDE DEF l
    <3> QED
      BY <1>6, <3>1, <3>2, <3>3, <3>4
  <2> QED
    BY <2>1, <2>2
<1>9. ASSUME NEW r \in Runs, ReadCache(r)
      PROVE  LocalTypeOK'
  <2>1. CASE EndRun(r)
    BY <1>5, <1>9, <2>1 DEF ReadCache
  <2>2. CASE SetRun(r, "asking")
    BY <1>9, <2>2 DEF ReadCache, SetRun, LocalTypeOK, Run
  <2>3. ASSUME NEW key \in {KeyOf(r), ManualKeyOf(r)}, cache[key].state = "whole",
               run' = [run EXCEPT ![r].pc = "render", ![r].value = cache[key].value]
        PROVE  LocalTypeOK'
    <3> DEFINE l == [run[r] EXCEPT !.pc = "render", !.value = cache[key].value]
    <3>1. key \in Keys /\ ~RunAt(r, "idle")
      BY <1>9, RunKeys DEF ReadCache
    <3>2. cache[key].value \in Fills
      BY <2>3, <3>1 DEF LocalTypeOK
    <3>3. run[r] \in Run /\ run[r].params \in Params /\ run[r].model \in WorkerModels
          /\ run[r].pack # Absent
      BY <3>1 DEF LocalTypeOK
    <3>4. run' = [run EXCEPT ![r] = l] /\ UNCHANGED <<dir, lock, cache>>
      BY <1>9, <2>3 DEF ReadCache
    <3>5. l \in Run /\ l.pack = run[r].pack /\ l.params = run[r].params
          /\ l.model = run[r].model /\ l.value = cache[key].value
      BY <3>2, <3>3 DEF Run
    <3> HIDE DEF l
    <3> QED
      BY <1>6, <3>2, <3>3, <3>4, <3>5
  <2> QED
    BY <1>9, <2>1, <2>2, <2>3 DEF ReadCache
<1>10. ASSUME NEW r \in Runs, ModelAnswers(r)
       PROVE  LocalTypeOK'
  <2> DEFINE value == Fill(run[r].pack.template.source, run[r].params, run[r].model)
  <2>1. /\ run[r] \in Run /\ run[r].params \in Params /\ run[r].model \in WorkerModels
        /\ run[r].pack # Absent /\ value \in Fills /\ KeyOf(r) \in Keys
    BY <1>10, RunKeys DEF ModelAnswers, LocalTypeOK
  <2>2. PICK dryRun \in BOOLEAN :
          /\ run' = [run EXCEPT ![r].value = value,
                                ![r].pc = IF dryRun THEN "render" ELSE "storing"]
          /\ cache' = IF dryRun THEN cache ELSE [cache EXCEPT ![KeyOf(r)] = Torn]
    BY <1>10 DEF ModelAnswers
  <2> HIDE DEF value
  <2> DEFINE l == [run[r] EXCEPT !.value = value, !.pc = IF dryRun THEN "render" ELSE "storing"]
  <2>3. run' = [run EXCEPT ![r] = l] /\ UNCHANGED <<dir, lock>>
    BY <1>10, <2>2 DEF ModelAnswers
  <2>4. l \in Run /\ l.value = value /\ l.pack = run[r].pack /\ l.params = run[r].params
        /\ l.model = run[r].model
    BY <2>1 DEF Run
  <2>5. /\ cache' \in [Keys -> Record]
        /\ \A key \in Keys : cache'[key].state = "whole" => cache'[key].value \in Fills
    BY <2>1, <2>2 DEF LocalTypeOK, Torn, Record
  <2> HIDE DEF l
  <2> QED
    BY <2>1, <2>3, <2>4, <2>5 DEF LocalTypeOK
<1>11. ASSUME NEW r \in Runs, StoreFill(r)
       PROVE  LocalTypeOK'
  <2> DEFINE l == [run[r] EXCEPT !.pc = "render"]
  <2>1. /\ run[r] \in Run /\ run[r].params \in Params /\ run[r].model \in WorkerModels
        /\ run[r].pack # Absent /\ run[r].value \in Fills /\ KeyOf(r) \in Keys
    BY <1>11, RunKeys DEF StoreFill, LocalTypeOK
  <2>2. run' = [run EXCEPT ![r] = l] /\ UNCHANGED <<dir, lock>>
    BY <1>11 DEF StoreFill, SetRun
  <2>3. l \in Run /\ l.value = run[r].value /\ l.pack = run[r].pack /\ l.params = run[r].params
        /\ l.model = run[r].model
    BY <2>1 DEF Run
  <2>4. PICK record \in {Whole(run[r].value), Torn} : cache' = [cache EXCEPT ![KeyOf(r)] = record]
    BY <1>11 DEF StoreFill
  <2>5. record \in Record /\ (record.state = "whole" => record.value \in Fills)
    BY <2>1, <2>4 DEF Whole, Torn, Record
  <2>6. /\ cache' \in [Keys -> Record]
        /\ \A key \in Keys : cache'[key].state = "whole" => cache'[key].value \in Fills
    BY <2>1, <2>4, <2>5 DEF LocalTypeOK
  <2> HIDE DEF l
  <2> QED
    BY <2>1, <2>2, <2>3, <2>6 DEF LocalTypeOK
<1>12. ASSUME NEW r \in Runs, ModelFails(r) \/ FinishRun(r) \/ KillRun(r)
       PROVE  LocalTypeOK'
  BY <1>5, <1>12 DEF ModelFails, FinishRun, KillRun
<1>13. CASE UNCHANGED localVars
  BY <1>13 DEF localVars, LocalTypeOK
<1> QED
  BY <1>2, <1>3, <1>4, <1>7, <1>8, <1>9, <1>10, <1>11, <1>12, <1>13 DEF LocalNext

LEMMA InitLocal == LocalInit => LocalTypeOK
<1>1. IdleRun \in Run /\ IdleRun.pc = "idle"
  BY DEF IdleRun, Run, Held, Pins
<1>2. Missing \in Record /\ Missing.state = "missing"
  BY DEF Missing, Record
<1> QED
  BY <1>1, <1>2 DEF LocalInit, LocalTypeOK, Held, Pins, RunAt

-----------------------------------------------------------------------------
(* Fills                                                                    *)

\* A fill was made of what a key stands for.
MadeFor(value, key) == value.source = key[1] /\ value.params = key[2] /\ value.model = key[3]

\* A whole record is under the key of what it was made of: a run looks for no
\* other, and stores no other.
FillInv ==
    /\ \A key \in Keys : cache[key].state = "whole" => MadeFor(cache[key].value, key)
    /\ \A r \in Runs : RunAt(r, "storing") => MadeFor(run[r].value, KeyOf(r))
    /\ FillMatchesTemplate

\* A run starts, ends or goes on to anything but a write or a rendering.
LEMMA FillFrame ==
    ASSUME LocalTypeOK, FillInv, NEW r \in Runs, NEW l,
           l.pc \notin {"storing", "render"}, run' = [run EXCEPT ![r] = l], UNCHANGED cache
    PROVE  FillInv'
BY DEF LocalTypeOK, FillInv, FillMatchesTemplate, RunAt, KeyOf

LEMMA FillStep == LocalTypeOK /\ FillInv /\ [LocalNext]_localVars => FillInv'
<1> SUFFICES ASSUME LocalTypeOK, FillInv, [LocalNext]_localVars PROVE FillInv'
  OBVIOUS
<1>0. IdleRun.pc = "idle"
  BY DEF IdleRun
<1>1. ASSUME NEW s \in ToSet(Scopes), NEW pack, PutDir(s, pack)
      PROVE  FillInv'
  <2>1. UNCHANGED cache /\
        \A r \in Runs : /\ run'[r].pc = run[r].pc /\ run'[r].pack = run[r].pack
                        /\ run'[r].params = run[r].params /\ run'[r].model = run[r].model
                        /\ run'[r].value = run[r].value
    BY <1>1 DEF PutDir, LocalTypeOK, Run
  <2>2. \A r \in Runs : KeyOf(r)' = KeyOf(r) /\ RunAt(r, "storing")' = RunAt(r, "storing")
                        /\ RunAt(r, "render")' = RunAt(r, "render")
    BY <2>1 DEF KeyOf, RunAt
  <2> QED
    BY <2>1, <2>2 DEF FillInv, FillMatchesTemplate
<1>2. ASSUME NEW s \in ToSet(Scopes),
             InstallFromRegistry(s) \/ InstallFromFolder(s) \/ RemoveDir(s)
      PROVE  FillInv'
  BY <1>1, <1>2 DEF InstallFromRegistry, InstallFromFolder, RemoveDir
<1>3. CASE UNCHANGED <<cache, run>>
  BY <1>3 DEF FillInv, FillMatchesTemplate, RunAt, KeyOf
<1>4. ASSUME NEW params \in Params, ManualFill(params)
      PROVE  FillInv'
  <2> DEFINE source == dir[Scopes[Resolved]].template.source
             value == Fill(source, params, "manual")
             key == SlotCacheKey(source, params, "manual")
  <2>1. PICK record \in {Whole(value), Torn} : cache' = [cache EXCEPT ![key] = record]
    BY <1>4 DEF ManualFill
  <2>2. record.state = "whole" => MadeFor(record.value, key)
    BY <2>1 DEF Whole, Torn, MadeFor, Fill, SlotCacheKey
  <2> HIDE DEF key, value
  <2>3. \A k \in Keys : cache'[k].state = "whole" => MadeFor(cache'[k].value, k)
    BY <2>1, <2>2 DEF LocalTypeOK, FillInv
  <2>4. UNCHANGED run
    BY <1>4 DEF ManualFill
  <2> QED
    BY <2>3, <2>4 DEF FillInv, FillMatchesTemplate, RunAt, KeyOf
<1>5. ASSUME NEW r \in Runs, EndRun(r), UNCHANGED cache
      PROVE  FillInv'
  BY <1>0, <1>5, FillFrame DEF EndRun
<1>6. ASSUME NEW r \in Runs, NEW params \in Params, NEW model \in WorkerModels,
             StartRun(r, params, model)
      PROVE  FillInv'
  <2> DEFINE l == [IdleRun EXCEPT !.pc = "pinned", !.pack = dir[Scopes[Resolved]],
                     !.lock = lock, !.params = params, !.model = model]
  <2>1. l.pc = "pinned"
    BY DEF IdleRun
  <2>2. run' = [run EXCEPT ![r] = l] /\ UNCHANGED cache
    BY <1>6 DEF StartRun
  <2> HIDE DEF l
  <2> QED
    BY <2>1, <2>2, FillFrame
<1>7. ASSUME NEW r \in Runs, ReadTemplates(r)
      PROVE  FillInv'
  <2> DEFINE l == [run[r] EXCEPT !.pc = "slot", !.pack = dir[Scopes[Resolved]]]
  <2>1. l.pc = "slot"
    BY DEF LocalTypeOK, Run
  <2>2. EndRun(r) \/ run' = [run EXCEPT ![r] = l]
    BY <1>7 DEF ReadTemplates
  <2>3. UNCHANGED cache
    BY <1>7 DEF ReadTemplates
  <2> HIDE DEF l
  <2> QED
    BY <1>5, <2>1, <2>2, <2>3, FillFrame
<1>8. ASSUME NEW r \in Runs, ReadCache(r)
      PROVE  FillInv'
  <2>1. UNCHANGED cache /\ ~RunAt(r, "idle")
    BY <1>8 DEF ReadCache, RunAt
  <2>2. CASE SetRun(r, "asking")
    <3> DEFINE l == [run[r] EXCEPT !.pc = "asking"]
    <3>1. l.pc = "asking" /\ run' = [run EXCEPT ![r] = l]
      BY <2>2 DEF SetRun, LocalTypeOK, Run
    <3> HIDE DEF l
    <3> QED
      BY <2>1, <3>1, FillFrame
  <2>3. ASSUME NEW key \in {KeyOf(r), ManualKeyOf(r)}, cache[key].state = "whole",
               run' = [run EXCEPT ![r].pc = "render", ![r].value = cache[key].value]
        PROVE  FillInv'
    <3>1. MadeFor(cache[key].value, key)
      BY <2>1, <2>3, RunKeys DEF FillInv
    <3>2. /\ cache[key].value.source = run[r].pack.template.source
          /\ cache[key].value.params = run[r].params
          /\ cache[key].value.model \in {run[r].model, "manual"}
      BY <2>1, <2>3, <3>1, RunKeys DEF MadeFor
    <3>3. /\ run'[r].pc = "render" /\ run'[r].value = cache[key].value
          /\ run'[r].pack = run[r].pack /\ run'[r].params = run[r].params
          /\ run'[r].model = run[r].model
          /\ \A q \in Runs : q # r => run'[q] = run[q]
      BY <2>3 DEF LocalTypeOK, Run
    <3>4. FillMatchesTemplate'
      BY <3>2, <3>3 DEF FillInv, FillMatchesTemplate, RunAt
    <3> QED
      BY <2>1, <3>3, <3>4 DEF FillInv, RunAt, KeyOf
  <2> QED
    BY <1>5, <1>8, <2>1, <2>2, <2>3 DEF ReadCache
<1>9. ASSUME NEW r \in Runs, ModelAnswers(r)
      PROVE  FillInv'
  <2> DEFINE value == Fill(run[r].pack.template.source, run[r].params, run[r].model)
  <2>1. PICK dryRun \in BOOLEAN :
          /\ run' = [run EXCEPT ![r].value = value,
                                ![r].pc = IF dryRun THEN "render" ELSE "storing"]
          /\ cache' = IF dryRun THEN cache ELSE [cache EXCEPT ![KeyOf(r)] = Torn]
    BY <1>9 DEF ModelAnswers
  <2>2. /\ value.source = run[r].pack.template.source /\ value.params = run[r].params
        /\ value.model = run[r].model /\ MadeFor(value, KeyOf(r))
    BY DEF Fill, MadeFor, KeyOf, SlotCacheKey
  <2> HIDE DEF value
  <2>3. /\ run'[r].pc \in {"render", "storing"} /\ run'[r].value = value
        /\ run'[r].pack = run[r].pack /\ run'[r].params = run[r].params
        /\ run'[r].model = run[r].model
        /\ \A q \in Runs : q # r => run'[q] = run[q]
    BY <2>1 DEF LocalTypeOK, Run
  <2>4. FillMatchesTemplate'
    BY <2>2, <2>3 DEF FillInv, FillMatchesTemplate, RunAt
  <2>5. \A q \in Runs : RunAt(q, "storing")' => MadeFor(run'[q].value, KeyOf(q)')
    BY <2>2, <2>3 DEF FillInv, RunAt, KeyOf
  <2>6. \A key \in Keys : cache'[key].state = "whole" => MadeFor(cache'[key].value, key)
    BY <2>1 DEF LocalTypeOK, FillInv, Torn
  <2> QED
    BY <2>4, <2>5, <2>6 DEF FillInv
<1>10. ASSUME NEW r \in Runs, StoreFill(r)
       PROVE  FillInv'
  <2>1. RunAt(r, "storing") /\ MadeFor(run[r].value, KeyOf(r)) /\ KeyOf(r) \in Keys
    BY <1>10, RunKeys DEF StoreFill, FillInv, RunAt
  <2>2. PICK record \in {Whole(run[r].value), Torn} : cache' = [cache EXCEPT ![KeyOf(r)] = record]
    BY <1>10 DEF StoreFill
  <2>3. \A key \in Keys : cache'[key].state = "whole" => MadeFor(cache'[key].value, key)
    BY <2>1, <2>2 DEF LocalTypeOK, FillInv, Whole, Torn
  <2>4. /\ run'[r].pc = "render" /\ run'[r].value = run[r].value
        /\ run'[r].pack = run[r].pack /\ run'[r].params = run[r].params
        /\ run'[r].model = run[r].model
        /\ \A q \in Runs : q # r => run'[q] = run[q]
    BY <1>10 DEF StoreFill, SetRun, LocalTypeOK, Run
  <2>5. FillMatchesTemplate'
    BY <2>1, <2>4, RunKeys DEF FillInv, FillMatchesTemplate, RunAt, MadeFor
  <2> QED
    BY <2>3, <2>4, <2>5 DEF FillInv, RunAt, KeyOf
<1>11. ASSUME NEW r \in Runs, ModelFails(r) \/ FinishRun(r) \/ KillRun(r)
       PROVE  FillInv'
  BY <1>5, <1>11 DEF ModelFails, FinishRun, KillRun
<1> QED
  BY <1>2, <1>3, <1>4, <1>6, <1>7, <1>8, <1>9, <1>10, <1>11 DEF LocalNext, WriteLock, localVars

\* What a run renders into a slot was made for the template it has read and
\* its params, by its own model or by hand.
THEOREM SlotsMatchTemplates == LocalSpec => []FillMatchesTemplate
<1>1. LocalInit => FillInv
  BY DEF LocalInit, FillInv, FillMatchesTemplate, RunAt, IdleRun, Missing
<1>2. FillInv => FillMatchesTemplate
  BY DEF FillInv
<1> QED
  BY <1>1, <1>2, InitLocal, LocalTypeStep, FillStep, PTL DEF LocalSpec

-----------------------------------------------------------------------------
(* The lockfile                                                             *)

\* Between the check of a pin and the reading of the templates, a pack that
\* has not changed is still the one the lockfile is about.
LockInv ==
    /\ \A r \in Runs : RunAt(r, "pinned") /\ run[r].lock # Absent /\ ~run[r].moved =>
         Resolved # 0 /\ Pin(dir[Scopes[Resolved]]) = run[r].lock
    /\ LockedRunIsPinned

LEMMA LockStep == LocalTypeOK /\ LockInv /\ [LocalNext]_localVars => LockInv'
<1> SUFFICES ASSUME LocalTypeOK, LockInv, [LocalNext]_localVars PROVE LockInv'
  OBVIOUS
<1>0. IdleRun.pc = "idle"
  BY DEF IdleRun
<1>1. ASSUME NEW s \in ToSet(Scopes), NEW pack, PutDir(s, pack)
      PROVE  LockInv'
  <2>1. \A r \in Runs : /\ run'[r].pc = run[r].pc /\ run'[r].pack = run[r].pack
                        /\ run'[r].lock = run[r].lock
                        /\ ~run'[r].moved => ~run[r].moved /\ ~RunAt(r, "pinned")
    BY <1>1 DEF PutDir, LocalTypeOK, Run
  <2> QED
    BY <2>1 DEF LockInv, LockedRunIsPinned, RunAt
<1>2. ASSUME NEW s \in ToSet(Scopes),
             InstallFromRegistry(s) \/ InstallFromFolder(s) \/ RemoveDir(s)
      PROVE  LockInv'
  BY <1>1, <1>2 DEF InstallFromRegistry, InstallFromFolder, RemoveDir
<1>3. UNCHANGED dir => Resolved' = Resolved
  BY ResolvedStays
<1>4. CASE UNCHANGED <<dir, run>>
  BY <1>3, <1>4 DEF LockInv, LockedRunIsPinned, RunAt
<1>5. ASSUME NEW r \in Runs, EndRun(r), UNCHANGED dir
      PROVE  LockInv'
  BY <1>0, <1>3, <1>5 DEF EndRun, LockInv, LockedRunIsPinned, RunAt, LocalTypeOK
<1>6. ASSUME NEW r \in Runs, NEW params \in Params, NEW model \in WorkerModels,
             StartRun(r, params, model)
      PROVE  LockInv'
  <2> DEFINE pack == dir[Scopes[Resolved]]
  <2>1. /\ run'[r].pc = "pinned" /\ run'[r].lock = lock
        /\ \A q \in Runs : q # r => run'[q] = run[q]
        /\ UNCHANGED dir /\ Resolved # 0 /\ VerifyPin(lock, Pin(pack))
    BY <1>6 DEF StartRun, LocalTypeOK, IdleRun
  <2> QED
    BY <1>3, <2>1 DEF LockInv, LockedRunIsPinned, RunAt, VerifyPin
<1>7. ASSUME NEW r \in Runs, ReadTemplates(r)
      PROVE  LockInv'
  <2>1. CASE EndRun(r)
    BY <1>5, <1>7, <2>1 DEF ReadTemplates
  <2>2. CASE ~EndRun(r)
    <3>1. /\ run'[r].pc = "slot" /\ run'[r].pack = dir[Scopes[Resolved]]
          /\ run'[r].lock = run[r].lock /\ run'[r].moved = run[r].moved
          /\ \A q \in Runs : q # r => run'[q] = run[q]
          /\ UNCHANGED dir /\ RunAt(r, "pinned")
      BY <1>7, <2>2 DEF ReadTemplates, LocalTypeOK, Run
    <3> QED
      BY <1>3, <3>1 DEF LockInv, LockedRunIsPinned, RunAt
  <2> QED
    BY <2>1, <2>2
<1>8. ASSUME NEW r \in Runs, ReadCache(r) \/ ModelAnswers(r) \/ StoreFill(r), ~EndRun(r)
      PROVE  LockInv'
  <2>1. /\ run'[r].pc \notin {"idle", "pinned"} /\ run'[r].pack = run[r].pack
        /\ run'[r].lock = run[r].lock /\ run'[r].moved = run[r].moved
        /\ \A q \in Runs : q # r => run'[q] = run[q]
        /\ UNCHANGED dir /\ run[r].pc \notin {"idle", "pinned"}
    BY <1>8 DEF ReadCache, ModelAnswers, StoreFill, SetRun, RunAt, LocalTypeOK, Run
  <2> QED
    BY <1>3, <2>1 DEF LockInv, LockedRunIsPinned, RunAt
<1>9. ASSUME NEW r \in Runs, ReadCache(r) \/ ModelFails(r) \/ FinishRun(r) \/ KillRun(r)
      PROVE  LockInv'
  BY <1>5, <1>8, <1>9 DEF ReadCache, ModelFails, FinishRun, KillRun
<1>10. ASSUME NEW params \in Params, ManualFill(params)
       PROVE  LockInv'
  BY <1>4, <1>10 DEF ManualFill
<1>11. ASSUME NEW r \in Runs, ModelAnswers(r) \/ StoreFill(r)
       PROVE  LockInv'
  BY <1>5, <1>8, <1>11 DEF ModelAnswers, StoreFill
<1> QED
  BY <1>2, <1>4, <1>6, <1>7, <1>9, <1>10, <1>11 DEF LocalNext, WriteLock, localVars

\* A run under a lockfile uses the files that were locked, unless they change
\* while it waits for its add-ons.
THEOREM LockedRunsArePinned == LocalSpec => []LockedRunIsPinned
<1>1. LocalInit => LockInv
  BY DEF LocalInit, LockInv, LockedRunIsPinned, RunAt, IdleRun
<1>2. LockInv => LockedRunIsPinned
  BY DEF LockInv
<1> QED
  BY <1>1, <1>2, InitLocal, LocalTypeStep, LockStep, PTL DEF LocalSpec
=============================================================================
