--------------------------- MODULE ChatView_proofs ---------------------------
(***************************************************************************)
(* Proofs about ChatView: types, and that the page's status keeps its      *)
(* requests apart, so that what holds of the engine when requests come     *)
(* one at a time holds behind the page.                                    *)
(***************************************************************************)
EXTENDS ChatView, DebateEngine_proofs

-----------------------------------------------------------------------------
(* Types *)

\* What a step of the page is for the engine.
LEMMA EngineParts ==
  ASSUME ChatTypeOK, [ChatNext]_chatVars
  PROVE  \/ \E r \in Runs : job[r].at = "queued" /\ SendTurnRequest(r) /\ Submit(r)
         \/ \E r \in Runs : RunTurn(r)
         \/ Others
         \/ UNCHANGED vars
<1> DEFINE Part == \/ \E r \in Runs : job[r].at = "queued" /\ SendTurnRequest(r) /\ Submit(r)
                   \/ \E r \in Runs : RunTurn(r)
                   \/ Others
                   \/ UNCHANGED vars
<1>1. ASSUME NEW r \in Runs, PageJob(r) PROVE Part
  <2>1. ASSUME SendTurnRequest(r), job[r].at = "queued" PROVE Part
    <3>1. job[r].target \in AgentOrNone /\ job[r].body \in BOOLEAN
      BY <2>1 DEF ChatTypeOK, Job
    <3>2. Submit(r)
      BY <2>1, <3>1 DEF SendTurnRequest, Submit
    <3> QED
      BY <2>1, <3>2
  <2>2. ASSUME SendAnnounce(r) \/ SendEnd(r) PROVE Part
    BY <2>2 DEF SendAnnounce, SendEnd, Others
  <2>3. ASSUME SendWithoutDebate(r) \/ SendAskContinue(r) PROVE Part
    BY <2>3 DEF SendWithoutDebate, SendAskContinue
  <2>4. ASSUME FinishJob(r) PROVE Part
    BY <2>4 DEF FinishJob, FinishNextTurn, FinishInject, FinishContinue, FinishAnnounce, FinishEnd,
                FinishAskContinue, FinishSimulate, StreamError
  <2>5. ASSUME NewDebate(r) PROVE Part
    BY <2>5 DEF NewDebate, CreateDebate, FinishNew, AnnounceOpening, Others
  <2>6. ASSUME Handshake(r) PROVE Part
    BY <2>6 DEF Handshake
  <2> HIDE DEF Part
  <2> QED
    BY <1>1, <2>1, <2>2, <2>3, <2>4, <2>5, <2>6 DEF PageJob, StartJob
<1>2. ASSUME NEW r \in Runs, Backend(r) PROVE Part
  BY <1>2 DEF Backend
<1>3. ASSUME Environment PROVE Part
  <2>1. ASSUME NEW r \in Runs, UserEvent(r) \/ StreamBreaks(r) PROVE Part
    BY <2>1 DEF UserEvent, StreamBreaks, ClickNextTurn, SendAt, SendPlain, SendOffline, ClickConnect,
                SendNew, SendContinue, ClickEnd
  <2>2. ASSUME NEW a \in Agent, Repair(a) PROVE Part
    BY <2>2 DEF Others
  <2> HIDE DEF Part
  <2> QED
    BY <1>3, <2>1, <2>2 DEF Environment
<1>4. ASSUME UNCHANGED chatVars PROVE Part
  BY <1>4 DEF chatVars
<1>5. Part
  <2> HIDE DEF Part
  <2> QED
    BY <1>1, <1>2, <1>3, <1>4 DEF ChatNext
<1> QED
  BY <1>5

LEMMA EngineSteps ==
  ASSUME ChatTypeOK, [ChatNext]_chatVars
  PROVE  [Next]_vars
BY EngineParts DEF Next

LEMMA EngineStepKeepsInv ==
  ASSUME EngineInv, [Next]_vars
  PROVE  EngineInv'
<1>1. CASE UNCHANGED vars
  BY <1>1 DEF vars, EngineInv, TypeOK, GraphOK
<1> QED
  BY <1>1, SubmitKeepsInv, RunTurnKeepsInv, OthersKeepInv DEF Next

\* What the handlers make of a job is a job.
LEMMA JobTypes ==
  /\ NoJob \in Job
  /\ \A kind \in {"next_turn", "inject", "continue", "announce", "end", "ask_continue", "new",
                  "connect", "simulate"} : Queued(kind) \in Job
  /\ \A j \in Job :
       /\ \A at \in {"queued", "sent", "opening", "failed"} : [j EXCEPT !.at = at] \in Job
       /\ \A n \in Int : [j EXCEPT !.label = n] \in Job
       /\ \A n \in Nat : [j EXCEPT !.left = n] \in Job
       /\ \A a \in AgentOrNone : [j EXCEPT !.at = "sent", !.main = a] \in Job
       /\ \A a \in AgentOrNone, b \in BOOLEAN : [j EXCEPT !.target = a, !.body = b] \in Job
       /\ \A n \in Int, m \in Nat : [j EXCEPT !.label = n, !.left = m] \in Job
<1>1. NoJob \in Job
  BY DEF Job, NoJob, AgentOrNone
<1>2. \A kind \in {"next_turn", "inject", "continue", "announce", "end", "ask_continue", "new",
                  "connect", "simulate"} : Queued(kind) \in Job
  <2> SUFFICES ASSUME NEW kind \in {"next_turn", "inject", "continue", "announce", "end", "ask_continue",
                                    "new", "connect", "simulate"}
               PROVE  Queued(kind) \in Job
    OBVIOUS
  <2>1. [NoJob EXCEPT !.kind = kind] \in Job
    BY <1>1 DEF Job
  <2>2. [[NoJob EXCEPT !.kind = kind] EXCEPT !.at = "queued"] \in Job
    BY <2>1 DEF Job
  <2>3. [[NoJob EXCEPT !.kind = kind] EXCEPT !.at = "queued"] = [NoJob EXCEPT !.kind = kind, !.at = "queued"]
    OBVIOUS
  <2> QED
    BY <2>2, <2>3 DEF Queued
<1>3. ASSUME NEW j \in Job
      PROVE  /\ \A at \in {"queued", "sent", "opening", "failed"} : [j EXCEPT !.at = at] \in Job
             /\ \A n \in Int : [j EXCEPT !.label = n] \in Job
             /\ \A n \in Nat : [j EXCEPT !.left = n] \in Job
             /\ \A a \in AgentOrNone : [j EXCEPT !.at = "sent", !.main = a] \in Job
             /\ \A a \in AgentOrNone, b \in BOOLEAN : [j EXCEPT !.target = a, !.body = b] \in Job
             /\ \A n \in Int, m \in Nat : [j EXCEPT !.label = n, !.left = m] \in Job
  <2>1. \A at \in {"queued", "sent", "opening", "failed"} : [j EXCEPT !.at = at] \in Job
    BY DEF Job
  <2>2. \A n \in Int : [j EXCEPT !.label = n] \in Job
    BY DEF Job
  <2>3. \A n \in Nat : [j EXCEPT !.left = n] \in Job
    BY DEF Job
  <2>4. \A a \in AgentOrNone : [j EXCEPT !.at = "sent", !.main = a] \in Job
    BY DEF Job
  <2>5. \A a \in AgentOrNone, b \in BOOLEAN : [j EXCEPT !.target = a, !.body = b] \in Job
    BY DEF Job
  <2>6. \A n \in Int, m \in Nat : [j EXCEPT !.label = n, !.left = m] \in Job
    BY DEF Job
  <2> QED
    BY <2>1, <2>2, <2>3, <2>4, <2>5, <2>6
<1> QED
  BY <1>1, <1>2, <1>3

LEMMA QueuedIs ==
  ASSUME NEW kind
  PROVE  Queued(kind).kind = kind /\ Queued(kind).at = "queued"
BY DEF Queued, NoJob

LEMMA PageTypes ==
  ASSUME ChatTypeOK, [ChatNext]_chatVars, TypeOK'
  PROVE  ChatTypeOK'
<1> DEFINE Rest == /\ uiStatus' \in {"idle", "streaming"} /\ debateOpen' \in BOOLEAN
                   /\ currentAgent' \in AgentOrNone /\ agentTurnCount' \in Int
                   /\ inSide' \in BOOLEAN /\ debateEnded' \in BOOLEAN
                   /\ job' \in [Runs -> Job] /\ isConnected' \in BOOLEAN
                   /\ clientReady' \in BOOLEAN /\ connecting' \in Runs \cup {None}
                   /\ created' \in BOOLEAN
<1>1. /\ uiStatus \in {"idle", "streaming"} /\ debateOpen \in BOOLEAN
      /\ currentAgent \in AgentOrNone /\ agentTurnCount \in Int
      /\ inSide \in BOOLEAN /\ debateEnded \in BOOLEAN
      /\ job \in [Runs -> Job] /\ isConnected \in BOOLEAN
      /\ clientReady \in BOOLEAN /\ connecting \in Runs \cup {None}
      /\ created \in BOOLEAN
  BY DEF ChatTypeOK
<1>2. \A r \in Runs : job[r] \in Job /\ job[r].left \in Nat /\ NextAgentOf(r) \in AgentOrNone
                      /\ job[r].main \in AgentOrNone
  BY <1>1 DEF Job, ChatTypeOK, TypeOK, Reply, NextAgentOf, AgentOrNone
<1>3. agentTurnCount + 1 \in Int /\ agentTurnCount - 1 \in Int /\ 0 \in Int /\ 0 \in AgentOrNone
      /\ None \in AgentOrNone
  BY <1>1, FirstIsAgent DEF AgentOrNone
<1>4. ASSUME NEW r \in Runs, StartJob(r), UNCHANGED <<clientVars, created>> PROVE Rest
  <2>1. UNCHANGED <<uiStatus, debateOpen, currentAgent, agentTurnCount, inSide, debateEnded,
                    isConnected, clientReady, connecting, created>>
    BY <1>4 DEF StartJob, uiVars, clientVars
  <2>2. /\ [job[r] EXCEPT !.at = "sent"] \in Job
        /\ [job[r] EXCEPT !.at = "failed"] \in Job
        /\ [job[r] EXCEPT !.at = "sent", !.main = currentAgent] \in Job
        /\ NoJob \in Job
    BY <1>1, <1>2, JobTypes
  <2>3. ASSUME SendTurnRequest(r) PROVE job' \in [Runs -> Job]
    BY <1>1, <2>2, <2>3 DEF SendTurnRequest
  <2>4. ASSUME SendWithoutDebate(r) PROVE job' \in [Runs -> Job]
    BY <1>1, <2>2, <2>4 DEF SendWithoutDebate
  <2>5. ASSUME SendAnnounce(r) PROVE job' \in [Runs -> Job]
    BY <1>1, <2>2, <2>5 DEF SendAnnounce
  <2>6. ASSUME SendEnd(r) PROVE job' \in [Runs -> Job]
    BY <1>1, <2>2, <2>6 DEF SendEnd
  <2>7. ASSUME SendAskContinue(r) PROVE job' \in [Runs -> Job]
    BY <1>1, <2>2, <2>7 DEF SendAskContinue
  <2>8. job' \in [Runs -> Job]
    BY <1>4, <2>3, <2>4, <2>5, <2>6, <2>7 DEF StartJob
  <2> QED
    BY <1>1, <2>1, <2>8
<1>5. ASSUME NEW r \in Runs, FinishJob(r), UNCHANGED <<clientVars, created>> PROVE Rest
  <2>1. UNCHANGED <<isConnected, clientReady, connecting, created>>
    BY <1>5 DEF clientVars
  <2>2. ASSUME FinishNextTurn(r) PROVE Rest
    BY <1>1, <1>2, <1>3, <2>1, <2>2, JobTypes DEF FinishNextTurn, MarkEnded
  <2>3. ASSUME FinishContinue(r) PROVE Rest
    <3>1. job[r].left > 1 => job[r].left - 1 \in Nat
      BY <1>2
    <3>2. job[r].left > 1 => [Queued("continue") EXCEPT !.label = agentTurnCount + 1,
                                                        !.left = job[r].left - 1] \in Job
      BY <1>3, <3>1, JobTypes
    <3> QED
      BY <1>1, <1>2, <1>3, <2>1, <2>3, <3>2, JobTypes DEF FinishContinue, MarkEnded
  <2>4. ASSUME FinishAskContinue(r) PROVE Rest
    <3>1. [Queued("continue") EXCEPT !.label = agentTurnCount + 1, !.left = job[r].left] \in Job
      BY <1>2, <1>3, JobTypes
    <3> QED
      BY <1>1, <1>3, <2>1, <2>4, <3>1 DEF FinishAskContinue
  <2>5. ASSUME FinishInject(r) \/ FinishAnnounce(r) \/ FinishEnd(r) \/ FinishSimulate(r) \/ StreamError(r)
        PROVE  Rest
    BY <1>1, <1>2, <1>3, <2>1, <2>5, JobTypes
       DEF FinishInject, FinishAnnounce, FinishEnd, FinishSimulate, StreamError
  <2> QED
    BY <1>5, <2>2, <2>3, <2>4, <2>5 DEF FinishJob
<1>6. ASSUME NEW r \in Runs, NewDebate(r), UNCHANGED clientVars PROVE Rest
  BY <1>1, <1>2, <1>3, <1>6, JobTypes DEF NewDebate, CreateDebate, FinishNew, AnnounceOpening, uiVars, clientVars
<1>7. ASSUME NEW r \in Runs, Handshake(r), UNCHANGED created PROVE Rest
  BY <1>1, <1>2, <1>7, JobTypes DEF Handshake, StartConnect, Connected, ConnectFails, uiVars
<1>8. ASSUME NEW r \in Runs, UserEvent(r) \/ StreamBreaks(r), UNCHANGED <<clientVars, created>> PROVE Rest
  <2>1. UNCHANGED <<isConnected, clientReady, connecting, created>>
    BY <1>8 DEF clientVars
  <2>2. ASSUME NEW j \in Job, AskForTurn(r, j)
        PROVE  job' \in [Runs -> Job] /\ uiStatus' = "streaming" /\ agentTurnCount' \in Int
    <3>1. [j EXCEPT !.label = agentTurnCount + 1] \in Job
      BY <1>3, JobTypes
    <3> QED
      BY <1>1, <1>3, <2>2, <3>1 DEF AskForTurn, Schedule
  <2>3. ASSUME ClickNextTurn(r) PROVE Rest
    <3>1. Queued("next_turn") \in Job
      BY JobTypes
    <3> QED
      BY <1>1, <2>1, <2>2, <2>3, <3>1 DEF ClickNextTurn
  <2>4. ASSUME NEW a \in AgentOrNone, NEW b \in BOOLEAN, SendAt(r, a, b) PROVE Rest
    <3>1. [Queued("inject") EXCEPT !.target = a, !.body = b] \in Job
      BY JobTypes
    <3> QED
      BY <1>1, <2>1, <2>2, <2>4, <3>1 DEF SendAt
  <2>5. ASSUME SendPlain(r) \/ SendOffline(r) \/ SendNew(r) \/ ClickEnd(r) \/ ClickConnect(r)
        PROVE  Rest
    BY <1>1, <2>1, <2>5, JobTypes DEF SendPlain, SendOffline, SendNew, ClickEnd, ClickConnect, Schedule, uiVars
  <2>6. ASSUME NEW n \in ContinueRounds, SendContinue(r, n) PROVE Rest
    <3>1. 2 * n \in Nat
      BY ChatAssumption
    <3>2. [Queued("ask_continue") EXCEPT !.left = 2 * n] \in Job
      BY <3>1, JobTypes
    <3> QED
      BY <1>1, <2>1, <2>6, <3>2 DEF SendContinue, Schedule, uiVars
  <2>7. ASSUME StreamBreaks(r) PROVE Rest
    BY <1>1, <1>2, <2>1, <2>7, JobTypes DEF StreamBreaks, uiVars
  <2>8. \A a \in Agent : a \in AgentOrNone
    BY DEF AgentOrNone
  <2> QED
    BY <1>3, <1>8, <2>3, <2>4, <2>5, <2>6, <2>7, <2>8 DEF UserEvent
<1>9. ASSUME UNCHANGED <<uiVars, job, clientVars, created>> PROVE Rest
  BY <1>1, <1>9 DEF uiVars, clientVars
<1>10. Rest
  <2>1. ASSUME NEW r \in Runs, PageJob(r) PROVE Rest
    BY <1>4, <1>5, <1>6, <1>7, <2>1 DEF PageJob
  <2>2. ASSUME Environment PROVE Rest
    BY <1>8, <1>9, <2>2 DEF Environment
  <2> HIDE DEF Rest
  <2> QED
    BY <1>9, <2>1, <2>2 DEF ChatNext, Backend, chatVars
<1> QED
  BY <1>10 DEF ChatTypeOK

LEMMA ChatTypeInvariance == ChatSpec => [](EngineInv /\ ChatTypeOK)
<1>1. ChatInit => EngineInv /\ ChatTypeOK
  <2> SUFFICES ASSUME ChatInit PROVE EngineInv /\ ChatTypeOK
    OBVIOUS
  <2>1. EngineInv
    BY EngineInvInit DEF ChatInit
  <2>2. PICK r \in Runs : job = [q \in Runs |-> IF q = r THEN Queued("connect") ELSE NoJob]
    BY DEF ChatInit
  <2>3. job \in [Runs -> Job]
    BY <2>2, JobTypes
  <2>4. TypeOK
    BY <2>1 DEF EngineInv
  <2>5. currentAgent \in AgentOrNone /\ agentTurnCount \in Int
    BY DEF ChatInit, AgentOrNone
  <2>6. ChatTypeOK
    BY <2>3, <2>4, <2>5 DEF ChatInit, ChatTypeOK
  <2> QED
    BY <2>1, <2>6
<1>2. (EngineInv /\ ChatTypeOK) /\ [ChatNext]_chatVars => (EngineInv /\ ChatTypeOK)'
  <2> SUFFICES ASSUME EngineInv, ChatTypeOK, [ChatNext]_chatVars PROVE EngineInv' /\ ChatTypeOK'
    OBVIOUS
  <2>1. EngineInv'
    BY EngineSteps, EngineStepKeepsInv
  <2>2. TypeOK'
    BY <2>1 DEF EngineInv
  <2> QED
    BY <2>1, <2>2, PageTypes
<1> QED
  BY <1>1, <1>2, PTL DEF ChatSpec

\* Whatever the user does, whichever connections are lost and however the jobs and the
\* backend's tasks interleave, the page and the debate keep their types; labels may
\* become negative, as a turn that is over gives its number back even after /end has
\* reset the count (ChatTypeOK; _handle_debate_ended, _do_debate_command).
THEOREM ChatTypes == ChatSpec => []ChatTypeOK
  BY ChatTypeInvariance, PTL

\* Every behaviour of the page is one of the engine that TLC and the proofs look at by
\* itself: a page's job asks for nothing that the engine's own specification does not allow.
THEOREM PageDrivesEngine == ChatSpec => Spec
<1>1. ChatInit => Init
  BY DEF ChatInit
<1>2. ChatTypeOK /\ [ChatNext]_chatVars => [Next]_vars
  BY EngineSteps
<1> QED
  BY <1>1, <1>2, ChatTypes, PTL DEF ChatSpec, Spec

\* So behind a page on which remarks, /continue and lost connections let turns overlap,
\* current_turn still follows the last author and the limit still ends no debate before
\* its rounds have been taken (CurrentTurnFollowsHistory, NeverEndsEarly).
THEOREM OverlappingPageIsCounted == ChatSpec => [](CurrentTurnFollowsHistory /\ NeverEndsEarly)
  BY PageDrivesEngine, TurnCounter, LimitNotEarly, PTL

-----------------------------------------------------------------------------
(* The page has one turn under way at a time, as long as it sets its status  *)
(* back only when that turn is over: after an announcement or a lost stream  *)
(* it sets it back early, and /continue asks for its turns unchecked.        *)

StatusIsKept == UserInputs \cap {"plain", "continue"} = {} /\ LossyRuns = {}

\* The jobs that end by setting the status back.
Holds(r) == job[r].kind \in TurnKinds \cup {"simulate"}

PageInv ==
  /\ \A r \in Runs :
       /\ job[r].kind \notin {"announce", "ask_continue", "continue"}
       /\ Holds(r) => uiStatus = "streaming"
       /\ job[r].at = "failed" => job[r].kind \in TurnKinds
       /\ pc[r] # "idle" => job[r].kind \in TurnKinds /\ job[r].at = "sent"
  /\ \A q, r \in Runs : Holds(q) /\ Holds(r) => q = r

\* What a step has to keep to when it replaces one job.
LEMMA JobReplaced ==
  ASSUME job \in [Runs -> Job], PageInv, NEW r \in Runs, NEW j, job' = [job EXCEPT ![r] = j],
         j.kind \notin {"announce", "ask_continue", "continue"},
         j.at = "failed" => j.kind \in TurnKinds,
         pc'[r] # "idle" => j.kind \in TurnKinds /\ j.at = "sent",
         j.kind \in TurnKinds \cup {"simulate"} =>
           uiStatus' = "streaming" /\ \A q \in Runs \ {r} : ~Holds(q),
         \A q \in Runs \ {r} : pc'[q] # "idle" => pc[q] # "idle",
         \A q \in Runs \ {r} : Holds(q) => uiStatus' = "streaming"
  PROVE  PageInv'
<1>1. job'[r] = j /\ \A q \in Runs \ {r} : job'[q] = job[q]
  OBVIOUS
<1>2. ASSUME NEW q \in Runs
      PROVE  /\ job'[q].kind \notin {"announce", "ask_continue", "continue"}
             /\ Holds(q)' => uiStatus' = "streaming"
             /\ job'[q].at = "failed" => job'[q].kind \in TurnKinds
             /\ pc'[q] # "idle" => job'[q].kind \in TurnKinds /\ job'[q].at = "sent"
  <2>1. CASE q = r
    BY <1>1, <2>1 DEF Holds
  <2>2. CASE q # r
    BY <1>1, <2>2 DEF Holds, PageInv
  <2> QED
    BY <2>1, <2>2
<1>3. ASSUME NEW p \in Runs, NEW q \in Runs, Holds(p)', Holds(q)' PROVE p = q
  <2>1. CASE p = r \/ q = r
    BY <1>1, <1>3, <2>1 DEF Holds
  <2>2. CASE p # r /\ q # r
    BY <1>1, <1>3, <2>2 DEF Holds, PageInv
  <2> QED
    BY <2>1, <2>2
<1> QED
  BY <1>2, <1>3 DEF PageInv

\* The engine's requests of slots other than r keep their places.
LEMMA OthersStay ==
  ASSUME TypeOK, NEW r \in Runs,
         Submit(r) \/ RunTurn(r) \/ Others \/ UNCHANGED vars
  PROVE  /\ \A q \in Runs \ {r} : pc'[q] = pc[q]
         /\ RunTurn(r) => pc[r] # "idle"
<1>1. ASSUME Submit(r) PROVE \A q \in Runs \ {r} : pc'[q] = pc[q]
  BY <1>1 DEF Submit, NextTurn, Inject, Spawn, RejectWith, TypeOK
<1>2. ASSUME RunTurn(r) PROVE pc[r] # "idle" /\ \A q \in Runs \ {r} : pc'[q] = pc[q]
  BY <1>2 DEF RunTurn, Begin, Resume, Router, AgentTurn, CreateLlmFails, Respond, LoadCheckpoint, TypeOK
<1>3. ASSUME Others \/ UNCHANGED vars PROVE UNCHANGED pc
  BY <1>3 DEF Others, Announce, Stop, Repair, vars
<1> QED
  BY <1>1, <1>2, <1>3

LEMMA PageStart ==
  ASSUME StatusIsKept, ChatTypeOK, PageInv, NEW r \in Runs, StartJob(r)
  PROVE  PageInv'
<1>1. job \in [Runs -> Job] /\ TypeOK /\ job[r] \in Job /\ job[r].at = "queued" /\ UNCHANGED uiStatus
  BY DEF ChatTypeOK, StartJob, uiVars
<1>2. pc[r] = "idle"
  BY <1>1 DEF PageInv
<1>3. \A q \in Runs : Holds(q) => uiStatus' = "streaming"
  BY <1>1 DEF PageInv
<1>4. Holds(r) => \A q \in Runs \ {r} : ~Holds(q)
  BY DEF PageInv
<1>5. job[r].kind \notin {"announce", "ask_continue", "continue"}
  BY DEF PageInv
<1>6. ASSUME SendTurnRequest(r) PROVE PageInv'
  <2> DEFINE j == [job[r] EXCEPT !.at = "sent", !.main = currentAgent]
  <2>1. j.kind = job[r].kind /\ j.at = "sent" /\ job[r].kind \in TurnKinds
    BY <1>1, <1>6 DEF SendTurnRequest, Job
  <2>2. job' = [job EXCEPT ![r] = j]
    BY <1>1, <1>6 DEF SendTurnRequest
  <2>3. Submit(r)
    <3>1. job[r].target \in AgentOrNone /\ job[r].body \in BOOLEAN
      BY <1>1 DEF Job
    <3> QED
      BY <1>6, <3>1 DEF SendTurnRequest, Submit
  <2>4. \A q \in Runs \ {r} : pc'[q] = pc[q]
    BY <1>1, <2>3, OthersStay
  <2> HIDE DEF j
  <2> QED
    BY <1>1, <1>3, <1>4, <1>5, <2>1, <2>2, <2>4, JobReplaced DEF Holds
<1>7. ASSUME SendWithoutDebate(r) PROVE PageInv'
  <2> DEFINE j == [job[r] EXCEPT !.at = "failed"]
  <2>1. j.kind = job[r].kind /\ job[r].kind \in TurnKinds
    BY <1>1, <1>7 DEF SendWithoutDebate, Job
  <2>2. job' = [job EXCEPT ![r] = j] /\ pc' = pc
    BY <1>1, <1>7 DEF SendWithoutDebate, vars
  <2> HIDE DEF j
  <2> QED
    BY <1>1, <1>2, <1>3, <1>4, <1>5, <2>1, <2>2, JobReplaced DEF Holds
<1>8. ASSUME SendEnd(r) PROVE PageInv'
  <2>1. PICK j : job' = [job EXCEPT ![r] = j] /\ (j = NoJob \/ j = [job[r] EXCEPT !.at = "sent"])
    BY <1>1, <1>8 DEF SendEnd
  <2>2. pc' = pc /\ job[r].kind = "end"
    BY <1>8 DEF SendEnd, Stop, vars
  <2>3. j.kind \in {"none", "end"} /\ j.at # "failed"
    BY <1>1, <2>1, <2>2 DEF Job, NoJob
  <2> QED
    BY <1>1, <1>2, <1>3, <2>1, <2>2, <2>3, JobReplaced DEF TurnKinds
<1> QED
  BY <1>5, <1>6, <1>7, <1>8 DEF StartJob, SendAnnounce, SendAskContinue

LEMMA PageFinish ==
  ASSUME StatusIsKept, ChatTypeOK, PageInv, NEW r \in Runs, FinishJob(r)
  PROVE  PageInv'
<1>1. job \in [Runs -> Job] /\ TypeOK /\ job[r] \in Job
  BY DEF ChatTypeOK
<1>2. NoJob.kind = "none" /\ NoJob.at = "none"
  BY DEF NoJob
<1>3. ASSUME job' = [job EXCEPT ![r] = NoJob], pc' = pc, pc[r] = "idle" \/ job[r].at # "sent",
             Holds(r) \/ uiStatus' = uiStatus
      PROVE  PageInv'
  <2>1. pc'[r] = "idle"
    BY <1>3 DEF PageInv
  <2>2. \A q \in Runs \ {r} : Holds(q) => uiStatus' = "streaming"
    BY <1>3 DEF PageInv
  <2> QED
    BY <1>1, <1>2, <1>3, <2>1, <2>2, JobReplaced DEF TurnKinds
<1>4. ASSUME FinishNextTurn(r) \/ FinishInject(r) PROVE PageInv'
  BY <1>3, <1>4 DEF FinishNextTurn, FinishInject, Answered, MarkEnded, Holds, TurnKinds, vars
<1>5. ASSUME FinishSimulate(r) PROVE PageInv'
  <2>1. job' = [job EXCEPT ![r] = NoJob] /\ pc' = pc /\ job[r].at = "queued" /\ job[r].kind = "simulate"
    BY <1>5 DEF FinishSimulate, vars
  <2> QED
    BY <1>3, <2>1 DEF Holds
<1>6. ASSUME FinishEnd(r) PROVE PageInv'
  <2>1. job' = [job EXCEPT ![r] = NoJob] /\ pc' = pc /\ job[r].kind = "end" /\ uiStatus' = uiStatus
    BY <1>6 DEF FinishEnd, vars
  <2>2. pc[r] = "idle"
    BY <2>1 DEF PageInv, TurnKinds
  <2> QED
    BY <1>3, <2>1, <2>2
<1>7. ASSUME StreamError(r) PROVE PageInv'
  <2>1. job' = [job EXCEPT ![r] = NoJob] /\ pc' = pc /\ job[r].at = "failed"
    BY <1>7 DEF StreamError, vars
  <2>2. Holds(r)
    BY <2>1 DEF PageInv, Holds
  <2> QED
    BY <1>3, <2>1, <2>2
<1>8. job[r].kind \notin {"announce", "ask_continue", "continue"}
  BY DEF PageInv
<1> QED
  BY <1>4, <1>5, <1>6, <1>7, <1>8 DEF FinishJob, FinishContinue, FinishAnnounce, FinishAskContinue

LEMMA PageEvent ==
  ASSUME StatusIsKept, ChatTypeOK, PageInv, NEW r \in Runs, UserEvent(r)
  PROVE  PageInv'
<1>1. job \in [Runs -> Job] /\ TypeOK /\ uiStatus \in {"idle", "streaming"}
  BY DEF ChatTypeOK
<1>2. uiStatus # "streaming" => \A q \in Runs : ~Holds(q)
  BY DEF PageInv
<1>3. \A kind \in {"next_turn", "inject", "end", "new", "connect", "simulate"} :
        Queued(kind) \in Job /\ Queued(kind).kind = kind /\ Queued(kind).at = "queued"
  BY JobTypes, QueuedIs
<1>4. ASSUME NEW j \in Job, j.kind \in TurnKinds \ {"continue"}, j.at = "queued", AskForTurn(r, j),
             pc' = pc, uiStatus # "streaming"
      PROVE  PageInv'
  <2> DEFINE i == [j EXCEPT !.label = agentTurnCount + 1]
  <2>1. i.kind = j.kind /\ i.at = j.at
    BY DEF Job
  <2>2. job' = [job EXCEPT ![r] = i] /\ pc'[r] = "idle" /\ uiStatus' = "streaming"
    BY <1>4 DEF AskForTurn, Schedule
  <2> HIDE DEF i
  <2> QED
    BY <1>1, <1>2, <1>4, <2>1, <2>2, JobReplaced DEF TurnKinds
<1>5. ASSUME ClickNextTurn(r) PROVE PageInv'
  BY <1>3, <1>4, <1>5 DEF ClickNextTurn, TurnKinds, vars
<1>6. ASSUME NEW a \in AgentOrNone, NEW b \in BOOLEAN, SendAt(r, a, b) PROVE PageInv'
  <2> DEFINE j == [Queued("inject") EXCEPT !.target = a, !.body = b]
  <2>1. j \in Job
    BY <1>3, JobTypes
  <2>2. Queued("inject") \in Job /\ Queued("inject").kind = "inject" /\ Queued("inject").at = "queued"
    BY <1>3
  <2>3. j.kind = "inject" /\ j.at = "queued"
    BY <2>2 DEF Job
  <2>4. AskForTurn(r, j) /\ pc' = pc /\ uiStatus # "streaming"
    BY <1>6 DEF SendAt, vars
  <2> HIDE DEF j
  <2> QED
    BY <1>4, <2>1, <2>3, <2>4 DEF TurnKinds
<1>7. ASSUME SendOffline(r) PROVE PageInv'
  <2>1. /\ job' = [job EXCEPT ![r] = Queued("simulate")] /\ pc' = pc /\ pc[r] = "idle"
        /\ uiStatus' = "streaming" /\ uiStatus # "streaming"
    BY <1>7 DEF SendOffline, Schedule, vars
  <2> QED
    BY <1>1, <1>2, <1>3, <2>1, JobReplaced
<1>8. ASSUME SendNew(r) \/ ClickEnd(r) \/ ClickConnect(r) PROVE PageInv'
  <2>1. PICK kind \in {"end", "new", "connect"} :
          job' = [job EXCEPT ![r] = Queued(kind)] /\ pc' = pc /\ pc[r] = "idle" /\ uiStatus' = uiStatus
    BY <1>8 DEF SendNew, ClickEnd, ClickConnect, Schedule, vars, uiVars
  <2>2. \A q \in Runs \ {r} : Holds(q) => uiStatus' = "streaming"
    BY <2>1 DEF PageInv
  <2>3. Queued(kind).kind = kind /\ Queued(kind).at = "queued"
    BY <1>3, <2>1
  <2> QED
    BY <1>1, <2>1, <2>2, <2>3, JobReplaced DEF TurnKinds
<1>9. \A a \in Agent : a \in AgentOrNone
  BY DEF AgentOrNone
<1>10. None \in AgentOrNone /\ TRUE \in BOOLEAN /\ FALSE \in BOOLEAN
  BY DEF AgentOrNone
<1>11. "plain" \notin UserInputs /\ "continue" \notin UserInputs
  BY DEF StatusIsKept
<1> QED
  BY <1>5, <1>6, <1>7, <1>8, <1>9, <1>10, <1>11 DEF UserEvent

LEMMA PageOtherJobs ==
  ASSUME ChatTypeOK, PageInv, NEW r \in Runs, NewDebate(r) \/ Handshake(r), LossyRuns = {}
  PROVE  PageInv'
<1>1. job \in [Runs -> Job] /\ job[r] \in Job
  BY DEF ChatTypeOK
<1>2. job[r].kind \in {"new", "connect"} \/ job[r].at = "opening"
  BY DEF NewDebate, CreateDebate, FinishNew, AnnounceOpening, Handshake, StartConnect, Connected, ConnectFails
<1>3. pc[r] = "idle"
  BY <1>2 DEF PageInv, TurnKinds
<1>4. UNCHANGED pc /\ uiStatus' = uiStatus
  BY DEF NewDebate, CreateDebate, FinishNew, AnnounceOpening, Handshake, uiVars, vars, Announce
<1>5. PICK j : /\ job' = [job EXCEPT ![r] = j]
               /\ \/ j = NoJob
                  \/ j = [job[r] EXCEPT !.at = "sent"] /\ job[r].kind \in {"new", "connect"}
                  \/ j = [job[r] EXCEPT !.at = "opening"] /\ job[r].kind = "new"
  <2>1. CASE NewDebate(r)
    BY <1>1, <2>1 DEF NewDebate, CreateDebate, FinishNew, AnnounceOpening
  <2>2. CASE Handshake(r)
    BY <1>1, <2>2 DEF Handshake, StartConnect, Connected, ConnectFails
  <2> QED
    BY <2>1, <2>2
<1>6. j.kind \in {"none", "new", "connect"} /\ j.at \in {"none", "sent", "opening"}
  <2>1. CASE j = NoJob
    BY <2>1 DEF NoJob
  <2>2. CASE j = [job[r] EXCEPT !.at = "sent"] /\ job[r].kind \in {"new", "connect"}
    BY <1>1, <2>2 DEF Job
  <2>3. CASE j = [job[r] EXCEPT !.at = "opening"] /\ job[r].kind = "new"
    BY <1>1, <2>3 DEF Job
  <2> QED
    BY <1>5, <2>1, <2>2, <2>3
<1>7. \A q \in Runs \ {r} : Holds(q) => uiStatus' = "streaming"
  BY <1>4 DEF PageInv
<1> QED
  BY <1>1, <1>3, <1>4, <1>5, <1>6, <1>7, JobReplaced DEF TurnKinds

\* Nothing of the page changes, and no request of an idle slot begins.
LEMMA PageRests ==
  ASSUME PageInv, UNCHANGED <<uiStatus, job>>, \A r \in Runs : pc'[r] # "idle" => pc[r] # "idle"
  PROVE  PageInv'
BY DEF PageInv, Holds

LEMMA PageStep ==
  ASSUME StatusIsKept, ChatTypeOK, PageInv, [ChatNext]_chatVars
  PROVE  PageInv'
<1>1. TypeOK /\ LossyRuns = {}
  BY DEF ChatTypeOK, StatusIsKept
<1>2. ASSUME NEW r \in Runs, PageJob(r) PROVE PageInv'
  BY <1>1, <1>2, PageStart, PageFinish, PageOtherJobs DEF PageJob
<1>3. ASSUME NEW r \in Runs, Backend(r) PROVE PageInv'
  <2>1. RunTurn(r) /\ UNCHANGED <<uiStatus, job>>
    BY <1>3 DEF Backend, uiVars
  <2>2. pc[r] # "idle" /\ \A q \in Runs \ {r} : pc'[q] = pc[q]
    BY <1>1, <2>1, OthersStay
  <2> QED
    BY <2>1, <2>2, PageRests
<1>4. ASSUME NEW r \in Runs, UserEvent(r) \/ StreamBreaks(r) PROVE PageInv'
  BY <1>1, <1>4, PageEvent DEF StreamBreaks
<1>5. ASSUME NEW a \in Agent, Repair(a), UNCHANGED <<uiVars, job>> PROVE PageInv'
  BY <1>5, PageRests DEF Repair, uiVars
<1>6. ASSUME UNCHANGED chatVars PROVE PageInv'
  BY <1>6, PageRests DEF chatVars, uiVars, vars
<1> QED
  BY <1>2, <1>3, <1>4, <1>5, <1>6 DEF ChatNext, Environment

LEMMA PageInvariance == ASSUME StatusIsKept PROVE ChatSpec => []PageInv
<1>1. ChatInit => PageInv
  <2> SUFFICES ASSUME ChatInit PROVE PageInv
    OBVIOUS
  <2>1. PICK r \in Runs : job = [q \in Runs |-> IF q = r THEN Queued("connect") ELSE NoJob]
    BY DEF ChatInit
  <2>2. \A q \in Runs : job[q].kind \in {"connect", "none"} /\ job[q].at \in {"queued", "none"}
    BY <2>1 DEF Queued, NoJob
  <2>3. \A q \in Runs : pc[q] = "idle"
    BY DEF ChatInit, Init
  <2> QED
    BY <2>2, <2>3 DEF PageInv, Holds, TurnKinds
<1>2. ChatTypeOK /\ PageInv /\ [ChatNext]_chatVars => PageInv'
  BY PageStep
<1> QED
  BY <1>1, <1>2, ChatTypes, PTL DEF ChatSpec

\* Unless the user announces something or asks for several turns, or a connection is lost,
\* the page's status keeps a second turn from being asked for while one is under way: of
\* all the page's jobs and the backend's tasks at most one is about a turn, also while the
\* user ends the debate in the middle of it or reconnects (OneTurnAtATime;
\* handle_event's "if status == streaming: return").
THEOREM PageAsksOneAtATime == ASSUME StatusIsKept PROVE ChatSpec => []OneTurnAtATime
<1>1. PageInv => OneTurnAtATime
  <2> DEFINE S == {r \in Runs : pc[r] # "idle" \/ job[r].kind \in TurnKinds}
  <2> SUFFICES ASSUME PageInv PROVE Cardinality(S) <= 1
    BY DEF OneTurnAtATime
  <2>1. \A q, r \in S : q = r
    BY DEF PageInv, Holds
  <2>2. CASE S = {}
    BY <2>2, FS_EmptySet
  <2>3. CASE S # {}
    <3>1. PICK r : r \in S
      BY <2>3
    <3>2. S = {r}
      BY <2>1, <3>1
    <3>3. Cardinality({r}) = 1
      BY FS_Singleton, Zenon
    <3> HIDE DEF S
    <3> QED
      BY <3>2, <3>3
  <2> HIDE DEF S
  <2> QED
    BY <2>2, <2>3
<1> QED
  BY <1>1, PageInvariance, PTL

LEMMA SerialSteps ==
  ASSUME ChatTypeOK, PageInv, [ChatNext]_chatVars
  PROVE  [SerialNext]_vars
<1>1. ASSUME NEW r \in Runs, job[r].at = "queued", SendTurnRequest(r) PROVE AllIdle
  <2>1. Holds(r) /\ pc[r] = "idle"
    BY <1>1 DEF SendTurnRequest, Holds, PageInv
  <2>2. \A q \in Runs \ {r} : ~Holds(q)
    BY <2>1 DEF PageInv
  <2> QED
    BY <2>1, <2>2 DEF PageInv, Holds, AllIdle
<1> QED
  BY <1>1, EngineParts DEF SerialNext

\* The engine behind such a page receives its requests one at a time, so what its
\* theorems say of SerialSpec holds of the whole: main turns go round the agents
\* (MainTurnsInOrder), the two records of whose turn it is agree (CountersInStep), and
\* rounds are counted exactly (RoundsExact).
THEOREM EngineIsServedSerially == ASSUME StatusIsKept PROVE ChatSpec => SerialSpec
<1>1. ChatInit => Init
  BY DEF ChatInit
<1>2. ChatTypeOK /\ PageInv /\ [ChatNext]_chatVars => [SerialNext]_vars
  BY SerialSteps
<1> QED
  BY <1>1, <1>2, ChatTypes, PageInvariance, PTL DEF ChatSpec, SerialSpec

\* Seen from outside, the page and its backend keep the promise of TurnTaking: no agent
\* speaks out of turn, whatever turns, side conversations, refusals, failures and ends
\* of debates the user brings about (TurnTakingHolds).
THEOREM PageTakesTurns == ASSUME StatusIsKept PROVE ChatSpec => TurnTakingHolds
  BY EngineIsServedSerially, ImplementsTurnTaking, PTL

\* And the main turns of such a page go round the agents in order, in whole rounds
\* (MainTurnsCycle, CountersAgree, RoundsCountMainTurns).
THEOREM PageKeepsRounds ==
  ASSUME StatusIsKept
  PROVE  ChatSpec => [](MainTurnsCycle /\ CountersAgree /\ RoundsCountMainTurns)
  BY EngineIsServedSerially, MainTurnsInOrder, CountersInStep, RoundsExact, PTL

-----------------------------------------------------------------------------
(* Whose turn it is: the agent the page offers for the next turn *)

\* No model is unavailable, and no message has an @ prefix that no agent has: such
\* a message is a main turn that the page takes for a side turn.
NothingFails == StatusIsKept /\ "unknown" \notin UserInputs /\ FaultyAgents = {}

\* The graph holds a target only while the request that brought it is on its way to the
\* router, stands before an agent only while a request makes it speak, and ends for good.
FlowInv ==
  /\ broken = {}
  /\ ckpt.at = "end" <=> ckpt.action = "end"
  /\ ckpt.at = "end" /\ AllIdle => status = "ended"
  /\ ckpt.target # None => \E r \in Runs : pc[r] \in {"resume", "router"}
  /\ ckpt.at = "agent_turn" => \E r \in Runs : pc[r] = "agent_turn"
  /\ \A r \in Runs :
       /\ pc[r] \notin {"idle", "returned"} => ckpt.at # "end"
       /\ pc[r] \in {"resume", "router"} => ckpt.target = want[r]
       /\ pc[r] = "agent_turn" => (want[r] = None <=> ckpt.main = None)
       /\ pc[r] = "returned" /\ want[r] = None /\ ckpt.at # "end" => currentTurn = Due


\* What the router makes of a target, and what a turn leaves as it was.
LEMMA RouteMoves ==
  ASSUME NEW s \in GraphState
  PROVE  /\ Route(s).target = None
         /\ \/ s.target = None /\ Route(s).at = "end" /\ Route(s).action = "end"
            \/ /\ Route(s).at = "agent_turn" /\ Route(s).action = "speak"
               /\ s.target = None <=> Route(s).main = None
<1>1. NextInOrder(s) # None
  BY SuccIsAgent, FirstIsAgent, AgentsAreAgents DEF NextInOrder, GraphState, AgentOrNone
<1>2. \A a, m : LET t == Speak(s, a, m) IN
         t.target = None /\ t.at = "agent_turn" /\ t.action = "speak" /\ t.main = m
  BY DEF GraphState, Speak
<1>3. EndGraph(s).target = None /\ EndGraph(s).at = "end" /\ EndGraph(s).action = "end"
  BY DEF GraphState, EndGraph
<1>4. CASE s.target # None /\ s.main = None
  <2>1. Route(s) = Speak(s, s.target, NextInOrder(s))
    BY <1>4 DEF Route
  <2> QED BY <1>1, <1>2, <1>4, <2>1
<1>5. CASE s.target # None /\ s.main # None
  <2>1. Route(s) = Speak(s, s.target, s.main)
    BY <1>5 DEF Route
  <2> QED BY <1>2, <1>5, <2>1
<1>6. CASE s.target = None /\ s.main # None
  <2>1. Route(s) = Speak(s, s.main, None)
    BY <1>6 DEF Route
  <2> QED BY <1>2, <1>6, <2>1
<1>7. CASE s.target = None /\ s.main = None /\ LimitReached(s)
  <2>1. Route(s) = EndGraph(s)
    BY <1>7 DEF Route
  <2> QED BY <1>3, <1>7, <2>1
<1>8. CASE s.target = None /\ s.main = None /\ ~LimitReached(s)
  <2>1. Route(s) = Speak(s, NextInOrder(s), None)
    BY <1>8 DEF Route
  <2> QED BY <1>2, <1>8, <2>1
<1> QED BY <1>4, <1>5, <1>6, <1>7, <1>8

LEMMA AfterTurnKeeps ==
  ASSUME NEW s \in GraphState
  PROVE  AfterTurn(s).at = "router" /\ AfterTurn(s).target = s.target /\ AfterTurn(s).action = s.action
<1>1. \A k : LET t == [s EXCEPT !.rounds = k, !.at = "router"] IN
             t.at = "router" /\ t.target = s.target /\ t.action = s.action
  BY DEF GraphState
<1>2. \E k : AfterTurn(s) = [s EXCEPT !.rounds = k, !.at = "router"]
  BY Zenon DEF AfterTurn
<1> QED BY <1>1, <1>2

LEMMA FlowRuns ==
  ASSUME SerialInv, FlowInv, NEW r \in Runs, RunTurn(r)
  PROVE  FlowInv'
<1>1. /\ pc \in [Runs -> PC] /\ graph[r] \in GraphState /\ ckpt \in GraphState
      /\ want[r] \in AgentOrNone
      /\ pc[r] # "idle" /\ \A q \in Runs \ {r} : pc[q] = "idle"
      /\ pc[r] \in {"router", "agent_turn"} => graph[r] = ckpt
  <2>1. pc[r] # "idle"
    BY DEF RunTurn, Begin, Resume, Router, AgentTurn, CreateLlmFails, Respond
  <2> QED
    BY <2>1 DEF SerialInv, EngineInv, TypeOK, OneAtATime
<1>2. broken' = {}
  BY DEF RunTurn, Begin, Resume, Router, AgentTurn, CreateLlmFails, Respond, FlowInv
\* It is enough to look at the request under way.
<1>3. ASSUME ckpt'.at = "end" <=> ckpt'.action = "end",
             ckpt'.at = "end" /\ pc'[r] = "idle" => status' = "ended",
             ckpt'.target # None => pc'[r] \in {"resume", "router"},
             ckpt'.at = "agent_turn" => pc'[r] = "agent_turn",
             pc'[r] \notin {"idle", "returned"} => ckpt'.at # "end",
             pc'[r] \in {"resume", "router"} => ckpt'.target = want[r],
             pc'[r] = "agent_turn" => (want[r] = None <=> ckpt'.main = None),
             pc'[r] = "returned" /\ want[r] = None /\ ckpt'.at # "end" => currentTurn' = Due'
      PROVE  FlowInv'
  <2>1. want' = want /\ \A q \in Runs \ {r} : pc'[q] = "idle"
    BY <1>1 DEF RunTurn, Begin, Resume, Router, AgentTurn, CreateLlmFails, Respond, LoadCheckpoint
  <2>2. AllIdle' => pc'[r] = "idle"
    BY DEF AllIdle
  <2>3. \A q \in Runs :
       /\ pc'[q] \notin {"idle", "returned"} => ckpt'.at # "end"
       /\ pc'[q] \in {"resume", "router"} => ckpt'.target = want'[q]
       /\ pc'[q] = "agent_turn" => (want'[q] = None <=> ckpt'.main = None)
       /\ pc'[q] = "returned" /\ want'[q] = None /\ ckpt'.at # "end" => currentTurn' = Due'
    BY <1>3, <2>1
  <2> QED
    BY <1>2, <1>3, <2>2, <2>3 DEF FlowInv
\* What the invariant says of the request under way.
<1>4. /\ ckpt.at = "end" <=> ckpt.action = "end"
      /\ ckpt.target # None => pc[r] \in {"resume", "router"}
      /\ ckpt.at = "agent_turn" => pc[r] = "agent_turn"
      /\ pc[r] \notin {"idle", "returned"} => ckpt.at # "end"
      /\ pc[r] \in {"resume", "router"} => ckpt.target = want[r]
      /\ pc[r] = "agent_turn" => (want[r] = None <=> ckpt.main = None)
      /\ pc[r] = "returned" /\ want[r] = None /\ ckpt.at # "end" => currentTurn = Due
  BY <1>1 DEF FlowInv
<1>5. ASSUME Begin(r) PROVE FlowInv'
  <2>1. CASE ckpt.at = "empty"
    <3>1. AgentTurns(history) = {}
      BY <2>1 DEF SerialInv, EngineInv, GraphOK
    <3>2. ckpt' = InitialState(history, want[r]) /\ pc'[r] = "router"
      BY <1>1, <1>5, <2>1 DEF Begin
    <3>3. InitialState(history, want[r]).at = "router"
      BY <1>1, <3>1, InitialStateType
    <3>4. InitialState(history, want[r]).target = want[r] /\ InitialState(history, want[r]).action = "speak"
      BY DEF InitialState
    <3> QED
      BY <1>3, <3>2, <3>3, <3>4
  <2>2. CASE ckpt.at # "empty" /\ want[r] # None
    <3>1. ckpt' = [ckpt EXCEPT !.target = want[r]] /\ pc'[r] = "resume" /\ pc[r] = "start"
      BY <1>1, <1>5, <2>2 DEF Begin
    <3>2. ckpt'.at = ckpt.at /\ ckpt'.action = ckpt.action /\ ckpt'.target = want[r]
      BY <1>1, <3>1 DEF GraphState
    <3> QED
      BY <1>3, <1>4, <3>1, <3>2
  <2>3. CASE ckpt.at # "empty" /\ want[r] = None
    <3>1. ckpt' = ckpt /\ pc[r] = "start" /\ pc'[r] = IF ckpt.at = "end" THEN "returned" ELSE ckpt.at
      BY <1>1, <1>5, <2>3 DEF Begin, LoadCheckpoint
    <3>2. ckpt.at = "router"
      BY <1>1, <1>4, <2>3, <3>1 DEF GraphState
    <3> QED
      BY <1>3, <1>4, <2>3, <3>1, <3>2
  <2> QED
    BY <2>1, <2>2, <2>3
<1>6. ASSUME Resume(r) PROVE FlowInv'
  <2>1. ckpt' = ckpt /\ pc[r] = "resume" /\ pc'[r] = IF ckpt.at = "end" THEN "returned" ELSE ckpt.at
    BY <1>1, <1>6 DEF Resume, LoadCheckpoint
  <2>2. ckpt.at # "empty"
    BY <2>1 DEF SerialInv, EngineInv, GraphOK
  <2>3. ckpt.at = "router"
    BY <1>1, <1>4, <2>1, <2>2 DEF GraphState
  <2> QED
    BY <1>3, <1>4, <2>1, <2>3
<1>7. ASSUME Router(r) PROVE FlowInv'
  <2>1. /\ pc[r] = "router" /\ graph[r] = ckpt /\ ckpt' = Route(ckpt)
        /\ pc'[r] = IF Route(ckpt).at = "end" THEN "returned" ELSE "agent_turn"
    BY <1>1, <1>7 DEF Router
  <2>2. ckpt.target = want[r]
    BY <1>4, <2>1
  <2>3. /\ Route(ckpt).target = None
        /\ \/ ckpt.target = None /\ Route(ckpt).at = "end" /\ Route(ckpt).action = "end"
           \/ /\ Route(ckpt).at = "agent_turn" /\ Route(ckpt).action = "speak"
              /\ ckpt.target = None <=> Route(ckpt).main = None
    BY <1>1, RouteMoves
  <2> QED
    BY <1>3, <2>1, <2>2, <2>3
<1>8. ASSUME AgentTurn(r) PROVE FlowInv'
  <2>1. /\ pc[r] = "agent_turn" /\ graph[r] = ckpt /\ ckpt' = AfterTurn(ckpt) /\ pc'[r] = "returned"
        /\ currentTurn' = Succ(ckpt.cur)
    BY <1>1, <1>8 DEF AgentTurn, RecordTurn
  <2>2. ckpt.at = "agent_turn" /\ ckpt.cur \in Agent
    BY <2>1 DEF SerialInv, EngineInv, GraphOK
  <2>3. /\ AfterTurn(ckpt).at = "router" /\ AfterTurn(ckpt).target = ckpt.target
        /\ AfterTurn(ckpt).action = ckpt.action
    BY <1>1, AfterTurnKeeps
  <2>4. ckpt.action # "end" /\ ckpt.target = None
    BY <1>4, <2>1, <2>2
  <2>5. want[r] = None => DueIn(AfterTurn(ckpt)) = Succ(ckpt.cur)
    <3>1. want[r] = None => ~IsSide(ckpt)
      BY <1>4, <2>1 DEF IsSide
    <3> QED
      BY <1>1, <2>2, <3>1, AfterTurnDue
  <2>6. Due' = DueIn(AfterTurn(ckpt))
    BY <2>1 DEF Due
  <2> QED
    BY <1>3, <2>1, <2>3, <2>4, <2>5, <2>6
<1>9. ASSUME CreateLlmFails(r) PROVE FALSE
  BY <1>9 DEF CreateLlmFails, FlowInv
<1>10. ASSUME Respond(r) PROVE FlowInv'
  <2>1. /\ pc[r] = "returned" /\ pc'[r] = "idle" /\ ckpt' = ckpt
        /\ ckpt.action = "end" => status' = "ended"
    BY <1>1, <1>10 DEF Respond
  <2> QED
    BY <1>3, <1>4, <2>1
<1> QED
  BY <1>5, <1>6, <1>7, <1>8, <1>9, <1>10 DEF RunTurn

LEMMA FlowStep ==
  ASSUME SerialInv, FlowInv, [SerialNext]_vars
  PROVE  FlowInv'
<1>1. pc \in [Runs -> PC] /\ want \in [Runs -> AgentOrNone] /\ status \in {"active", "ended"}
  BY DEF SerialInv, EngineInv, TypeOK
<1>2. ASSUME AllIdle, NEW r \in Runs, Submit(r) PROVE FlowInv'
  <2>1. /\ UNCHANGED <<ckpt, currentTurn, broken, status>> /\ Due' = Due
        /\ \/ UNCHANGED <<pc, want>>
           \/ status = "active" /\ \E t : want' = [want EXCEPT ![r] = t] /\ pc' = [pc EXCEPT ![r] = "start"]
    BY <1>2 DEF Submit, NextTurn, Inject, Spawn, RejectWith, Due
  <2>2. \A q \in Runs : pc'[q] \in {"idle", "start"}
    BY <1>1, <1>2, <2>1 DEF AllIdle
  <2>3. (\E q \in Runs : pc'[q] # "idle") => ckpt.at # "end"
    BY <1>1, <1>2, <2>1 DEF AllIdle, FlowInv
  <2>4. ckpt.target = None /\ ckpt.at # "agent_turn"
    BY <1>2 DEF AllIdle, FlowInv
  <2>5. (ckpt.at = "end" <=> ckpt.action = "end") /\ broken' = {}
    BY <2>1 DEF FlowInv
  <2>6. ckpt.at = "end" => status' = "ended"
    BY <1>2, <2>1 DEF FlowInv
  <2> QED
    BY <2>1, <2>2, <2>3, <2>4, <2>5, <2>6 DEF FlowInv
<1>3. ASSUME NEW r \in Runs, RunTurn(r) PROVE FlowInv'
  BY <1>3, FlowRuns
<1>4. ASSUME Others \/ UNCHANGED vars PROVE FlowInv'
  <2>1. /\ UNCHANGED <<ckpt, currentTurn, pc, want>> /\ Due' = Due
        /\ status' = status \/ status' = "ended"
        /\ broken' \subseteq broken
    BY <1>4 DEF Others, Announce, Stop, Repair, vars, Due
  <2>2. AllIdle' = AllIdle
    BY <2>1 DEF AllIdle
  <2> QED
    BY <2>1, <2>2 DEF FlowInv
<1> QED
  BY <1>2, <1>3, <1>4 DEF SerialNext

\* The page's requests that are at the backend, or answered and not seen to yet.
Sent(r) == job[r].kind \in {"next_turn", "inject"} /\ job[r].at = "sent"

\* The debate the page shows goes on.
Live == status = "active" /\ debateOpen

\* The debate has not begun.
Fresh == ~debateOpen /\ ckpt.at = "empty" /\ \A r \in Runs : ~Sent(r)

NewInv ==
  /\ ~created => Fresh
  /\ \A r \in Runs : job[r].kind = "new" =>
       /\ \A q \in Runs : job[q].kind = "new" => q = r
       /\ job[r].at = "queued" => ~created
       /\ job[r].at = "sent" => created /\ Fresh

\* The agent shown is the one due, or a job remembers or will be told who it is.
ShowInv ==
  /\ \A r \in Runs : job[r].kind = "inject" => job[r].target # None
  /\ \A r \in Runs : pc[r] # "idle" => (want[r] = None <=> job[r].kind = "next_turn")
  /\ Live =>
       /\ (\A r \in Runs : ~Sent(r)) => currentAgent = Due
       /\ \A r \in Runs : Sent(r) =>
            /\ job[r].kind = "inject" => job[r].main = Due
            /\ job[r].kind = "next_turn" /\ pc[r] = "idle" =>
                 reply[r].kind = "turn" /\ reply[r].next = Due

\* A step of the page that only moves job r, which is not at the backend, to j.
SmallStep(r, j) ==
  /\ job' = [job EXCEPT ![r] = j]
  /\ UNCHANGED <<ckpt, pc, want, reply, created>>
  /\ status' = status \/ status' = "ended"
  /\ UNCHANGED <<debateOpen, currentAgent>> \/ ~debateOpen'
  /\ ~Sent(r) /\ ~(j.kind \in {"next_turn", "inject"} /\ j.at = "sent")
  /\ j.kind = "inject" => j.target # None
  /\ j.kind = "new" => j.at = "queued" /\ ~created /\ \A q \in Runs : job[q].kind # "new"

\* A job asked for by the user.
LEMMA AskedFor ==
  ASSUME NothingFails, ChatTypeOK, ShowInv, NEW r \in Runs, UserEvent(r), UNCHANGED created
  PROVE  \E j : SmallStep(r, j)
<1>1. /\ job \in [Runs -> Job] /\ NoJob.kind = "none"
      /\ \A kind \in {"next_turn", "inject", "end", "new", "connect", "simulate"} :
           Queued(kind) \in Job /\ Queued(kind).kind = kind /\ Queued(kind).at = "queued"
  BY JobTypes, QueuedIs DEF ChatTypeOK, NoJob
<1>2. job[r] = NoJob
  BY DEF UserEvent, ClickNextTurn, SendAt, SendPlain, SendOffline, ClickConnect, SendNew, SendContinue,
         ClickEnd, AskForTurn, Schedule
<1>3. ~Sent(r)
  BY <1>1, <1>2 DEF Sent
<1>4. ASSUME NEW j \in Job, AskForTurn(r, j), j.at = "queued", j.kind \in {"next_turn", "inject"},
             j.kind = "inject" => j.target # None, UNCHANGED <<vars, debateOpen, currentAgent>>
      PROVE  \E i : SmallStep(r, i)
  <2> DEFINE i == [j EXCEPT !.label = agentTurnCount + 1]
  <2>2. i.kind = j.kind /\ i.at = j.at /\ i.target = j.target
    BY DEF Job
  <2>3. job' = [job EXCEPT ![r] = i]
    BY <1>4 DEF AskForTurn, Schedule
  <2> HIDE DEF i
  <2>4. SmallStep(r, i)
    BY <1>3, <1>4, <2>2, <2>3 DEF SmallStep, vars
  <2> QED
    BY <2>4
<1>5. ASSUME ClickNextTurn(r) PROVE \E j : SmallStep(r, j)
  BY <1>1, <1>4, <1>5 DEF ClickNextTurn
<1>6. ASSUME NEW a \in Agent, NEW b \in BOOLEAN, SendAt(r, a, b) PROVE \E j : SmallStep(r, j)
  <2> DEFINE j == [Queued("inject") EXCEPT !.target = a, !.body = b]
  <2>1. a \in AgentOrNone /\ a # None
    BY AgentsAreAgents DEF AgentOrNone
  <2>2. j \in Job
    BY <1>1, <2>1, JobTypes
  <2>3. Queued("inject") \in Job /\ Queued("inject").kind = "inject" /\ Queued("inject").at = "queued"
    BY <1>1
  <2>4. j.kind = "inject" /\ j.at = "queued" /\ j.target = a
    BY <2>3 DEF Job
  <2>5. AskForTurn(r, j) /\ UNCHANGED <<vars, debateOpen, currentAgent>>
    BY <1>6 DEF SendAt
  <2> HIDE DEF j
  <2> QED
    BY <1>4, <2>1, <2>2, <2>4, <2>5
<1>7. ASSUME NEW kind \in {"end", "new", "connect", "simulate"}, job' = [job EXCEPT ![r] = Queued(kind)],
             UNCHANGED <<vars, debateOpen, currentAgent>>,
             kind = "new" => ~created /\ \A q \in Runs : job[q].kind # "new"
      PROVE  \E j : SmallStep(r, j)
  <2>1. Queued(kind) \in Job /\ Queued(kind).kind = kind /\ Queued(kind).at = "queued"
    BY <1>1
  <2>2. SmallStep(r, Queued(kind))
    BY <1>3, <1>7, <2>1 DEF SmallStep, vars
  <2> QED
    BY <2>1, <2>2
<1>8. ASSUME SendOffline(r) PROVE \E j : SmallStep(r, j)
  BY <1>7, <1>8 DEF SendOffline, Schedule
<1>9. ASSUME SendNew(r) PROVE \E j : SmallStep(r, j)
  BY <1>7, <1>9 DEF SendNew, Schedule, uiVars
<1>10. ASSUME ClickEnd(r) \/ ClickConnect(r) PROVE \E j : SmallStep(r, j)
  BY <1>7, <1>10 DEF ClickEnd, ClickConnect, Schedule, uiVars
<1>11. "plain" \notin UserInputs /\ "continue" \notin UserInputs /\ "unknown" \notin UserInputs
  BY DEF NothingFails, StatusIsKept
<1> QED
  BY <1>5, <1>6, <1>8, <1>9, <1>10, <1>11 DEF UserEvent

\* The page's steps, by what they mean for the agent shown.
LEMMA PageMoves ==
  ASSUME NothingFails, ChatTypeOK, PageInv, ShowInv, [ChatNext]_chatVars
  PROVE  \/ \E r \in Runs : RunTurn(r) /\ UNCHANGED <<job, debateOpen, currentAgent, created>>
         \/ \E r \in Runs : /\ job[r].at = "queued" /\ SendTurnRequest(r)
                            /\ UNCHANGED <<debateOpen, currentAgent, created>>
         \/ \E r \in Runs : (FinishNextTurn(r) \/ FinishInject(r)) /\ UNCHANGED created
         \/ \E r \in Runs : FinishNew(r)
         \/ \E r \in Runs : CreateDebate(r)
         \/ \E r \in Runs : \E j : SmallStep(r, j)
         \/ UNCHANGED <<job, ckpt, pc, want, reply, status, debateOpen, currentAgent, created>>
<1> DEFINE Small == \E r \in Runs : \E j : SmallStep(r, j)
<1>1. job \in [Runs -> Job] /\ NoJob \in Job /\ NoJob.kind = "none"
  BY JobTypes DEF ChatTypeOK, NoJob
<1>2. \A r \in Runs : job[r].kind \notin {"announce", "ask_continue", "continue"}
  BY DEF PageInv
<1>3. LossyRuns = {}
  BY DEF NothingFails, StatusIsKept
<1>4. ASSUME NEW r \in Runs, ~Sent(r), job' = [job EXCEPT ![r] = NoJob],
             UNCHANGED <<ckpt, pc, want, reply, created>>, status' = status \/ status' = "ended",
             UNCHANGED <<debateOpen, currentAgent>> \/ ~debateOpen'
      PROVE  Small
  <2>1. SmallStep(r, NoJob)
    BY <1>1, <1>4 DEF SmallStep
  <2> QED
    BY <1>1, <2>1
<1>5. ASSUME NEW r \in Runs, NEW at \in {"sent", "failed"}, job' = [job EXCEPT ![r].at = at], ~Sent(r),
             at = "sent" => job[r].kind \notin {"next_turn", "inject"}, job[r].kind # "new",
             UNCHANGED <<ckpt, pc, want, reply, created, debateOpen, currentAgent>>,
             status' = status \/ status' = "ended"
      PROVE  Small
  <2> DEFINE j == [job[r] EXCEPT !.at = at]
  <2>1. j.kind = job[r].kind /\ j.at = at /\ j.target = job[r].target
    BY <1>1 DEF Job
  <2>2. job' = [job EXCEPT ![r] = j]
    BY <1>1, <1>5
  <2>3. job[r].kind = "inject" => job[r].target # None
    BY DEF ShowInv
  <2> HIDE DEF j
  <2>4. SmallStep(r, j)
    BY <1>5, <2>1, <2>2, <2>3 DEF SmallStep
  <2> QED
    BY <2>4
<1>6. ASSUME NEW r \in Runs, StartJob(r), UNCHANGED created, ~SendTurnRequest(r) PROVE Small
  <2>1. /\ job[r].at = "queued" /\ ~Sent(r) /\ UNCHANGED <<debateOpen, currentAgent>>
    BY <1>6 DEF StartJob, uiVars, Sent
  <2>2. ASSUME SendWithoutDebate(r) PROVE Small
    <3>1. /\ job' = [job EXCEPT ![r].at = "failed"] /\ UNCHANGED vars /\ job[r].kind # "new"
      BY <2>2 DEF SendWithoutDebate, TurnKinds
    <3> HIDE DEF Small
    <3> QED
      BY <1>5, <1>6, <2>1, <3>1 DEF vars
  <2>3. ASSUME SendEnd(r) PROVE Small
    <3>1. /\ job[r].kind = "end" /\ UNCHANGED <<ckpt, pc, want, reply>>
          /\ status' = status \/ status' = "ended"
          /\ job' = [job EXCEPT ![r].at = "sent"] \/ job' = [job EXCEPT ![r] = NoJob]
      BY <2>3 DEF SendEnd, Stop, vars
    <3> HIDE DEF Small
    <3> QED
      BY <1>4, <1>5, <1>6, <2>1, <3>1
  <2> HIDE DEF Small
  <2> QED
    BY <1>2, <1>6, <2>2, <2>3 DEF StartJob, SendAnnounce, SendAskContinue
<1>7. ASSUME NEW r \in Runs, FinishJob(r), UNCHANGED created, ~FinishNextTurn(r), ~FinishInject(r) PROVE Small
  <2>1. /\ FinishEnd(r) \/ StreamError(r) \/ FinishSimulate(r)
        /\ job' = [job EXCEPT ![r] = NoJob] /\ UNCHANGED vars
    BY <1>2, <1>7 DEF FinishJob, FinishContinue, FinishAnnounce, FinishAskContinue, FinishEnd, StreamError,
                      FinishSimulate
  <2>2. ~Sent(r)
    BY <2>1 DEF FinishEnd, StreamError, FinishSimulate, Sent
  <2>3. UNCHANGED <<debateOpen, currentAgent>> \/ ~debateOpen'
    BY <2>1 DEF FinishEnd, StreamError, FinishSimulate
  <2> HIDE DEF Small
  <2> QED
    BY <1>4, <1>7, <2>1, <2>2, <2>3 DEF vars
<1>8. ASSUME NEW r \in Runs, AnnounceOpening(r) PROVE Small
  <2>1. /\ job' = [job EXCEPT ![r] = NoJob] /\ job[r].at = "opening"
        /\ UNCHANGED <<ckpt, pc, want, reply, status, created, debateOpen, currentAgent>>
    BY <1>8 DEF AnnounceOpening, Announce, vars, uiVars
  <2>2. ~Sent(r)
    BY <2>1 DEF Sent
  <2> HIDE DEF Small
  <2> QED
    BY <1>4, <2>1, <2>2
<1>9. ASSUME NEW r \in Runs, Handshake(r), UNCHANGED created PROVE Small
  <2>1. /\ job[r].kind = "connect" /\ UNCHANGED <<ckpt, pc, want, reply, status, debateOpen, currentAgent>>
        /\ job' = [job EXCEPT ![r].at = "sent"] \/ job' = [job EXCEPT ![r] = NoJob]
    BY <1>3, <1>9 DEF Handshake, StartConnect, Connected, ConnectFails, vars, uiVars
  <2>2. ~Sent(r)
    BY <2>1 DEF Sent
  <2> HIDE DEF Small
  <2> QED
    BY <1>4, <1>5, <1>9, <2>1, <2>2
<1> HIDE DEF Small
<1>10. ASSUME NEW r \in Runs, PageJob(r)
       PROVE  \/ /\ job[r].at = "queued" /\ SendTurnRequest(r)
                 /\ UNCHANGED <<debateOpen, currentAgent, created>>
              \/ (FinishNextTurn(r) \/ FinishInject(r)) /\ UNCHANGED created
              \/ FinishNew(r)
              \/ CreateDebate(r)
              \/ Small
  <2>1. CASE StartJob(r) /\ UNCHANGED created
    BY <1>6, <2>1 DEF StartJob, uiVars
  <2>2. CASE FinishJob(r) /\ UNCHANGED created
    BY <1>7, <2>2
  <2>3. CASE NewDebate(r)
    BY <1>8, <2>3 DEF NewDebate
  <2>4. CASE Handshake(r) /\ UNCHANGED created
    BY <1>9, <2>4
  <2> QED
    BY <1>10, <2>1, <2>2, <2>3, <2>4 DEF PageJob
<1>11. ASSUME NEW r \in Runs, Backend(r)
       PROVE  RunTurn(r) /\ UNCHANGED <<job, debateOpen, currentAgent, created>>
  BY <1>11 DEF Backend, uiVars
<1>12. ASSUME NEW r \in Runs, UserEvent(r) \/ StreamBreaks(r), UNCHANGED created PROVE Small
  BY <1>3, <1>12, AskedFor DEF StreamBreaks, Small
<1>13. ASSUME \/ (\E a \in Agent : Repair(a) /\ UNCHANGED <<uiVars, job>>) /\ UNCHANGED created
              \/ UNCHANGED chatVars
       PROVE  UNCHANGED <<job, ckpt, pc, want, reply, status, debateOpen, currentAgent, created>>
  BY <1>13 DEF Repair, chatVars, uiVars, vars
<1>14. \/ \E r \in Runs : PageJob(r)
       \/ \E r \in Runs : Backend(r)
       \/ (\E r \in Runs : UserEvent(r) \/ StreamBreaks(r)) /\ UNCHANGED created
       \/ (\E a \in Agent : Repair(a) /\ UNCHANGED <<uiVars, job>>) /\ UNCHANGED created
       \/ UNCHANGED chatVars
  BY DEF ChatNext, Environment
<1> QED
  BY <1>10, <1>11, <1>12, <1>13, <1>14 DEF Small

LEMMA SentAlone ==
  ASSUME PageInv
  PROVE  /\ \A q, r \in Runs : Sent(q) /\ Holds(r) => q = r
         /\ \A r \in Runs : Sent(r) => Holds(r)
         /\ \A r \in Runs : pc[r] # "idle" => Sent(r)
BY DEF PageInv, Holds, Sent, TurnKinds

LEMMA SentAfter ==
  ASSUME job \in [Runs -> Job], NEW r \in Runs, NEW j, job' = [job EXCEPT ![r] = j]
  PROVE  /\ \A q \in Runs \ {r} : job'[q] = job[q] /\ (Sent(q)' <=> Sent(q))
         /\ job'[r] = j
         /\ Sent(r)' <=> (j.kind \in {"next_turn", "inject"} /\ j.at = "sent")
BY DEF Sent

LEMMA NewStep ==
  ASSUME NothingFails, ChatTypeOK, PageInv, NewInv, ShowInv, [ChatNext]_chatVars
  PROVE  NewInv'
<1>1. job \in [Runs -> Job]
  BY DEF ChatTypeOK
<1>2. ASSUME ~Fresh
      PROVE  created /\ \A q \in Runs : job[q].kind = "new" => job[q].at \notin {"queued", "sent"}
  BY <1>2 DEF NewInv
<1>3. ASSUME NEW r \in Runs, RunTurn(r), UNCHANGED <<job, created>> PROVE NewInv'
  <2>1. pc[r] # "idle"
    BY <1>3 DEF RunTurn, Begin, Resume, Router, AgentTurn, CreateLlmFails, Respond
  <2>2. ~Fresh
    BY <2>1, SentAlone DEF Fresh
  <2> QED
    BY <1>2, <1>3, <2>2 DEF NewInv
<1>4. ASSUME NEW r \in Runs, SendTurnRequest(r), UNCHANGED created PROVE NewInv'
  <2> DEFINE j == [job[r] EXCEPT !.at = "sent", !.main = currentAgent]
  <2>1. ~Fresh
    BY <1>4 DEF SendTurnRequest, Fresh
  <2>2. job' = [job EXCEPT ![r] = j] /\ job[r].kind # "new"
    BY <1>1, <1>4 DEF SendTurnRequest, TurnKinds
  <2>3. j.kind # "new"
    BY <1>1, <2>2 DEF Job
  <2> HIDE DEF j
  <2> QED
    BY <1>1, <1>2, <1>4, <2>1, <2>2, <2>3, SentAfter DEF NewInv
<1>5. ASSUME NEW r \in Runs, FinishNextTurn(r) \/ FinishInject(r), UNCHANGED created PROVE NewInv'
  <2>1. job' = [job EXCEPT ![r] = NoJob] /\ Sent(r)
    BY <1>5 DEF FinishNextTurn, FinishInject, MarkEnded, Answered, Sent
  <2>2. ~Fresh /\ NoJob.kind # "new"
    BY <2>1 DEF Fresh, NoJob
  <2> QED
    BY <1>1, <1>2, <1>5, <2>1, <2>2, SentAfter DEF NewInv
<1>6. ASSUME NEW r \in Runs, FinishNew(r) PROVE NewInv'
  <2> DEFINE j == [job[r] EXCEPT !.at = "opening"]
  <2>1. job' = [job EXCEPT ![r] = j] /\ created' = created /\ job[r].kind = "new" /\ job[r].at = "sent"
    BY <1>1, <1>6 DEF FinishNew
  <2>2. j.at = "opening"
    BY <1>1 DEF Job
  <2>3. created /\ \A q \in Runs : job[q].kind = "new" => q = r
    BY <2>1 DEF NewInv
  <2> HIDE DEF j
  <2> QED
    BY <1>1, <2>1, <2>2, <2>3, SentAfter DEF NewInv
<1>7. ASSUME NEW r \in Runs, NEW j, job' = [job EXCEPT ![r] = j], ~(j.kind \in {"next_turn", "inject"} /\ j.at = "sent"),
             UNCHANGED ckpt, debateOpen' = debateOpen \/ ~debateOpen', Fresh
      PROVE  Fresh'
  <2>1. \A q \in Runs : ~Sent(q)'
    BY <1>1, <1>7, SentAfter DEF Fresh
  <2> QED
    BY <1>7, <2>1 DEF Fresh
<1>8. ASSUME NEW r \in Runs, CreateDebate(r) PROVE NewInv'
  <2>1. /\ job[r].kind = "new" /\ job[r].at = "queued" /\ UNCHANGED <<ckpt, debateOpen>>
        /\ \A q \in Runs : job[q].kind = "new" => q = r
        /\ Fresh /\ ~created
    BY <1>8 DEF CreateDebate, vars, uiVars, NewInv
  <2>2. CASE created' = created /\ job' = [job EXCEPT ![r] = NoJob]
    <3>1. NoJob.kind = "none"
      BY DEF NoJob
    <3>2. Fresh'
      BY <1>7, <2>1, <2>2, <3>1
    <3> QED
      BY <1>1, <2>1, <2>2, <3>1, <3>2, SentAfter DEF NewInv
  <2>3. CASE created' = TRUE /\ job' = [job EXCEPT ![r].at = "sent"]
    <3> DEFINE j == [job[r] EXCEPT !.at = "sent"]
    <3>1. job' = [job EXCEPT ![r] = j] /\ j.kind = "new" /\ j.at = "sent"
      BY <1>1, <2>1, <2>3 DEF Job
    <3> HIDE DEF j
    <3>2. Fresh'
      BY <1>7, <2>1, <3>1
    <3> QED
      BY <1>1, <2>1, <2>3, <3>1, <3>2, SentAfter DEF NewInv
  <2> QED
    BY <1>8, <2>2, <2>3 DEF CreateDebate
<1>9. ASSUME NEW r \in Runs, NEW j, SmallStep(r, j) PROVE NewInv'
  <2>1. Fresh => Fresh'
    BY <1>7, <1>9 DEF SmallStep
  <2>2. created' = created /\ job' = [job EXCEPT ![r] = j]
        /\ (j.kind = "new" => j.at = "queued" /\ ~created /\ \A q \in Runs : job[q].kind # "new")
    BY <1>9 DEF SmallStep
  <2>3. ASSUME NEW p \in Runs, job'[p].kind = "new"
        PROVE  /\ \A q \in Runs : job'[q].kind = "new" => q = p
               /\ job'[p].at = "queued" => ~created
               /\ job'[p].at = "sent" => created /\ Fresh'
    <3>1. CASE p = r
      BY <1>1, <2>2, <2>3, <3>1, SentAfter
    <3>2. CASE p # r
      <4>1. job[p].kind = "new" /\ job'[p] = job[p] /\ j.kind # "new" /\ job'[r] = j
        BY <1>1, <2>2, <2>3, <3>2, SentAfter
      <4>2. \A q \in Runs : job'[q].kind = "new" => q = p
        BY <1>1, <2>2, <4>1, SentAfter DEF NewInv
      <4> QED
        BY <2>1, <4>1, <4>2 DEF NewInv
    <3> QED
      BY <3>1, <3>2
  <2> QED
    BY <2>1, <2>2, <2>3 DEF NewInv
<1>10. ASSUME UNCHANGED <<job, ckpt, debateOpen, created>> PROVE NewInv'
  BY <1>10 DEF NewInv, Fresh, Sent
<1> QED
  BY <1>3, <1>4, <1>5, <1>6, <1>8, <1>9, <1>10, PageMoves

\* A side turn does not change who is due.
LEMMA SideTurnKeepsDue ==
  ASSUME SerialInv, FlowInv, NEW r \in Runs, RunTurn(r), want[r] # None
  PROVE  Due' = Due
<1>1. /\ graph[r] \in GraphState /\ ckpt \in GraphState /\ want[r] \in AgentOrNone
      /\ pc[r] \in {"router", "agent_turn"} => graph[r] = ckpt
      /\ pc[r] = "router" => ckpt.at = "router"
      /\ pc[r] = "agent_turn" => ckpt.at = "agent_turn" /\ ckpt.cur \in Agent
  BY DEF SerialInv, EngineInv, TypeOK, GraphOK, OneAtATime
<1>2. CASE Begin(r)
  <2>1. CASE ckpt.at = "empty"
    <3>1. ckpt = NoCheckpoint /\ AgentTurns(history) = {}
      BY <2>1 DEF SerialInv, EngineInv, GraphOK
    <3>2. ckpt' = InitialState(history, want[r])
      BY <1>2, <2>1 DEF Begin
    <3>3. DueIn(NoCheckpoint) = 0
      BY DEF DueIn, NoCheckpoint, NextInOrder
    <3>4. DueIn(InitialState(history, want[r])) = 0
      BY <1>1, <3>1, InitialStateType DEF DueIn, NextInOrder
    <3> QED BY <3>1, <3>2, <3>3, <3>4 DEF Due
  <2>2. CASE ckpt.at # "empty"
    <3>1. ckpt' = [ckpt EXCEPT !.target = want[r]]
      BY <1>2, <2>2 DEF Begin
    <3>2. ckpt'.at = ckpt.at /\ ckpt'.main = ckpt.main /\ ckpt'.cur = ckpt.cur
      BY <1>1, <3>1 DEF GraphState
    <3> QED BY <3>2 DEF Due, DueIn, NextInOrder
  <2> QED BY <2>1, <2>2
<1>3. CASE Resume(r) \/ CreateLlmFails(r) \/ Respond(r)
  BY <1>3 DEF Resume, CreateLlmFails, Respond, Due
<1>4. CASE Router(r)
  <2>1. pc[r] = "router" /\ graph[r] = ckpt /\ ckpt' = Route(ckpt) /\ ckpt.at = "router"
    BY <1>1, <1>4 DEF Router
  <2>2. ckpt.target # None
    BY <2>1 DEF FlowInv
  <2>3. Route(ckpt).at # "end"
    BY <1>1, <2>2, RouteMoves
  <2> QED BY <1>1, <2>1, <2>3, RouteKeepsDue DEF Due
<1>5. CASE AgentTurn(r)
  <2>1. pc[r] = "agent_turn" /\ graph[r] = ckpt /\ ckpt' = AfterTurn(ckpt)
    BY <1>1, <1>5 DEF AgentTurn
  <2>2. IsSide(ckpt)
    BY <2>1 DEF FlowInv, IsSide
  <2> QED BY <1>1, <2>1, <2>2, AfterTurnDue DEF Due
<1> QED BY <1>2, <1>3, <1>4, <1>5 DEF RunTurn

\* The answer to a main turn names the agent due.
LEMMA AnswerNamesDue ==
  ASSUME SerialInv, FlowInv, NEW r \in Runs, RunTurn(r), want[r] = None, pc'[r] = "idle",
         status' = "active"
  PROVE  reply'[r].kind = "turn" /\ reply'[r].next = Due'
<1>1. pc \in [Runs -> PC] /\ reply \in [Runs -> Reply] /\ graph[r] \in GraphState /\ ckpt \in GraphState
  BY DEF SerialInv, EngineInv, TypeOK
<1>2. Respond(r)
  <2>1. ~CreateLlmFails(r)
    BY DEF CreateLlmFails, FlowInv
  <2>2. ASSUME Begin(r) \/ Resume(r) PROVE pc'[r] # "idle"
    BY <1>1, <2>2 DEF Begin, Resume, LoadCheckpoint, GraphState
  <2>3. ASSUME Router(r) \/ AgentTurn(r) PROVE pc'[r] # "idle"
    BY <1>1, <2>3 DEF Router, AgentTurn
  <2> QED
    BY <2>1, <2>2, <2>3 DEF RunTurn
<1>3. reply'[r].kind = "turn" /\ reply'[r].next = currentTurn /\ ckpt' = ckpt /\ pc[r] = "returned"
  BY <1>1, <1>2 DEF Respond
<1>4. ckpt.action # "end"
  BY <1>2 DEF Respond
<1>5. currentTurn = Due
  BY <1>3, <1>4 DEF FlowInv
<1> QED
  BY <1>3, <1>5 DEF Due

LEMMA ShowStep ==
  ASSUME NothingFails, ChatTypeOK, PageInv, SerialInv, FlowInv, NewInv, ShowInv, [ChatNext]_chatVars
  PROVE  ShowInv'
<1>1. job \in [Runs -> Job] /\ pc \in [Runs -> PC] /\ want \in [Runs -> AgentOrNone]
  BY DEF ChatTypeOK, TypeOK
<1>2. ASSUME NEW r \in Runs, RunTurn(r), UNCHANGED <<job, debateOpen, currentAgent>> PROVE ShowInv'
  <2>1. pc[r] # "idle" /\ want' = want /\ \A q \in Runs \ {r} : pc'[q] = pc[q]
    BY <1>1, <1>2 DEF RunTurn, Begin, Resume, Router, AgentTurn, CreateLlmFails, Respond, LoadCheckpoint
  <2>2. Sent(r) /\ \A q \in Runs : Sent(q) => q = r
    BY <2>1, SentAlone
  <2>3. \A q \in Runs : (Sent(q)' <=> Sent(q)) /\ job'[q] = job[q]
    BY <1>2 DEF Sent
  <2>4. want[r] = None <=> job[r].kind = "next_turn"
    BY <2>1 DEF ShowInv
  <2>5. \A q \in Runs : pc'[q] # "idle" => (want'[q] = None <=> job'[q].kind = "next_turn")
    BY <2>1, <2>3, <2>4 DEF ShowInv
  <2>6. ASSUME Live'
        PROVE  /\ job[r].kind = "inject" => job[r].main = Due'
               /\ job[r].kind = "next_turn" /\ pc'[r] = "idle" =>
                    reply'[r].kind = "turn" /\ reply'[r].next = Due'
    <3>1. Live /\ status' = "active"
      BY <1>2, <2>6 DEF Live, RunTurn, Begin, Resume, Router, AgentTurn, CreateLlmFails, Respond
    <3>2. ASSUME job[r].kind = "inject" PROVE job[r].main = Due'
      <4>1. job[r].main = Due
        BY <2>2, <3>1, <3>2 DEF ShowInv
      <4>2. want[r] # None
        BY <2>4, <3>2
      <4> QED
        BY <1>2, <4>1, <4>2, SideTurnKeepsDue
    <3>3. ASSUME job[r].kind = "next_turn", pc'[r] = "idle"
          PROVE  reply'[r].kind = "turn" /\ reply'[r].next = Due'
      BY <1>2, <2>4, <3>1, <3>3, AnswerNamesDue
    <3> QED
      BY <3>2, <3>3
  <2>7. \A q \in Runs : job'[q].kind = "inject" => job'[q].target # None
    BY <2>3 DEF ShowInv
  <2> QED
    BY <2>2, <2>3, <2>5, <2>6, <2>7 DEF ShowInv
<1>3. ASSUME NEW r \in Runs, job[r].at = "queued", SendTurnRequest(r), UNCHANGED <<debateOpen, currentAgent>>
      PROVE  ShowInv'
  <2> DEFINE j == [job[r] EXCEPT !.at = "sent", !.main = currentAgent]
  <2>1. job' = [job EXCEPT ![r] = j] /\ job[r].kind \in {"next_turn", "inject"}
    BY <1>1, <1>3 DEF SendTurnRequest, TurnKinds, PageInv
  <2>2. j.kind = job[r].kind /\ j.at = "sent" /\ j.main = currentAgent /\ j.target = job[r].target
    BY <1>1 DEF Job
  <2> HIDE DEF j
  <2>3. /\ UNCHANGED <<ckpt, status>> /\ Due' = Due
        /\ \A q \in Runs \ {r} : pc'[q] = pc[q]
        /\ pc[r] = "idle"
        /\ pc'[r] # "idle" => want'[r] = (IF job[r].kind = "inject" THEN job[r].target ELSE None)
        /\ pc'[r] = "idle" /\ job[r].kind = "next_turn" => status # "active"
    <3>1. \/ job[r].kind = "next_turn" /\ NextTurn(r)
          \/ job[r].kind = "inject" /\ Inject(r, job[r].target, job[r].body)
      BY <1>3, <2>1 DEF SendTurnRequest
    <3>2. UNCHANGED <<ckpt, status>> /\ pc[r] = "idle"
      BY <3>1 DEF NextTurn, Inject
    <3>3. \A q \in Runs \ {r} : pc'[q] = pc[q]
      BY <1>1, <3>1 DEF NextTurn, Inject, Spawn, RejectWith
    <3>4. /\ pc'[r] # "idle" => want'[r] = (IF job[r].kind = "inject" THEN job[r].target ELSE None)
          /\ pc'[r] = "idle" /\ job[r].kind = "next_turn" => status # "active"
      <4>1. want \in [Runs -> AgentOrNone]
        BY DEF ChatTypeOK, TypeOK
      <4> QED
        BY <1>1, <3>1, <3>2, <4>1 DEF NextTurn, Inject, Spawn, RejectWith
    <3> QED
      BY <3>2, <3>3, <3>4 DEF Due
  <2>4. \A q \in Runs : ~Sent(q)
    <3>1. Holds(r) /\ ~Sent(r)
      BY <1>3, <2>1 DEF Holds, Sent, TurnKinds
    <3> QED
      BY <3>1, SentAlone
  <2>5. /\ \A q \in Runs \ {r} : pc'[q] = "idle" /\ job'[q] = job[q] /\ ~Sent(q)'
        /\ job'[r] = j /\ Sent(r)'
    <3>1. \A q \in Runs : pc[q] = "idle"
      BY <2>4, SentAlone
    <3>2. job'[r] = j /\ \A q \in Runs \ {r} : job'[q] = job[q] /\ (Sent(q)' <=> Sent(q))
      BY <1>1, <2>1, SentAfter
    <3>3. Sent(r)'
      BY <2>1, <2>2, <3>2 DEF Sent
    <3> QED
      BY <2>3, <2>4, <3>1, <3>2, <3>3
  <2>6. job[r].kind = "inject" => job[r].target # None
    BY DEF ShowInv
  <2>7. \A q \in Runs : job'[q].kind = "inject" => job'[q].target # None
    BY <2>2, <2>5, <2>6 DEF ShowInv
  <2>8. \A q \in Runs : pc'[q] # "idle" => (want'[q] = None <=> job'[q].kind = "next_turn")
    BY <2>1, <2>2, <2>3, <2>5, <2>6
  <2>9. Live' => Live /\ currentAgent = Due'
    BY <1>3, <2>3, <2>4 DEF Live, ShowInv
  <2> QED
    BY <2>2, <2>3, <2>5, <2>7, <2>8, <2>9 DEF ShowInv, Live
<1>4. ASSUME NEW r \in Runs, FinishNextTurn(r) \/ FinishInject(r) PROVE ShowInv'
  <2>1. /\ job' = [job EXCEPT ![r] = NoJob] /\ Sent(r) /\ pc[r] = "idle"
        /\ UNCHANGED <<status, debateOpen, pc, want, ckpt>>
    BY <1>4 DEF FinishNextTurn, FinishInject, MarkEnded, Answered, Sent, vars
  <2>2. NoJob.kind = "none"
    BY DEF NoJob
  <2>3. Live => currentAgent' = Due
    <3>1. ASSUME Live, FinishNextTurn(r) PROVE currentAgent' = Due
      <4>1. reply[r].kind = "turn" /\ reply[r].next = Due
        BY <2>1, <3>1 DEF ShowInv, FinishNextTurn
      <4> QED
        BY <3>1, <4>1 DEF FinishNextTurn, NextAgentOf
    <3>2. ASSUME Live, FinishInject(r) PROVE currentAgent' = Due
      BY <2>1, <3>2 DEF ShowInv, FinishInject
    <3> QED
      BY <1>4, <3>1, <3>2
  <2>4. \A q \in Runs : ~Sent(q)'
    BY <1>1, <2>1, <2>2, SentAfter, SentAlone
  <2>5. /\ \A q \in Runs : job'[q].kind = "inject" => job'[q].target # None
        /\ \A q \in Runs : pc'[q] # "idle" => (want'[q] = None <=> job'[q].kind = "next_turn")
    BY <1>1, <2>1, <2>2, SentAfter DEF ShowInv
  <2>6. Live' = Live /\ Due' = Due
    BY <2>1 DEF Live, Due
  <2> QED
    BY <2>3, <2>4, <2>5, <2>6 DEF ShowInv
<1>5. ASSUME NEW r \in Runs, FinishNew(r) PROVE ShowInv'
  <2> DEFINE j == [job[r] EXCEPT !.at = "opening"]
  <2>1. /\ job' = [job EXCEPT ![r] = j] /\ job[r].kind = "new" /\ job[r].at = "sent"
        /\ UNCHANGED <<pc, want, ckpt>> /\ currentAgent' = 0
    BY <1>1, <1>5 DEF FinishNew, vars
  <2>2. j.kind = "new"
    BY <1>1, <2>1 DEF Job
  <2> HIDE DEF j
  <2>3. Fresh
    BY <2>1 DEF NewInv
  <2>4. \A q \in Runs : ~Sent(q)'
    BY <1>1, <2>1, <2>2, <2>3, SentAfter DEF Fresh
  <2>5. Due' = 0
    <3>1. ckpt' = NoCheckpoint
      BY <2>1, <2>3 DEF Fresh, SerialInv, EngineInv, GraphOK
    <3> QED
      BY <3>1 DEF Due, DueIn, NoCheckpoint, NextInOrder
  <2>6. /\ \A q \in Runs : job'[q].kind = "inject" => job'[q].target # None
        /\ \A q \in Runs : pc'[q] # "idle" => (want'[q] = None <=> job'[q].kind = "next_turn")
    BY <1>1, <2>1, <2>2, SentAfter DEF ShowInv
  <2> QED
    BY <2>1, <2>4, <2>5, <2>6 DEF ShowInv
<1>6. ASSUME NEW r \in Runs, NEW j, job' = [job EXCEPT ![r] = j], ~Sent(r),
             ~(j.kind \in {"next_turn", "inject"} /\ j.at = "sent"),
             j.kind = "inject" => j.target # None,
             UNCHANGED <<ckpt, pc, want, reply>>, status' = status \/ status' = "ended",
             UNCHANGED <<debateOpen, currentAgent>> \/ ~debateOpen'
      PROVE  ShowInv'
  <2>1. pc[r] = "idle"
    BY <1>6, SentAlone
  <2>2. /\ \A q \in Runs : Sent(q)' <=> Sent(q)
        /\ \A q \in Runs : Sent(q) => job'[q] = job[q]
    BY <1>1, <1>6, SentAfter
  <2>3. /\ \A q \in Runs : job'[q].kind = "inject" => job'[q].target # None
        /\ \A q \in Runs : pc'[q] # "idle" => (want'[q] = None <=> job'[q].kind = "next_turn")
    BY <1>1, <1>6, <2>1, SentAfter DEF ShowInv
  <2>4. Live' => Live /\ currentAgent' = currentAgent
    BY <1>6 DEF Live
  <2>5. Due' = Due
    BY <1>6 DEF Due
  <2> QED
    BY <1>6, <2>2, <2>3, <2>4, <2>5 DEF ShowInv
<1>7. ASSUME NEW r \in Runs, CreateDebate(r) PROVE ShowInv'
  <2>1. /\ job[r].kind = "new" /\ UNCHANGED <<ckpt, pc, want, reply, status, debateOpen, currentAgent>>
        /\ job' = [job EXCEPT ![r] = NoJob] \/ job' = [job EXCEPT ![r].at = "sent"]
    BY <1>7 DEF CreateDebate, vars, uiVars
  <2>2. ~Sent(r)
    BY <2>1 DEF Sent
  <2>3. CASE job' = [job EXCEPT ![r] = NoJob]
    <3>1. NoJob.kind = "none"
      BY DEF NoJob
    <3> QED
      BY <1>6, <2>1, <2>2, <2>3, <3>1
  <2>4. CASE job' = [job EXCEPT ![r].at = "sent"]
    <3> DEFINE j == [job[r] EXCEPT !.at = "sent"]
    <3>1. job' = [job EXCEPT ![r] = j] /\ j.kind = "new"
      BY <1>1, <2>1, <2>4 DEF Job
    <3> HIDE DEF j
    <3> QED
      BY <1>6, <2>1, <2>2, <3>1
  <2> QED
    BY <2>1, <2>3, <2>4
<1>8. ASSUME NEW r \in Runs, NEW j, SmallStep(r, j) PROVE ShowInv'
  BY <1>6, <1>8 DEF SmallStep
<1>9. ASSUME UNCHANGED <<job, ckpt, pc, want, reply, status, debateOpen, currentAgent>> PROVE ShowInv'
  BY <1>9 DEF ShowInv, Live, Sent, Due
<1> QED
  BY <1>2, <1>3, <1>4, <1>5, <1>7, <1>8, <1>9, PageMoves

LEMMA FlowInvariance == ASSUME NothingFails PROVE ChatSpec => [](FlowInv /\ NewInv /\ ShowInv)
<1>1. StatusIsKept
  BY DEF NothingFails
<1>2. ChatSpec => [](ChatTypeOK /\ PageInv /\ SerialInv)
  BY <1>1, ChatTypes, PageInvariance, EngineIsServedSerially, SerialInvariance, PTL
<1>3. ChatInit => FlowInv /\ NewInv /\ ShowInv
  <2> SUFFICES ASSUME ChatInit PROVE FlowInv /\ NewInv /\ ShowInv
    OBVIOUS
  <2>1. \A r \in Runs : job[r].kind \in {"connect", "none"}
    BY DEF ChatInit, Queued, NoJob
  <2>2. \A r \in Runs : ~Sent(r)
    BY <2>1 DEF Sent
  <2>3. /\ \A r \in Runs : pc[r] = "idle"
        /\ broken = {} /\ status = "active" /\ debateOpen = FALSE /\ created = FALSE
    BY DEF ChatInit, Init, NothingFails
  <2>4. ckpt.at = "empty" /\ ckpt.action = "speak" /\ ckpt.target = None
    BY DEF ChatInit, Init, NoCheckpoint
  <2> QED
    BY <2>1, <2>2, <2>3, <2>4 DEF FlowInv, NewInv, ShowInv, Fresh, Live
<1>4. ASSUME ChatTypeOK, PageInv, SerialInv, FlowInv, NewInv, ShowInv, [ChatNext]_chatVars
      PROVE  FlowInv' /\ NewInv' /\ ShowInv'
  <2>1. [SerialNext]_vars
    BY <1>1, <1>4, SerialSteps
  <2> QED
    BY <1>4, <2>1, FlowStep, NewStep, ShowStep
<1> QED
  BY <1>2, <1>3, <1>4, PTL DEF ChatSpec

\* Unless the user announces something, asks for several turns or addresses an agent that
\* does not exist, or a connection or a model fails, a page at rest with a debate that goes
\* on shows the agent whose main turn is next, however many side conversations, refused
\* requests and reconnections came before (ResumeShowsDue; _do_debate_inject's
\* main_flow_agent, _do_debate_next_turn).
THEOREM PageShowsAgentDue == ASSUME NothingFails PROVE ChatSpec => []ResumeShowsDue
<1>1. ShowInv => ResumeShowsDue
  <2> SUFFICES ASSUME ShowInv, \A r \in Runs : job[r] = NoJob, status = "active", debateOpen
               PROVE  currentAgent = Due
    BY DEF ResumeShowsDue
  <2>1. \A r \in Runs : ~Sent(r)
    BY DEF Sent, NoJob
  <2> QED
    BY <2>1 DEF ShowInv, Live
<1> QED
  BY <1>1, FlowInvariance, PTL

-----------------------------------------------------------------------------
(* The number on a bubble *)

\* Nothing is refused or lost either: no message is empty, the client is not replaced.
NothingRefused == NothingFails /\ UserInputs \cap {"bare", "connect"} = {}

\* A turn was asked for and is not recorded yet.
Unrecorded(r) == pc[r] # "idle" /\ ~(pc[r] = "returned" /\ ckpt.at # "end")
Waiting(r) == job[r].kind \in {"next_turn", "inject"} /\ (job[r].at = "queued" \/ Unrecorded(r))

Recorded == Cardinality(AgentTurns(history))

\* One connection is made, and the debate after it.
ClientInv ==
  /\ created => clientReady
  /\ \A r \in Runs : job[r].kind = "connect" =>
       ~clientReady /\ \A q \in Runs : job[q].kind = "connect" => q = r

\* No turn is asked for before there is a debate.
NoTurnYet == ~debateOpen /\ \A r \in Runs : job[r].kind \notin {"next_turn", "inject"}

LabelInv ==
  /\ ~created => NoTurnYet
  /\ \A r \in Runs :
       /\ job[r].kind = "new" /\ job[r].at = "sent" => NoTurnYet
       /\ job[r].kind = "inject" => job[r].body
       /\ reply[r].ended => status = "ended"
       /\ Unrecorded(r) => job[r].label = Recorded + 1
  /\ Live =>
       /\ (\A r \in Runs : ~Waiting(r)) => agentTurnCount = Recorded
       /\ \A r \in Runs : Waiting(r) => agentTurnCount = Recorded + 1 /\ job[r].label = Recorded + 1

\* A step of the page that asks for no turn and records none: job r, which is not at the
\* backend, becomes j.
Still(r, j) ==
  /\ job' = [job EXCEPT ![r] = j]
  /\ ~Sent(r)
  /\ UNCHANGED <<ckpt, pc, reply>>
  /\ created => created'
  /\ status' = status \/ status' = "ended"
  /\ history' = history \/ history' = Append(history, Remark)
  /\ (UNCHANGED <<debateOpen, agentTurnCount>> /\ ~Waiting(r)) \/ ~debateOpen'
  /\ j.kind \in {"next_turn", "inject"} =>
       j.kind = job[r].kind /\ j.body = job[r].body /\ j.at = "failed"
  /\ j.kind = "new" /\ j.at = "sent" => ~created

Asks(r) ==
  /\ uiStatus # "streaming" /\ debateOpen /\ UNCHANGED <<vars, debateOpen, created>>
  /\ \E j \in Job : /\ AskForTurn(r, j)
                    /\ j.kind \in {"next_turn", "inject"} /\ j.at = "queued"
                    /\ j.kind = "inject" => j.body

LEMMA RecordedIs ==
  ASSUME NEW h \in Seq(Entry)
  PROVE  /\ Cardinality(AgentTurns(h)) \in Nat
         /\ Cardinality(AgentTurns(Append(h, Remark))) = Cardinality(AgentTurns(h))
         /\ \A a \in Agent, s \in BOOLEAN :
              Cardinality(AgentTurns(Append(h, [by |-> a, side |-> s]))) = Cardinality(AgentTurns(h)) + 1
<1>1. AgentTurns(h) \subseteq 1 .. Len(h) /\ Len(h) \in Nat
  BY DEF AgentTurns
<1>2. IsFiniteSet(AgentTurns(h))
  <2>1. IsFiniteSet(1 .. Len(h))
    BY <1>1, FS_Interval
  <2> QED
    BY <1>1, <2>1, FS_Subset
<1>3. Cardinality(AgentTurns(h)) \in Nat
  BY <1>2, FS_CardinalityType
<1>4. AgentTurns(Append(h, Remark)) = AgentTurns(h)
  BY AppendRemark
<1>5. ASSUME NEW a \in Agent, NEW s \in BOOLEAN
      PROVE  Cardinality(AgentTurns(Append(h, [by |-> a, side |-> s]))) = Cardinality(AgentTurns(h)) + 1
  <2>1. AgentTurns(Append(h, [by |-> a, side |-> s])) = AgentTurns(h) \cup {Len(h) + 1}
    BY AppendTurn
  <2>2. Len(h) + 1 \notin AgentTurns(h)
    BY <1>1
  <2> QED
    BY <1>2, <2>1, <2>2, FS_AddElement
<1> QED
  BY <1>3, <1>4, <1>5

LEMMA ClientStep ==
  ASSUME NothingRefused, ChatTypeOK, ClientInv, [ChatNext]_chatVars
  PROVE  ClientInv'
<1>1. /\ job \in [Runs -> Job] /\ clientReady \in BOOLEAN /\ created \in BOOLEAN
      /\ LossyRuns = {} /\ "connect" \notin UserInputs
  BY DEF ChatTypeOK, NothingRefused, NothingFails, StatusIsKept
<1>2. ASSUME NEW r \in Runs, NEW j, job' = [job EXCEPT ![r] = j], j.kind = "connect" => job[r].kind = "connect",
             created' => clientReady', clientReady' = clientReady
      PROVE  ClientInv'
  <2>1. job'[r] = j /\ \A q \in Runs \ {r} : job'[q] = job[q]
    BY <1>1, <1>2
  <2>2. ASSUME NEW p \in Runs, job'[p].kind = "connect"
        PROVE  ~clientReady' /\ \A q \in Runs : job'[q].kind = "connect" => q = p
    <3>1. job[p].kind = "connect"
      BY <1>2, <2>1, <2>2
    <3>2. ~clientReady /\ \A q \in Runs : job[q].kind = "connect" => q = p
      BY <3>1 DEF ClientInv
    <3> QED
      BY <1>2, <2>1, <3>2
  <2> QED
    BY <1>2, <2>2 DEF ClientInv
<1>3. ASSUME UNCHANGED <<clientReady, created>>,
             UNCHANGED job \/ \E r \in Runs : \E j : job' = [job EXCEPT ![r] = j]
                                                     /\ (j.kind = "connect" => job[r].kind = "connect")
      PROVE  ClientInv'
  <2>1. CASE UNCHANGED job
    BY <1>3, <2>1 DEF ClientInv
  <2>2. ASSUME NEW r \in Runs, NEW j, job' = [job EXCEPT ![r] = j], j.kind = "connect" => job[r].kind = "connect"
        PROVE  ClientInv'
    <3>1. created' => clientReady'
      BY <1>3 DEF ClientInv
    <3> QED
      BY <1>2, <1>3, <2>2, <3>1
  <2> QED
    BY <1>3, <2>1, <2>2
<1>4. NoJob.kind = "none" /\ \A kind : Queued(kind).kind = kind
  BY QueuedIs DEF NoJob
<1>5. \A r \in Runs : /\ \A at : [job[r] EXCEPT !.at = at].kind = job[r].kind
                      /\ \A m : [job[r] EXCEPT !.at = "sent", !.main = m].kind = job[r].kind
  BY <1>1 DEF Job
<1>6. ASSUME NEW r \in Runs, StartJob(r), UNCHANGED <<clientVars, created>> PROVE ClientInv'
  <2>1. \E j : job' = [job EXCEPT ![r] = j] /\ (j.kind = "connect" => job[r].kind = "connect")
    <3>1. ASSUME SendTurnRequest(r) PROVE job' = [job EXCEPT ![r] = [job[r] EXCEPT !.at = "sent", !.main = currentAgent]]
      BY <1>1, <3>1 DEF SendTurnRequest
    <3>2. ASSUME SendWithoutDebate(r) \/ SendAnnounce(r) \/ SendEnd(r) \/ SendAskContinue(r)
          PROVE  \/ \E at : job' = [job EXCEPT ![r] = [job[r] EXCEPT !.at = at]]
                 \/ job' = [job EXCEPT ![r] = NoJob]
      BY <1>1, <3>2 DEF SendWithoutDebate, SendAnnounce, SendEnd, SendAskContinue
    <3>3. ASSUME NEW at, job' = [job EXCEPT ![r] = [job[r] EXCEPT !.at = at]]
          PROVE  \E j : job' = [job EXCEPT ![r] = j] /\ (j.kind = "connect" => job[r].kind = "connect")
      BY <1>5, <3>3
    <3>4. ASSUME job' = [job EXCEPT ![r] = NoJob]
          PROVE  \E j : job' = [job EXCEPT ![r] = j] /\ (j.kind = "connect" => job[r].kind = "connect")
      BY <1>4, <3>4
    <3>5. ASSUME SendTurnRequest(r)
          PROVE  \E j : job' = [job EXCEPT ![r] = j] /\ (j.kind = "connect" => job[r].kind = "connect")
      <4>1. [job[r] EXCEPT !.at = "sent", !.main = currentAgent].kind = job[r].kind
        BY <1>5
      <4> QED
        BY <3>1, <3>5, <4>1
    <3> QED
      BY <1>6, <3>2, <3>3, <3>4, <3>5 DEF StartJob
  <2> QED
    BY <1>3, <1>6, <2>1 DEF clientVars
<1>7. ASSUME NEW r \in Runs, FinishJob(r), UNCHANGED <<clientVars, created>> PROVE ClientInv'
  <2>1. \E j : job' = [job EXCEPT ![r] = j] /\ j.kind # "connect"
    <3>1. \A n, m : [Queued("continue") EXCEPT !.label = n, !.left = m].kind = "continue"
      BY DEF Queued, NoJob
    <3>2. ASSUME job' = [job EXCEPT ![r] = NoJob] PROVE \E j : job' = [job EXCEPT ![r] = j] /\ j.kind # "connect"
      BY <1>4, <3>2
    <3>3. ASSUME NEW n, NEW m, job' = [job EXCEPT ![r] = [Queued("continue") EXCEPT !.label = n, !.left = m]]
          PROVE  \E j : job' = [job EXCEPT ![r] = j] /\ j.kind # "connect"
      BY <3>1, <3>3
    <3>4. CASE FinishContinue(r)
      BY <3>2, <3>3, <3>4 DEF FinishContinue, MarkEnded
    <3>5. CASE FinishAskContinue(r)
      BY <3>3, <3>5 DEF FinishAskContinue
    <3>6. CASE FinishNextTurn(r) \/ FinishInject(r) \/ FinishAnnounce(r) \/ FinishEnd(r) \/ FinishSimulate(r)
               \/ StreamError(r)
      BY <3>2, <3>6 DEF FinishNextTurn, FinishInject, FinishAnnounce, FinishEnd, FinishSimulate, StreamError,
                        MarkEnded
    <3> QED
      BY <1>7, <3>4, <3>5, <3>6 DEF FinishJob
  <2> QED
    BY <1>3, <1>7, <2>1 DEF clientVars
<1>8. ASSUME NEW r \in Runs, NewDebate(r), UNCHANGED clientVars PROVE ClientInv'
  <2>1. \/ \E at : job' = [job EXCEPT ![r] = [job[r] EXCEPT !.at = at]]
        \/ job' = [job EXCEPT ![r] = NoJob]
    BY <1>1, <1>8 DEF NewDebate, CreateDebate, FinishNew, AnnounceOpening
  <2>2. (created' => clientReady') /\ clientReady' = clientReady
    BY <1>8 DEF ClientInv, NewDebate, CreateDebate, FinishNew, AnnounceOpening, clientVars
  <2>3. ASSUME NEW at, job' = [job EXCEPT ![r] = [job[r] EXCEPT !.at = at]] PROVE ClientInv'
    <3>1. [job[r] EXCEPT !.at = at].kind = job[r].kind
      BY <1>5
    <3> QED
      BY <1>2, <2>2, <2>3, <3>1
  <2>4. ASSUME job' = [job EXCEPT ![r] = NoJob] PROVE ClientInv'
    BY <1>2, <1>4, <2>2, <2>4
  <2> QED
    BY <2>1, <2>3, <2>4
<1>9. ASSUME NEW r \in Runs, Handshake(r), UNCHANGED created PROVE ClientInv'
  <2>1. job[r].kind = "connect" /\ ~ConnectFails(r)
    BY <1>1, <1>9 DEF Handshake, StartConnect, Connected, ConnectFails
  <2>2. ~clientReady /\ ~created
    BY <2>1 DEF ClientInv
  <2>3. CASE StartConnect(r)
    <3>1. job' = [job EXCEPT ![r] = [job[r] EXCEPT !.at = "sent"]] /\ clientReady' = FALSE
      BY <1>1, <2>3 DEF StartConnect
    <3>2. [job[r] EXCEPT !.at = "sent"].kind = job[r].kind
      BY <1>5
    <3>3. (created' => clientReady') /\ clientReady' = clientReady
      BY <1>1, <1>9, <2>2, <3>1
    <3> QED
      BY <1>2, <2>1, <3>1, <3>2, <3>3
  <2>4. CASE Connected(r)
    <3>1. \A q \in Runs \ {r} : job[q].kind # "connect"
      BY <2>1 DEF ClientInv
    <3>2. job' = [job EXCEPT ![r] = NoJob]
      BY <2>4 DEF Connected
    <3>3. \A q \in Runs : job'[q].kind # "connect"
      BY <1>1, <1>4, <3>1, <3>2
    <3> QED
      BY <1>9, <2>2, <3>3 DEF ClientInv
  <2> QED
    BY <1>9, <2>1, <2>3, <2>4 DEF Handshake
<1>10. ASSUME NEW r \in Runs, UserEvent(r) \/ StreamBreaks(r), UNCHANGED <<clientVars, created>> PROVE ClientInv'
  <2>1. ASSUME NEW k \in {"next_turn", "inject"}, NEW j, AskForTurn(r, j), j \in Job, j.kind = k
        PROVE  \E i : job' = [job EXCEPT ![r] = i] /\ i.kind # "connect"
    <3>1. [j EXCEPT !.label = agentTurnCount + 1].kind = j.kind
      BY <2>1 DEF Job
    <3> QED
      BY <2>1, <3>1 DEF AskForTurn, Schedule
  <2>2. \E j : job' = [job EXCEPT ![r] = j] /\ j.kind # "connect"
    <3>1. ASSUME ClickNextTurn(r) PROVE \E j : job' = [job EXCEPT ![r] = j] /\ j.kind # "connect"
      BY <1>4, <2>1, <3>1, JobTypes DEF ClickNextTurn
    <3>2. ASSUME NEW a \in AgentOrNone, NEW b \in BOOLEAN, SendAt(r, a, b)
          PROVE  \E j : job' = [job EXCEPT ![r] = j] /\ j.kind # "connect"
      <4> DEFINE j == [Queued("inject") EXCEPT !.target = a, !.body = b]
      <4>1. j \in Job
        BY JobTypes
      <4>2. j.kind = "inject"
        BY DEF Queued, NoJob
      <4>3. AskForTurn(r, j)
        BY <3>2 DEF SendAt
      <4> HIDE DEF j
      <4> QED
        BY <2>1, <4>1, <4>2, <4>3
    <3>3. ASSUME NEW n, SendContinue(r, n) PROVE \E j : job' = [job EXCEPT ![r] = j] /\ j.kind # "connect"
      <4>1. [Queued("ask_continue") EXCEPT !.left = 2 * n].kind = "ask_continue"
        BY DEF Queued, NoJob
      <4> QED
        BY <3>3, <4>1 DEF SendContinue, Schedule
    <3>4. ASSUME SendPlain(r) \/ SendNew(r) \/ ClickEnd(r)
          PROVE  \E j : job' = [job EXCEPT ![r] = j] /\ j.kind # "connect"
      BY <1>4, <3>4 DEF SendPlain, SendNew, ClickEnd, Schedule
    <3>5. None \in AgentOrNone /\ \A a \in Agent : a \in AgentOrNone
      BY DEF AgentOrNone
    <3> QED
      BY <1>1, <1>10, <3>1, <3>2, <3>3, <3>4, <3>5 DEF UserEvent, StreamBreaks
  <2> QED
    BY <1>3, <1>10, <2>2 DEF clientVars
<1>11. ASSUME UNCHANGED <<job, clientVars, created>> PROVE ClientInv'
  BY <1>3, <1>11 DEF clientVars
<1> QED
  BY <1>6, <1>7, <1>8, <1>9, <1>10, <1>11 DEF ChatNext, PageJob, Backend, Environment, chatVars

\* The page's steps, by what they mean for the numbers.
LEMMA LabelMoves ==
  ASSUME NothingRefused, ChatTypeOK, PageInv, NewInv, ClientInv, LabelInv, [ChatNext]_chatVars
  PROVE  \/ \E r \in Runs : RunTurn(r) /\ UNCHANGED <<job, debateOpen, agentTurnCount, created>>
         \/ \E r \in Runs : /\ job[r].at = "queued" /\ SendTurnRequest(r)
                            /\ UNCHANGED <<debateOpen, agentTurnCount, created>>
         \/ \E r \in Runs : (FinishNextTurn(r) \/ FinishInject(r)) /\ UNCHANGED created
         \/ \E r \in Runs : FinishNew(r)
         \/ \E r \in Runs : Asks(r)
         \/ \E r \in Runs : \E j : Still(r, j)
         \/ UNCHANGED <<job, ckpt, pc, reply, status, history, debateOpen, agentTurnCount, created>>
<1> DEFINE Calm == \E r \in Runs : \E j : Still(r, j)
<1>1. job \in [Runs -> Job] /\ NoJob.kind = "none"
  BY DEF ChatTypeOK, NoJob
<1>2. \A r \in Runs : job[r].kind \notin {"announce", "ask_continue", "continue"}
  BY DEF PageInv
<1>3. /\ LossyRuns = {} /\ UserInputs \cap {"plain", "continue", "unknown", "bare", "connect"} = {}
  BY DEF NothingRefused, NothingFails, StatusIsKept
<1>4. \A r \in Runs : ~Sent(r) => pc[r] = "idle"
  BY SentAlone
<1>5. ASSUME NEW r \in Runs, NEW j, job' = [job EXCEPT ![r] = j], ~Sent(r),
             j.kind \notin {"next_turn", "inject"}, j.kind = "new" /\ j.at = "sent" => ~created,
             UNCHANGED <<ckpt, pc, reply>>, created => created', status' = status \/ status' = "ended",
             history' = history \/ history' = Append(history, Remark),
             (UNCHANGED <<debateOpen, agentTurnCount>> /\ ~Waiting(r)) \/ ~debateOpen'
      PROVE  Calm
  <2>1. Still(r, j)
    BY <1>5 DEF Still
  <2> QED
    BY <2>1
<1>6. ASSUME NEW r \in Runs, StartJob(r), UNCHANGED created, ~SendTurnRequest(r) PROVE Calm
  <2>1. /\ job[r].at = "queued" /\ ~Sent(r) /\ UNCHANGED <<debateOpen, agentTurnCount>>
    BY <1>6 DEF StartJob, uiVars, Sent
  <2>2. ASSUME SendWithoutDebate(r) PROVE Calm
    <3> DEFINE j == [job[r] EXCEPT !.at = "failed"]
    <3>1. job' = [job EXCEPT ![r] = j] /\ UNCHANGED vars /\ job[r].kind \in {"next_turn", "inject"}
      BY <1>1, <1>2, <2>2 DEF SendWithoutDebate, TurnKinds
    <3>2. j.kind = job[r].kind /\ j.body = job[r].body /\ j.at = "failed"
      BY <1>1 DEF Job
    <3>3. ~debateOpen
      <4>1. created
        BY <3>1 DEF LabelInv, NoTurnYet
      <4> QED
        BY <2>2, <4>1 DEF ClientInv, SendWithoutDebate
    <3> HIDE DEF j
    <3>4. Still(r, j)
      BY <1>6, <2>1, <3>1, <3>2, <3>3 DEF Still, vars
    <3> QED
      BY <3>4
  <2>3. ASSUME SendEnd(r) PROVE Calm
    <3>1. /\ job[r].kind = "end" /\ UNCHANGED <<ckpt, pc, reply, history>>
          /\ status' = status \/ status' = "ended"
          /\ job' = [job EXCEPT ![r] = [job[r] EXCEPT !.at = "sent"]] \/ job' = [job EXCEPT ![r] = NoJob]
      BY <1>1, <2>3 DEF SendEnd, Stop, vars
    <3>2. [job[r] EXCEPT !.at = "sent"].kind = "end"
      BY <1>1, <3>1 DEF Job
    <3>3. ~Waiting(r)
      BY <3>1 DEF Waiting
    <3> HIDE DEF Calm
    <3>4. CASE job' = [job EXCEPT ![r] = NoJob]
      BY <1>1, <1>5, <1>6, <2>1, <3>1, <3>3, <3>4
    <3>5. CASE job' = [job EXCEPT ![r] = [job[r] EXCEPT !.at = "sent"]]
      BY <1>5, <1>6, <2>1, <3>1, <3>2, <3>3, <3>5
    <3> QED
      BY <3>1, <3>4, <3>5
  <2> HIDE DEF Calm
  <2> QED
    BY <1>2, <1>6, <2>2, <2>3 DEF StartJob, SendAnnounce, SendAskContinue
<1>7. ASSUME NEW r \in Runs, FinishJob(r), UNCHANGED created, ~FinishNextTurn(r), ~FinishInject(r) PROVE Calm
  <2>1. /\ FinishEnd(r) \/ StreamError(r) \/ FinishSimulate(r)
        /\ job' = [job EXCEPT ![r] = NoJob] /\ UNCHANGED vars
    BY <1>2, <1>7 DEF FinishJob, FinishContinue, FinishAnnounce, FinishAskContinue, FinishEnd, StreamError,
                      FinishSimulate
  <2>2. ~Sent(r)
    BY <2>1 DEF FinishEnd, StreamError, FinishSimulate, Sent
  <2>3. ~Waiting(r)
    <3>1. pc[r] = "idle"
      BY <1>4, <2>2
    <3> QED
      BY <2>1, <3>1 DEF FinishEnd, StreamError, FinishSimulate, Waiting, Unrecorded
  <2>4. UNCHANGED <<debateOpen, agentTurnCount>> \/ ~debateOpen'
    BY <2>1 DEF FinishEnd, StreamError, FinishSimulate
  <2> HIDE DEF Calm
  <2> QED
    BY <1>1, <1>5, <1>7, <2>1, <2>2, <2>3, <2>4 DEF vars
<1>8. ASSUME NEW r \in Runs, AnnounceOpening(r) PROVE Calm
  <2>1. /\ job' = [job EXCEPT ![r] = NoJob] /\ job[r].at = "opening"
        /\ UNCHANGED <<ckpt, pc, reply, status, created, debateOpen, agentTurnCount>>
        /\ history' = history \/ history' = Append(history, Remark)
    BY <1>8 DEF AnnounceOpening, Announce, vars, uiVars
  <2>2. ~Sent(r)
    BY <2>1 DEF Sent
  <2>3. ~Waiting(r)
    BY <1>4, <2>1, <2>2 DEF Waiting, Unrecorded
  <2> HIDE DEF Calm
  <2> QED
    BY <1>1, <1>5, <2>1, <2>2, <2>3
<1>9. ASSUME NEW r \in Runs, CreateDebate(r) PROVE Calm
  <2>1. /\ job[r].kind = "new" /\ job[r].at = "queued"
        /\ UNCHANGED <<ckpt, pc, reply, status, history, debateOpen, agentTurnCount>>
        /\ \/ created' = TRUE /\ job' = [job EXCEPT ![r] = [job[r] EXCEPT !.at = "sent"]]
           \/ created' = created /\ job' = [job EXCEPT ![r] = NoJob]
    BY <1>1, <1>9 DEF CreateDebate, vars, uiVars
  <2>2. ~created /\ ~Sent(r) /\ ~Waiting(r)
    <3>1. ~created /\ ~Sent(r)
      BY <2>1 DEF NewInv, Sent
    <3> QED
      BY <1>4, <2>1, <3>1 DEF Waiting
  <2>3. [job[r] EXCEPT !.at = "sent"].kind = "new"
    BY <1>1, <2>1 DEF Job
  <2> HIDE DEF Calm
  <2>4. CASE job' = [job EXCEPT ![r] = NoJob]
    BY <1>1, <1>5, <2>1, <2>2, <2>4
  <2>5. CASE job' = [job EXCEPT ![r] = [job[r] EXCEPT !.at = "sent"]]
    BY <1>5, <2>1, <2>2, <2>3, <2>5
  <2> QED
    BY <2>1, <2>4, <2>5
<1>10. ASSUME NEW r \in Runs, Handshake(r), UNCHANGED created PROVE Calm
  <2>1. /\ job[r].kind = "connect"
        /\ UNCHANGED <<ckpt, pc, reply, status, history, debateOpen, agentTurnCount>>
        /\ job' = [job EXCEPT ![r] = [job[r] EXCEPT !.at = "sent"]] \/ job' = [job EXCEPT ![r] = NoJob]
    BY <1>1, <1>3, <1>10 DEF Handshake, StartConnect, Connected, ConnectFails, vars, uiVars
  <2>2. ~Sent(r) /\ ~Waiting(r)
    BY <2>1 DEF Sent, Waiting
  <2>3. [job[r] EXCEPT !.at = "sent"].kind = "connect"
    BY <1>1, <2>1 DEF Job
  <2> HIDE DEF Calm
  <2>4. CASE job' = [job EXCEPT ![r] = NoJob]
    BY <1>1, <1>5, <1>10, <2>1, <2>2, <2>4
  <2>5. CASE job' = [job EXCEPT ![r] = [job[r] EXCEPT !.at = "sent"]]
    BY <1>5, <1>10, <2>1, <2>2, <2>3, <2>5
  <2> QED
    BY <2>1, <2>4, <2>5
<1>11. ASSUME NEW r \in Runs, UserEvent(r) \/ StreamBreaks(r), UNCHANGED created
       PROVE  Asks(r) \/ Calm
  <2>1. ASSUME ClickNextTurn(r) PROVE Asks(r)
    <3>1. /\ Queued("next_turn") \in Job /\ Queued("next_turn").kind = "next_turn"
          /\ Queued("next_turn").at = "queued"
      BY JobTypes, QueuedIs
    <3> QED
      BY <1>11, <2>1, <3>1 DEF ClickNextTurn, Asks
  <2>2. ASSUME NEW a \in Agent, SendAt(r, a, TRUE) PROVE Asks(r)
    <3> DEFINE j == [Queued("inject") EXCEPT !.target = a, !.body = TRUE]
    <3>1. a \in AgentOrNone
      BY DEF AgentOrNone
    <3>2. j \in Job
      BY <3>1, JobTypes
    <3>3. Queued("inject") \in Job /\ Queued("inject").kind = "inject" /\ Queued("inject").at = "queued"
      BY JobTypes, QueuedIs
    <3>4. j.kind = "inject" /\ j.at = "queued" /\ j.body = TRUE
      BY <3>3 DEF Job
    <3>5. AskForTurn(r, j) /\ UNCHANGED <<vars, debateOpen>> /\ uiStatus # "streaming" /\ debateOpen
      BY <2>2 DEF SendAt
    <3> HIDE DEF j
    <3> QED
      BY <1>11, <3>2, <3>4, <3>5 DEF Asks
  <2>3. ASSUME SendNew(r) \/ ClickEnd(r) PROVE Calm
    <3>1. PICK kind \in {"new", "end"} : job' = [job EXCEPT ![r] = Queued(kind)]
      BY <2>3 DEF SendNew, ClickEnd, Schedule
    <3>2. job[r] = NoJob /\ UNCHANGED <<ckpt, pc, reply, status, history, debateOpen, agentTurnCount>>
      BY <2>3 DEF SendNew, ClickEnd, Schedule, vars, uiVars
    <3>3. ~Sent(r) /\ ~Waiting(r)
      BY <1>1, <3>2 DEF Sent, Waiting
    <3>4. Queued(kind).kind = kind /\ Queued(kind).at = "queued"
      BY QueuedIs
    <3> HIDE DEF Calm
    <3> QED
      BY <1>5, <1>11, <3>1, <3>2, <3>3, <3>4
  <2> HIDE DEF Calm
  <2> QED
    BY <1>3, <1>11, <2>1, <2>2, <2>3 DEF UserEvent, StreamBreaks
<1> HIDE DEF Calm
<1>12. ASSUME NEW r \in Runs, PageJob(r)
       PROVE  \/ /\ job[r].at = "queued" /\ SendTurnRequest(r)
                 /\ UNCHANGED <<debateOpen, agentTurnCount, created>>
              \/ (FinishNextTurn(r) \/ FinishInject(r)) /\ UNCHANGED created
              \/ FinishNew(r)
              \/ Calm
  <2>1. CASE StartJob(r) /\ UNCHANGED created
    BY <1>6, <2>1 DEF StartJob, uiVars
  <2>2. CASE FinishJob(r) /\ UNCHANGED created
    BY <1>7, <2>2
  <2>3. CASE NewDebate(r)
    BY <1>8, <1>9, <2>3 DEF NewDebate
  <2>4. CASE Handshake(r) /\ UNCHANGED created
    BY <1>10, <2>4
  <2> QED
    BY <1>12, <2>1, <2>2, <2>3, <2>4 DEF PageJob
<1>13. ASSUME NEW r \in Runs, Backend(r)
       PROVE  RunTurn(r) /\ UNCHANGED <<job, debateOpen, agentTurnCount, created>>
  BY <1>13 DEF Backend, uiVars
<1>14. ASSUME \/ (\E a \in Agent : Repair(a) /\ UNCHANGED <<uiVars, job>>) /\ UNCHANGED created
              \/ UNCHANGED chatVars
       PROVE  UNCHANGED <<job, ckpt, pc, reply, status, history, debateOpen, agentTurnCount, created>>
  BY <1>14 DEF Repair, chatVars, uiVars, vars
<1>15. \/ \E r \in Runs : PageJob(r)
       \/ \E r \in Runs : Backend(r)
       \/ (\E r \in Runs : UserEvent(r) \/ StreamBreaks(r)) /\ UNCHANGED created
       \/ (\E a \in Agent : Repair(a) /\ UNCHANGED <<uiVars, job>>) /\ UNCHANGED created
       \/ UNCHANGED chatVars
  BY DEF ChatNext, Environment
<1> QED
  BY <1>11, <1>12, <1>13, <1>14, <1>15 DEF Calm

\* What a request that is on its way has said, and what a step makes of the rest.
LEMMA LabelStep ==
  ASSUME NothingRefused, ChatTypeOK, PageInv, SerialInv, FlowInv, NewInv, ClientInv, LabelInv,
         [ChatNext]_chatVars
  PROVE  LabelInv'
<1>1. /\ job \in [Runs -> Job] /\ pc \in [Runs -> PC] /\ reply \in [Runs -> Reply]
      /\ history \in Seq(Entry) /\ agentTurnCount \in Int /\ ckpt \in GraphState
      /\ uiStatus \in {"idle", "streaming"}
  BY DEF ChatTypeOK, TypeOK
<1>2. Recorded \in Nat /\ (history' = history \/ history' = Append(history, Remark) => Recorded' = Recorded)
  BY <1>1, RecordedIs DEF Recorded
<1>3. ASSUME NEW r \in Runs, RunTurn(r), UNCHANGED <<job, debateOpen, agentTurnCount, created>> PROVE LabelInv'
  <2>1. /\ pc[r] # "idle" /\ \A q \in Runs \ {r} : pc[q] = "idle" /\ pc'[q] = "idle" /\ reply'[q] = reply[q]
        /\ graph[r] \in GraphState
    <3>1. /\ pc[r] # "idle"
          /\ \A q \in Runs \ {r} : pc'[q] = pc[q] /\ reply'[q] = reply[q]
      BY <1>1, <1>3 DEF RunTurn, Begin, Resume, Router, AgentTurn, CreateLlmFails, Respond, LoadCheckpoint
    <3> QED
      BY <3>1 DEF SerialInv, OneAtATime, EngineInv, TypeOK
  <2>2. Sent(r) /\ \A q \in Runs : Holds(q) => q = r
    BY <2>1, SentAlone
  <2>3. job'[r] = job[r] /\ \A q \in Runs : job'[q] = job[q]
    BY <1>3
  <2>4. reply'[r].ended => status' = "ended"
    <3>1. ASSUME reply' = reply, status' = status PROVE reply'[r].ended => status' = "ended"
      BY <3>1 DEF LabelInv
    <3>2. CASE Begin(r) \/ Resume(r) \/ Router(r) \/ AgentTurn(r)
      BY <3>1, <3>2 DEF Begin, Resume, Router, AgentTurn
    <3>3. ASSUME CreateLlmFails(r) PROVE ~reply'[r].ended
      BY <1>1, <3>3 DEF CreateLlmFails, ErrorReply, NoReply
    <3>4. ASSUME Respond(r) PROVE reply'[r].ended => status' = "ended"
      <4>1. /\ status' = IF ckpt.action = "end" THEN "ended" ELSE status
            /\ reply'[r].ended = (ckpt.action = "end")
        BY <1>1, <3>4 DEF Respond
      <4> QED
        BY <4>1
    <3> QED
      BY <1>3, <3>2, <3>3, <3>4 DEF RunTurn
  <2>5. \A q \in Runs : reply'[q].ended => status' = "ended"
    <3>1. status = "ended" => status' = "ended"
      BY <1>3 DEF RunTurn, Begin, Resume, Router, AgentTurn, CreateLlmFails, Respond
    <3> QED
      BY <2>1, <2>4, <3>1 DEF LabelInv
  \* A turn is recorded, or it stays to be recorded, or the debate is over.
  <2>6. \/ Unrecorded(r) /\ ~Unrecorded(r)' /\ Recorded' = Recorded + 1
        \/ Recorded' = Recorded /\ (Unrecorded(r)' <=> Unrecorded(r))
        \/ Recorded' = Recorded /\ ~Unrecorded(r)' /\ status' = "ended"
    <3>1. CASE AgentTurn(r)
      <4>1. pc[r] = "agent_turn" /\ graph[r] = ckpt /\ ckpt' = AfterTurn(ckpt) /\ pc'[r] = "returned"
        BY <1>1, <3>1 DEF AgentTurn, SerialInv, OneAtATime
      <4>2. graph[r].cur \in Agent /\ IsSide(graph[r]) \in BOOLEAN
        BY <4>1 DEF SerialInv, EngineInv, GraphOK, IsSide
      <4>3. history' = Append(history, [by |-> graph[r].cur, side |-> IsSide(graph[r])])
        BY <3>1 DEF AgentTurn, RecordTurn
      <4>4. Recorded' = Recorded + 1
        BY <1>1, <4>2, <4>3, RecordedIs DEF Recorded
      <4>5. ckpt'.at = "router"
        BY <1>1, <4>1, AfterTurnKeeps
      <4> QED
        BY <4>1, <4>4, <4>5 DEF Unrecorded
    <3>2. CASE Begin(r)
      <4>1. pc[r] = "start" /\ pc'[r] # "idle" /\ history' = history
        BY <1>1, <3>2 DEF Begin, LoadCheckpoint, GraphState
      <4>2. pc'[r] # "returned"
        <5>1. ckpt.at # "end"
          BY <4>1 DEF FlowInv
        <5> QED
          BY <1>1, <3>2, <5>1 DEF Begin, LoadCheckpoint, GraphState
      <4> QED
        BY <1>2, <4>1, <4>2 DEF Unrecorded
    <3>3. CASE Resume(r)
      <4>1. pc[r] = "resume" /\ pc'[r] = (IF ckpt.at = "end" THEN "returned" ELSE ckpt.at) /\ history' = history
        BY <1>1, <3>3 DEF Resume, LoadCheckpoint
      <4>2. ckpt.at # "end"
        BY <4>1 DEF FlowInv
      <4> QED
        BY <1>1, <1>2, <4>1, <4>2 DEF Unrecorded, GraphState
    <3>4. CASE Router(r)
      <4>1. /\ pc[r] = "router" /\ ckpt' = Route(graph[r]) /\ history' = history
            /\ pc'[r] = IF Route(graph[r]).at = "end" THEN "returned" ELSE "agent_turn"
        BY <1>1, <3>4 DEF Router
      <4> QED
        BY <1>2, <4>1 DEF Unrecorded
    <3>5. CASE Respond(r)
      <4>1. /\ pc[r] = "returned" /\ pc'[r] = "idle" /\ history' = history /\ ckpt' = ckpt
            /\ ckpt.action = "end" => status' = "ended"
        BY <1>1, <3>5 DEF Respond
      <4>2. ckpt.at = "end" => ckpt.action = "end"
        BY DEF FlowInv
      <4> QED
        BY <1>2, <4>1, <4>2 DEF Unrecorded
    <3>6. ~CreateLlmFails(r)
      BY DEF CreateLlmFails, FlowInv
    <3> QED
      BY <1>3, <3>1, <3>2, <3>3, <3>4, <3>5, <3>6 DEF RunTurn
  <2>7. \A q \in Runs \ {r} : ~Unrecorded(q)'
    BY <2>1 DEF Unrecorded
  <2>8. Unrecorded(r)' => job[r].label = Recorded' + 1
    BY <2>6 DEF LabelInv
  <2>9. Live' => Live
    BY <1>3 DEF Live, RunTurn, Begin, Resume, Router, AgentTurn, CreateLlmFails, Respond
  <2>10. /\ (Waiting(r) <=> Unrecorded(r)) /\ (Waiting(r)' <=> Unrecorded(r)')
         /\ \A q \in Runs \ {r} : ~Waiting(q) /\ ~Waiting(q)'
    <3>1. \A q \in Runs : Waiting(q) => Holds(q)
      BY DEF Waiting, Holds, TurnKinds
    <3>2. \A q \in Runs : Waiting(q)' => Holds(q)'
      BY DEF Waiting, Holds, TurnKinds
    <3>3. \A q \in Runs : Holds(q)' <=> Holds(q)
      BY <2>3 DEF Holds
    <3>4. job[r].at = "sent" /\ job[r].kind \in {"next_turn", "inject"}
      BY <2>2 DEF Sent
    <3>5. (Waiting(r) <=> Unrecorded(r)) /\ (Waiting(r)' <=> Unrecorded(r)')
      BY <2>3, <3>4 DEF Waiting
    <3> QED
      BY <2>2, <3>1, <3>2, <3>3, <3>5
  <2>11. ASSUME Live'
         PROVE  /\ ~Waiting(r)' => agentTurnCount' = Recorded'
                /\ Waiting(r)' => agentTurnCount' = Recorded' + 1 /\ job'[r].label = Recorded' + 1
    <3>1. status' # "ended" /\ Live
      BY <2>9, <2>11 DEF Live
    <3>2. IF Unrecorded(r) THEN agentTurnCount = Recorded + 1 /\ job[r].label = Recorded + 1
                           ELSE agentTurnCount = Recorded
      BY <2>10, <3>1 DEF LabelInv
    <3> QED
      BY <1>2, <1>3, <2>3, <2>6, <2>10, <3>1, <3>2
  <2>12. /\ ~created' => NoTurnYet'
         /\ \A q \in Runs : /\ job'[q].kind = "new" /\ job'[q].at = "sent" => NoTurnYet'
                            /\ job'[q].kind = "inject" => job'[q].body
    BY <1>3, <2>3 DEF LabelInv, NoTurnYet
  <2>13. \A q \in Runs : Unrecorded(q)' => job'[q].label = Recorded' + 1
    BY <2>3, <2>7, <2>8
  <2> QED
    BY <2>5, <2>10, <2>11, <2>12, <2>13 DEF LabelInv
<1>4. ASSUME NEW r \in Runs, job[r].at = "queued", SendTurnRequest(r),
             UNCHANGED <<debateOpen, agentTurnCount, created>>
      PROVE  LabelInv'
  <2> DEFINE j == [job[r] EXCEPT !.at = "sent", !.main = currentAgent]
  <2>1. job' = [job EXCEPT ![r] = j] /\ job[r].kind \in {"next_turn", "inject"} /\ debateOpen
    BY <1>1, <1>4 DEF SendTurnRequest, TurnKinds, PageInv
  <2>2. j.kind = job[r].kind /\ j.at = "sent" /\ j.label = job[r].label /\ j.body = job[r].body
    BY <1>1 DEF Job
  <2> HIDE DEF j
  <2>3. /\ pc[r] = "idle" /\ UNCHANGED <<ckpt, status>>
        /\ history' = history \/ history' = Append(history, Remark)
        /\ \A q \in Runs \ {r} : pc'[q] = pc[q] /\ reply'[q] = reply[q]
        /\ ~reply'[r].ended
        /\ \/ pc'[r] = "start" /\ status = "active"
           \/ pc'[r] = "idle" /\ status # "active"
    <3>1. job[r].kind = "inject" => job[r].body
      BY DEF LabelInv
    <3> QED
      BY <1>1, <1>4, <2>1, <3>1 DEF SendTurnRequest, NextTurn, Inject, Spawn, RejectWith, NoReply, ErrorReply
  <2>4. Recorded' = Recorded
    BY <1>2, <2>3
  <2>5. \A q \in Runs \ {r} : ~Holds(q) /\ pc[q] = "idle" /\ job'[q] = job[q]
    <3>1. Holds(r)
      BY <2>1 DEF Holds, TurnKinds
    <3>2. \A q \in Runs \ {r} : ~Holds(q)
      BY <3>1 DEF PageInv
    <3> QED
      BY <1>1, <2>1, <3>2, SentAfter, SentAlone
  <2>6. \A q \in Runs \ {r} : ~Waiting(q) /\ ~Waiting(q)' /\ ~Unrecorded(q)'
    <3>1. \A q \in Runs : Waiting(q) => Holds(q)
      BY DEF Waiting, Holds, TurnKinds
    <3> QED
      BY <2>3, <2>5, <3>1 DEF Waiting, Unrecorded
  <2>7. job'[r] = j
    BY <1>1, <2>1
  <2>8. Waiting(r)
    BY <1>4, <2>1 DEF Waiting
  <2>9. status = "active" => Waiting(r)' /\ agentTurnCount' = Recorded' + 1 /\ job'[r].label = Recorded' + 1
    <3>1. ASSUME status = "active" PROVE Waiting(r)' /\ agentTurnCount' = Recorded' + 1 /\ job'[r].label = Recorded' + 1
      <4>1. Live
        BY <2>1, <3>1 DEF Live
      <4>2. agentTurnCount = Recorded + 1 /\ job[r].label = Recorded + 1
        BY <2>8, <4>1 DEF LabelInv
      <4>3. pc'[r] = "start"
        BY <2>3, <3>1
      <4>4. Waiting(r)'
        BY <2>1, <2>2, <2>7, <4>3 DEF Waiting, Unrecorded
      <4> QED
        BY <1>4, <2>2, <2>4, <2>7, <4>2, <4>4
    <3> QED
      BY <3>1
  <2>10. Unrecorded(r)' => status = "active"
    BY <2>3 DEF Unrecorded
  <2>11. Live' => status = "active"
    BY <2>3 DEF Live
  <2>12. \A q \in Runs : Unrecorded(q)' => job'[q].label = Recorded' + 1
    BY <2>6, <2>9, <2>10
  <2>13. created
    BY <2>1 DEF LabelInv, NoTurnYet
  <2>14. \A q \in Runs : /\ job'[q].kind = "new" /\ job'[q].at = "sent" => NoTurnYet'
                         /\ job'[q].kind = "inject" => job'[q].body
                         /\ reply'[q].ended => status' = "ended"
    <3>1. \A q \in Runs : ~(job[q].kind = "new" /\ job[q].at = "sent")
      BY <2>1 DEF LabelInv, NoTurnYet
    <3> QED
      BY <2>1, <2>2, <2>3, <2>5, <2>7, <3>1 DEF LabelInv
  <2> QED
    BY <1>4, <2>6, <2>9, <2>11, <2>12, <2>13, <2>14 DEF LabelInv
<1>5. ASSUME NEW r \in Runs, FinishNextTurn(r) \/ FinishInject(r), UNCHANGED created PROVE LabelInv'
  <2>1. /\ job' = [job EXCEPT ![r] = NoJob] /\ Sent(r) /\ pc[r] = "idle"
        /\ UNCHANGED <<status, debateOpen, pc, reply, history, ckpt>>
        /\ agentTurnCount' = agentTurnCount \/ reply[r].ended
    BY <1>5 DEF FinishNextTurn, FinishInject, MarkEnded, Answered, Sent, vars
  <2>2. NoJob.kind = "none" /\ ~Waiting(r)
    BY <2>1 DEF NoJob, Waiting, Unrecorded, Sent
  <2>3. job'[r] = NoJob /\ \A q \in Runs \ {r} : job'[q] = job[q]
    BY <1>1, <2>1, SentAfter
  <2>4. Recorded' = Recorded /\ Live' = Live /\ \A q \in Runs : Unrecorded(q)' = Unrecorded(q)
    BY <2>1 DEF Recorded, Live, Unrecorded
  <2>5. ~Waiting(r)' /\ \A q \in Runs : Waiting(q)' <=> Waiting(q)
    BY <2>2, <2>3, <2>4 DEF Waiting
  <2>6. Live => agentTurnCount' = agentTurnCount
    BY <2>1 DEF LabelInv, Live
  <2>7. created
    BY <2>1 DEF LabelInv, NoTurnYet, Sent
  <2>8. \A q \in Runs : Unrecorded(q)' => job'[q].label = Recorded' + 1
    BY <2>1, <2>3, <2>4 DEF LabelInv, Unrecorded
  <2>9. \A q \in Runs : /\ job'[q].kind = "new" /\ job'[q].at = "sent" => NoTurnYet'
                        /\ job'[q].kind = "inject" => job'[q].body
                        /\ reply'[q].ended => status' = "ended"
    <3>1. ~NoTurnYet
      BY <2>1 DEF NoTurnYet, Sent
    <3> QED
      BY <2>1, <2>2, <2>3, <3>1 DEF LabelInv
  <2>10. ASSUME Live'
         PROVE  /\ (\A q \in Runs : ~Waiting(q)') => agentTurnCount' = Recorded'
                /\ \A q \in Runs : Waiting(q)' => agentTurnCount' = Recorded' + 1 /\ job'[q].label = Recorded' + 1
    BY <2>3, <2>4, <2>5, <2>6, <2>10 DEF LabelInv
  <2> QED
    BY <1>5, <2>7, <2>8, <2>9, <2>10 DEF LabelInv
<1>6. ASSUME NEW r \in Runs, FinishNew(r) PROVE LabelInv'
  <2> DEFINE j == [job[r] EXCEPT !.at = "opening"]
  <2>1. /\ job' = [job EXCEPT ![r] = j] /\ job[r].kind = "new" /\ job[r].at = "sent"
        /\ UNCHANGED <<status, pc, reply, history, ckpt, created>> /\ agentTurnCount' = 0
    BY <1>1, <1>6 DEF FinishNew, vars
  <2>2. j.kind = "new" /\ j.at = "opening"
    BY <1>1, <2>1 DEF Job
  <2> HIDE DEF j
  <2>3. created /\ Fresh /\ NoTurnYet /\ \A q \in Runs : job[q].kind = "new" => q = r
    BY <2>1 DEF NewInv, LabelInv
  <2>4. Recorded' = 0
    <3>1. AgentTurns(history) = {}
      BY <2>3 DEF Fresh, SerialInv, EngineInv, GraphOK
    <3> QED
      BY <2>1, <3>1, FS_EmptySet DEF Recorded
  <2>5. job'[r] = j /\ \A q \in Runs \ {r} : job'[q] = job[q]
    BY <1>1, <2>1, SentAfter
  <2>6. \A q \in Runs : /\ ~Waiting(q)' /\ ~Unrecorded(q)' /\ job'[q].kind # "inject"
                        /\ ~(job'[q].kind = "new" /\ job'[q].at = "sent")
    <3>1. \A q \in Runs : pc[q] = "idle"
      BY <2>3, SentAlone DEF Fresh
    <3> QED
      BY <2>1, <2>2, <2>3, <2>5, <3>1 DEF Waiting, Unrecorded, NoTurnYet
  <2>7. \A q \in Runs : reply'[q].ended => status' = "ended"
    BY <2>1 DEF LabelInv
  <2> QED
    BY <2>1, <2>3, <2>4, <2>6, <2>7 DEF LabelInv
<1>7. ASSUME NEW r \in Runs, Asks(r) PROVE LabelInv'
  <2>1. PICK j \in Job : /\ AskForTurn(r, j)
                         /\ j.kind \in {"next_turn", "inject"} /\ j.at = "queued"
                         /\ j.kind = "inject" => j.body
    BY <1>7 DEF Asks
  <2> DEFINE i == [j EXCEPT !.label = agentTurnCount + 1]
  <2>2. i.kind = j.kind /\ i.at = j.at /\ i.body = j.body /\ i.label = agentTurnCount + 1
    BY <1>1 DEF Job
  <2>3. /\ job' = [job EXCEPT ![r] = i] /\ agentTurnCount' = agentTurnCount + 1 /\ pc[r] = "idle"
        /\ UNCHANGED <<status, pc, reply, history, ckpt, created, debateOpen>> /\ debateOpen
    BY <1>7, <2>1 DEF Asks, AskForTurn, Schedule, vars
  <2> HIDE DEF i
  <2>4. \A q \in Runs : ~Holds(q)
    BY <1>1, <1>7 DEF Asks, PageInv
  <2>5. job'[r] = i /\ \A q \in Runs \ {r} : job'[q] = job[q]
    BY <1>1, <2>3, SentAfter
  <2>6. \A q \in Runs : ~Waiting(q) /\ pc[q] = "idle"
    BY <2>4, SentAlone DEF Waiting, Holds, TurnKinds
  <2>7. \A q \in Runs : ~Unrecorded(q)' /\ (q # r => ~Waiting(q)')
    BY <2>3, <2>5, <2>6 DEF Waiting, Unrecorded
  <2>8. Waiting(r)'
    BY <2>1, <2>2, <2>5 DEF Waiting
  <2>9. Recorded' = Recorded /\ Live' = Live
    BY <2>3 DEF Recorded, Live
  <2>10. created /\ \A q \in Runs : ~(job[q].kind = "new" /\ job[q].at = "sent")
    BY <2>3 DEF LabelInv, NoTurnYet
  <2>11. \A q \in Runs : /\ ~(job'[q].kind = "new" /\ job'[q].at = "sent")
                         /\ job'[q].kind = "inject" => job'[q].body
                         /\ reply'[q].ended => status' = "ended"
    BY <2>1, <2>2, <2>3, <2>5, <2>10 DEF LabelInv
  <2>12. ASSUME Live' PROVE agentTurnCount' = Recorded' + 1 /\ job'[r].label = Recorded' + 1
    <3>1. agentTurnCount = Recorded
      BY <2>6, <2>9, <2>12 DEF LabelInv
    <3> QED
      BY <2>2, <2>3, <2>5, <2>9, <3>1
  <2> QED
    BY <2>3, <2>7, <2>8, <2>10, <2>11, <2>12 DEF LabelInv
<1>8. ASSUME NEW r \in Runs, NEW j, Still(r, j) PROVE LabelInv'
  <2>1. /\ job' = [job EXCEPT ![r] = j] /\ ~Sent(r) /\ UNCHANGED <<ckpt, pc, reply>>
        /\ status' = status \/ status' = "ended"
        /\ created => created'
        /\ j.kind \in {"next_turn", "inject"} => j.kind = job[r].kind /\ j.body = job[r].body /\ j.at = "failed"
        /\ j.kind = "new" /\ j.at = "sent" => ~created
    BY <1>8 DEF Still
  <2>2. Recorded' = Recorded
    BY <1>2, <1>8 DEF Still
  <2>3. job'[r] = j /\ \A q \in Runs \ {r} : job'[q] = job[q]
    BY <1>1, <2>1, SentAfter
  <2>4. pc[r] = "idle"
    BY <2>1, SentAlone
  <2>5. debateOpen' = TRUE => debateOpen = TRUE /\ agentTurnCount' = agentTurnCount /\ ~Waiting(r)
    BY <1>8 DEF Still
  <2>6. debateOpen' \in BOOLEAN /\ debateOpen \in BOOLEAN
    <3>1. ChatTypeOK'
      BY EngineSteps, EngineStepKeepsInv, PageTypes DEF SerialInv, EngineInv
    <3> QED
      BY <3>1 DEF ChatTypeOK
  <2>7. NoTurnYet => NoTurnYet'
    BY <2>1, <2>3, <2>5, <2>6 DEF NoTurnYet
  <2>8. \A q \in Runs : Unrecorded(q)' <=> Unrecorded(q)
    BY <2>1 DEF Unrecorded
  <2>9. ~Waiting(r)' /\ \A q \in Runs \ {r} : Waiting(q)' <=> Waiting(q)
    BY <2>1, <2>3, <2>4, <2>8 DEF Waiting, Unrecorded
  <2>10. \A q \in Runs : Unrecorded(q)' => job'[q].label = Recorded' + 1
    BY <2>2, <2>3, <2>4, <2>8 DEF LabelInv, Unrecorded
  <2>11. \A q \in Runs : /\ job'[q].kind = "new" /\ job'[q].at = "sent" => NoTurnYet'
                         /\ job'[q].kind = "inject" => job'[q].body
                         /\ reply'[q].ended => status' = "ended"
    BY <2>1, <2>3, <2>7 DEF LabelInv
  <2>12. ASSUME Live'
         PROVE  /\ (\A q \in Runs : ~Waiting(q)') => agentTurnCount' = Recorded'
                /\ \A q \in Runs : Waiting(q)' => agentTurnCount' = Recorded' + 1 /\ job'[q].label = Recorded' + 1
    <3>1. Live /\ agentTurnCount' = agentTurnCount /\ ~Waiting(r)
      BY <2>1, <2>5, <2>6, <2>12 DEF Live
    <3> QED
      BY <2>2, <2>3, <2>9, <3>1 DEF LabelInv
  <2>13. ~created' => NoTurnYet'
    BY <2>1, <2>7 DEF LabelInv
  <2> QED
    BY <2>10, <2>11, <2>12, <2>13 DEF LabelInv
<1>9. ASSUME UNCHANGED <<job, ckpt, pc, reply, status, history, debateOpen, agentTurnCount, created>>
      PROVE  LabelInv'
  BY <1>9 DEF LabelInv, NoTurnYet, Live, Waiting, Unrecorded, Recorded
<1> QED
  BY <1>3, <1>4, <1>5, <1>6, <1>7, <1>8, <1>9, LabelMoves

\* When the user has turns, agents by name and the end of debates for input and nothing
\* fails or is lost, the number on the bubble of a turn is the number of the turn that the
\* backend records for it, whatever else has happened to the debate (LabelMatchesTurn;
\* _add_debate_turn_placeholder).
THEOREM BubblesAreNumberedRight == ASSUME NothingRefused PROVE ChatSpec => LabelMatchesTurn
<1>1. NothingFails /\ StatusIsKept
  BY DEF NothingRefused, NothingFails
<1>2. ChatSpec => [](ChatTypeOK /\ PageInv /\ SerialInv /\ FlowInv /\ NewInv)
  BY <1>1, ChatTypes, PageInvariance, EngineIsServedSerially, SerialInvariance, FlowInvariance, PTL
<1>3. ChatInit => ClientInv /\ LabelInv
  <2> SUFFICES ASSUME ChatInit PROVE ClientInv /\ LabelInv
    OBVIOUS
  <2>1. PICK r \in Runs : job = [q \in Runs |-> IF q = r THEN Queued("connect") ELSE NoJob]
    BY DEF ChatInit
  <2>2. \A q \in Runs : /\ job[q].kind \in {"connect", "none"}
                        /\ job[q].kind = "connect" => q = r
    BY <2>1 DEF Queued, NoJob
  <2>3. /\ \A q \in Runs : pc[q] = "idle" /\ reply[q].ended = FALSE
        /\ debateOpen = FALSE /\ created = FALSE /\ clientReady = FALSE
    BY DEF ChatInit, Init, NoReply
  <2>4. ClientInv
    BY <2>2, <2>3 DEF ClientInv
  <2> QED
    BY <2>2, <2>3, <2>4 DEF LabelInv, NoTurnYet, Unrecorded, Live
<1>4. ASSUME ChatTypeOK, PageInv, SerialInv, FlowInv, NewInv, ClientInv, LabelInv, [ChatNext]_chatVars
      PROVE  ClientInv' /\ LabelInv'
  BY <1>4, ClientStep, LabelStep
<1>5. ASSUME ChatTypeOK, PageInv, SerialInv, FlowInv, LabelInv, [ChatNext]_chatVars
      PROVE  \A r \in Runs : pc[r] = "agent_turn" /\ pc'[r] = "returned"
                             => job[r].label = Cardinality(AgentTurns(history'))
  <2> SUFFICES ASSUME NEW r \in Runs, pc[r] = "agent_turn", pc'[r] = "returned"
               PROVE  job[r].label = Cardinality(AgentTurns(history'))
    OBVIOUS
  <2>1. pc \in [Runs -> PC] /\ history \in Seq(Entry)
    BY <1>5 DEF ChatTypeOK, TypeOK
  <2>2. TypeOK /\ pc[r] # "idle" /\ pc'[r] # pc[r]
    BY <1>5 DEF ChatTypeOK
  <2>3. RunTurn(r)
    <3>1. ASSUME NEW q \in Runs, RunTurn(q) PROVE q = r
      BY <2>2, <3>1, OthersStay DEF SerialInv, OneAtATime
    <3>2. ASSUME NEW q \in Runs, Submit(q) PROVE FALSE
      <4>1. pc[q] = "idle"
        BY <3>2 DEF Submit, NextTurn, Inject
      <4> QED
        BY <2>2, <3>2, <4>1, OthersStay
    <3>3. Others \/ UNCHANGED vars => UNCHANGED pc
      BY DEF Others, Announce, Stop, Repair, vars
    <3> QED
      BY <1>5, <2>2, <3>1, <3>2, <3>3, EngineParts
  <2>4. AgentTurn(r)
    BY <2>1, <2>3 DEF RunTurn, Begin, Resume, Router, CreateLlmFails, Respond
  <2>5. graph[r].cur \in Agent /\ IsSide(graph[r]) \in BOOLEAN
    BY <1>5 DEF SerialInv, EngineInv, GraphOK, IsSide
  <2>6. history' = Append(history, [by |-> graph[r].cur, side |-> IsSide(graph[r])])
    BY <2>4 DEF AgentTurn, RecordTurn
  <2>7. job[r].label = Recorded + 1
    BY <1>5 DEF LabelInv, Unrecorded
  <2> QED
    BY <2>1, <2>5, <2>6, <2>7, RecordedIs DEF Recorded
<1>6. ChatTypeOK /\ PageInv /\ SerialInv /\ FlowInv /\ LabelInv /\ [ChatNext]_chatVars =>
        [\A r \in Runs : pc[r] = "agent_turn" /\ pc'[r] = "returned"
                         => job[r].label = Cardinality(AgentTurns(history'))]_chatVars
  BY <1>5
<1> QED
  BY <1>2, <1>3, <1>4, <1>6, PTL DEF ChatSpec, LabelMatchesTurn
=============================================================================
