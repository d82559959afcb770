------------------------------ MODULE ChatView ------------------------------
(***************************************************************************)
(* The chat page of the debate front end on top of the debate engine       *)
(* (services/debate_bff/src/debate_bff/views/chat/chat_view.py).           *)
(*                                                                         *)
(* An event of the browser (handle_event) runs to its end without a pause  *)
(* and leaves the slow part to a job (schedule_info_once); jobs are tasks  *)
(* of their own, so several may wait for the backend at the same time.     *)
(* Job r sends its request to the backend as request r of DebateEngine.    *)
(* The page connects, makes one debate with /new, and is its only client.  *)
(***************************************************************************)
EXTENDS DebateEngine, Integers

CONSTANTS
  UserInputs,     \* the kinds of input the user gives, see below
  ContinueRounds, \* the N of "/continue N"
  FaultyAgents,   \* agents whose model is unavailable at first
  LossyRuns,      \* requests whose connection to the backend may be lost
  MaxInputs       \* bound on the turns asked for and the history length

\* A turn asked for with the button; a message with a known @Agent prefix, the
\* same with nothing after it, with an @ prefix no agent has, without prefix;
\* the commands "/continue N" and "/end" or its button; and the Reconnect button.
Inputs ==
  {"next", "mention", "bare", "unknown", "plain", "continue", "end", "connect"}

ASSUME ChatAssumption ==
  /\ UserInputs \subseteq Inputs
  /\ ContinueRounds \subseteq 1 .. 20
  /\ FaultyAgents \subseteq Agent
  /\ LossyRuns \subseteq Runs
  /\ MaxInputs \in Nat

VARIABLES
  uiStatus,       \* ChatContext.status
  debateOpen,     \* ChatContext.debate_id is set
  currentAgent,   \* ChatContext.current_agent; None for ""
  agentTurnCount, \* ChatContext.agent_turn_count
  inSide,         \* ChatContext.in_side_conversation
  debateEnded,    \* ChatContext.debate_ended
  job,            \* the scheduled job of each request slot
  isConnected,    \* ChatContext.is_connected
  clientReady,    \* _rpc_client is there and has finished its handshake
  connecting,     \* the job whose client _rpc_client is, while it shakes hands
  created         \* the backend has made the debate

uiVars == <<uiStatus, debateOpen, currentAgent, agentTurnCount, inSide, debateEnded>>
clientVars == <<isConnected, clientReady, connecting>>
chatVars == <<vars, uiVars, job, clientVars, created>>

\* at: scheduled; request sent, answer awaited; the opening of a new debate about
\* to be announced; stream_error scheduled.
\* label: number on the placeholder bubble.  main: main_flow_agent of
\* _do_debate_inject.  left: remaining turns of a /continue.
Job ==
  [ kind : {"none", "next_turn", "inject", "continue", "announce", "end",
            "ask_continue", "new", "connect", "simulate"},
    at : {"none", "queued", "sent", "opening", "failed"}, label : Int, left : Nat,
    target : AgentOrNone, body : BOOLEAN, main : AgentOrNone ]

NoJob ==
  [ kind |-> "none", at |-> "none", label |-> 0, left |-> 0, target |-> None,
    body |-> FALSE, main |-> None ]

Queued(kind) == [NoJob EXCEPT !.kind = kind, !.at = "queued"]

TurnKinds == {"next_turn", "inject", "continue"}

ChatTypeOK ==
  /\ TypeOK
  /\ uiStatus \in {"idle", "streaming"}
  /\ debateOpen \in BOOLEAN
  /\ currentAgent \in AgentOrNone
  /\ agentTurnCount \in Int
  /\ inSide \in BOOLEAN
  /\ debateEnded \in BOOLEAN
  /\ job \in [Runs -> Job]
  /\ isConnected \in BOOLEAN
  /\ clientReady \in BOOLEAN
  /\ connecting \in Runs \cup {None}
  /\ created \in BOOLEAN

\* mount: an empty page, its connection to the backend scheduled.
ChatInit ==
  /\ Init
  /\ broken = FaultyAgents
  /\ uiStatus = "idle"
  /\ debateOpen = FALSE
  /\ currentAgent = None
  /\ agentTurnCount = 0
  /\ inSide = FALSE
  /\ debateEnded = FALSE
  /\ \E r \in Runs : job = [q \in Runs |-> IF q = r THEN Queued("connect") ELSE NoJob]
  /\ isConnected = FALSE
  /\ clientReady = FALSE
  /\ connecting = None
  /\ created = FALSE

-----------------------------------------------------------------------------
(* handle_event *)

\* schedule_info_once into a free slot.
Schedule(r, j) ==
  /\ job[r] = NoJob
  /\ pc[r] = "idle"
  /\ job' = [job EXCEPT ![r] = j]

\* The opening is not counted.
InBounds == agentTurnCount < MaxInputs /\ Len(history) <= MaxInputs

\* Operators named ...Bug are slips that would be easy to make in the operator
\* they precede; no specification uses them (README, "Mutants").

\* The label is made before the count is advanced.
AskForTurnBug(r, j) ==
  /\ uiStatus' = "streaming"
  /\ agentTurnCount' = agentTurnCount + 1
  /\ Schedule(r, [j EXCEPT !.label = agentTurnCount])

\* _add_debate_turn_placeholder and the job that will fill the bubble.
AskForTurn(r, j) ==
  /\ uiStatus' = "streaming"
  /\ agentTurnCount' = agentTurnCount + 1
  /\ Schedule(r, [j EXCEPT !.label = agentTurnCount + 1])

\* "send_message" with an @ prefix; target and body as in Inject.
SendAt(r, target, body) ==
  /\ InBounds
  /\ uiStatus # "streaming"
  /\ isConnected /\ debateOpen
  /\ AskForTurn(r, [Queued("inject") EXCEPT !.target = target, !.body = body])
  /\ UNCHANGED <<vars, debateOpen, currentAgent, inSide, debateEnded>>

\* "send_message" without prefix: recorded only.
SendPlain(r) ==
  /\ InBounds
  /\ uiStatus # "streaming"
  /\ isConnected /\ debateOpen
  /\ Schedule(r, Queued("announce"))
  /\ UNCHANGED <<vars, uiVars>>

\* "send_message" on a page that is not connected: the answer is simulated.
SendOffline(r) ==
  /\ uiStatus # "streaming"
  /\ ~isConnected
  /\ uiStatus' = "streaming"
  /\ Schedule(r, Queued("simulate"))
  /\ UNCHANGED <<vars, debateOpen, currentAgent, agentTurnCount, inSide, debateEnded>>

\* "/new", the first time: a page has one debate (a bound).
SendNew(r) ==
  /\ uiStatus # "streaming"
  /\ isConnected
  /\ ~created /\ \A q \in Runs : job[q].kind # "new"
  /\ Schedule(r, Queued("new"))
  /\ UNCHANGED <<vars, uiVars>>

\* "/continue N"
SendContinue(r, n) ==
  /\ InBounds
  /\ uiStatus # "streaming"
  /\ isConnected /\ debateOpen
  /\ Schedule(r, [Queued("ask_continue") EXCEPT !.left = 2 * n])
  /\ UNCHANGED <<vars, uiVars>>

\* The button works during a turn as well.
ClickNextTurnBug(r) ==
  /\ InBounds
  /\ debateOpen
  /\ ~debateEnded
  /\ inSide' = FALSE
  /\ AskForTurn(r, Queued("next_turn"))
  /\ UNCHANGED <<vars, debateOpen, currentAgent, debateEnded>>

\* "next_turn" and "resume_debate"
ClickNextTurn(r) ==
  /\ InBounds
  /\ uiStatus # "streaming"
  /\ debateOpen
  /\ ~debateEnded
  /\ inSide' = FALSE
  /\ AskForTurn(r, Queued("next_turn"))
  /\ UNCHANGED <<vars, debateOpen, currentAgent, debateEnded>>

\* "end_debate", which may be clicked during a turn, and "/end", which may not
\* be sent then.
ClickEnd(r) ==
  /\ isConnected /\ debateOpen
  /\ Schedule(r, Queued("end"))
  /\ UNCHANGED <<vars, uiVars>>

\* "connect": the page shows the button while it is not connected.
ClickConnect(r) ==
  /\ ~isConnected
  /\ Schedule(r, Queued("connect"))
  /\ UNCHANGED <<vars, uiVars>>

UserEvent(r) ==
  \/ "next" \in UserInputs /\ ClickNextTurn(r)
  \/ "mention" \in UserInputs /\ \E a \in Agent : SendAt(r, a, TRUE)
  \/ "bare" \in UserInputs /\ \E a \in Agent : SendAt(r, a, FALSE)
  \/ "unknown" \in UserInputs /\ SendAt(r, None, TRUE)
  \/ "plain" \in UserInputs /\ SendPlain(r)
  \/ "connect" \in UserInputs /\ (SendOffline(r) \/ ClickConnect(r))
  \/ SendNew(r)
  \/ "continue" \in UserInputs /\ \E n \in ContinueRounds : SendContinue(r, n)
  \/ "end" \in UserInputs /\ ClickEnd(r)

-----------------------------------------------------------------------------
(* handle_info: the jobs *)

\* The job reads debate_id and, for an inject, current_agent, and sends its
\* request, which the backend's handler takes.
SendTurnRequest(r) ==
  /\ job[r].kind \in TurnKinds
  /\ clientReady /\ debateOpen
  /\ IF job[r].kind = "inject" THEN Inject(r, job[r].target, job[r].body)
                               ELSE NextTurn(r)
  /\ job' = [job EXCEPT ![r].at = "sent", ![r].main = currentAgent]

\* The refusal is dropped.
SendWithoutDebateBug(r) ==
  /\ job[r].kind \in TurnKinds
  /\ ~(clientReady /\ debateOpen)
  /\ job' = [job EXCEPT ![r] = NoJob]
  /\ UNCHANGED vars

\* Without a client, or without a debate id, which the backend refuses:
\* stream_error is scheduled.
SendWithoutDebate(r) ==
  /\ job[r].kind \in TurnKinds
  /\ ~(clientReady /\ debateOpen)
  /\ job' = [job EXCEPT ![r].at = "failed"]
  /\ UNCHANGED vars

\* debate.announce; without a client nothing is sent and the job is over.
SendAnnounce(r) ==
  /\ job[r].kind = "announce"
  /\ IF clientReady /\ debateOpen THEN Announce ELSE UNCHANGED vars
  /\ job' = [job EXCEPT ![r] = IF clientReady THEN [@ EXCEPT !.at = "sent"]
                                              ELSE NoJob]

\* debate.command "/end": Debate.stop and the save, or an error.
SendEnd(r) ==
  /\ job[r].kind = "end"
  /\ IF clientReady /\ debateOpen
     THEN Stop /\ job' = [job EXCEPT ![r].at = "sent"]
     ELSE job' = [job EXCEPT ![r] = NoJob] /\ UNCHANGED vars

\* debate.command "/continue": checked, nothing is done yet.
SendAskContinue(r) ==
  /\ job[r].kind = "ask_continue"
  /\ job' = [job EXCEPT ![r] = IF clientReady /\ debateOpen /\ status = "active"
                               THEN [@ EXCEPT !.at = "sent"] ELSE NoJob]
  /\ UNCHANGED vars

StartJob(r) ==
  /\ job[r].at = "queued"
  /\ \/ SendTurnRequest(r)
     \/ SendWithoutDebate(r)
     \/ SendAnnounce(r)
     \/ SendEnd(r)
     \/ SendAskContinue(r)
  /\ UNCHANGED uiVars

\* The answer to a turn request has come: the end of _do_debate_streaming.
Answered(r) ==
  /\ job[r].at = "sent"
  /\ job[r].kind \in TurnKinds
  /\ pc[r] = "idle"

\* next_agent of the result; an {"error": ...} result has none.
NextAgentOf(r) == IF reply[r].kind = "turn" THEN reply[r].next ELSE None

\* _handle_debate_ended: the bubble is removed and its number given back.
MarkEnded(r) ==
  /\ agentTurnCount' = agentTurnCount - 1
  /\ debateEnded' = TRUE
  /\ job' = [job EXCEPT ![r] = NoJob]
  /\ uiStatus' = "idle"

\* _do_debate_next_turn
FinishNextTurn(r) ==
  /\ Answered(r)
  /\ job[r].kind = "next_turn"
  /\ currentAgent' = NextAgentOf(r)
  /\ IF reply[r].ended
     THEN MarkEnded(r)
     ELSE /\ uiStatus' = "idle"
          /\ job' = [job EXCEPT ![r] = NoJob]
          /\ UNCHANGED <<agentTurnCount, debateEnded>>
  /\ UNCHANGED <<vars, debateOpen, inSide>>

\* The main flow speaker is not put back.
FinishInjectBug(r) ==
  /\ Answered(r)
  /\ job[r].kind = "inject"
  /\ uiStatus' = "idle"
  /\ inSide' = TRUE
  /\ currentAgent' = NextAgentOf(r)
  /\ job' = [job EXCEPT ![r] = NoJob]
  /\ UNCHANGED <<vars, debateOpen, agentTurnCount, debateEnded>>

\* _do_debate_inject: any result counts, an error as well.
FinishInject(r) ==
  /\ Answered(r)
  /\ job[r].kind = "inject"
  /\ uiStatus' = "idle"
  /\ inSide' = TRUE
  /\ currentAgent' = job[r].main
  /\ job' = [job EXCEPT ![r] = NoJob]
  /\ UNCHANGED <<vars, debateOpen, agentTurnCount, debateEnded>>

\* _do_debate_continue: the next turn of the sequence, also after an error.
FinishContinue(r) ==
  /\ Answered(r)
  /\ job[r].kind = "continue"
  /\ currentAgent' = NextAgentOf(r)
  /\ \/ /\ reply[r].ended
        /\ MarkEnded(r)
     \/ /\ ~reply[r].ended
        /\ job[r].left > 1 /\ debateOpen
        /\ uiStatus' = "streaming"
        /\ agentTurnCount' = agentTurnCount + 1
        /\ job' = [job EXCEPT ![r] = [Queued("continue") EXCEPT
                      !.label = agentTurnCount + 1, !.left = job[r].left - 1]]
        /\ UNCHANGED debateEnded
     \/ /\ ~reply[r].ended
        /\ ~(job[r].left > 1 /\ debateOpen)
        /\ uiStatus' = "idle"
        /\ job' = [job EXCEPT ![r] = NoJob]
        /\ UNCHANGED <<agentTurnCount, debateEnded>>
  /\ UNCHANGED <<vars, debateOpen, inSide>>

\* _do_debate_announce
FinishAnnounce(r) ==
  /\ job[r].at = "sent"
  /\ job[r].kind = "announce"
  /\ uiStatus' = "idle"
  /\ job' = [job EXCEPT ![r] = NoJob]
  /\ UNCHANGED <<vars, debateOpen, currentAgent, agentTurnCount, inSide, debateEnded>>

\* _do_debate_command, "end"
FinishEnd(r) ==
  /\ job[r].at = "sent"
  /\ job[r].kind = "end"
  /\ debateOpen' = FALSE
  /\ currentAgent' = None
  /\ agentTurnCount' = 0
  /\ inSide' = FALSE
  /\ debateEnded' = FALSE
  /\ job' = [job EXCEPT ![r] = NoJob]
  /\ UNCHANGED <<vars, uiStatus>>

\* _do_debate_command, "continue": the first turn of the sequence is asked for
\* whatever the page is doing by now.
FinishAskContinue(r) ==
  /\ job[r].at = "sent"
  /\ job[r].kind = "ask_continue"
  /\ uiStatus' = "streaming"
  /\ agentTurnCount' = agentTurnCount + 1
  /\ job' = [job EXCEPT ![r] = [Queued("continue") EXCEPT
                !.label = agentTurnCount + 1, !.left = job[r].left]]
  /\ UNCHANGED <<vars, debateOpen, currentAgent, inSide, debateEnded>>

\* The connection is lost before the answer; the backend goes on.
StreamBreaks(r) ==
  /\ r \in LossyRuns
  /\ job[r].at = "sent"
  /\ job[r].kind \in TurnKinds
  /\ job' = [job EXCEPT ![r].at = "failed"]
  /\ UNCHANGED <<vars, uiVars>>

\* The third status, which the page's declaration names and no handler sets.
StreamErrorStatusBug(r) ==
  /\ job[r].at = "failed"
  /\ uiStatus' = "error"
  /\ job' = [job EXCEPT ![r] = NoJob]
  /\ UNCHANGED <<vars, debateOpen, currentAgent, agentTurnCount, inSide, debateEnded>>

\* "stream_error"
StreamError(r) ==
  /\ job[r].at = "failed"
  /\ uiStatus' = "idle"
  /\ job' = [job EXCEPT ![r] = NoJob]
  /\ UNCHANGED <<vars, debateOpen, currentAgent, agentTurnCount, inSide, debateEnded>>

\* _do_simulate_stream
FinishSimulate(r) ==
  /\ job[r].at = "queued"
  /\ job[r].kind = "simulate"
  /\ uiStatus' = "idle"
  /\ job' = [job EXCEPT ![r] = NoJob]
  /\ UNCHANGED <<vars, debateOpen, currentAgent, agentTurnCount, inSide, debateEnded>>

FinishJob(r) ==
  \/ FinishNextTurn(r)
  \/ FinishInject(r)
  \/ FinishContinue(r)
  \/ FinishAnnounce(r)
  \/ FinishEnd(r)
  \/ FinishAskContinue(r)
  \/ FinishSimulate(r)
  \/ StreamError(r)

-----------------------------------------------------------------------------
(* /new *)

\* debate.command "/new": the backend makes the debate, or refuses; without a
\* client nothing is sent.
CreateDebate(r) ==
  /\ job[r].at = "queued"
  /\ job[r].kind = "new"
  /\ \/ /\ clientReady
        /\ created' = TRUE
        /\ job' = [job EXCEPT ![r].at = "sent"]
     \/ /\ job' = [job EXCEPT ![r] = NoJob]
        /\ UNCHANGED created
  /\ UNCHANGED <<vars, uiVars>>

\* _do_debate_command, "new", up to the request for the announcement.
FinishNew(r) ==
  /\ job[r].at = "sent"
  /\ job[r].kind = "new"
  /\ debateOpen' = TRUE
  /\ currentAgent' = 0
  /\ agentTurnCount' = 0
  /\ debateEnded' = FALSE
  /\ job' = [job EXCEPT ![r].at = "opening"]
  /\ UNCHANGED <<vars, uiStatus, inSide, created>>

\* The moderator's opening reaches the backend: anything the user asked for in
\* between may have been there before.
AnnounceOpening(r) ==
  /\ job[r].at = "opening"
  /\ IF clientReady THEN Announce ELSE UNCHANGED vars
  /\ job' = [job EXCEPT ![r] = NoJob]
  /\ UNCHANGED <<uiVars, created>>

NewDebate(r) == CreateDebate(r) \/ FinishNew(r) \/ AnnounceOpening(r)

-----------------------------------------------------------------------------
(* _do_connect *)

\* A new client takes the place of the old one before it has shaken hands;
\* is_connected stays what it was.
StartConnect(r) ==
  /\ job[r].at = "queued"
  /\ job[r].kind = "connect"
  /\ clientReady' = FALSE
  /\ connecting' = r
  /\ job' = [job EXCEPT ![r].at = "sent"]
  /\ UNCHANGED isConnected

\* The handshake is done, perhaps that of a client already replaced.
Connected(r) ==
  /\ job[r].at = "sent"
  /\ job[r].kind = "connect"
  /\ isConnected' = TRUE
  /\ clientReady' = (clientReady \/ connecting = r)
  /\ connecting' = IF connecting = r THEN None ELSE connecting
  /\ job' = [job EXCEPT ![r] = NoJob]

\* The handshake failed: whatever client the page has by now is dropped.
ConnectFails(r) ==
  /\ r \in LossyRuns
  /\ job[r].at = "sent"
  /\ job[r].kind = "connect"
  /\ isConnected' = FALSE
  /\ clientReady' = FALSE
  /\ connecting' = None
  /\ job' = [job EXCEPT ![r] = NoJob]

Handshake(r) ==
  /\ StartConnect(r) \/ Connected(r) \/ ConnectFails(r)
  /\ UNCHANGED <<vars, uiVars>>

-----------------------------------------------------------------------------
(* Specification *)

PageJob(r) ==
  \/ (StartJob(r) \/ FinishJob(r)) /\ UNCHANGED <<clientVars, created>>
  \/ NewDebate(r) /\ UNCHANGED clientVars
  \/ Handshake(r) /\ UNCHANGED created

Backend(r) == RunTurn(r) /\ UNCHANGED <<uiVars, job, clientVars, created>>

Environment ==
  /\ \/ \E r \in Runs : UserEvent(r) \/ StreamBreaks(r)
     \/ \E a \in Agent : Repair(a) /\ UNCHANGED <<uiVars, job>>
  /\ UNCHANGED <<clientVars, created>>

ChatNext ==
  \/ \E r \in Runs : PageJob(r) \/ Backend(r)
  \/ Environment

ChatSpec == ChatInit /\ [][ChatNext]_chatVars

\* The event loops run every job and every task that is ready, and the
\* backend's answers arrive unless the connection is lost.  The user is free.
ChatFairSpec ==
  /\ ChatSpec
  /\ \A r \in Runs : WF_chatVars(PageJob(r))
  /\ \A r \in Runs : WF_chatVars(Backend(r))

-----------------------------------------------------------------------------
(* Properties *)

\* The input comes back: no error, lost connection, end of the debate or
\* sequence of turns leaves the page blocked for good.
InputComesBack == uiStatus = "streaming" ~> uiStatus = "idle"

\* The status keeps a second turn from being asked for while one is under way.
OneTurnAtATime ==
  Cardinality({r \in Runs : pc[r] # "idle" \/ job[r].kind \in TurnKinds}) <= 1

\* A page at rest with a debate shows the agent whose main turn is next, also after a side
\* conversation ("Preserve current_agent so the Resume button shows the correct
\* main-flow speaker": _do_debate_inject).
ResumeShowsDue ==
  (\A r \in Runs : job[r] = NoJob /\ pc[r] = "idle") /\ status = "active" /\ debateOpen
  => currentAgent = Due

\* "The turn counter increments here - before the response arrives - so the
\* bubble label matches the turn that is about to be recorded"
\* (_add_debate_turn_placeholder).
LabelMatchesTurn ==
  [][\A r \in Runs :
       pc[r] = "agent_turn" /\ pc'[r] = "returned"
       => job[r].label = Cardinality(AgentTurns(history'))]_chatVars

=============================================================================
