---------------------------- MODULE DebateEngine ----------------------------
(***************************************************************************)
(* One debate of the debate backend: the Debate object, the LangGraph      *)
(* graph router -> agent_turn with its checkpoint, and the run_turn tasks  *)
(* that debate.next_turn and debate.inject spawn                           *)
(* (services/debate_backend/src/debate_backend/debate.py, engine/).        *)
(*                                                                         *)
(* The backend takes requests from any number of HTTP clients and spawns   *)
(* one asyncio task per accepted request without looking at those already  *)
(* running, so several run_turn calls may be suspended at the same time,   *)
(* each with its own in-memory copy of the graph state: Spec.  The chat    *)
(* front end means to have one turn under way at a time: SerialSpec.       *)
(*                                                                         *)
(* Agents are their indices in the declaration order and are taken to have *)
(* distinct names.  What is said is left out; who says it, and whether the *)
(* graph counts it as a side conversation, is kept.                        *)
(***************************************************************************)
EXTENDS Naturals, Sequences, FiniteSets, FiniteSetsExt

CONSTANTS
  NumAgents,    \* number of agents of the debate
  MaxRounds,    \* Debate.max_rounds; None when the debate is unlimited
  Runs,         \* slots for run_turn tasks (one per request under way)
  None,         \* Python's None
  Moderator,    \* role of the moderator's entries in the history
  MaxHistory    \* bound: no new request once the history is this long

ASSUME EngineAssumption ==
  /\ NumAgents \in Nat \ {0}
  /\ None \notin Nat
  /\ Moderator \notin Nat
  /\ None # Moderator
  /\ MaxRounds \in Nat \cup {None}
  /\ MaxHistory \in Nat

Agent == 0 .. NumAgents - 1
AgentOrNone == Agent \cup {None}

VARIABLES
  status,       \* Debate.status
  history,      \* Debate.history
  currentTurn,  \* Debate.current_turn
  ckpt,         \* the newest checkpoint of the debate's thread
  broken,       \* agents whose model cannot be built (create_llm raises)
  pc,           \* where each run_turn task is suspended
  want,         \* run_turn's targeted_speaker argument
  graph,        \* the graph state each ainvoke holds in memory
  reply         \* the last response put on each request's queue

debateVars == <<status, history, currentTurn>>
vars == <<status, history, currentTurn, ckpt, broken, pc, want, graph, reply>>

-----------------------------------------------------------------------------
(* Data *)

\* A history entry.  The code stores role, name and content; "side" is the
\* is_side_convo flag agent_turn_node computes, which is not stored.
Entry == [by : Agent \cup {Moderator}, side : BOOLEAN]
Remark == [by |-> Moderator, side |-> FALSE]

\* DebateState plus the node the graph would run next.
GraphState ==
  [ cur    : AgentOrNone,           \* current_speaker
    target : AgentOrNone,           \* targeted_speaker
    main   : AgentOrNone,           \* main_flow_speaker
    rounds : Nat,                   \* round_count
    action : {"speak", "end"},      \* next_action
    at     : {"empty", "router", "agent_turn", "end"} ]

\* A thread nothing was written to: get_state(...).values is empty.
NoCheckpoint ==
  [ cur |-> None, target |-> None, main |-> None, rounds |-> 0,
    action |-> "speak", at |-> "empty" ]

Reply ==
  [ kind : {"none", "error", "turn"}, agent : AgentOrNone \cup {Moderator},
    next : AgentOrNone, ended : BOOLEAN ]
NoReply == [kind |-> "none", agent |-> None, next |-> None, ended |-> FALSE]
ErrorReply == [NoReply EXCEPT !.kind = "error"]

PC == {"idle", "start", "resume", "router", "agent_turn", "returned"}

TypeOK ==
  /\ status \in {"active", "ended"}
  /\ history \in Seq(Entry)
  /\ currentTurn \in Agent
  /\ ckpt \in GraphState
  /\ broken \in SUBSET Agent
  /\ pc \in [Runs -> PC]
  /\ want \in [Runs -> AgentOrNone]
  /\ graph \in [Runs -> GraphState]
  /\ reply \in [Runs -> Reply]

-----------------------------------------------------------------------------
(* Operators of the code *)

\* Operators named ...Bug are slips that would be easy to make in the operator
\* they precede; no specification uses them (README, "Mutants").

SuccBug(a) == a + 1

\* (i + 1) % len(agents)
Succ(a) == (a + 1) % NumAgents

\* Positions of the agents' entries in a history.
AgentTurns(h) == {i \in DOMAIN h : h[i].by # Moderator}

\* The last speaker is not carried over.
InitialStateSpeakerBug(h, target) ==
  [ cur    |-> None,
    target |-> target,
    main   |-> None,
    rounds |-> Cardinality(AgentTurns(h)) \div NumAgents,
    action |-> "speak",
    at     |-> "router" ]

\* Turns taken for rounds.
InitialStateRoundsBug(h, target) ==
  [ cur    |-> IF AgentTurns(h) = {} THEN None ELSE h[Max(AgentTurns(h))].by,
    target |-> target,
    main   |-> None,
    rounds |-> Cardinality(AgentTurns(h)),
    action |-> "speak",
    at     |-> "router" ]

\* DebateEngine._initial_state
InitialState(h, target) ==
  [ cur    |-> IF AgentTurns(h) = {} THEN None ELSE h[Max(AgentTurns(h))].by,
    target |-> target,
    main   |-> None,
    rounds |-> Cardinality(AgentTurns(h)) \div NumAgents,
    action |-> "speak",
    at     |-> "router" ]

\* The speaker after current_speaker, or the first agent at the start.
NextInOrder(s) == IF s.cur = None THEN 0 ELSE Succ(s.cur)

LimitReachedLateBug(s) == MaxRounds # None /\ s.rounds > MaxRounds
LimitReachedEarlyBug(s) == MaxRounds # None /\ s.rounds + 1 >= MaxRounds

LimitReached(s) == MaxRounds # None /\ s.rounds >= MaxRounds

\* RoundRobinRouter.next and the updates router_node makes of its decision.
Speak(s, a, m) ==
  [s EXCEPT !.cur = a, !.main = m, !.target = None, !.action = "speak",
            !.at = "agent_turn"]
EndGraph(s) ==
  [s EXCEPT !.cur = None, !.target = None, !.action = "end", !.at = "end"]

\* The side conversation forgets where the main flow stood.
RouteBug(s) ==
  CASE s.target # None -> Speak(s, s.target, None)
    [] s.target = None /\ LimitReached(s) -> EndGraph(s)
    [] OTHER -> Speak(s, NextInOrder(s), None)

Route(s) ==
  CASE s.target # None /\ s.main = None -> Speak(s, s.target, NextInOrder(s))
    [] s.target # None /\ s.main # None -> Speak(s, s.target, s.main)
    [] s.target = None /\ s.main # None -> Speak(s, s.main, None)
    [] s.target = None /\ s.main = None /\ LimitReached(s) -> EndGraph(s)
    [] OTHER -> Speak(s, NextInOrder(s), None)

\* is_side_convo of agent_turn_node
IsSide(s) == s.main # None

\* Rounds counted on side turns as well.
AfterTurnBug(s) ==
  [s EXCEPT !.rounds = IF Succ(s.cur) = 0 THEN @ + 1 ELSE @, !.at = "router"]

\* The graph state agent_turn_node leaves: a main turn by the last agent of
\* the rotation (current_turn is back to 0) completes a round.
AfterTurn(s) ==
  [s EXCEPT !.rounds = IF ~IsSide(s) /\ Succ(s.cur) = 0 THEN @ + 1 ELSE @,
            !.at = "router"]

-----------------------------------------------------------------------------
(* Init and the JSON-RPC handlers *)

\* debate.start (or /new): a fresh debate with a newly compiled graph.
Init ==
  /\ status = "active"
  /\ history = <<>>
  /\ currentTurn = 0
  /\ ckpt = NoCheckpoint
  /\ broken \in SUBSET Agent
  /\ pc = [r \in Runs |-> "idle"]
  /\ want = [r \in Runs |-> None]
  /\ graph = [r \in Runs |-> NoCheckpoint]
  /\ reply = [r \in Runs |-> NoReply]

Spawn(r, target) ==
  /\ pc' = [pc EXCEPT ![r] = "start"]
  /\ want' = [want EXCEPT ![r] = target]
  /\ reply' = [reply EXCEPT ![r] = NoReply]

RejectWith(r) ==
  /\ reply' = [reply EXCEPT ![r] = ErrorReply]
  /\ UNCHANGED <<history, pc, want>>

\* debate.next_turn
NextTurn(r) ==
  /\ pc[r] = "idle"
  /\ Len(history) < MaxHistory
  /\ \/ /\ status = "active"
        /\ Spawn(r, None)
        /\ UNCHANGED history
     \/ /\ status # "active"
        /\ RejectWith(r)
  /\ UNCHANGED <<status, currentTurn, ckpt, broken, graph>>

\* debate.inject: target is the agent _parse_target found (None when the
\* message has no known @Agent prefix), body is FALSE when nothing follows it.
Inject(r, target, body) ==
  /\ pc[r] = "idle"
  /\ Len(history) < MaxHistory
  /\ \/ /\ status = "active"
        /\ target = None \/ body
        /\ history' = Append(history, Remark)
        /\ Spawn(r, target)
     \/ /\ status # "active" \/ (target # None /\ ~body)
        /\ RejectWith(r)
  /\ UNCHANGED <<status, currentTurn, ckpt, broken, graph>>

\* debate.announce, which does not look at the status.
Announce ==
  /\ Len(history) < MaxHistory
  /\ history' = Append(history, Remark)
  /\ UNCHANGED <<status, currentTurn, ckpt, broken, pc, want, graph, reply>>

\* debate.stop, also Debate.stop as /end calls it.
Stop ==
  /\ status' = "ended"
  /\ UNCHANGED <<history, currentTurn, ckpt, broken, pc, want, graph, reply>>

\* The operator installs the missing provider package or key (external).
Repair(a) ==
  /\ broken' = broken \ {a}
  /\ UNCHANGED <<status, history, currentTurn, ckpt, pc, want, graph, reply>>

-----------------------------------------------------------------------------
(* DebateEngine.run_turn, one action per segment between two awaits *)

\* A resumed graph starts over at the router.
LoadCheckpointBug(r) ==
  /\ graph' = [graph EXCEPT ![r] = ckpt]
  /\ pc' = [pc EXCEPT ![r] = IF ckpt.at = "end" THEN "returned" ELSE "router"]

\* ainvoke(None) picks up the newest checkpoint; a finished graph has nothing
\* left to run.
LoadCheckpoint(r) ==
  /\ graph' = [graph EXCEPT ![r] = ckpt]
  /\ pc' = [pc EXCEPT ![r] = IF ckpt.at = "end" THEN "returned" ELSE ckpt.at]

\* get_state, then: the first ainvoke writes the initial state; aupdate_state
\* adds a target to an existing one; or the graph is resumed at once.
Begin(r) ==
  /\ pc[r] = "start"
  /\ \/ /\ ckpt.at = "empty"
        /\ ckpt' = InitialState(history, want[r])
        /\ graph' = [graph EXCEPT ![r] = InitialState(history, want[r])]
        /\ pc' = [pc EXCEPT ![r] = "router"]
     \/ /\ ckpt.at # "empty"
        /\ want[r] # None
        /\ ckpt' = [ckpt EXCEPT !.target = want[r]]
        /\ pc' = [pc EXCEPT ![r] = "resume"]
        /\ UNCHANGED graph
     \/ /\ ckpt.at # "empty"
        /\ want[r] = None
        /\ LoadCheckpoint(r)
        /\ UNCHANGED ckpt
  /\ UNCHANGED <<status, history, currentTurn, broken, want, reply>>

\* ainvoke(None) after aupdate_state.
Resume(r) ==
  /\ pc[r] = "resume"
  /\ LoadCheckpoint(r)
  /\ UNCHANGED <<status, history, currentTurn, ckpt, broken, want, reply>>

\* router_node; the graph checkpoints the state after the node.
Router(r) ==
  /\ pc[r] = "router"
  /\ graph' = [graph EXCEPT ![r] = Route(graph[r])]
  /\ ckpt' = Route(graph[r])
  /\ pc' = [pc EXCEPT ![r] = IF Route(graph[r]).at = "end"
                              THEN "returned" ELSE "agent_turn"]
  /\ UNCHANGED <<status, history, currentTurn, broken, want, reply>>

\* The counter advances from itself instead of from the agent who spoke.
RecordTurnBug(a, side) ==
  /\ history' = Append(history, [by |-> a, side |-> side])
  /\ currentTurn' = Succ(currentTurn)

\* Debate.record_turn
RecordTurn(a, side) ==
  /\ history' = Append(history, [by |-> a, side |-> side])
  /\ currentTurn' = Succ(a)

\* agent_turn_node from the end of the token stream on: record_turn and the
\* checkpoint.  A stream that fails is recorded as a turn too.
AgentTurn(r) ==
  LET s == graph[r] IN
  /\ pc[r] = "agent_turn"
  /\ s.cur \notin broken
  /\ RecordTurn(s.cur, IsSide(s))
  /\ graph' = [graph EXCEPT ![r] = AfterTurn(s)]
  /\ ckpt' = AfterTurn(s)
  /\ pc' = [pc EXCEPT ![r] = "returned"]
  /\ UNCHANGED <<status, broken, want, reply>>

\* The failed invocation is logged but not answered.
CreateLlmFailsBug(r) ==
  /\ pc[r] = "agent_turn"
  /\ graph[r].cur \in broken
  /\ pc' = [pc EXCEPT ![r] = "idle"]
  /\ UNCHANGED <<status, history, currentTurn, ckpt, broken, want, graph, reply>>

\* create_llm raises outside agent_turn_node's try: the invocation fails with
\* the router's checkpoint in place and run_turn answers with an error.
CreateLlmFails(r) ==
  /\ pc[r] = "agent_turn"
  /\ graph[r].cur \in broken
  /\ reply' = [reply EXCEPT ![r] = ErrorReply]
  /\ pc' = [pc EXCEPT ![r] = "idle"]
  /\ UNCHANGED <<status, history, currentTurn, ckpt, broken, want, graph>>

\* run_turn after ainvoke: the newest checkpoint says whether the debate is
\* over; the response names the last author and the agent at current_turn.
Respond(r) ==
  LET ended == ckpt.action = "end" IN
  /\ pc[r] = "returned"
  /\ status' = IF ended THEN "ended" ELSE status
  /\ reply' = [reply EXCEPT ![r] =
        [ kind  |-> "turn",
          agent |-> IF history = <<>> THEN None ELSE history[Len(history)].by,
          next  |-> currentTurn,
          ended |-> ended ]]
  /\ pc' = [pc EXCEPT ![r] = "idle"]
  /\ UNCHANGED <<history, currentTurn, ckpt, broken, want, graph>>

-----------------------------------------------------------------------------
(* Specifications *)

Submit(r) ==
  \/ NextTurn(r)
  \/ \E target \in AgentOrNone, body \in BOOLEAN : Inject(r, target, body)

RunTurn(r) ==
  \/ Begin(r)
  \/ Resume(r)
  \/ Router(r)
  \/ AgentTurn(r)
  \/ CreateLlmFails(r)
  \/ Respond(r)

Others ==
  \/ Announce
  \/ Stop
  \/ \E a \in Agent : Repair(a)

Next ==
  \/ \E r \in Runs : Submit(r)
  \/ \E r \in Runs : RunTurn(r)
  \/ Others

Spec == Init /\ [][Next]_vars

\* The event loop runs every task that is ready, and a token stream ends
\* (with an error if need be).  Users and operators owe nothing.
FairSpec == Spec /\ \A r \in Runs : WF_vars(RunTurn(r))

AllIdle == \A r \in Runs : pc[r] = "idle"

SerialNext ==
  \/ AllIdle /\ \E r \in Runs : Submit(r)
  \/ \E r \in Runs : RunTurn(r)
  \/ Others

\* The clients send a turn request only after the last one was answered.
SerialSpec == Init /\ [][SerialNext]_vars

-----------------------------------------------------------------------------
(* Properties *)

\* Positions of the main turns: agents' entries outside side conversations.
MainTurns(h) == {i \in AgentTurns(h) : ~h[i].side}

\* p is the last position of the set S.
IsLast(p, S) == p \in S /\ \A q \in S : q <= p

\* a is the agent after the author of the last of the given positions, or the
\* first agent when there is none.
Follows(h, positions, a) ==
  \/ positions = {} /\ a = 0
  \/ \E j \in positions : IsLast(j, positions) /\ a = Succ(h[j].by)

\* Main turns go round the agents in declaration order whatever side turns
\* and moderator messages come in between ("agents speak in declaration order,
\* cycling", "the debate can resume from exactly the right position":
\* RoundRobinRouter's docstring).
MainTurnsCycle ==
  \A i \in MainTurns(history) :
    Follows(history, {j \in MainTurns(history) : j < i}, history[i].by)

\* Debate.current_turn is the agent after the author of the newest agent entry,
\* however the turns of concurrent requests interleave (record_turn).
CurrentTurnFollowsHistory ==
  Follows(history, AgentTurns(history), currentTurn)

\* The agent whose main turn comes next, as a graph state has it.
DueIn(s) ==
  CASE s.at = "end" -> None
    [] s.at # "end" /\ s.main # None -> s.main
    [] s.at = "agent_turn" /\ s.main = None -> s.cur
    [] OTHER -> NextInOrder(s)
Due == DueIn(ckpt)

\* The two records of whose turn it is agree: when a main turn was the last to
\* be taken, the agent at Debate.current_turn, which responses give as
\* next_agent, is the one the graph lets speak next (run_turn's response,
\* RoundRobinRouter.next).
CountersAgree ==
  /\ ckpt.at # "end"
  /\ \E j \in MainTurns(history) : IsLast(j, AgentTurns(history))
  => currentTurn = Due

\* round_count is the number of complete rotations of main turns: side turns
\* and failed turns never count (agent_turn_node).
RoundsCountMainTurns ==
  ckpt.rounds = Cardinality(MainTurns(history)) \div NumAgents

\* With concurrent requests rounds may be counted too low, as one task's
\* checkpoint overwrites another's, but never too high: the limit does not
\* end a debate early.
NeverEndsEarly ==
  /\ ckpt.rounds * NumAgents <= Cardinality(MainTurns(history))
  /\ ckpt.action = "end" =>
        MaxRounds * NumAgents <= Cardinality(MainTurns(history))

\* A main turn is recorded past the round limit only as the turn that resumes
\* the debate after a side conversation, the one case in which the router
\* does not look at the limit (RoundRobinRouter.next).
LimitPassedOnlyAfterSideTalk ==
  [][ /\ MaxRounds # None
      /\ MainTurns(history') # MainTurns(history)
      /\ ckpt.rounds >= MaxRounds
      => \E j \in AgentTurns(history) :
            IsLast(j, AgentTurns(history)) /\ history[j].side ]_vars

\* Every accepted request is answered, by a turn or by an error (run_turn puts
\* a response on the queue on each of its paths).
EveryRequestAnswered ==
  \A r \in Runs : pc[r] = "start" ~> pc[r] = "idle" /\ reply[r] # NoReply

\* Requests sent one at a time implement the promise of TurnTaking.
Promise == INSTANCE TurnTaking WITH due <- Due
TurnTakingHolds == Promise!Spec

(* A claim the code does not keep *)

\* "If the message starts with @AgentName, only that agent responds": a
\* targeted inject that is answered by a turn is answered by its target, not
\* by another agent (the response names the moderator when a remark came in
\* after the turn).
TargetResponds ==
  \A r \in Runs :
    reply[r].kind = "turn" /\ ~reply[r].ended /\ want[r] # None
    => reply[r].agent \in {want[r], Moderator}

=============================================================================
