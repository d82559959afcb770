------------------------ MODULE DebateEngine_proofs ------------------------
(***************************************************************************)
(* Proofs about DebateEngine: type correctness and the turn counter for    *)
(* any number of concurrent requests, the order of the main turns and the  *)
(* implementation of TurnTaking for requests sent one at a time.           *)
(***************************************************************************)
EXTENDS DebateEngine, FiniteSetTheorems, SequenceTheorems, TLAPS

(***************************************************************************)
(* The rotation and the transcript.                                        *)
(***************************************************************************)

\* The successor of an agent is an agent.
LEMMA SuccIsAgent == \A a \in Agent : Succ(a) \in Agent
  BY EngineAssumption DEF Agent, Succ

\* The first agent of the declaration order exists.
LEMMA FirstIsAgent == 0 \in Agent
  BY EngineAssumption DEF Agent

\* Agents are neither the moderator nor None.
LEMMA AgentsAreAgents ==
  /\ Moderator \notin Agent
  /\ None \notin Agent
  BY EngineAssumption DEF Agent

\* A turn adds one position to those of the agents' entries, a remark none.
LEMMA AppendTurn ==
  ASSUME NEW h \in Seq(Entry), NEW a \in Agent, NEW s \in BOOLEAN
  PROVE  LET g == Append(h, [by |-> a, side |-> s]) IN
         /\ g \in Seq(Entry)
         /\ Len(g) = Len(h) + 1
         /\ \A i \in 1 .. Len(h) : g[i] = h[i]
         /\ g[Len(h) + 1] = [by |-> a, side |-> s]
         /\ AgentTurns(g) = AgentTurns(h) \cup {Len(h) + 1}
<1> DEFINE e == [by |-> a, side |-> s]
           g == Append(h, e)
<1>1. e \in Entry /\ e.by # Moderator
  BY AgentsAreAgents DEF Entry
<1>2. /\ g \in Seq(Entry)
      /\ Len(g) = Len(h) + 1
      /\ \A i \in 1 .. Len(h) : g[i] = h[i]
      /\ g[Len(h) + 1] = e
      /\ DOMAIN g = 1 .. Len(h) + 1
      /\ DOMAIN h = 1 .. Len(h)
      /\ Len(h) \in Nat
  BY <1>1
<1>3. AgentTurns(g) = AgentTurns(h) \cup {Len(h) + 1}
  <2> HIDE DEF e, g
  <2> QED BY <1>1, <1>2 DEF AgentTurns
<1> QED BY <1>2, <1>3

LEMMA AppendRemark ==
  ASSUME NEW h \in Seq(Entry)
  PROVE  LET g == Append(h, Remark) IN
         /\ g \in Seq(Entry)
         /\ Len(g) = Len(h) + 1
         /\ \A i \in 1 .. Len(h) : g[i] = h[i]
         /\ AgentTurns(g) = AgentTurns(h)
<1> DEFINE g == Append(h, Remark)
<1>1. Remark \in Entry /\ Remark.by = Moderator
  BY DEF Entry, Remark
<1>2. /\ g \in Seq(Entry)
      /\ Len(g) = Len(h) + 1
      /\ \A i \in 1 .. Len(h) : g[i] = h[i]
      /\ g[Len(h) + 1] = Remark
      /\ DOMAIN g = 1 .. Len(h) + 1
      /\ DOMAIN h = 1 .. Len(h)
      /\ Len(h) \in Nat
  BY <1>1
<1>3. AgentTurns(g) = AgentTurns(h)
  <2> HIDE DEF g
  <2> QED BY <1>1, <1>2 DEF AgentTurns
<1> QED BY <1>2, <1>3

(***************************************************************************)
(* Type correctness.  TypeOK is not inductive by itself: a turn is taken   *)
(* by the speaker the graph state names, so that state must name one       *)
(* whenever its next node is agent_turn; and the initial graph state is    *)
(* only ever built before any agent has spoken.                            *)
(***************************************************************************)
GraphOK ==
  /\ ckpt.at = "empty" => AgentTurns(history) = {} /\ ckpt = NoCheckpoint
  /\ ckpt.at = "agent_turn" => ckpt.cur \in Agent
  /\ \A r \in Runs :
        /\ pc[r] \notin {"idle", "start"} => ckpt.at # "empty"
        /\ pc[r] = "agent_turn" => graph[r].cur \in Agent /\ graph[r].at = "agent_turn"
        /\ pc[r] = "router" => graph[r].at = "router"

EngineInv == TypeOK /\ GraphOK

\* What the router returns is a graph state, and agent_turn is entered with
\* a speaker.
LEMMA RouteType ==
  ASSUME NEW s \in GraphState
  PROVE  /\ Route(s) \in GraphState
         /\ Route(s).at \in {"agent_turn", "end"}
         /\ Route(s).at = "agent_turn" => Route(s).cur \in Agent
<1>1. NextInOrder(s) \in Agent
  BY SuccIsAgent, FirstIsAgent DEF NextInOrder, GraphState, AgentOrNone
<1>2. /\ s.target \in AgentOrNone /\ s.main \in AgentOrNone
      /\ \A a \in Agent, m \in AgentOrNone :
            /\ Speak(s, a, m) \in GraphState
            /\ Speak(s, a, m).at = "agent_turn"
            /\ Speak(s, a, m).cur = a
      /\ EndGraph(s) \in GraphState
      /\ EndGraph(s).at = "end"
  BY DEF GraphState, AgentOrNone, Speak, EndGraph
<1>3. CASE s.target # None /\ s.main = None
  BY <1>1, <1>2, <1>3 DEF Route, AgentOrNone
<1>4. CASE s.target # None /\ s.main # None
  BY <1>2, <1>4 DEF Route, AgentOrNone
<1>5. CASE s.target = None /\ s.main # None
  BY <1>2, <1>5 DEF Route, AgentOrNone
<1>6. CASE s.target = None /\ s.main = None /\ LimitReached(s)
  BY <1>2, <1>6 DEF Route
<1>7. CASE s.target = None /\ s.main = None /\ ~LimitReached(s)
  BY <1>1, <1>2, <1>7 DEF Route, AgentOrNone
<1> QED BY <1>3, <1>4, <1>5, <1>6, <1>7

LEMMA AfterTurnType ==
  ASSUME NEW s \in GraphState
  PROVE  AfterTurn(s) \in GraphState /\ AfterTurn(s).at = "router"
<1>1. ASSUME NEW k \in Nat
      PROVE  LET t == [s EXCEPT !.rounds = k, !.at = "router"] IN
             t \in GraphState /\ t.at = "router"
  BY DEF GraphState
<1>2. s.rounds \in Nat /\ s.rounds + 1 \in Nat
  BY DEF GraphState
<1>3. \/ AfterTurn(s) = [s EXCEPT !.rounds = s.rounds + 1, !.at = "router"]
      \/ AfterTurn(s) = [s EXCEPT !.rounds = s.rounds, !.at = "router"]
  BY Zenon DEF AfterTurn
<1> QED BY <1>1, <1>2, <1>3

LEMMA InitialStateType ==
  ASSUME NEW h, AgentTurns(h) = {}, NEW t \in AgentOrNone
  PROVE  /\ InitialState(h, t) \in GraphState
         /\ InitialState(h, t).at = "router"
         /\ InitialState(h, t).cur = None
         /\ InitialState(h, t).main = None
<1>1. Cardinality({}) = 0
  BY FS_EmptySet
<1>2. 0 \div NumAgents \in Nat
  BY EngineAssumption
<1> QED BY <1>1, <1>2 DEF InitialState, GraphState, AgentOrNone

LEMMA EngineInvInit == Init => EngineInv
<1> SUFFICES ASSUME Init PROVE EngineInv
  OBVIOUS
<1>1. NoCheckpoint \in GraphState
  BY DEF NoCheckpoint, GraphState, AgentOrNone
<1>2. NoReply \in Reply
  BY DEF NoReply, Reply, AgentOrNone
<1>3. AgentTurns(<<>>) = {}
  BY DEF AgentTurns
<1>4. TypeOK
  BY <1>1, <1>2, FirstIsAgent DEF Init, TypeOK, PC, AgentOrNone
<1>5. GraphOK
  BY <1>3 DEF Init, GraphOK, NoCheckpoint
<1> QED BY <1>4, <1>5 DEF EngineInv

\* Handlers: none of them touches the graph; a remark is not an agent's turn.
LEMMA SubmitKeepsInv ==
  ASSUME EngineInv, NEW r \in Runs, Submit(r)
  PROVE  EngineInv'
<1> USE DEF EngineInv
<1>1. ErrorReply \in Reply /\ NoReply \in Reply
  BY DEF NoReply, ErrorReply, Reply, AgentOrNone
<1>2. Append(history, Remark) \in Seq(Entry)
      /\ AgentTurns(Append(history, Remark)) = AgentTurns(history)
  BY AppendRemark DEF TypeOK
<1>3. CASE NextTurn(r)
  <2>1. TypeOK'
    BY <1>1, <1>3 DEF NextTurn, Spawn, RejectWith, TypeOK, PC, AgentOrNone
  <2>2. GraphOK'
    BY <1>3 DEF NextTurn, Spawn, RejectWith, TypeOK, GraphOK
  <2> QED BY <2>1, <2>2
<1>4. ASSUME NEW t \in AgentOrNone, NEW b \in BOOLEAN, Inject(r, t, b)
      PROVE  EngineInv'
  <2>1. TypeOK'
    BY <1>1, <1>2, <1>4 DEF Inject, Spawn, RejectWith, TypeOK, PC, AgentOrNone
  <2>2. GraphOK'
    BY <1>2, <1>4 DEF Inject, Spawn, RejectWith, TypeOK, GraphOK
  <2> QED BY <2>1, <2>2
<1> QED BY <1>3, <1>4 DEF Submit

LEMMA OthersKeepInv == EngineInv /\ Others => EngineInv'
<1> SUFFICES ASSUME EngineInv, Others PROVE EngineInv'
  OBVIOUS
<1> USE DEF EngineInv
<1>1. CASE Announce
  BY <1>1, AppendRemark DEF Announce, TypeOK, GraphOK
<1>2. CASE Stop
  BY <1>2 DEF Stop, TypeOK, GraphOK
<1>3. ASSUME NEW a \in Agent, Repair(a) PROVE EngineInv'
  BY <1>3 DEF Repair, TypeOK, GraphOK
<1> QED BY <1>1, <1>2, <1>3 DEF Others

\* run_turn: one step per segment of the task.
LEMMA RunTurnKeepsInv ==
  ASSUME EngineInv, NEW r \in Runs, RunTurn(r)
  PROVE  EngineInv'
<1> USE DEF EngineInv
<1>1. /\ want[r] \in AgentOrNone
      /\ graph[r] \in GraphState
      /\ ckpt \in GraphState
  BY DEF TypeOK
<1>2. \A q \in Runs : pc[q] = "agent_turn" => graph[q].cur \in Agent
  BY DEF GraphOK
<1>3. CASE Begin(r)
  <2>1. CASE ckpt.at = "empty"
    <3> DEFINE s == InitialState(history, want[r])
    <3>1. s \in GraphState /\ s.at = "router"
      BY <1>1, <2>1, InitialStateType DEF GraphOK
    <3>2. /\ ckpt' = s
          /\ graph' = [graph EXCEPT ![r] = s]
          /\ pc' = [pc EXCEPT ![r] = "router"]
          /\ UNCHANGED <<status, history, currentTurn, broken, want, reply>>
      BY <1>3, <2>1 DEF Begin
    <3> HIDE DEF s
    <3>3. TypeOK'
      BY <3>1, <3>2 DEF TypeOK, PC
    <3>4. GraphOK'
      BY <3>1, <3>2 DEF TypeOK, GraphOK
    <3> QED BY <3>3, <3>4
  <2>2. CASE ckpt.at # "empty" /\ want[r] # None
    <3> DEFINE s == [ckpt EXCEPT !.target = want[r]]
    <3>1. s \in GraphState /\ s.at = ckpt.at /\ s.cur = ckpt.cur
      BY <1>1 DEF GraphState
    <3>2. /\ ckpt' = s
          /\ pc' = [pc EXCEPT ![r] = "resume"]
          /\ UNCHANGED <<status, history, currentTurn, broken, want, reply, graph>>
      BY <1>3, <2>2 DEF Begin
    <3> HIDE DEF s
    <3>3. TypeOK'
      BY <3>1, <3>2 DEF TypeOK, PC
    <3>4. GraphOK'
      BY <2>2, <3>1, <3>2 DEF TypeOK, GraphOK
    <3> QED BY <3>3, <3>4
  <2>3. CASE ckpt.at # "empty" /\ want[r] = None
    <3>1. /\ LoadCheckpoint(r)
          /\ UNCHANGED <<status, history, currentTurn, broken, want, reply, ckpt>>
      BY <1>3, <2>3 DEF Begin
    <3> QED BY <1>1, <2>3, <3>1 DEF LoadCheckpoint, TypeOK, GraphOK, GraphState, PC
  <2> QED BY <2>1, <2>2, <2>3
<1>4. CASE Resume(r)
  <2>1. ckpt.at # "empty"
    BY <1>4 DEF Resume, GraphOK
  <2> QED BY <1>1, <1>4, <2>1 DEF Resume, LoadCheckpoint, TypeOK, GraphOK, GraphState, PC
<1>5. CASE Router(r)
  <2> DEFINE s == Route(graph[r])
  <2>1. /\ s \in GraphState
        /\ s.at \in {"agent_turn", "end"}
        /\ s.at = "agent_turn" => s.cur \in Agent
    BY <1>1, RouteType
  <2>2. /\ ckpt' = s
        /\ graph' = [graph EXCEPT ![r] = s]
        /\ pc' = [pc EXCEPT ![r] = IF s.at = "end" THEN "returned" ELSE "agent_turn"]
        /\ UNCHANGED <<status, history, currentTurn, broken, want, reply>>
    BY <1>5 DEF Router
  <2> HIDE DEF s
  <2>3. TypeOK'
    BY <2>1, <2>2 DEF TypeOK, PC
  <2>4. GraphOK'
    BY <2>1, <2>2 DEF TypeOK, GraphOK
  <2> QED BY <2>3, <2>4
<1>6. CASE AgentTurn(r)
  <2> DEFINE a == graph[r].cur
             e == [by |-> a, side |-> IsSide(graph[r])]
             s == AfterTurn(graph[r])
  <2>1. a \in Agent
    BY <1>2, <1>6 DEF AgentTurn
  <2>2. /\ Append(history, e) \in Seq(Entry)
    BY <2>1, AppendTurn DEF TypeOK, IsSide
  <2>3. s \in GraphState /\ s.at = "router"
    BY <1>1, AfterTurnType
  <2>4. /\ history' = Append(history, e)
        /\ currentTurn' = Succ(a)
        /\ graph' = [graph EXCEPT ![r] = s]
        /\ ckpt' = s
        /\ pc' = [pc EXCEPT ![r] = "returned"]
        /\ UNCHANGED <<status, broken, want, reply>>
    BY <1>6 DEF AgentTurn, RecordTurn
  <2>5. Succ(a) \in Agent
    BY <2>1, SuccIsAgent
  <2> HIDE DEF a, e, s
  <2>6. TypeOK'
    BY <2>2, <2>3, <2>4, <2>5 DEF TypeOK, PC
  <2>7. GraphOK'
    BY <2>3, <2>4 DEF TypeOK, GraphOK
  <2> QED BY <2>6, <2>7
<1>7. CASE CreateLlmFails(r)
  <2>1. ErrorReply \in Reply
    BY DEF NoReply, ErrorReply, Reply, AgentOrNone
  <2> QED BY <1>7, <2>1 DEF CreateLlmFails, TypeOK, GraphOK, PC
<1>8. CASE Respond(r)
  <2>1. ASSUME history # <<>>
        PROVE  history[Len(history)].by \in Agent \cup {Moderator}
    <3>1. history \in Seq(Entry)
      BY DEF TypeOK
    <3>2. Len(history) \in 1 .. Len(history)
      BY <2>1, <3>1, EmptySeq
    <3>3. history[Len(history)] \in Entry
      BY <3>1, <3>2, ElementOfSeq
    <3> QED BY <3>3 DEF Entry
  <2> DEFINE e == [ kind  |-> "turn",
                    agent |-> IF history = <<>> THEN None
                              ELSE history[Len(history)].by,
                    next  |-> currentTurn,
                    ended |-> ckpt.action = "end" ]
  <2>2. e \in Reply
    BY <2>1 DEF TypeOK, Reply, AgentOrNone
  <2>3. /\ status' = IF ckpt.action = "end" THEN "ended" ELSE status
        /\ reply' = [reply EXCEPT ![r] = e]
        /\ pc' = [pc EXCEPT ![r] = "idle"]
        /\ UNCHANGED <<history, currentTurn, ckpt, broken, want, graph>>
    BY <1>8 DEF Respond
  <2> HIDE DEF e
  <2>4. TypeOK'
    BY <2>2, <2>3 DEF TypeOK, PC
  <2>5. GraphOK'
    BY <2>3 DEF TypeOK, GraphOK
  <2> QED BY <2>4, <2>5
<1> QED BY <1>3, <1>4, <1>5, <1>6, <1>7, <1>8 DEF RunTurn

\* The invariant holds of every behaviour of the concurrent specification.
THEOREM EngineInvariance == Spec => []EngineInv
<1>1. Init => EngineInv
  BY EngineInvInit
<1>2. EngineInv /\ [Next]_vars => EngineInv'
  <2>1. CASE UNCHANGED vars
    BY <2>1 DEF vars, EngineInv, TypeOK, GraphOK
  <2> QED BY <2>1, SubmitKeepsInv, RunTurnKeepsInv, OthersKeepInv DEF Next
<1> QED BY <1>1, <1>2, PTL DEF Spec

\* However many requests run at the same time, the debate's state keeps its
\* type: in particular a turn is only ever taken by an agent of the debate and
\* current_turn is a valid index (agent_turn_node, record_turn).
THEOREM TypeCorrect == Spec => []TypeOK
  BY EngineInvariance, PTL DEF EngineInv

(***************************************************************************)
(* The turn counter.                                                       *)
(***************************************************************************)

\* A turn makes its author the last one to have spoken.
LEMMA LastAfterTurn ==
  ASSUME NEW h \in Seq(Entry), NEW a \in Agent, NEW s \in BOOLEAN,
         NEW g, g = Append(h, [by |-> a, side |-> s])
  PROVE  \E j \in AgentTurns(g) :
            IsLast(j, AgentTurns(g)) /\ g[j] = [by |-> a, side |-> s]
<1> DEFINE n == Len(h) + 1
<1>1. /\ AgentTurns(g) = AgentTurns(h) \cup {n}
      /\ g[n] = [by |-> a, side |-> s]
      /\ AgentTurns(h) \subseteq 1 .. Len(h)
      /\ Len(h) \in Nat
  BY AppendTurn DEF AgentTurns
<1>2. n \in AgentTurns(g) /\ \A q \in AgentTurns(g) : q <= n
  BY <1>1
<1> QED BY <1>1, <1>2 DEF IsLast

\* A remark leaves the agents' entries as they are.
LEMMA LastAfterRemark ==
  ASSUME NEW h \in Seq(Entry)
  PROVE  LET g == Append(h, Remark) IN
         /\ AgentTurns(g) = AgentTurns(h)
         /\ \A j \in AgentTurns(h) : g[j] = h[j]
  BY AppendRemark DEF AgentTurns

\* Every step leaves the transcript alone, adds a remark, or records a turn of
\* an agent and moves the counter past that agent.
LEMMA HistoryStep ==
  ASSUME EngineInv, [Next]_vars
  PROVE  \/ UNCHANGED <<history, currentTurn>>
         \/ history' = Append(history, Remark) /\ UNCHANGED currentTurn
         \/ \E a \in Agent, s \in BOOLEAN :
               /\ history' = Append(history, [by |-> a, side |-> s])
               /\ currentTurn' = Succ(a)
<1>1. ASSUME NEW r \in Runs, Submit(r)
      PROVE  \/ UNCHANGED <<history, currentTurn>>
             \/ history' = Append(history, Remark) /\ UNCHANGED currentTurn
  BY <1>1 DEF Submit, NextTurn, Inject, RejectWith
<1>2. ASSUME NEW r \in Runs, RunTurn(r)
      PROVE  \/ UNCHANGED <<history, currentTurn>>
             \/ \E a \in Agent, s \in BOOLEAN :
                   /\ history' = Append(history, [by |-> a, side |-> s])
                   /\ currentTurn' = Succ(a)
  <2>1. CASE AgentTurn(r)
    <3>1. graph[r].cur \in Agent /\ IsSide(graph[r]) \in BOOLEAN
      BY <2>1 DEF AgentTurn, EngineInv, GraphOK, IsSide
    <3> QED BY <2>1, <3>1 DEF AgentTurn, RecordTurn
  <2>2. CASE ~AgentTurn(r)
    BY <1>2, <2>2 DEF RunTurn, Begin, Resume, Router, CreateLlmFails, Respond
  <2> QED BY <2>1, <2>2
<1>3. CASE Others
  BY <1>3 DEF Others, Announce, Stop, Repair
<1>4. CASE UNCHANGED vars
  BY <1>4 DEF vars
<1> QED BY <1>1, <1>2, <1>3, <1>4 DEF Next

\* Whatever requests run at the same time, Debate.current_turn is the agent
\* after the author of the newest agent entry (record_turn), so the next_agent
\* of a response is the successor of the last agent that spoke.
THEOREM TurnCounter == Spec => []CurrentTurnFollowsHistory
<1>1. Init => CurrentTurnFollowsHistory
  BY DEF Init, CurrentTurnFollowsHistory, Follows, AgentTurns
<1>2. ASSUME EngineInv, CurrentTurnFollowsHistory, [Next]_vars
      PROVE  CurrentTurnFollowsHistory'
  <2>0. history \in Seq(Entry)
    BY <1>2 DEF EngineInv, TypeOK
  <2>1. CASE UNCHANGED <<history, currentTurn>>
    BY <1>2, <2>1 DEF CurrentTurnFollowsHistory, Follows
  <2>2. CASE history' = Append(history, Remark) /\ UNCHANGED currentTurn
    BY <1>2, <2>0, <2>2, LastAfterRemark DEF CurrentTurnFollowsHistory, Follows
  <2>3. ASSUME NEW a \in Agent, NEW s \in BOOLEAN,
               history' = Append(history, [by |-> a, side |-> s]),
               currentTurn' = Succ(a)
        PROVE  CurrentTurnFollowsHistory'
    <3>1. PICK j \in AgentTurns(history') :
             /\ IsLast(j, AgentTurns(history'))
             /\ history'[j] = [by |-> a, side |-> s]
      <4> HIDE DEF AgentTurns
      <4> QED BY <2>0, <2>3, LastAfterTurn
    <3>2. history'[j].by = a
      BY <3>1
    <3> QED BY <2>3, <3>1, <3>2 DEF CurrentTurnFollowsHistory, Follows
  <2> QED BY <1>2, <2>1, <2>2, <2>3, HistoryStep
<1> QED BY <1>1, <1>2, EngineInvariance, PTL DEF Spec

(***************************************************************************)
(* Requests sent one at a time.  Then at most one task is under way and    *)
(* the graph state it holds in memory is the checkpoint.                   *)
(***************************************************************************)
OneAtATime ==
  /\ \A q, r \in Runs : pc[q] # "idle" /\ pc[r] # "idle" => q = r
  /\ \A r \in Runs : pc[r] \in {"router", "agent_turn"} => graph[r] = ckpt

SerialInv == EngineInv /\ OneAtATime

LEMMA SerialIsNext == [SerialNext]_vars => [Next]_vars
  BY DEF SerialNext, Next

LEMMA OneAtATimeStep ==
  ASSUME TypeOK, OneAtATime, [SerialNext]_vars
  PROVE  OneAtATime'
<1>1. pc \in [Runs -> PC] /\ graph \in [Runs -> GraphState]
  BY DEF TypeOK
<1>2. ASSUME AllIdle, NEW r \in Runs, Submit(r)
      PROVE  OneAtATime'
  BY <1>1, <1>2 DEF Submit, NextTurn, Inject, Spawn, RejectWith, AllIdle, OneAtATime
<1>3. ASSUME NEW r \in Runs, RunTurn(r)
      PROVE  OneAtATime'
  <2>1. pc[r] # "idle" /\ \A q \in Runs : q # r => pc[q] = "idle"
    BY <1>3 DEF RunTurn, Begin, Resume, Router, AgentTurn, CreateLlmFails, Respond, OneAtATime
  <2>2. CASE Begin(r)
    BY <1>1, <2>1, <2>2 DEF Begin, LoadCheckpoint, OneAtATime
  <2>3. CASE Resume(r)
    BY <1>1, <2>1, <2>3 DEF Resume, LoadCheckpoint, OneAtATime
  <2>4. CASE Router(r)
    BY <1>1, <2>1, <2>4 DEF Router, OneAtATime
  <2>5. CASE AgentTurn(r)
    BY <1>1, <2>1, <2>5 DEF AgentTurn, OneAtATime
  <2>6. CASE CreateLlmFails(r)
    BY <1>1, <2>1, <2>6 DEF CreateLlmFails, OneAtATime
  <2>7. CASE Respond(r)
    BY <1>1, <2>1, <2>7 DEF Respond, OneAtATime
  <2> QED BY <1>3, <2>2, <2>3, <2>4, <2>5, <2>6, <2>7 DEF RunTurn
<1>4. CASE Others
  BY <1>1, <1>4 DEF Others, Announce, Stop, Repair, OneAtATime
<1>5. CASE UNCHANGED vars
  BY <1>5 DEF vars, OneAtATime
<1> QED BY <1>2, <1>3, <1>4, <1>5 DEF SerialNext

THEOREM SerialInvariance == SerialSpec => []SerialInv
<1>1. Init => SerialInv
  BY EngineInvInit DEF Init, SerialInv, OneAtATime
<1>2. SerialInv /\ [SerialNext]_vars => SerialInv'
  <2> SUFFICES ASSUME SerialInv, [SerialNext]_vars PROVE SerialInv'
    OBVIOUS
  <2>1. EngineInv'
    <3>1. CASE UNCHANGED vars
      BY <3>1 DEF vars, SerialInv, EngineInv, TypeOK, GraphOK
    <3> QED BY <3>1, SerialIsNext, SubmitKeepsInv, RunTurnKeepsInv, OthersKeepInv
              DEF Next, SerialInv
  <2>2. TypeOK
    BY DEF SerialInv, EngineInv
  <2> QED BY <2>1, <2>2, OneAtATimeStep DEF SerialInv
<1> QED BY <1>1, <1>2, PTL DEF SerialSpec

(***************************************************************************)
(* What a step does to the transcript and to the agent due: the steps of   *)
(* TurnTaking, and what each of them means for the turn counter.           *)
(***************************************************************************)

\* The agent due is None only when the graph has ended.
LEMMA DueIsAgent ==
  ASSUME EngineInv, ckpt.at # "end"
  PROVE  Due \in Agent
  BY SuccIsAgent, FirstIsAgent
     DEF EngineInv, TypeOK, GraphOK, GraphState, AgentOrNone, Due, DueIn, NextInOrder

\* The router fixes the next speaker without changing who is due, or ends
\* the graph, which no main turn outlives.
LEMMA RouteKeepsDue ==
  ASSUME NEW s \in GraphState, s.at = "router"
  PROVE  /\ Route(s).at = "end" => DueIn(Route(s)) = None
         /\ Route(s).at # "end" => DueIn(Route(s)) = DueIn(s)
         /\ Route(s).at = "agent_turn" /\ Route(s).main = None /\ s.main = None
              => ~LimitReached(s)
         /\ Route(s).rounds = s.rounds
<1>1. NextInOrder(s) # None
  BY SuccIsAgent, FirstIsAgent, AgentsAreAgents DEF NextInOrder, GraphState, AgentOrNone
<1>2. \A a \in AgentOrNone, m \in AgentOrNone :
         LET t == Speak(s, a, m) IN
         t.at = "agent_turn" /\ t.cur = a /\ t.main = m /\ t.rounds = s.rounds
  BY DEF GraphState, Speak
<1>3. EndGraph(s).at = "end" /\ EndGraph(s).rounds = s.rounds
  BY DEF GraphState, EndGraph
<1>4. NextInOrder(s) \in AgentOrNone /\ s.main \in AgentOrNone /\ s.target \in AgentOrNone
  BY SuccIsAgent, FirstIsAgent DEF NextInOrder, GraphState, AgentOrNone
<1>5. CASE s.target # None /\ s.main = None
  <2>1. Route(s) = Speak(s, s.target, NextInOrder(s))
    BY <1>5 DEF Route
  <2> QED BY <1>1, <1>2, <1>4, <1>5, <2>1 DEF DueIn
<1>6. CASE s.target # None /\ s.main # None
  <2>1. Route(s) = Speak(s, s.target, s.main)
    BY <1>6 DEF Route
  <2> QED BY <1>2, <1>4, <1>6, <2>1 DEF DueIn
<1>7. CASE s.target = None /\ s.main # None
  <2>1. Route(s) = Speak(s, s.main, None)
    BY <1>7 DEF Route
  <2>2. None \in AgentOrNone
    BY DEF AgentOrNone
  <2> QED BY <1>2, <1>4, <1>7, <2>1, <2>2 DEF DueIn
<1>8. CASE s.target = None /\ s.main = None /\ LimitReached(s)
  <2>1. Route(s) = EndGraph(s)
    BY <1>8 DEF Route
  <2> QED BY <1>3, <2>1 DEF DueIn
<1>9. CASE s.target = None /\ s.main = None /\ ~LimitReached(s)
  <2>1. Route(s) = Speak(s, NextInOrder(s), None)
    BY <1>9 DEF Route
  <2>2. None \in AgentOrNone
    BY DEF AgentOrNone
  <2> QED BY <1>1, <1>2, <1>4, <1>9, <2>1, <2>2 DEF DueIn
<1> QED BY <1>4, <1>5, <1>6, <1>7, <1>8, <1>9

\* The graph state after a turn: a main turn makes the next agent due.
LEMMA AfterTurnDue ==
  ASSUME NEW s \in GraphState, s.at = "agent_turn", s.cur \in Agent
  PROVE  /\ IsSide(s) => DueIn(AfterTurn(s)) = DueIn(s)
         /\ ~IsSide(s) => DueIn(s) = s.cur /\ DueIn(AfterTurn(s)) = Succ(s.cur)
         /\ AfterTurn(s).main = s.main /\ AfterTurn(s).at = "router"
         /\ AfterTurn(s).rounds =
              IF ~IsSide(s) /\ Succ(s.cur) = 0 THEN s.rounds + 1 ELSE s.rounds
<1>1. ASSUME NEW k \in Nat
      PROVE  LET t == [s EXCEPT !.rounds = k, !.at = "router"] IN
             t.at = "router" /\ t.cur = s.cur /\ t.main = s.main /\ t.rounds = k
  BY DEF GraphState
<1>2. \/ /\ ~IsSide(s) /\ Succ(s.cur) = 0
         /\ AfterTurn(s) = [s EXCEPT !.rounds = s.rounds + 1, !.at = "router"]
      \/ /\ ~(~IsSide(s) /\ Succ(s.cur) = 0)
         /\ AfterTurn(s) = [s EXCEPT !.rounds = s.rounds, !.at = "router"]
  BY Zenon DEF AfterTurn
<1>3. s.rounds \in Nat /\ s.rounds + 1 \in Nat
  BY DEF GraphState
<1>4. /\ AfterTurn(s).at = "router"
      /\ AfterTurn(s).cur = s.cur
      /\ AfterTurn(s).main = s.main
      /\ AfterTurn(s).rounds =
           IF ~IsSide(s) /\ Succ(s.cur) = 0 THEN s.rounds + 1 ELSE s.rounds
  <2>1. CASE ~IsSide(s) /\ Succ(s.cur) = 0
    <3> DEFINE t == [s EXCEPT !.rounds = s.rounds + 1, !.at = "router"]
    <3>1. AfterTurn(s) = t
      BY <1>2, <2>1 DEF t
    <3>2. t.at = "router" /\ t.cur = s.cur /\ t.main = s.main /\ t.rounds = s.rounds + 1
      BY <1>1, <1>3
    <3> HIDE DEF t
    <3> QED BY <2>1, <3>1, <3>2
  <2>2. CASE ~(~IsSide(s) /\ Succ(s.cur) = 0)
    <3> DEFINE t == [s EXCEPT !.rounds = s.rounds, !.at = "router"]
    <3>1. AfterTurn(s) = t
      BY <1>2, <2>2 DEF t
    <3>2. t.at = "router" /\ t.cur = s.cur /\ t.main = s.main /\ t.rounds = s.rounds
      BY <1>1, <1>3
    <3> HIDE DEF t
    <3> QED BY <2>2, <3>1, <3>2
  <2> QED BY <2>1, <2>2
<1>5. s.cur # None
  BY AgentsAreAgents
<1> QED BY <1>4, <1>5 DEF DueIn, IsSide, NextInOrder

\* Only run_turn touches the graph: a remark is all the others may add.
LEMMA NonTurnStep ==
  ASSUME (\E r \in Runs : Submit(r)) \/ Others \/ UNCHANGED vars
  PROVE  /\ UNCHANGED <<ckpt, currentTurn, graph>>
         /\ history' = history \/ history' = Append(history, Remark)
<1>1. ASSUME NEW r \in Runs, Submit(r)
      PROVE  /\ UNCHANGED <<ckpt, currentTurn, graph>>
             /\ history' = history \/ history' = Append(history, Remark)
  BY <1>1 DEF Submit, NextTurn, Inject, RejectWith
<1>2. CASE Others
  BY <1>2 DEF Others, Announce, Stop, Repair
<1>3. CASE UNCHANGED vars
  BY <1>3 DEF vars
<1> QED BY <1>1, <1>2, <1>3

\* What run_turn does when the graph state in memory is the checkpoint.
CloseStep == history' = history /\ Due' = None /\ ckpt'.rounds = ckpt.rounds
QuietStep == history' = history /\ Due' = Due /\ ckpt'.rounds = ckpt.rounds
MainStep ==
  /\ ckpt.at = "agent_turn" /\ ckpt.main = None
  /\ Due \in Agent
  /\ ckpt'.rounds = IF Succ(Due) = 0 THEN ckpt.rounds + 1 ELSE ckpt.rounds
  /\ history' = Append(history, [by |-> Due, side |-> FALSE])
  /\ Due' = Succ(Due)
SideStep ==
  /\ Due # None
  /\ Due' = Due
  /\ ckpt'.rounds = ckpt.rounds
  /\ \E a \in Agent : history' = Append(history, [by |-> a, side |-> TRUE])

LEMMA SerialRunTurnStep ==
  ASSUME SerialInv, NEW r \in Runs, RunTurn(r)
  PROVE  CloseStep \/ QuietStep \/ MainStep \/ SideStep
<1> USE DEF SerialInv
<1>1. /\ graph[r] \in GraphState
      /\ ckpt \in GraphState
      /\ pc[r] \in {"router", "agent_turn"} => graph[r] = ckpt
      /\ pc[r] = "router" => ckpt.at = "router"
      /\ pc[r] = "agent_turn" => ckpt.at = "agent_turn" /\ ckpt.cur \in Agent
  BY DEF EngineInv, TypeOK, GraphOK, OneAtATime
<1>2. CASE Begin(r)
  <2>1. CASE ckpt.at = "empty"
    <3>1. ckpt = NoCheckpoint /\ AgentTurns(history) = {} /\ want[r] \in AgentOrNone
      BY <2>1 DEF EngineInv, TypeOK, GraphOK
    <3>2. ckpt' = InitialState(history, want[r]) /\ history' = history
      BY <1>2, <2>1 DEF Begin
    <3>3. DueIn(NoCheckpoint) = 0
      BY DEF DueIn, NoCheckpoint, NextInOrder
    <3>4. DueIn(InitialState(history, want[r])) = 0
      BY <3>1, InitialStateType DEF DueIn, NextInOrder
    <3>5. InitialState(history, want[r]).rounds = 0 /\ NoCheckpoint.rounds = 0
      <4>1. Cardinality({}) = 0 /\ 0 \div NumAgents = 0
        BY FS_EmptySet, EngineAssumption
      <4> QED BY <3>1, <4>1 DEF InitialState, NoCheckpoint
    <3> QED BY <3>1, <3>2, <3>3, <3>4, <3>5 DEF QuietStep, Due
  <2>2. CASE ckpt.at # "empty" /\ want[r] # None
    <3>1. /\ ckpt' = [ckpt EXCEPT !.target = want[r]]
          /\ history' = history
      BY <1>2, <2>2 DEF Begin
    <3>2. /\ ckpt'.at = ckpt.at /\ ckpt'.main = ckpt.main
          /\ ckpt'.cur = ckpt.cur /\ ckpt'.rounds = ckpt.rounds
      BY <1>1, <3>1 DEF GraphState
    <3> QED BY <3>1, <3>2 DEF QuietStep, Due, DueIn, NextInOrder
  <2>3. CASE ckpt.at # "empty" /\ want[r] = None
    BY <1>2, <2>3 DEF Begin, QuietStep, Due
  <2> QED BY <2>1, <2>2, <2>3
<1>3. CASE Resume(r) \/ CreateLlmFails(r) \/ Respond(r)
  BY <1>3 DEF Resume, CreateLlmFails, Respond, QuietStep, Due
<1>4. CASE Router(r)
  <2>1. /\ ckpt.at = "router"
        /\ ckpt' = Route(ckpt)
        /\ history' = history
    BY <1>1, <1>4 DEF Router
  <2> QED BY <1>1, <2>1, RouteKeepsDue DEF QuietStep, CloseStep, Due
<1>5. CASE AgentTurn(r)
  <2>1. /\ ckpt.at = "agent_turn"
        /\ ckpt.cur \in Agent
        /\ ckpt' = AfterTurn(ckpt)
        /\ history' = Append(history, [by |-> ckpt.cur, side |-> IsSide(ckpt)])
    BY <1>1, <1>5 DEF AgentTurn, RecordTurn
  <2>2. CASE IsSide(ckpt)
    <3>1. Due # None
      BY <2>1, AgentsAreAgents, DueIsAgent
    <3>2. IsSide(ckpt) = TRUE
      BY <2>2 DEF IsSide
    <3>3. Due' = Due /\ ckpt'.rounds = ckpt.rounds
      BY <1>1, <2>1, <2>2, AfterTurnDue DEF Due
    <3> QED BY <2>1, <3>1, <3>2, <3>3 DEF SideStep
  <2>3. CASE ~IsSide(ckpt)
    <3>1. IsSide(ckpt) = FALSE /\ ckpt.main = None
      BY <2>3 DEF IsSide
    <3>2. /\ Due = ckpt.cur /\ Due' = Succ(ckpt.cur)
          /\ ckpt'.rounds = IF Succ(ckpt.cur) = 0 THEN ckpt.rounds + 1 ELSE ckpt.rounds
      BY <1>1, <2>1, <2>3, <3>1, AfterTurnDue DEF Due
    <3> QED BY <2>1, <3>1, <3>2 DEF MainStep
  <2> QED BY <2>2, <2>3
<1> QED BY <1>2, <1>3, <1>4, <1>5 DEF RunTurn

LEMMA SerialStep ==
  ASSUME SerialInv, [SerialNext]_vars
  PROVE  \/ CloseStep
         \/ QuietStep
         \/ MainStep
         \/ SideStep
         \/ history' = Append(history, Remark) /\ UNCHANGED ckpt
<1>1. ASSUME NEW r \in Runs, RunTurn(r)
      PROVE  CloseStep \/ QuietStep \/ MainStep \/ SideStep
  BY <1>1, SerialRunTurnStep
<1>2. CASE (\E r \in Runs : Submit(r)) \/ Others \/ UNCHANGED vars
  BY <1>2, NonTurnStep DEF QuietStep, Due
<1> QED BY <1>1, <1>2 DEF SerialNext

\* Requests sent one at a time implement the promise of TurnTaking: no step of
\* the router, the agent node, a save of a checkpoint or a failed invocation
\* makes an agent speak out of turn (RoundRobinRouter.next, agent_turn_node).
THEOREM ImplementsTurnTaking == SerialSpec => TurnTakingHolds
<1>1. Init => Promise!Init
  BY DEF Init, Promise!Init, Due, DueIn, NoCheckpoint, NextInOrder
<1>2. ASSUME SerialInv, [SerialNext]_vars
      PROVE  [Promise!Next]_(Promise!vars)
  <2>1. CASE CloseStep
    BY <2>1 DEF CloseStep, Promise!Next, Promise!Close
  <2>2. CASE QuietStep
    BY <2>2 DEF QuietStep, Promise!vars
  <2>3. CASE MainStep
    <3>1. Promise!MainTurn
      BY <2>3, AgentsAreAgents
         DEF MainStep, Promise!MainTurn, Promise!Turn, Promise!Succ, Succ
    <3> QED BY <3>1 DEF Promise!Next
  <2>4. CASE SideStep
    <3>1. \E a \in Agent : Promise!SideTurn(a)
      BY <2>4 DEF SideStep, Promise!SideTurn, Promise!Turn
    <3> QED BY <3>1 DEF Promise!Next, Promise!Agent, Agent
  <2>5. CASE history' = Append(history, Remark) /\ UNCHANGED ckpt
    BY <2>5 DEF Due, Promise!Next, Promise!Remarks, Promise!Remark, Remark
  <2> QED BY <1>2, <2>1, <2>2, <2>3, <2>4, <2>5, SerialStep
<1> QED BY <1>1, <1>2, SerialInvariance, PTL DEF SerialSpec, TurnTakingHolds, Promise!Spec

(***************************************************************************)
(* The order of the main turns and the two counters.                       *)
(***************************************************************************)

\* Turns and remarks only ever extend the transcript, so what earlier
\* positions say stays as it is; a main turn adds its own position to those of
\* the main turns, a side turn and a remark add none.
LEMMA AppendMain ==
  ASSUME NEW h \in Seq(Entry), NEW e \in Entry
  PROVE  LET g == Append(h, e) IN
         /\ MainTurns(h) \subseteq 1 .. Len(h)
         /\ \A i \in 1 .. Len(h) : g[i] = h[i]
         /\ e.by # Moderator /\ ~e.side => MainTurns(g) = MainTurns(h) \cup {Len(h) + 1}
         /\ e.by = Moderator \/ e.side => MainTurns(g) = MainTurns(h)
         /\ g[Len(h) + 1] = e
         /\ Len(h) \in Nat
<1> DEFINE g == Append(h, e)
<1>1. /\ Len(h) \in Nat
      /\ \A i \in 1 .. Len(h) : g[i] = h[i]
      /\ g[Len(h) + 1] = e
      /\ DOMAIN g = 1 .. Len(h) + 1
      /\ DOMAIN h = 1 .. Len(h)
  OBVIOUS
<1>2. /\ MainTurns(h) \subseteq 1 .. Len(h)
      /\ e.by # Moderator /\ ~e.side => MainTurns(g) = MainTurns(h) \cup {Len(h) + 1}
      /\ e.by = Moderator \/ e.side => MainTurns(g) = MainTurns(h)
  <2> HIDE DEF g
  <2>1. MainTurns(h) = {i \in 1 .. Len(h) : h[i].by # Moderator /\ ~h[i].side}
    BY <1>1 DEF MainTurns, AgentTurns
  <2>2. MainTurns(g) = {i \in 1 .. Len(h) + 1 : g[i].by # Moderator /\ ~g[i].side}
    BY <1>1 DEF MainTurns, AgentTurns
  <2>3. 1 .. Len(h) + 1 = (1 .. Len(h)) \cup {Len(h) + 1}
    BY <1>1
  <2> QED BY <1>1, <2>1, <2>2, <2>3
<1> QED BY <1>1, <1>2

\* Follows looks at the given positions only.
LEMMA FollowsSame ==
  ASSUME NEW g, NEW h, NEW S, NEW a, \A j \in S : g[j] = h[j], Follows(h, S, a)
  PROVE  Follows(g, S, a)
  BY DEF Follows

\* MainTurnsCycle is not inductive: it has to be known where the rotation
\* stands, which is what the graph state says while the graph has not ended.
CycleInv ==
  /\ MainTurnsCycle
  /\ Due # None => Follows(history, MainTurns(history), Due)

LEMMA CycleStep ==
  ASSUME SerialInv, CycleInv, [SerialNext]_vars
  PROVE  CycleInv'
<1>1. history \in Seq(Entry)
  BY DEF SerialInv, EngineInv, TypeOK
<1>2. CASE QuietStep \/ CloseStep
  BY <1>2 DEF QuietStep, CloseStep, CycleInv, MainTurnsCycle
<1>3. ASSUME NEW e \in Entry, e.by = Moderator \/ e.side,
             history' = Append(history, e), Due' = Due
      PROVE  CycleInv'
  <2>1. /\ MainTurns(history') = MainTurns(history)
        /\ \A i \in MainTurns(history) : history'[i] = history[i]
    BY <1>1, <1>3, AppendMain
  <2>2. Due' # None => Follows(history', MainTurns(history'), Due')
    BY <1>3, <2>1, FollowsSame DEF CycleInv
  <2>3. ASSUME NEW i \in MainTurns(history')
        PROVE  Follows(history', {j \in MainTurns(history') : j < i}, history'[i].by)
    <3>1. Follows(history, {j \in MainTurns(history) : j < i}, history[i].by)
      BY <2>1 DEF CycleInv, MainTurnsCycle
    <3> QED BY <2>1, <3>1, FollowsSame
  <2> QED BY <2>2, <2>3 DEF CycleInv, MainTurnsCycle
<1>4. CASE MainStep
  <2> DEFINE n == Len(history) + 1
             e == [by |-> Due, side |-> FALSE]
  <2>1. /\ Due \in Agent
        /\ Due # None
        /\ history' = Append(history, e)
        /\ Due' = Succ(Due)
    BY <1>4, AgentsAreAgents DEF MainStep
  <2>0. e \in Entry /\ e.by = Due /\ e.by # Moderator /\ e.side = FALSE
    BY <2>1, AgentsAreAgents DEF Entry
  <2>2. /\ MainTurns(history') = MainTurns(history) \cup {n}
        /\ MainTurns(history) \subseteq 1 .. Len(history)
        /\ \A i \in MainTurns(history) : history'[i] = history[i]
        /\ history'[n] = e
        /\ Len(history) \in Nat
    <3> HIDE DEF e
    <3> QED BY <1>1, <2>0, <2>1, AppendMain
  <2>3. history'[n].by = Due
    BY <2>2
  <2> HIDE DEF n, e
  <2>4. n = Len(history) + 1
    BY DEF n
  <2>5. Follows(history, MainTurns(history), Due)
    BY <2>1 DEF CycleInv
  <2>6. ASSUME NEW i \in MainTurns(history')
        PROVE  Follows(history', {j \in MainTurns(history') : j < i}, history'[i].by)
    <3>1. CASE i = n
      <4>1. {j \in MainTurns(history') : j < i} = MainTurns(history)
        BY <2>2, <2>4, <3>1
      <4> QED BY <2>2, <2>3, <2>5, <3>1, <4>1 DEF Follows
    <3>2. CASE i # n
      <4>1. i \in MainTurns(history)
        BY <2>2, <3>2
      <4>2. {j \in MainTurns(history') : j < i} = {j \in MainTurns(history) : j < i}
        BY <2>2, <2>4, <4>1
      <4>3. Follows(history, {j \in MainTurns(history) : j < i}, history[i].by)
        BY <4>1 DEF CycleInv, MainTurnsCycle
      <4>4. \A j \in {k \in MainTurns(history) : k < i} : history'[j] = history[j]
        BY <2>2
      <4> QED BY <2>2, <4>1, <4>2, <4>3, <4>4 DEF Follows
    <3> QED BY <3>1, <3>2
  <2>7. IsLast(n, MainTurns(history'))
    BY <2>2, <2>4 DEF IsLast
  <2>8. Follows(history', MainTurns(history'), Due')
    BY <2>1, <2>2, <2>3, <2>7 DEF Follows
  <2> QED BY <2>6, <2>8 DEF CycleInv, MainTurnsCycle
<1>5. CASE SideStep
  <2>1. PICK a \in Agent : history' = Append(history, [by |-> a, side |-> TRUE])
    BY <1>5 DEF SideStep
  <2>2. [by |-> a, side |-> TRUE] \in Entry /\ [by |-> a, side |-> TRUE].side
    BY DEF Entry
  <2> QED BY <1>3, <1>5, <2>1, <2>2 DEF SideStep
<1>6. CASE history' = Append(history, Remark) /\ UNCHANGED ckpt
  <2>1. Remark \in Entry /\ Remark.by = Moderator
    BY DEF Entry, Remark
  <2> QED BY <1>3, <1>6, <2>1 DEF Due
<1> QED BY <1>2, <1>4, <1>5, <1>6, SerialStep

LEMMA CycleInvariance == SerialSpec => []CycleInv
<1>1. Init => CycleInv
  BY DEF Init, CycleInv, MainTurnsCycle, Follows, MainTurns, AgentTurns, Due, DueIn,
         NoCheckpoint, NextInOrder
<1>2. SerialInv /\ CycleInv /\ [SerialNext]_vars => CycleInv'
  BY CycleStep
<1> QED BY <1>1, <1>2, SerialInvariance, PTL DEF SerialSpec

\* Sent one at a time, requests keep the agents' main turns in declaration
\* order, cycling, whatever side conversations, remarks and failed turns come
\* in between (RoundRobinRouter.next, agent_turn_node).
THEOREM MainTurnsInOrder == SerialSpec => []MainTurnsCycle
  BY CycleInvariance, PTL DEF CycleInv

\* When a main turn was the last to be taken, the next_agent of its response
\* is the agent the graph lets speak next: Debate.current_turn and the graph
\* state do not drift apart (record_turn, RoundRobinRouter.next).
THEOREM CountersInStep == SerialSpec => []CountersAgree
<1>1. SerialSpec => Spec
  BY SerialIsNext, PTL DEF SerialSpec, Spec
<1>2. ASSUME SerialInv, CycleInv, CurrentTurnFollowsHistory
      PROVE  CountersAgree
  <2> SUFFICES ASSUME ckpt.at # "end",
                      NEW j \in MainTurns(history), IsLast(j, AgentTurns(history))
               PROVE  currentTurn = Due
    BY DEF CountersAgree
  <2>1. Due # None
    BY <1>2, DueIsAgent, AgentsAreAgents DEF SerialInv
  <2>2. history \in Seq(Entry) /\ AgentTurns(history) \subseteq Nat
    BY <1>2 DEF SerialInv, EngineInv, TypeOK, AgentTurns
  <2>3. MainTurns(history) \subseteq AgentTurns(history)
    BY DEF MainTurns
  <2>4. currentTurn = Succ(history[j].by)
    BY <1>2, <2>2, <2>3 DEF CurrentTurnFollowsHistory, Follows, IsLast
  <2>5. Due = Succ(history[j].by)
    BY <1>2, <2>1, <2>2, <2>3 DEF CycleInv, Follows, IsLast
  <2> QED BY <2>4, <2>5
<1> QED BY <1>1, <1>2, SerialInvariance, CycleInvariance, TurnCounter, PTL

(***************************************************************************)
(* Rounds and their limit.                                                 *)
(***************************************************************************)

\* The rotation in arithmetic: it moves on by one, or wraps to 0 at the end.
LEMMA SuccArith ==
  ASSUME NEW a \in Agent
  PROVE  /\ a + 1 < NumAgents => Succ(a) = a + 1
         /\ a + 1 = NumAgents => Succ(a) = 0
         /\ a + 1 <= NumAgents
  BY EngineAssumption DEF Agent, Succ

\* k complete rounds and d turns of the next one are k complete rounds.
LEMMA CompleteRounds ==
  ASSUME NEW k \in Nat, NEW d \in Agent
  PROVE  (k * NumAgents + d) \div NumAgents = k
<1> DEFINE n == NumAgents
<1>1. n \in Nat /\ n > 0 /\ d \in Nat /\ d < n /\ k * n \in Nat
  BY EngineAssumption DEF Agent
<1> QED BY <1>1

\* RoundsCountMainTurns needs to know where in the rotation the count stands.
RoundInv ==
  /\ IsFiniteSet(MainTurns(history))
  /\ Due # None => Cardinality(MainTurns(history)) = ckpt.rounds * NumAgents + Due
  /\ RoundsCountMainTurns

LEMMA RoundStep ==
  ASSUME SerialInv, RoundInv, [SerialNext]_vars
  PROVE  RoundInv'
<1>1. history \in Seq(Entry) /\ ckpt.rounds \in Nat /\ NumAgents \in Nat \ {0}
  BY EngineAssumption DEF SerialInv, EngineInv, TypeOK, GraphState
<1>2. CASE QuietStep \/ CloseStep
  BY <1>2 DEF QuietStep, CloseStep, RoundInv, RoundsCountMainTurns
<1>3. ASSUME NEW e \in Entry, e.by = Moderator \/ e.side,
             history' = Append(history, e), Due' = Due, ckpt'.rounds = ckpt.rounds
      PROVE  RoundInv'
  <2>1. MainTurns(history') = MainTurns(history)
    BY <1>1, <1>3, AppendMain
  <2> QED BY <1>3, <2>1 DEF RoundInv, RoundsCountMainTurns
<1>4. CASE MainStep
  <2> DEFINE e == [by |-> Due, side |-> FALSE]
             C == Cardinality(MainTurns(history))
  <2>1. /\ Due \in Agent
        /\ Due # None
        /\ history' = Append(history, e)
        /\ Due' = Succ(Due)
        /\ ckpt'.rounds = IF Succ(Due) = 0 THEN ckpt.rounds + 1 ELSE ckpt.rounds
    BY <1>4, AgentsAreAgents DEF MainStep
  <2>2. e \in Entry /\ e.by # Moderator /\ e.side = FALSE
    BY <2>1, AgentsAreAgents DEF Entry
  <2>3. /\ MainTurns(history') = MainTurns(history) \cup {Len(history) + 1}
        /\ Len(history) + 1 \notin MainTurns(history)
    <3> HIDE DEF e
    <3> QED BY <1>1, <2>1, <2>2, AppendMain
  <2>4. /\ IsFiniteSet(MainTurns(history'))
        /\ Cardinality(MainTurns(history')) = C + 1
    BY <2>3, FS_AddElement DEF RoundInv
  <2>5. C = ckpt.rounds * NumAgents + Due
    BY <2>1 DEF RoundInv
  <2>6. Succ(Due) \in Agent
    BY <2>1, SuccIsAgent
  <2>7. C + 1 = ckpt'.rounds * NumAgents + Succ(Due) /\ ckpt'.rounds \in Nat
    <3> DEFINE m == ckpt.rounds * NumAgents
    <3>1. Due \in Nat /\ m \in Nat /\ C = m + Due
      BY <1>1, <2>1, <2>5 DEF Agent
    <3> HIDE DEF C
    <3>2. CASE Due + 1 = NumAgents
      <4>1. Succ(Due) = 0 /\ ckpt'.rounds = ckpt.rounds + 1
        BY <2>1, <3>2, SuccArith
      <4>2. (ckpt.rounds + 1) * NumAgents = m + NumAgents
        BY <1>1
      <4>3. C + 1 = m + NumAgents /\ m + NumAgents = m + NumAgents + 0
        <5> HIDE DEF m
        <5> QED BY <1>1, <3>1, <3>2
      <4> HIDE DEF m
      <4> QED BY <1>1, <4>1, <4>2, <4>3
    <3>3. CASE Due + 1 < NumAgents
      <4>1. Succ(Due) = Due + 1 /\ Succ(Due) # 0 /\ ckpt'.rounds = ckpt.rounds
        BY <2>1, <3>1, <3>3, SuccArith
      <4>2. C + 1 = m + (Due + 1)
        <5> HIDE DEF m
        <5> QED BY <3>1
      <4>3. ckpt'.rounds * NumAgents = m
        BY <4>1
      <4> HIDE DEF m
      <4> QED BY <1>1, <4>1, <4>2, <4>3
    <3> QED BY <1>1, <2>1, <3>1, <3>2, <3>3, SuccArith
  <2>8. ckpt'.rounds = (C + 1) \div NumAgents
    BY <2>6, <2>7, CompleteRounds
  <2> QED BY <2>1, <2>4, <2>7, <2>8 DEF RoundInv, RoundsCountMainTurns
<1>5. CASE SideStep
  <2>1. PICK a \in Agent : history' = Append(history, [by |-> a, side |-> TRUE])
    BY <1>5 DEF SideStep
  <2>2. [by |-> a, side |-> TRUE] \in Entry /\ [by |-> a, side |-> TRUE].side
    BY DEF Entry
  <2> QED BY <1>3, <1>5, <2>1, <2>2 DEF SideStep
<1>6. CASE history' = Append(history, Remark) /\ UNCHANGED ckpt
  <2>1. Remark \in Entry /\ Remark.by = Moderator
    BY DEF Entry, Remark
  <2> QED BY <1>3, <1>6, <2>1 DEF Due
<1> QED BY <1>2, <1>4, <1>5, <1>6, SerialStep

\* Sent one at a time, requests leave round_count at the number of complete
\* rotations of main turns: side turns and failed turns do not count, and no
\* main turn is missed (agent_turn_node).
THEOREM RoundsExact == SerialSpec => []RoundsCountMainTurns
<1>1. Init => RoundInv
  <2> SUFFICES ASSUME Init PROVE RoundInv
    OBVIOUS
  <2>1. MainTurns(history) = {} /\ ckpt.rounds = 0 /\ Due = 0
    BY DEF Init, MainTurns, AgentTurns, Due, DueIn, NoCheckpoint, NextInOrder
  <2>2. IsFiniteSet({}) /\ Cardinality({}) = 0
    BY FS_EmptySet
  <2>3. 0 \div NumAgents = 0 /\ 0 * NumAgents + 0 = 0
    BY EngineAssumption
  <2> QED BY <2>1, <2>2, <2>3 DEF RoundInv, RoundsCountMainTurns
<1>2. SerialInv /\ RoundInv /\ [SerialNext]_vars => RoundInv'
  BY RoundStep
<1>3. RoundInv => RoundsCountMainTurns
  BY DEF RoundInv
<1> QED BY <1>1, <1>2, <1>3, SerialInvariance, PTL DEF SerialSpec

\* The limit is passed only out of a side conversation: a main speaker that is
\* still remembered at the router, or chosen although the limit is reached,
\* means that the last turn was a side turn.
LastIsSide(h) ==
  \E j \in AgentTurns(h) : IsLast(j, AgentTurns(h)) /\ h[j].side

LimitInv ==
  /\ ckpt.at = "router" /\ ckpt.main # None => LastIsSide(history)
  /\ ckpt.at = "agent_turn" /\ ckpt.main = None /\ LimitReached(ckpt)
       => LastIsSide(history)

LEMMA SideTurnIsLast ==
  ASSUME NEW h \in Seq(Entry), NEW a \in Agent,
         NEW g, g = Append(h, [by |-> a, side |-> TRUE])
  PROVE  LastIsSide(g)
<1> DEFINE e == [by |-> a, side |-> TRUE]
<1>1. PICK j \in AgentTurns(g) : IsLast(j, AgentTurns(g)) /\ g[j] = e
  BY LastAfterTurn
<1>2. e.side
  OBVIOUS
<1>3. g[j].side
  <2> HIDE DEF e
  <2> QED BY <1>1, <1>2, Zenon
<1> HIDE DEF e
<1> QED BY <1>1, <1>3, Zenon DEF LastIsSide

LEMMA LimitStep ==
  ASSUME SerialInv, LimitInv, [SerialNext]_vars
  PROVE  LimitInv'
<1> USE DEF SerialInv
<1>1. history \in Seq(Entry)
  BY DEF EngineInv, TypeOK
<1>2. ASSUME UNCHANGED ckpt, history' = history \/ history' = Append(history, Remark)
      PROVE  LimitInv'
  <2>1. LastIsSide(history) => LastIsSide(history')
    BY <1>1, <1>2, LastAfterRemark DEF LastIsSide
  <2> QED BY <1>2, <2>1 DEF LimitInv, LimitReached
<1>3. ASSUME NEW r \in Runs, RunTurn(r)
      PROVE  LimitInv'
  <2>1. /\ graph[r] \in GraphState
        /\ ckpt \in GraphState
        /\ pc[r] \in {"router", "agent_turn"} => graph[r] = ckpt
        /\ pc[r] = "router" => ckpt.at = "router"
        /\ pc[r] = "agent_turn" => ckpt.at = "agent_turn" /\ ckpt.cur \in Agent
    BY DEF EngineInv, TypeOK, GraphOK, OneAtATime
  <2>2. CASE Begin(r)
    <3>1. CASE ckpt.at = "empty"
      <4>1. want[r] \in AgentOrNone /\ AgentTurns(history) = {}
        BY <3>1 DEF EngineInv, TypeOK, GraphOK
      <4>2. ckpt' = InitialState(history, want[r])
        BY <2>2, <3>1 DEF Begin
      <4>3. ckpt'.at = "router" /\ ckpt'.main = None
        BY <4>1, <4>2, InitialStateType
      <4> QED BY <4>3 DEF LimitInv
    <3>2. CASE ckpt.at # "empty"
      <4>1. /\ history' = history
            /\ ckpt' = ckpt \/ ckpt' = [ckpt EXCEPT !.target = want[r]]
        BY <2>2, <3>2 DEF Begin
      <4>2. /\ ckpt'.at = ckpt.at
            /\ ckpt'.main = ckpt.main
            /\ ckpt'.rounds = ckpt.rounds
        BY <2>1, <4>1 DEF GraphState
      <4> QED BY <4>1, <4>2 DEF LimitInv, LimitReached
    <3> QED BY <3>1, <3>2
  <2>3. CASE Resume(r) \/ CreateLlmFails(r) \/ Respond(r)
    BY <1>2, <2>3 DEF Resume, CreateLlmFails, Respond
  <2>4. CASE Router(r)
    <3>1. /\ ckpt.at = "router"
          /\ ckpt' = Route(ckpt)
          /\ history' = history
      BY <2>1, <2>4 DEF Router
    <3>2. ckpt'.at # "router"
      BY <2>1, <3>1, RouteType
    <3>3. ASSUME ckpt'.at = "agent_turn", ckpt'.main = None, LimitReached(ckpt')
          PROVE  ckpt.main # None
      BY <2>1, <3>1, <3>3, RouteKeepsDue DEF LimitReached
    <3> QED BY <3>1, <3>2, <3>3 DEF LimitInv, LimitReached
  <2>5. CASE AgentTurn(r)
    <3>1. /\ ckpt.at = "agent_turn"
          /\ ckpt.cur \in Agent
          /\ ckpt' = AfterTurn(ckpt)
          /\ history' = Append(history, [by |-> ckpt.cur, side |-> IsSide(ckpt)])
      BY <2>1, <2>5 DEF AgentTurn, RecordTurn
    <3>2. ckpt'.at = "router" /\ ckpt'.main = ckpt.main
      BY <2>1, <3>1, AfterTurnDue
    <3>3. ckpt.main # None => IsSide(ckpt) = TRUE
      BY DEF IsSide
    <3>4. ckpt.main # None => LastIsSide(history')
      BY <1>1, <3>1, <3>3, SideTurnIsLast
    <3> QED BY <3>2, <3>4 DEF LimitInv
  <2> QED BY <1>3, <2>2, <2>3, <2>4, <2>5 DEF RunTurn
<1>4. CASE (\E r \in Runs : Submit(r)) \/ Others \/ UNCHANGED vars
  BY <1>2, <1>4, NonTurnStep
<1> QED BY <1>3, <1>4 DEF SerialNext

\* Sent one at a time, requests take a main turn past the round limit only to
\* resume after a side conversation (RoundRobinRouter.next).
THEOREM LimitPassedOnlySo == SerialSpec => LimitPassedOnlyAfterSideTalk
<1>1. Init => LimitInv
  BY DEF Init, LimitInv, NoCheckpoint
<1>2. SerialInv /\ LimitInv /\ [SerialNext]_vars => LimitInv'
  BY LimitStep
<1>3. ASSUME SerialInv, LimitInv, [SerialNext]_vars,
             MaxRounds # None, MainTurns(history') # MainTurns(history),
             ckpt.rounds >= MaxRounds
      PROVE  LastIsSide(history)
  <2>1. history \in Seq(Entry)
    BY <1>3 DEF SerialInv, EngineInv, TypeOK
  <2>2. ASSUME NEW e \in Entry, e.by = Moderator \/ e.side,
               history' = Append(history, e)
        PROVE  FALSE
    BY <1>3, <2>1, <2>2, AppendMain
  <2>3. ~SideStep
    <3>1. ASSUME NEW a \in Agent, history' = Append(history, [by |-> a, side |-> TRUE])
          PROVE  FALSE
      <4>1. [by |-> a, side |-> TRUE] \in Entry /\ [by |-> a, side |-> TRUE].side
        BY DEF Entry
      <4> QED BY <2>2, <3>1, <4>1
    <3> QED BY <3>1 DEF SideStep
  <2>4. history' # Append(history, Remark)
    <3>1. Remark \in Entry /\ Remark.by = Moderator
      BY DEF Entry, Remark
    <3> QED BY <2>2, <3>1
  <2>5. MainStep
    BY <1>3, <2>3, <2>4, SerialStep DEF QuietStep, CloseStep
  <2> QED BY <1>3, <2>5 DEF MainStep, LimitInv, LimitReached
<1>4. SerialInv /\ LimitInv /\ [SerialNext]_vars =>
        [ /\ MaxRounds # None
          /\ MainTurns(history') # MainTurns(history)
          /\ ckpt.rounds >= MaxRounds
          => \E j \in AgentTurns(history) :
                IsLast(j, AgentTurns(history)) /\ history[j].side ]_vars
  BY <1>3 DEF LastIsSide
<1> QED BY <1>1, <1>2, <1>4, SerialInvariance, PTL DEF SerialSpec, LimitPassedOnlyAfterSideTalk

(***************************************************************************)
(* Rounds when requests are concurrent.  A task's checkpoint may overwrite *)
(* that of another, so rounds are lost; but no graph state, in a task or   *)
(* in the checkpoint, is ever ahead of the history.                        *)
(***************************************************************************)
NotAhead(s, h) ==
  /\ s.rounds * NumAgents <= Cardinality(MainTurns(h))
  /\ DueIn(s) # None => s.rounds * NumAgents + DueIn(s) <= Cardinality(MainTurns(h))
  /\ s.action = "end" =>
        MaxRounds \in Nat /\ MaxRounds * NumAgents <= Cardinality(MainTurns(h))

AheadInv ==
  /\ NotAhead(ckpt, history)
  /\ \A r \in Runs : pc[r] \in {"router", "agent_turn"} => NotAhead(graph[r], history)

LEMMA MainTurnsFinite ==
  ASSUME NEW h \in Seq(Entry)
  PROVE  IsFiniteSet(MainTurns(h)) /\ Cardinality(MainTurns(h)) \in Nat
<1>1. MainTurns(h) \subseteq 1 .. Len(h) /\ Len(h) \in Nat
  BY DEF MainTurns, AgentTurns
<1>2. IsFiniteSet(1 .. Len(h))
  BY <1>1, FS_Interval
<1>3. IsFiniteSet(MainTurns(h))
  BY <1>1, <1>2, FS_Subset
<1> QED BY <1>3, FS_CardinalityType

\* Main turns are never taken back.
LEMMA MainTurnsGrow ==
  ASSUME NEW h \in Seq(Entry), NEW e \in Entry
  PROVE  /\ Append(h, e) \in Seq(Entry)
         /\ Cardinality(MainTurns(h)) <= Cardinality(MainTurns(Append(h, e)))
         /\ e.by # Moderator /\ ~e.side =>
               Cardinality(MainTurns(Append(h, e))) = Cardinality(MainTurns(h)) + 1
<1> DEFINE g == Append(h, e)
<1>1. g \in Seq(Entry)
  OBVIOUS
<1>2. /\ e.by # Moderator /\ ~e.side => MainTurns(g) = MainTurns(h) \cup {Len(h) + 1}
      /\ e.by = Moderator \/ e.side => MainTurns(g) = MainTurns(h)
      /\ Len(h) + 1 \notin MainTurns(h)
  BY AppendMain
<1>3. /\ IsFiniteSet(MainTurns(h))
      /\ Cardinality(MainTurns(h)) \in Nat
  BY MainTurnsFinite
<1> HIDE DEF g
<1>4. CASE e.by # Moderator /\ ~e.side
  <2>1. Cardinality(MainTurns(g)) = Cardinality(MainTurns(h)) + 1
    BY <1>2, <1>3, <1>4, FS_AddElement
  <2>2. Cardinality(MainTurns(h)) <= Cardinality(MainTurns(g))
    BY <1>3, <2>1
  <2> QED BY <1>1, <2>1, <2>2 DEF g
<1>5. CASE e.by = Moderator \/ e.side
  BY <1>1, <1>2, <1>3, <1>5 DEF g
<1> QED BY <1>4, <1>5

LEMMA NotAheadLater ==
  ASSUME NEW h \in Seq(Entry), NEW e \in Entry, NEW s \in GraphState, NotAhead(s, h),
         DueIn(s) \in Agent \cup {None}
  PROVE  NotAhead(s, Append(h, e))
<1> DEFINE b == Cardinality(MainTurns(h))
           c == Cardinality(MainTurns(Append(h, e)))
           m == s.rounds * NumAgents
           x == MaxRounds * NumAgents
<1>1. b \in Nat /\ c \in Nat /\ b <= c
  BY MainTurnsFinite, MainTurnsGrow
<1>2. m \in Nat /\ (MaxRounds \in Nat => x \in Nat)
  BY EngineAssumption DEF GraphState
<1>3. DueIn(s) # None => DueIn(s) \in Nat
  BY DEF Agent
<1>4. /\ m <= b
      /\ DueIn(s) # None => m + DueIn(s) <= b
      /\ s.action = "end" => MaxRounds \in Nat /\ x <= b
  BY DEF NotAhead
<1> HIDE DEF b, c, m, x
<1>5. /\ m <= c
      /\ DueIn(s) # None => m + DueIn(s) <= c
      /\ s.action = "end" => MaxRounds \in Nat /\ x <= c
  BY <1>1, <1>2, <1>3, <1>4
<1> QED BY <1>5 DEF NotAhead, b, c, m, x

LEMMA DueType ==
  ASSUME NEW s \in GraphState, s.at = "agent_turn" => s.cur \in Agent
  PROVE  DueIn(s) \in Agent \cup {None}
<1>1. NextInOrder(s) \in Agent
  BY SuccIsAgent, FirstIsAgent DEF NextInOrder, GraphState, AgentOrNone
<1> QED BY <1>1 DEF DueIn, GraphState, AgentOrNone

\* The router ends the graph only when the limit is reached.
LEMMA RouteNotAhead ==
  ASSUME NEW h \in Seq(Entry), NEW s \in GraphState, s.at = "router", NotAhead(s, h)
  PROVE  NotAhead(Route(s), h)
<1>1. /\ Route(s).at = "end" => DueIn(Route(s)) = None
      /\ Route(s).at # "end" => DueIn(Route(s)) = DueIn(s)
      /\ Route(s).rounds = s.rounds
  BY RouteKeepsDue
<1>2. Route(s).action = "end" => LimitReached(s)
  <2>1. \A a, m : Speak(s, a, m).action = "speak"
    BY DEF Speak, GraphState
  <2> QED BY <2>1 DEF Route
<1>3. LimitReached(s) => MaxRounds \in Nat /\ MaxRounds * NumAgents <= s.rounds * NumAgents
  <2> SUFFICES ASSUME LimitReached(s)
               PROVE  MaxRounds \in Nat /\ MaxRounds * NumAgents <= s.rounds * NumAgents
    OBVIOUS
  <2>1. MaxRounds \in Nat /\ s.rounds \in Nat /\ NumAgents \in Nat /\ MaxRounds <= s.rounds
    BY EngineAssumption DEF LimitReached, GraphState
  <2>2. \A a, b, n \in Nat : a <= b => a * n <= b * n
    OBVIOUS
  <2> QED BY <2>1, <2>2
<1> DEFINE b == Cardinality(MainTurns(h))
           m == s.rounds * NumAgents
           x == MaxRounds * NumAgents
<1>4. b \in Nat /\ m \in Nat /\ m <= b /\ (MaxRounds \in Nat => x \in Nat)
  BY MainTurnsFinite, EngineAssumption DEF NotAhead, GraphState
<1>5. LimitReached(s) => MaxRounds \in Nat /\ x <= m
  BY <1>3
<1>6. LimitReached(s) => MaxRounds \in Nat /\ x <= b
  <2> HIDE DEF b, m, x
  <2> QED BY <1>4, <1>5
<1> QED BY <1>1, <1>2, <1>6 DEF NotAhead

\* A main turn adds one to both sides.
LEMMA AfterTurnNotAhead ==
  ASSUME NEW h \in Seq(Entry), NEW s \in GraphState, s.at = "agent_turn", s.cur \in Agent,
         NotAhead(s, h)
  PROVE  NotAhead(AfterTurn(s), Append(h, [by |-> s.cur, side |-> IsSide(s)]))
<1> DEFINE e == [by |-> s.cur, side |-> IsSide(s)]
           g == Append(h, e)
           t == AfterTurn(s)
           d == DueIn(s)
           b == Cardinality(MainTurns(h))
           c == Cardinality(MainTurns(g))
           m == s.rounds * NumAgents
           n == t.rounds * NumAgents
<1>1. /\ IsSide(s) => DueIn(t) = d
      /\ ~IsSide(s) => d = s.cur /\ DueIn(t) = Succ(s.cur)
      /\ t.rounds = IF ~IsSide(s) /\ Succ(s.cur) = 0 THEN s.rounds + 1 ELSE s.rounds
  BY AfterTurnDue
<1>2. t.action = s.action /\ t \in GraphState
  <2>1. t \in GraphState
    BY AfterTurnType
  <2>2. \A k : [s EXCEPT !.rounds = k, !.at = "router"].action = s.action
    BY DEF GraphState
  <2>3. \E k : t = [s EXCEPT !.rounds = k, !.at = "router"]
    BY Zenon DEF AfterTurn
  <2> QED BY <2>1, <2>2, <2>3
<1>3. e \in Entry /\ e.by # Moderator /\ e.side = IsSide(s)
  BY AgentsAreAgents DEF Entry, IsSide
<1>4. /\ b \in Nat /\ c \in Nat /\ b <= c
      /\ ~IsSide(s) => c = b + 1
  <2> HIDE DEF e
  <2> QED BY <1>3, MainTurnsFinite, MainTurnsGrow DEF e
<1>5. NotAhead(s, g)
  <2>1. d \in Agent \cup {None}
    BY DueType
  <2> HIDE DEF e
  <2> QED BY <1>3, <2>1, NotAheadLater
<1>6. CASE IsSide(s)
  BY <1>1, <1>2, <1>5, <1>6 DEF NotAhead
<1>7. CASE ~IsSide(s)
  <2> DEFINE a == s.cur
             N == NumAgents
  <2>1. /\ m \in Nat /\ N \in Nat \ {0} /\ a \in Nat /\ a < N
        /\ (s.rounds + 1) * N = m + N
    BY EngineAssumption DEF GraphState, Agent
  <2>2. m + a <= b
    BY <1>1, <1>7, AgentsAreAgents DEF NotAhead
  <2>3. c = b + 1
    BY <1>4, <1>7
  <2>4. n + DueIn(t) <= c /\ n <= c
    <3>1. CASE a + 1 = N
      <4>1. Succ(a) = 0
        BY <3>1, SuccArith
      <4>2. DueIn(t) = 0 /\ n = m + N
        BY <1>1, <1>7, <2>1, <4>1
      <4> HIDE DEF m, n, a, N, b, c, t
      <4> QED BY <1>4, <2>1, <2>2, <2>3, <3>1, <4>2
    <3>2. CASE a + 1 < N
      <4>1. Succ(a) = a + 1
        BY <3>2, SuccArith
      <4>2. DueIn(t) = a + 1 /\ n = m
        BY <1>1, <1>7, <2>1, <4>1
      <4> HIDE DEF m, n, a, N, b, c, t
      <4> QED BY <1>4, <2>1, <2>2, <2>3, <3>2, <4>2
    <3> HIDE DEF m, n, b, c, t
    <3> QED BY <2>1, <3>1, <3>2
  <2> QED BY <1>2, <1>5, <2>4 DEF NotAhead
<1> QED BY <1>6, <1>7

LEMMA AheadStep ==
  ASSUME EngineInv, AheadInv, [Next]_vars
  PROVE  AheadInv'
<1>1. /\ history \in Seq(Entry) /\ Remark \in Entry
      /\ ckpt \in GraphState
      /\ \A r \in Runs : graph[r] \in GraphState /\ want[r] \in AgentOrNone
      /\ pc \in [Runs -> PC] /\ graph \in [Runs -> GraphState]
  BY DEF EngineInv, TypeOK, Remark, Entry
<1>2. /\ DueIn(ckpt) \in Agent \cup {None}
      /\ \A r \in Runs : pc[r] \in {"router", "agent_turn"} =>
            DueIn(graph[r]) \in Agent \cup {None}
  BY <1>1, DueType DEF EngineInv, GraphOK
<1>3. ASSUME NEW e \in Entry
      PROVE  /\ NotAhead(ckpt, Append(history, e))
             /\ \A r \in Runs : pc[r] \in {"router", "agent_turn"} =>
                   NotAhead(graph[r], Append(history, e))
  BY <1>1, <1>2, NotAheadLater DEF AheadInv
<1>4. CASE (\E r \in Runs : Submit(r)) \/ Others \/ UNCHANGED vars
  <2>1. /\ UNCHANGED <<ckpt, graph>>
        /\ history' = history \/ history' = Append(history, Remark)
    BY <1>4, NonTurnStep
  <2>2. \A r \in Runs : pc'[r] \in {"router", "agent_turn"} => pc[r] = pc'[r]
    <3>1. ASSUME NEW q \in Runs, Submit(q)
          PROVE  \A r \in Runs : pc'[r] \in {"router", "agent_turn"} => pc[r] = pc'[r]
      BY <1>1, <3>1 DEF Submit, NextTurn, Inject, Spawn, RejectWith
    <3>2. Others \/ UNCHANGED vars => pc' = pc
      BY DEF Others, Announce, Stop, Repair, vars
    <3> QED BY <1>4, <3>1, <3>2
  <2>3. /\ NotAhead(ckpt, history')
        /\ \A r \in Runs : pc[r] \in {"router", "agent_turn"} => NotAhead(graph[r], history')
    BY <1>1, <1>3, <2>1 DEF AheadInv
  <2> QED BY <2>1, <2>2, <2>3 DEF AheadInv
<1>5. ASSUME NEW r \in Runs, NEW s \in GraphState, NotAhead(s, history'),
             history' = history \/ (\E e \in Entry : history' = Append(history, e)),
             ckpt' \in {ckpt, s},
             \A q \in Runs : q # r => pc'[q] = pc[q] /\ graph'[q] = graph[q],
             pc'[r] \in {"router", "agent_turn"} => graph'[r] = s
      PROVE  AheadInv'
  <2>1. /\ NotAhead(ckpt, history')
        /\ \A q \in Runs : pc[q] \in {"router", "agent_turn"} => NotAhead(graph[q], history')
    BY <1>3, <1>5 DEF AheadInv
  <2> QED BY <1>5, <2>1 DEF AheadInv
<1>6. ASSUME NEW r \in Runs, RunTurn(r)
      PROVE  AheadInv'
  <2>1. CASE Begin(r) /\ ckpt.at = "empty"
    <3> DEFINE s == InitialState(history, want[r])
    <3>1. AgentTurns(history) = {} /\ MainTurns(history) = {}
      BY <2>1 DEF EngineInv, GraphOK, MainTurns
    <3>2. s \in GraphState /\ s.at = "router" /\ s.cur = None /\ s.main = None
      BY <1>1, <3>1, InitialStateType
    <3>3. Cardinality({}) = 0 /\ 0 \div NumAgents = 0 /\ 0 * NumAgents = 0
      BY FS_EmptySet, EngineAssumption
    <3>4. s.rounds = 0 /\ s.action = "speak"
      BY <3>1, <3>3 DEF InitialState
    <3>5. /\ ckpt' = s /\ graph' = [graph EXCEPT ![r] = s]
          /\ pc' = [pc EXCEPT ![r] = "router"] /\ history' = history
      BY <2>1 DEF Begin
    <3> HIDE DEF s
    <3>6. DueIn(s) = 0
      BY <3>2 DEF DueIn, NextInOrder
    <3>7. NotAhead(s, history')
      <4>1. /\ Cardinality(MainTurns(history')) = 0
            /\ s.rounds * NumAgents = 0
            /\ s.rounds * NumAgents + DueIn(s) = 0
        <5>1. MainTurns(history') = {}
          BY <3>1, <3>5
        <5>2. Cardinality(MainTurns(history')) = 0
          BY <3>3, <5>1
        <5>3. 0 * NumAgents = 0 /\ 0 + 0 = 0
          BY EngineAssumption
        <5>4. s.rounds * NumAgents = 0
          BY <3>4, <5>3
        <5> QED BY <3>6, <5>2, <5>3, <5>4
      <4>2. s.action # "end"
        BY <3>4
      <4> QED BY <4>1, <4>2 DEF NotAhead
    <3> QED BY <1>1, <1>5, <3>2, <3>5, <3>7
  <2>2. CASE Begin(r) /\ ckpt.at # "empty" /\ want[r] # None
    <3> DEFINE s == [ckpt EXCEPT !.target = want[r]]
    <3>1. /\ s \in GraphState
          /\ s.at = ckpt.at /\ s.main = ckpt.main /\ s.cur = ckpt.cur
          /\ s.rounds = ckpt.rounds /\ s.action = ckpt.action
      BY <1>1 DEF GraphState
    <3>2. /\ ckpt' = s /\ pc' = [pc EXCEPT ![r] = "resume"]
          /\ UNCHANGED <<history, graph>>
      BY <2>2 DEF Begin
    <3> HIDE DEF s
    <3>3. DueIn(s) = DueIn(ckpt)
      BY <3>1 DEF DueIn, NextInOrder
    <3>4. NotAhead(s, history')
      BY <3>1, <3>2, <3>3 DEF AheadInv, NotAhead
    <3> QED BY <1>1, <1>5, <3>1, <3>2, <3>4
  <2>3. CASE (Begin(r) /\ ckpt.at # "empty" /\ want[r] = None) \/ Resume(r)
    <3>1. LoadCheckpoint(r) /\ UNCHANGED <<history, ckpt>>
      BY <2>3 DEF Begin, Resume
    <3>2. NotAhead(ckpt, history')
      BY <3>1 DEF AheadInv
    <3> QED BY <1>1, <1>5, <3>1, <3>2 DEF LoadCheckpoint
  <2>4. CASE Router(r)
    <3> DEFINE s == Route(graph[r])
    <3>1. pc[r] = "router" /\ graph[r].at = "router"
      BY <2>4 DEF Router, EngineInv, GraphOK
    <3>2. s \in GraphState /\ NotAhead(s, history)
      BY <1>1, <3>1, RouteType, RouteNotAhead DEF AheadInv
    <3>3. /\ ckpt' = s /\ graph' = [graph EXCEPT ![r] = s] /\ history' = history
          /\ \A q \in Runs : q # r => pc'[q] = pc[q]
      BY <1>1, <2>4 DEF Router
    <3> HIDE DEF s
    <3> QED BY <1>1, <1>5, <3>2, <3>3
  <2>5. CASE AgentTurn(r)
    <3> DEFINE s == AfterTurn(graph[r])
               e == [by |-> graph[r].cur, side |-> IsSide(graph[r])]
    <3>1. pc[r] = "agent_turn" /\ graph[r].at = "agent_turn" /\ graph[r].cur \in Agent
      BY <2>5 DEF AgentTurn, EngineInv, GraphOK
    <3>2. s \in GraphState /\ NotAhead(s, Append(history, e))
      BY <1>1, <3>1, AfterTurnType, AfterTurnNotAhead DEF AheadInv
    <3>3. e \in Entry
      BY <3>1 DEF Entry, IsSide
    <3>4. /\ ckpt' = s /\ graph' = [graph EXCEPT ![r] = s]
          /\ history' = Append(history, e)
          /\ \A q \in Runs : q # r => pc'[q] = pc[q]
      BY <1>1, <2>5 DEF AgentTurn, RecordTurn
    <3> HIDE DEF s, e
    <3> QED BY <1>1, <1>5, <3>2, <3>3, <3>4
  <2>6. CASE CreateLlmFails(r) \/ Respond(r)
    <3>1. /\ UNCHANGED <<history, ckpt, graph>>
          /\ pc' = [pc EXCEPT ![r] = "idle"]
      BY <2>6 DEF CreateLlmFails, Respond
    <3> QED BY <1>1, <3>1 DEF AheadInv
  <2> QED BY <1>6, <2>1, <2>2, <2>3, <2>4, <2>5, <2>6 DEF RunTurn, Begin
<1> QED BY <1>4, <1>6 DEF Next

\* However many requests run at the same time, the limit never ends a debate
\* early: round_count is at most the number of complete rotations in the history
\* (agent_turn_node, RoundRobinRouter.next).
THEOREM LimitNotEarly == Spec => []NeverEndsEarly
<1>1. Init => AheadInv
  <2> SUFFICES ASSUME Init PROVE AheadInv
    OBVIOUS
  <2>1. /\ MainTurns(history) = {} /\ ckpt.rounds = 0 /\ ckpt.action = "speak"
        /\ DueIn(ckpt) = 0
    BY DEF Init, MainTurns, AgentTurns, DueIn, NoCheckpoint, NextInOrder
  <2>2. Cardinality({}) = 0 /\ 0 * NumAgents = 0
    BY FS_EmptySet, EngineAssumption
  <2>3. NotAhead(ckpt, history)
    BY <2>1, <2>2 DEF NotAhead
  <2> QED BY <2>3 DEF Init, AheadInv
<1>2. EngineInv /\ AheadInv /\ [Next]_vars => AheadInv'
  BY AheadStep
<1>3. AheadInv => NeverEndsEarly
  BY DEF AheadInv, NotAhead, NeverEndsEarly
<1> QED BY <1>1, <1>2, <1>3, EngineInvariance, PTL DEF Spec

=============================================================================
