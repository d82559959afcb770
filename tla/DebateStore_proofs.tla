------------------------- MODULE DebateStore_proofs -------------------------
(***************************************************************************)
(* Proofs about DebateStore: saves, loads and restarts at any moment keep  *)
(* the types, the turn counter of every debate and every file, and, as     *)
(* long as there is no side conversation, the order of the main turns and  *)
(* the place at which a loaded debate goes on.                             *)
(***************************************************************************)
EXTENDS DebateStore, DebateEngine_proofs

(***************************************************************************)
(* Histories.                                                              *)
(***************************************************************************)

Cycles(h) ==
  \A i \in MainTurns(h) : Follows(h, {j \in MainTurns(h) : j < i}, h[i].by)

\* A number of complete rotations and the turns of those before agent c.
Counted(h, k, c) == Cardinality(AgentTurns(h)) = k * NumAgents + c

\* What is known of a history and a turn counter that were written together.
Counter(h, c) == Follows(h, AgentTurns(h), c)
Orderly(h, c) == NoSideTalk(h) => Cycles(h) /\ \E k \in Nat : Counted(h, k, c)
Sound(h, c) == Counter(h, c) /\ Orderly(h, c)

\* The agents' entries of a history can be counted.
LEMMA TurnsFinite ==
  ASSUME NEW h \in Seq(Entry)
  PROVE  /\ IsFiniteSet(AgentTurns(h))
         /\ Cardinality(AgentTurns(h)) \in Nat
         /\ AgentTurns(h) \subseteq 1 .. Len(h)
         /\ Len(h) \in Nat
<1>1. AgentTurns(h) \subseteq 1 .. Len(h) /\ Len(h) \in Nat
  BY DEF AgentTurns
<1>2. IsFiniteSet(1 .. Len(h))
  BY <1>1, FS_Interval
<1>3. IsFiniteSet(AgentTurns(h))
  BY <1>1, <1>2, FS_Subset
<1> QED BY <1>1, <1>3, FS_CardinalityType

\* The first graph state after a load, or of a new debate: a debate whose
\* counter is right is due for the agent at the counter.
LEMMA InitialStateResumes ==
  ASSUME NEW h \in Seq(Entry), NEW c \in Agent, Counter(h, c), NEW t \in AgentOrNone
  PROVE  LET s == InitialState(h, t) IN
         /\ s \in GraphState
         /\ s.at = "router"
         /\ DueIn(s) = c
         /\ s.rounds = Cardinality(AgentTurns(h)) \div NumAgents
<1> DEFINE S == AgentTurns(h)
           cur == IF S = {} THEN None ELSE h[Max(S)].by
           k == Cardinality(S) \div NumAgents
           s == InitialState(h, t)
<1>1. Cardinality(S) \in Nat /\ S \subseteq Nat
  BY TurnsFinite
<1>2. k \in Nat
  <2> DEFINE n == Cardinality(S)
  <2>1. n \in Nat /\ NumAgents \in Nat \ {0}
    BY <1>1, EngineAssumption
  <2> HIDE DEF n
  <2>2. n \div NumAgents \in Nat
    BY <2>1
  <2> QED BY <2>2 DEF n
<1>3. CASE S = {}
  <2>1. cur = None /\ c = 0
    BY <1>3 DEF Counter, Follows
  <2>2. s = [cur |-> None, target |-> t, main |-> None, rounds |-> k,
             action |-> "speak", at |-> "router"]
    BY <1>3 DEF InitialState
  <2> HIDE DEF s, k
  <2>3. s \in GraphState
    BY <1>2, <2>2 DEF GraphState, AgentOrNone
  <2>4. s.at = "router" /\ s.cur = None /\ s.main = None /\ s.rounds = k
    BY <2>2
  <2>5. DueIn(s) = c
    BY <2>1, <2>4 DEF DueIn, NextInOrder
  <2> QED BY <2>3, <2>4, <2>5 DEF s, k
<1>4. CASE S # {}
  <2>1. PICK j \in S : IsLast(j, S) /\ c = Succ(h[j].by)
    BY <1>4 DEF Counter, Follows
  <2>2. Max(S) = j
    BY <1>1, <2>1 DEF Max, IsLast
  <2>3. h[j].by \in Agent /\ h[j].by # None
    <3>1. j \in 1 .. Len(h) /\ h[j].by # Moderator
      BY <2>1 DEF AgentTurns
    <3>2. h[j] \in Entry
      BY <3>1
    <3> QED BY <3>1, <3>2, AgentsAreAgents DEF Entry
  <2> DEFINE a == h[j].by
  <2>4. s = [cur |-> a, target |-> t, main |-> None, rounds |-> k,
             action |-> "speak", at |-> "router"]
    BY <1>4, <2>2 DEF InitialState
  <2>5. c = Succ(a) /\ a \in Agent /\ a # None
    BY <2>1, <2>3
  <2> HIDE DEF s, k, a
  <2>6. s \in GraphState
    BY <1>2, <2>4, <2>5 DEF GraphState, AgentOrNone
  <2>7. s.at = "router" /\ s.cur = a /\ s.main = None /\ s.rounds = k
    BY <2>4
  <2>8. DueIn(s) = c
    BY <2>5, <2>7 DEF DueIn, NextInOrder
  <2> QED BY <2>6, <2>7, <2>8 DEF s, k
<1> QED BY <1>3, <1>4

\* A new debate.
LEMMA EmptyHistory == Sound(<<>>, 0)
<1>1. AgentTurns(<<>>) = {} /\ MainTurns(<<>>) = {}
  BY DEF AgentTurns, MainTurns
<1>2. Cardinality({}) = 0 /\ 0 = 0 * NumAgents + 0
  BY FS_EmptySet, EngineAssumption
<1>3. Counted(<<>>, 0, 0)
  BY <1>1, <1>2 DEF Counted
<1>4. Counter(<<>>, 0) /\ Cycles(<<>>)
  BY <1>1 DEF Counter, Follows, Cycles
<1> QED BY <1>3, <1>4 DEF Sound, Orderly

\* A remark of the moderator leaves everything about turns as it is.
LEMMA RemarkKeepsSound ==
  ASSUME NEW h \in Seq(Entry), NEW c, NEW k
  PROVE  LET g == Append(h, Remark) IN
         /\ g \in Seq(Entry)
         /\ NoSideTalk(g) <=> NoSideTalk(h)
         /\ Sound(h, c) => Sound(g, c)
         /\ Counted(h, k, c) => Counted(g, k, c)
<1> DEFINE g == Append(h, Remark)
<1>1. Remark \in Entry /\ Remark.by = Moderator /\ ~Remark.side
  BY DEF Entry, Remark
<1>2. /\ g \in Seq(Entry)
      /\ DOMAIN g = 1 .. Len(h) + 1 /\ DOMAIN h = 1 .. Len(h) /\ Len(h) \in Nat
      /\ \A i \in 1 .. Len(h) : g[i] = h[i]
      /\ g[Len(h) + 1] = Remark
  BY <1>1
<1>3. /\ AgentTurns(g) = AgentTurns(h)
      /\ MainTurns(g) = MainTurns(h)
      /\ AgentTurns(h) \subseteq 1 .. Len(h) /\ MainTurns(h) \subseteq 1 .. Len(h)
  <2>1. MainTurns(g) = MainTurns(h)
    BY <1>1, AppendMain
  <2>2. AgentTurns(g) = AgentTurns(h) /\ AgentTurns(h) \subseteq 1 .. Len(h)
    BY <1>2, AppendRemark DEF AgentTurns
  <2> QED BY <2>1, <2>2 DEF MainTurns
<1> HIDE DEF g
<1>4. NoSideTalk(g) <=> NoSideTalk(h)
  BY <1>1, <1>2 DEF NoSideTalk
<1>5. Counter(h, c) => Counter(g, c)
  BY <1>2, <1>3 DEF Counter, Follows
<1>6. ASSUME Cycles(h), NEW i \in MainTurns(g)
      PROVE  Follows(g, {j \in MainTurns(g) : j < i}, g[i].by)
  <2>1. Follows(h, {j \in MainTurns(h) : j < i}, h[i].by) /\ g[i].by = h[i].by
    BY <1>2, <1>3, <1>6 DEF Cycles
  <2>2. \A j \in {m \in MainTurns(h) : m < i} : g[j] = h[j]
    BY <1>2, <1>3
  <2> QED BY <1>3, <2>1, <2>2, FollowsSame
<1> QED BY <1>2, <1>3, <1>4, <1>5, <1>6 DEF g, Sound, Orderly, Counted, Cycles

\* A turn, whatever it is, makes the counter right.
LEMMA TurnSetsCounter ==
  ASSUME NEW h \in Seq(Entry), NEW a \in Agent, NEW b \in BOOLEAN
  PROVE  LET g == Append(h, [by |-> a, side |-> b]) IN
         /\ g \in Seq(Entry)
         /\ Counter(g, Succ(a))
         /\ NoSideTalk(g) => NoSideTalk(h) /\ ~b
<1> DEFINE e == [by |-> a, side |-> b]
           g == Append(h, e)
<1>1. e \in Entry /\ e.by = a /\ e.side = b
  BY DEF Entry
<1>2. /\ g \in Seq(Entry)
      /\ DOMAIN g = 1 .. Len(h) + 1 /\ DOMAIN h = 1 .. Len(h) /\ Len(h) \in Nat
      /\ \A i \in 1 .. Len(h) : g[i] = h[i]
      /\ g[Len(h) + 1] = e
  BY <1>1
<1>3. PICK j \in AgentTurns(g) : IsLast(j, AgentTurns(g)) /\ g[j] = e
  BY LastAfterTurn
<1> HIDE DEF e, g
<1>4. Counter(g, Succ(a))
  BY <1>1, <1>3 DEF Counter, Follows
<1>5. NoSideTalk(g) => NoSideTalk(h) /\ ~b
  BY <1>1, <1>2 DEF NoSideTalk
<1> QED BY <1>2, <1>4, <1>5 DEF g, e

\* A main turn of the agent at the counter goes on with the rotation.
LEMMA MainTurnKeepsSound ==
  ASSUME NEW h \in Seq(Entry), NEW c \in Agent, Sound(h, c), NoSideTalk(h),
         NEW k \in Nat, Counted(h, k, c)
  PROVE  LET g == Append(h, [by |-> c, side |-> FALSE])
             n == IF Succ(c) = 0 THEN k + 1 ELSE k
         IN  Sound(g, Succ(c)) /\ Counted(g, n, Succ(c))
<1> DEFINE e == [by |-> c, side |-> FALSE]
           g == Append(h, e)
           n == IF Succ(c) = 0 THEN k + 1 ELSE k
           p == Len(h) + 1
<1>1. e \in Entry /\ e.by = c /\ ~e.side /\ e.by # Moderator
  BY AgentsAreAgents DEF Entry
<1>2. /\ Len(h) \in Nat
      /\ \A i \in 1 .. Len(h) : g[i] = h[i]
      /\ g[p] = e
      /\ MainTurns(g) = MainTurns(h) \cup {p}
      /\ MainTurns(h) \subseteq 1 .. Len(h)
  BY <1>1, AppendMain
<1>3. MainTurns(h) = AgentTurns(h)
  BY DEF NoSideTalk, MainTurns, AgentTurns
<1>4. AgentTurns(g) = AgentTurns(h) \cup {p}
  BY AppendTurn
<1>5. Counter(g, Succ(c))
  BY TurnSetsCounter
<1>6. p = Len(h) + 1
  OBVIOUS
<1>7. Counted(g, n, Succ(c)) /\ n \in Nat
  <2>1. /\ IsFiniteSet(AgentTurns(h))
        /\ p \notin AgentTurns(h)
        /\ Cardinality(AgentTurns(h)) \in Nat
    BY <1>2, <1>3, TurnsFinite
  <2>2. Cardinality(AgentTurns(g)) = Cardinality(AgentTurns(h)) + 1
    BY <1>4, <2>1, FS_AddElement
  <2>3. Cardinality(AgentTurns(g)) = k * NumAgents + c + 1
    BY <2>1, <2>2 DEF Counted, Agent
  <2> DEFINE m == k * NumAgents
             N == NumAgents
  <2>4. c \in Nat /\ N \in Nat /\ m \in Nat /\ (k + 1) * N = m + N /\ c < N
    BY EngineAssumption DEF Agent
  <2> HIDE DEF g
  <2>5. CASE c + 1 = N
    <3>1. Succ(c) = 0
      BY <2>5, SuccArith
    <3>2. n = k + 1 /\ n * N = m + N
      BY <2>4, <3>1
    <3>3. Cardinality(AgentTurns(g)) = m + N + 0
      <4> HIDE DEF m
      <4> QED BY <2>3, <2>4, <2>5 DEF m
    <3> QED BY <2>4, <3>1, <3>2, <3>3 DEF Counted
  <2>6. CASE c + 1 < N
    <3>1. Succ(c) = c + 1 /\ Succ(c) # 0
      BY <2>4, <2>6, SuccArith
    <3>2. n = k
      BY <3>1
    <3> QED BY <2>3, <2>4, <3>1, <3>2 DEF Counted
  <2> QED BY <2>4, <2>5, <2>6
<1> HIDE DEF e, g, n, p
<1>8. ASSUME NEW i \in MainTurns(g)
      PROVE  Follows(g, {j \in MainTurns(g) : j < i}, g[i].by)
  <2>1. CASE i = p
    <3>1. {j \in MainTurns(g) : j < i} = MainTurns(h)
      BY <1>2, <1>6, <2>1
    <3>2. Follows(h, MainTurns(h), c) /\ g[i].by = c
      BY <1>1, <1>2, <1>3, <2>1 DEF Sound, Counter
    <3>3. \A j \in MainTurns(h) : g[j] = h[j]
      BY <1>2
    <3> QED BY <3>1, <3>2, <3>3, FollowsSame
  <2>2. CASE i # p
    <3>1. i \in MainTurns(h)
      BY <1>2, <2>2
    <3>2. {j \in MainTurns(g) : j < i} = {j \in MainTurns(h) : j < i}
      BY <1>2, <1>6, <3>1
    <3>3. Follows(h, {j \in MainTurns(h) : j < i}, h[i].by)
      BY <3>1 DEF Sound, Orderly, Cycles
    <3>4. \A j \in {m \in MainTurns(h) : m < i} : g[j] = h[j]
      BY <1>2
    <3>5. g[i].by = h[i].by
      BY <1>2, <3>1
    <3> QED BY <3>2, <3>3, <3>4, <3>5, FollowsSame
  <2> QED BY <2>1, <2>2
<1>9. Cycles(g)
  BY <1>8 DEF Cycles
<1> QED BY <1>5, <1>7, <1>9 DEF g, n, e, Sound, Orderly

(***************************************************************************)
(* The invariant.  GraphOK of the engine says that a graph nothing was     *)
(* written to belongs to a debate nobody has spoken in; /load makes that   *)
(* wrong, so only the rest of it is kept.  What replaces it is that the    *)
(* counter and the history of the debate, and of every file, agree.        *)
(***************************************************************************)
TasksOK ==
  /\ ckpt.at = "agent_turn" => ckpt.cur \in Agent
  /\ \A r \in Runs :
        /\ pc[r] \notin {"idle", "start"} => ckpt.at # "empty"
        /\ pc[r] = "agent_turn" => graph[r].cur \in Agent /\ graph[r].at = "agent_turn"
        /\ pc[r] = "router" => graph[r].at = "router"

\* Without side conversations the graph is due for the agent at the counter, and
\* has counted the rotations.
InPlace ==
  NoSideTalk(history) /\ ckpt.at \notin {"empty", "end"} =>
    Due = currentTurn /\ Counted(history, ckpt.rounds, currentTurn)

DebateInv ==
  /\ TypeOK /\ TasksOK /\ OneAtATime
  /\ Sound(history, currentTurn)
  /\ InPlace

\* The debate that is registered has a file of its own.
FilesInv ==
  /\ files \in [Files -> Saved \cup {NoFile, Torn}]
  /\ home \in Files \cup {NoFile}
  /\ live \in BOOLEAN
  /\ orphans \subseteq Runs
  /\ live => home \in Files
  /\ \A f \in Files : files[f] \in Saved => Sound(files[f].history, files[f].currentTurn)

StoreInv == DebateInv /\ FilesInv

\* A graph something was written to is as the engine's own proof has it.
LEMMA WrittenGraph == DebateInv /\ ckpt.at # "empty" => SerialInv
  BY DEF DebateInv, TasksOK, SerialInv, EngineInv, GraphOK

\* A debate with a new engine, whatever was read or made.
LEMMA FreshDebate ==
  ASSUME FreshEngine, status' \in {"active", "ended"}, history' \in Seq(Entry),
         currentTurn' \in Agent, Sound(history', currentTurn'),
         broken' \in SUBSET Agent
  PROVE  DebateInv'
<1>1. NoCheckpoint \in GraphState /\ NoCheckpoint.at = "empty"
  BY DEF NoCheckpoint, GraphState, AgentOrNone
<1>2. NoReply \in Reply
  BY DEF NoReply, Reply, AgentOrNone
<1>3. TypeOK'
  BY <1>1, <1>2 DEF FreshEngine, TypeOK, PC, AgentOrNone
<1>4. TasksOK' /\ OneAtATime' /\ InPlace'
  BY <1>1 DEF FreshEngine, TasksOK, OneAtATime, InPlace
<1>5. (Sound(history, currentTurn))'
  OBVIOUS
<1> QED BY <1>3, <1>4, <1>5 DEF DebateInv

LEMMA DebateInvInit == Init => DebateInv
<1> SUFFICES ASSUME Init PROVE DebateInv
  OBVIOUS
<1>1. EngineInv
  BY EngineInvInit
<1>2. Sound(history, currentTurn)
  BY EmptyHistory DEF Init
<1>3. OneAtATime /\ InPlace
  BY DEF Init, OneAtATime, InPlace, NoCheckpoint
<1> QED BY <1>1, <1>2, <1>3 DEF EngineInv, GraphOK, TasksOK, DebateInv

(***************************************************************************)
(* Steps of the engine.                                                    *)
(***************************************************************************)

\* Handlers and steps that are not the engine's.
LEMMA HandlersKeep ==
  ASSUME DebateInv, [SerialNext]_vars,
         (\E r \in Runs : Submit(r)) \/ Others \/ UNCHANGED vars
  PROVE  DebateInv'
<1>1. history \in Seq(Entry) /\ Remark \in Entry
  BY DEF DebateInv, TypeOK, Remark, Entry
<1>2. /\ UNCHANGED <<ckpt, currentTurn, graph>>
      /\ history' = history \/ history' = Append(history, Remark)
  BY NonTurnStep
<1>3. /\ history' \in Seq(Entry)
      /\ NoSideTalk(history') <=> NoSideTalk(history)
      /\ Sound(history', currentTurn')
      /\ \A k \in Nat : Counted(history, k, currentTurn) => Counted(history', k, currentTurn')
  BY <1>1, <1>2, RemarkKeepsSound DEF DebateInv
<1>4. OneAtATime'
  BY OneAtATimeStep DEF DebateInv
<1>5. TypeOK' /\ TasksOK'
  <2>1. ErrorReply \in Reply /\ NoReply \in Reply
    BY DEF NoReply, ErrorReply, Reply, AgentOrNone
  <2>2. CASE \E r \in Runs : Submit(r)
    <3>1. PICK r \in Runs : Submit(r)
      BY <2>2
    <3>2. CASE NextTurn(r)
      BY <1>2, <1>3, <2>1, <3>2
         DEF NextTurn, Spawn, RejectWith, DebateInv, TypeOK, TasksOK, PC, AgentOrNone
    <3>3. ASSUME NEW t \in AgentOrNone, NEW b \in BOOLEAN, Inject(r, t, b)
          PROVE  TypeOK' /\ TasksOK'
      BY <1>2, <1>3, <2>1, <3>3
         DEF Inject, Spawn, RejectWith, DebateInv, TypeOK, TasksOK, PC, AgentOrNone
    <3> QED BY <3>1, <3>2, <3>3 DEF Submit
  <2>3. CASE Others
    BY <1>2, <1>3, <2>3
       DEF Others, Announce, Stop, Repair, DebateInv, TypeOK, TasksOK
  <2>4. CASE UNCHANGED vars
    BY <2>4 DEF vars, DebateInv, TypeOK, TasksOK
  <2> QED BY <2>2, <2>3, <2>4
<1>6. InPlace'
  <2>1. ckpt.rounds \in Nat
    BY DEF DebateInv, TypeOK, GraphState
  <2> QED BY <1>2, <1>3, <2>1 DEF DebateInv, InPlace, Due
<1>7. (Sound(history, currentTurn))'
  BY <1>3
<1> QED BY <1>4, <1>5, <1>6, <1>7 DEF DebateInv

\* A task on a graph nothing was written to is at its start, and builds the
\* first graph state from the history.
LEMMA FirstStateKeeps ==
  ASSUME DebateInv, NEW r \in Runs, RunTurn(r), ckpt.at = "empty"
  PROVE  DebateInv'
<1>1. Begin(r)
  BY DEF RunTurn, Resume, Router, AgentTurn, CreateLlmFails, Respond, DebateInv, TasksOK
<1> DEFINE s == InitialState(history, want[r])
<1>2. /\ history \in Seq(Entry) /\ currentTurn \in Agent /\ want[r] \in AgentOrNone
      /\ Counter(history, currentTurn)
  BY DEF DebateInv, TypeOK, Sound
<1>3. /\ s \in GraphState
      /\ s.at = "router"
      /\ DueIn(s) = currentTurn
      /\ s.rounds = Cardinality(AgentTurns(history)) \div NumAgents
  BY <1>2, InitialStateResumes
<1>4. /\ ckpt' = s
      /\ graph' = [graph EXCEPT ![r] = s]
      /\ pc' = [pc EXCEPT ![r] = "router"]
      /\ UNCHANGED <<status, history, currentTurn, broken, want, reply>>
  BY <1>1 DEF Begin
<1> HIDE DEF s
<1>5. TypeOK' /\ TasksOK'
  BY <1>3, <1>4 DEF DebateInv, TypeOK, TasksOK, PC
<1>6. OneAtATime'
  <2>1. [SerialNext]_vars
    BY DEF SerialNext
  <2> QED BY <2>1, OneAtATimeStep DEF DebateInv
<1>7. InPlace'
  <2>1. SUFFICES ASSUME NoSideTalk(history)
                 PROVE  Counted(history, s.rounds, currentTurn)
    BY <1>3, <1>4 DEF InPlace, Due, Counted
  <2>2. PICK k \in Nat : Counted(history, k, currentTurn)
    BY <2>1 DEF DebateInv, Sound, Orderly
  <2>3. s.rounds = k
    BY <1>2, <1>3, <2>2, CompleteRounds DEF Counted
  <2> QED BY <2>2, <2>3
<1>8. (Sound(history, currentTurn))'
  BY <1>4 DEF DebateInv
<1> QED BY <1>5, <1>6, <1>7, <1>8 DEF DebateInv

\* None is due exactly when the graph has ended.
LEMMA DueWhileOpen ==
  ASSUME NEW s \in GraphState, s.at = "agent_turn" => s.cur \in Agent
  PROVE  s.at = "end" <=> DueIn(s) = None
<1>1. NextInOrder(s) \in Agent
  BY SuccIsAgent, FirstIsAgent DEF NextInOrder, GraphState, AgentOrNone
<1> QED BY <1>1, AgentsAreAgents DEF DueIn

\* A task on a graph that was written to.
LEMMA TaskKeeps ==
  ASSUME DebateInv, NEW r \in Runs, RunTurn(r), ckpt.at # "empty"
  PROVE  DebateInv'
<1>1. SerialInv /\ EngineInv
  BY WrittenGraph DEF SerialInv
<1>2. [SerialNext]_vars /\ [Next]_vars
  BY DEF SerialNext, Next
<1>3. EngineInv'
  BY <1>1, RunTurnKeepsInv
<1>4. TypeOK' /\ TasksOK'
  BY <1>3 DEF EngineInv, GraphOK, TasksOK
<1>5. OneAtATime'
  BY <1>1, <1>2, OneAtATimeStep DEF SerialInv, EngineInv
<1>6. /\ history \in Seq(Entry) /\ currentTurn \in Agent
      /\ ckpt \in GraphState /\ ckpt' \in GraphState
      /\ ckpt.rounds \in Nat
      /\ Sound(history, currentTurn) /\ InPlace
  BY <1>4 DEF DebateInv, TypeOK, GraphState
<1>7. /\ ckpt.at = "end" <=> Due = None
      /\ ckpt'.at = "end" <=> Due' = None
  BY <1>4, <1>6, DueWhileOpen DEF DebateInv, TasksOK, Due
<1>8. ASSUME history' = history PROVE currentTurn' = currentTurn
  <2>1. \A e : Append(history, e) # history
    BY <1>6
  <2> QED BY <1>1, <1>2, <1>8, <2>1, HistoryStep
<1>9. ASSUME NEW a \in Agent, NEW b \in BOOLEAN,
             history' = Append(history, [by |-> a, side |-> b])
      PROVE  currentTurn' = Succ(a)
  <2>1. \A d, e : Append(history, d) = Append(history, e) => d = e
    BY <1>6
  <2>2. Append(history, [by |-> a, side |-> b]) # history
    BY <1>6
  <2>3. [by |-> a, side |-> b].by = a /\ Remark.by = Moderator
    BY DEF Remark
  <2>4. history' # Append(history, Remark)
    BY <1>9, <2>1, <2>3, AgentsAreAgents
  <2>5. PICK c \in Agent, d \in BOOLEAN :
           history' = Append(history, [by |-> c, side |-> d]) /\ currentTurn' = Succ(c)
    BY <1>1, <1>2, <1>9, <2>2, <2>4, HistoryStep
  <2>6. [by |-> c, side |-> d] = [by |-> a, side |-> b]
    BY <1>9, <2>1, <2>5
  <2>7. c = a
    BY <2>6
  <2> QED BY <2>5, <2>7
<1>10. CASE QuietStep \/ CloseStep
  <2>1. UNCHANGED <<history, currentTurn>> /\ ckpt'.rounds = ckpt.rounds
    BY <1>8, <1>10 DEF QuietStep, CloseStep
  <2>2. (Sound(history, currentTurn))'
    BY <1>6, <2>1
  <2>3. InPlace'
    BY <1>6, <1>7, <1>10, <2>1 DEF QuietStep, CloseStep, InPlace, Counted
  <2> QED BY <1>4, <1>5, <2>2, <2>3 DEF DebateInv
<1>11. CASE MainStep
  <2>1. /\ Due \in Agent /\ ckpt.at = "agent_turn"
        /\ history' = Append(history, [by |-> Due, side |-> FALSE])
        /\ Due' = Succ(Due)
        /\ ckpt'.rounds = IF Succ(Due) = 0 THEN ckpt.rounds + 1 ELSE ckpt.rounds
    BY <1>11 DEF MainStep
  <2>2. currentTurn' = Succ(Due)
    BY <1>9, <2>1
  <2>3. Counter(history', currentTurn') /\ (NoSideTalk(history') => NoSideTalk(history))
    BY <1>6, <2>1, <2>2, TurnSetsCounter
  <2>4. ASSUME NoSideTalk(history')
        PROVE  /\ Sound(history', currentTurn')
               /\ Counted(history', ckpt'.rounds, currentTurn')
    <3>1. Due = currentTurn /\ Counted(history, ckpt.rounds, currentTurn)
      BY <1>6, <2>1, <2>3, <2>4 DEF InPlace
    <3> QED BY <1>6, <2>1, <2>2, <2>3, <2>4, <3>1, MainTurnKeepsSound
  <2>5. (Sound(history, currentTurn))'
    BY <2>3, <2>4 DEF Sound, Orderly
  <2>6. InPlace'
    BY <2>1, <2>2, <2>4 DEF InPlace
  <2> QED BY <1>4, <1>5, <2>5, <2>6 DEF DebateInv
<1>12. CASE SideStep
  <2>1. PICK a \in Agent : history' = Append(history, [by |-> a, side |-> TRUE])
    BY <1>12 DEF SideStep
  <2>2. currentTurn' = Succ(a)
    BY <1>9, <2>1
  <2>3. Counter(history', currentTurn')
    BY <1>6, <2>1, <2>2, TurnSetsCounter
  <2>4. ~NoSideTalk(history')
    BY <1>6, <2>1, TurnSetsCounter
  <2>5. (Sound(history, currentTurn))' /\ InPlace'
    BY <2>3, <2>4 DEF Sound, Orderly, InPlace
  <2> QED BY <1>4, <1>5, <2>5 DEF DebateInv
<1> QED BY <1>1, <1>10, <1>11, <1>12, SerialRunTurnStep

LEMMA EngineStepKeeps ==
  ASSUME DebateInv, [SerialNext]_vars
  PROVE  DebateInv'
<1>1. ASSUME NEW r \in Runs, RunTurn(r) PROVE DebateInv'
  BY <1>1, FirstStateKeeps, TaskKeeps
<1> QED BY <1>1, HandlersKeep DEF SerialNext

(***************************************************************************)
(* Commands, and the theorems.                                             *)
(***************************************************************************)

\* What is written to a file is what the debate is.
LEMMA SnapshotSound ==
  ASSUME DebateInv, home \in Files, NEW st \in {"active", "ended"}
  PROVE  /\ Snapshot(st) \in Saved
         /\ Sound(Snapshot(st).history, Snapshot(st).currentTurn)
  BY DEF DebateInv, TypeOK, Snapshot, Saved

LEMMA WriteKeeps ==
  ASSUME DebateInv, FilesInv, live, NEW f \in Files, NEW st \in {"active", "ended"},
         files' = [files EXCEPT ![f] = Snapshot(st)],
         UNCHANGED <<home, live, orphans>>
  PROVE  FilesInv'
<1> DEFINE s == Snapshot(st)
<1>1. s \in Saved /\ Sound(s.history, s.currentTurn)
  BY SnapshotSound DEF FilesInv
<1>2. files' = [files EXCEPT ![f] = s]
  OBVIOUS
<1> HIDE DEF s
<1>3. files' \in [Files -> Saved \cup {NoFile, Torn}]
  BY <1>1, <1>2 DEF FilesInv
<1>4. ASSUME NEW g \in Files, files'[g] \in Saved
      PROVE  Sound(files'[g].history, files'[g].currentTurn)
  BY <1>1, <1>2, <1>4 DEF FilesInv
<1> QED BY <1>3, <1>4 DEF FilesInv

LEMMA StoreStep ==
  ASSUME StoreInv, [StoreNext]_allVars
  PROVE  StoreInv'
<1> USE DEF StoreInv
<1>1. status \in {"active", "ended"}
  BY DEF DebateInv, TypeOK
<1>2. ASSUME [SerialNext]_vars, UNCHANGED storeVars PROVE StoreInv'
  BY <1>2, EngineStepKeeps DEF storeVars, FilesInv
<1>3. ASSUME NEW r \in Runs, StoreSubmit(r) PROVE StoreInv'
  BY <1>2, <1>3 DEF StoreSubmit, SerialNext
<1>4. ASSUME NEW r \in Runs, RunTurn(r), UNCHANGED storeVars PROVE StoreInv'
  BY <1>2, <1>4 DEF SerialNext
<1>5. CASE StoreOthers
  BY <1>2, <1>5 DEF StoreOthers, SerialNext
<1>6. ASSUME NEW r \in Runs, OrphanEnds(r) PROVE StoreInv'
  <2>1. DebateInv'
    BY <1>6, HandlersKeep DEF OrphanEnds
  <2> QED BY <1>6, <2>1 DEF OrphanEnds, FilesInv
<1>7. ASSUME NEW r \in Runs, NotFound(r) PROVE StoreInv'
  <2>1. ErrorReply \in Reply
    BY DEF NoReply, ErrorReply, Reply, AgentOrNone
  <2>2. UNCHANGED <<status, history, currentTurn, ckpt, broken, pc, want, graph, storeVars>>
    BY <1>7 DEF NotFound
  <2>3. TypeOK' /\ TasksOK' /\ OneAtATime' /\ InPlace'
    BY <1>7, <2>1, <2>2 DEF NotFound, DebateInv, TypeOK, TasksOK, OneAtATime, InPlace, Due
  <2>4. (Sound(history, currentTurn))'
    BY <2>2 DEF DebateInv
  <2>5. DebateInv'
    BY <2>3, <2>4 DEF DebateInv
  <2> QED BY <2>2, <2>5 DEF storeVars, FilesInv
<1>8. CASE Save
  <2>1. DebateInv'
    BY <1>8, HandlersKeep DEF Save
  <2> QED BY <1>1, <1>8, <2>1, WriteKeeps DEF Save, FilesInv
<1>9. ASSUME NEW f \in Files, SaveAs(f) PROVE StoreInv'
  <2>1. DebateInv'
    BY <1>9, HandlersKeep DEF SaveAs
  <2> QED BY <1>1, <1>9, <2>1, WriteKeeps DEF SaveAs
<1>10. CASE End
  <2>1. [SerialNext]_vars
    BY <1>10 DEF End, SerialNext, Others
  <2>2. DebateInv'
    BY <2>1, EngineStepKeeps
  <2> QED BY <1>10, <2>2, WriteKeeps DEF End, FilesInv
<1>11. ASSUME NEW f \in Files, Load(f) PROVE StoreInv'
  <2>1. /\ files[f] \in Saved
        /\ Sound(files[f].history, files[f].currentTurn)
    BY <1>11 DEF Load, FilesInv
  <2>2. /\ files[f].status \in {"active", "ended"}
        /\ files[f].history \in Seq(Entry)
        /\ files[f].currentTurn \in Agent
        /\ files[f].home \in Files
    BY <2>1 DEF Saved
  <2>3. DebateInv'
    BY <1>11, <2>1, <2>2, FreshDebate DEF Load, Restore, Replace, DebateInv, TypeOK
  <2> QED BY <1>11, <2>2, <2>3 DEF Load, Replace, FilesInv
<1>12. ASSUME NEW f \in Files, New(f) PROVE StoreInv'
  <2>1. DebateInv'
    BY <1>12, FirstIsAgent, EmptyHistory, FreshDebate DEF New, Replace, DebateInv, TypeOK
  <2> QED BY <1>12, <2>1 DEF New, Replace, FilesInv
<1>13. ASSUME Forget PROVE DebateInv'
  BY <1>13, FirstIsAgent, EmptyHistory, FreshDebate DEF Forget, DebateInv, TypeOK
<1>14. CASE Exit
  BY <1>13, <1>14 DEF Exit, Forget, FilesInv
<1>15. ASSUME NEW f \in Files, ExitInSave(f) PROVE StoreInv'
  <2>1. Torn \notin Saved
    BY StoreAssumption
  <2> QED BY <1>13, <1>15, <2>1 DEF ExitInSave, Forget, FilesInv
<1>16. CASE UNCHANGED allVars
  BY <1>2, <1>16 DEF allVars
<1> QED BY <1>3, <1>4, <1>5, <1>6, <1>7, <1>8, <1>9, <1>10, <1>11, <1>12, <1>14, <1>15, <1>16
       DEF StoreNext

LEMMA StoreInvariance == StoreSpec => []StoreInv
<1>1. StoreInit => StoreInv
  <2> SUFFICES ASSUME StoreInit PROVE StoreInv
    OBVIOUS
  <2>1. DebateInv
    BY DebateInvInit DEF StoreInit
  <2>2. NoFile \notin Saved
    BY StoreAssumption
  <2> QED BY <2>1, <2>2 DEF StoreInit, StoreInv, FilesInv
<1> QED BY <1>1, StoreStep, PTL DEF StoreSpec

\* Whatever is saved, loaded, replaced and lost, the debate and its files keep
\* their types: what /load reads is a debate the graph can go on with.
THEOREM StoreTypes == StoreSpec => []StoreTypeOK
<1>1. StoreInv => StoreTypeOK
  BY DEF StoreInv, DebateInv, FilesInv, StoreTypeOK
<1> QED BY <1>1, StoreInvariance, PTL

\* current_turn is the agent after the last that spoke, in the debate in memory
\* and in every file that can be read, whenever it was written (record_turn,
\* to_dict, from_dict).
THEOREM StoreCounters == StoreSpec => []TurnCountersConsistent
<1>1. StoreInv => TurnCountersConsistent
  BY DEF StoreInv, DebateInv, FilesInv, Sound, Counter, TurnCountersConsistent,
         CurrentTurnFollowsHistory
<1> QED BY <1>1, StoreInvariance, PTL

\* Saves, loads and restarts, also in the middle of a turn, keep the main turns
\* in declaration order while nobody has started a side conversation
\* (_initial_state).
THEOREM StoreKeepsOrder == StoreSpec => []CycleWithoutSideTalk
<1>1. StoreInv => CycleWithoutSideTalk
  BY DEF StoreInv, DebateInv, Sound, Orderly, Cycles, CycleWithoutSideTalk, MainTurnsCycle
<1> QED BY <1>1, StoreInvariance, PTL

\* Without side conversations the graph state /load would build is due for the
\* same agent and has counted the same rounds as the one in memory
\* (_initial_state).
THEOREM StoreResumes == StoreSpec => []ResumesInPlace
<1>1. ASSUME StoreInv PROVE ResumesInPlace
  <2> SUFFICES ASSUME NoSideTalk(history), ckpt.at \notin {"empty", "end"}
               PROVE  /\ DueIn(InitialState(history, None)) = Due
                      /\ InitialState(history, None).rounds = ckpt.rounds
    BY DEF ResumesInPlace
  <2>1. /\ history \in Seq(Entry) /\ currentTurn \in Agent /\ ckpt.rounds \in Nat
        /\ Counter(history, currentTurn)
        /\ Due = currentTurn /\ Counted(history, ckpt.rounds, currentTurn)
    BY <1>1 DEF StoreInv, DebateInv, TypeOK, GraphState, Sound, InPlace
  <2>2. None \in AgentOrNone
    BY DEF AgentOrNone
  <2> QED BY <2>1, <2>2, InitialStateResumes, CompleteRounds DEF Counted
<1> QED BY <1>1, StoreInvariance, PTL

=============================================================================
