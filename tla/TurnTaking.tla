----------------------------- MODULE TurnTaking -----------------------------
(***************************************************************************)
(* What the debate engine promises about who speaks.                       *)
(*                                                                         *)
(* A debate is a growing transcript.  Its main turns go round the agents   *)
(* in declaration order; turns of a side conversation (an @Agent inject)   *)
(* and the moderator's own messages may come in between and do not         *)
(* disturb that order.  The promise is the one of the RoundRobinRouter's   *)
(* docstring; DebateEngine is shown to implement it when its requests      *)
(* come one at a time.                                                     *)
(***************************************************************************)
EXTENDS Naturals, Sequences

CONSTANTS
  NumAgents,    \* the agents are 0 .. NumAgents-1, in declaration order
  None,         \* no agent
  Moderator     \* the author of a moderator message

Agent == 0 .. NumAgents - 1

\* The agent after a in the rotation.
Succ(a) == (a + 1) % NumAgents

\* Transcript entries: a turn of an agent, or a moderator message.
Turn(a, s) == [by |-> a, side |-> s]
Remark == [by |-> Moderator, side |-> FALSE]
Entry == [by : Agent \cup {Moderator}, side : BOOLEAN]

VARIABLES
  history,      \* the transcript
  due           \* the agent whose main turn comes next; None once closed

vars == <<history, due>>

Init ==
  /\ history = <<>>
  /\ due = 0

MainTurn ==
  /\ due # None
  /\ history' = Append(history, Turn(due, FALSE))
  /\ due' = Succ(due)

SideTurn(a) ==
  /\ due # None
  /\ history' = Append(history, Turn(a, TRUE))
  /\ UNCHANGED due

Remarks ==
  /\ history' = Append(history, Remark)
  /\ UNCHANGED due

Close ==
  /\ due' = None
  /\ UNCHANGED history

Next ==
  \/ MainTurn
  \/ \E a \in Agent : SideTurn(a)
  \/ Remarks
  \/ Close

Spec == Init /\ [][Next]_vars

=============================================================================
