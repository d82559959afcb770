---------------------------- MODULE DebateStore -----------------------------
(***************************************************************************)
(* A debate that is saved, loaded and survives restarts of the backend     *)
(* (services/debate_backend/src/debate_backend/commands.py on top of       *)
(* DebateEngine).                                                          *)
(*                                                                         *)
(* Only the Debate object is written to a file; the graph's checkpoint is  *)
(* kept in memory (MemorySaver).  /load builds a new engine, whose first   *)
(* turn makes an initial graph state out of the history, and registers it  *)
(* under the same debate id: turns under way on the engine it replaces run *)
(* on, but on a Debate object nobody can reach any more.  /new makes a     *)
(* debate of its own; the model follows the debate made or loaded last.    *)
(***************************************************************************)
EXTENDS DebateEngine

CONSTANTS
  Files,        \* names of save files
  NoFile,       \* the file does not exist
  Torn          \* the file was being written when the process died

VARIABLES
  files,        \* the saves directory
  home,         \* Debate.save_filename: the file /save and /end write
  live,         \* is the debate registered in _engines
  orphans       \* tasks still running on an engine /load has replaced

storeVars == <<files, home, live, orphans>>
allVars == <<vars, storeVars>>

\* Debate.to_dict.  The side flags of the history are not in the file, and
\* nothing that is built from a loaded history looks at them.
Saved ==
  [status : {"active", "ended"}, history : Seq(Entry), currentTurn : Agent,
   home : Files]

ASSUME StoreAssumption == {NoFile, Torn} \cap Saved = {}

StoreTypeOK ==
  /\ TypeOK
  /\ files \in [Files -> Saved \cup {NoFile, Torn}]
  /\ home \in Files \cup {NoFile}
  /\ live \in BOOLEAN
  /\ orphans \subseteq Runs

StoreInit ==
  /\ Init
  /\ files = [f \in Files |-> NoFile]
  /\ home \in Files
  /\ live = TRUE
  /\ orphans = {}

-----------------------------------------------------------------------------
(* Commands *)

\* current_turn written as the agent after the one at current_turn.
SnapshotBug(st) ==
  [status |-> st, history |-> history, currentTurn |-> currentTurn + 1, home |-> home]

Snapshot(st) ==
  [status |-> st, history |-> history, currentTurn |-> currentTurn, home |-> home]

\* /save
Save ==
  /\ live
  /\ files' = [files EXCEPT ![home] = Snapshot(status)]
  /\ UNCHANGED <<vars, home, live, orphans>>

\* /save-as: a copy in another file; the debate keeps its own.
SaveAs(f) ==
  /\ live
  /\ files' = [files EXCEPT ![f] = Snapshot(status)]
  /\ UNCHANGED <<vars, home, live, orphans>>

\* /end: stop, then save, without waiting for a turn under way.
End ==
  /\ live
  /\ Stop
  /\ files' = [files EXCEPT ![home] = Snapshot("ended")]
  /\ UNCHANGED <<home, live, orphans>>

\* A new engine, with no checkpoint, no turn under way and nothing answered yet.
FreshEngine ==
  /\ ckpt' = NoCheckpoint
  /\ pc' = [r \in Runs |-> "idle"]
  /\ want' = [r \in Runs |-> None]
  /\ graph' = [r \in Runs |-> NoCheckpoint]
  /\ reply' = [r \in Runs |-> NoReply]

\* The turn counter is left to the default of the dataclass.
RestoreBug(s) ==
  /\ status' = s.status
  /\ history' = s.history
  /\ currentTurn' = 0

\* Debate.from_dict
Restore(s) ==
  /\ status' = s.status
  /\ history' = s.history
  /\ currentTurn' = s.currentTurn

\* Turns under way go on without the model's debate.
Replace ==
  /\ FreshEngine
  /\ live' = TRUE
  /\ orphans' = orphans \cup {r \in Runs : pc[r] # "idle"}
  /\ UNCHANGED <<broken, files>>

\* /load, also of the debate that is running.
Load(f) ==
  /\ files[f] \in Saved
  /\ Restore(files[f])
  /\ home' = files[f].home
  /\ Replace

\* /new -o f, refused when f is there, readable or not.
New(f) ==
  /\ files[f] = NoFile
  /\ status' = "active"
  /\ history' = <<>>
  /\ currentTurn' = 0
  /\ home' = f
  /\ Replace

\* A turn taken on a replaced engine is over; its answer, which the page has from
\* that engine's Debate, is left out.
OrphanEnds(r) ==
  /\ r \in orphans
  /\ orphans' = orphans \ {r}
  /\ UNCHANGED <<vars, files, home, live>>

\* The backend process stops: everything but the files is gone.
Forget ==
  /\ status' = "active"
  /\ history' = <<>>
  /\ currentTurn' = 0
  /\ FreshEngine
  /\ home' = NoFile
  /\ live' = FALSE
  /\ orphans' = {}
  /\ UNCHANGED broken

Exit ==
  /\ live
  /\ Forget
  /\ UNCHANGED files

\* write_text truncates the file before it writes: stopping in between leaves
\* a file that no longer parses.
ExitInSave(f) ==
  /\ live
  /\ Forget
  /\ files' = [files EXCEPT ![f] = Torn]

\* Any request for a debate that is not registered.
NotFound(r) ==
  /\ ~live
  /\ reply' = [reply EXCEPT ![r] = ErrorReply]
  /\ UNCHANGED <<status, history, currentTurn, ckpt, broken, pc, want, graph, storeVars>>

-----------------------------------------------------------------------------
(* Specification: requests one at a time, commands at any time *)

StoreSubmit(r) ==
  /\ live
  /\ AllIdle
  /\ r \notin orphans
  /\ Submit(r)
  /\ UNCHANGED storeVars

StoreOthers ==
  /\ live
  /\ Others
  /\ UNCHANGED storeVars

StoreNext ==
  \/ \E r \in Runs : StoreSubmit(r)
  \/ \E r \in Runs : RunTurn(r) /\ UNCHANGED storeVars
  \/ \E r \in Runs : OrphanEnds(r) \/ NotFound(r)
  \/ \E f \in Files : SaveAs(f) \/ Load(f) \/ New(f) \/ ExitInSave(f)
  \/ Save \/ End \/ Exit
  \/ StoreOthers

StoreSpec == StoreInit /\ [][StoreNext]_allVars

-----------------------------------------------------------------------------
(* Properties *)

NoSideTalk(h) == \A i \in DOMAIN h : ~h[i].side

\* Saves, loads and restarts at any moment, a turn under way included, keep
\* the main turns in declaration order as long as the debate holds no side
\* conversation (_initial_state, /load).
CycleWithoutSideTalk == NoSideTalk(history) => MainTurnsCycle

\* A debate without side conversations could be saved now and loaded later
\* without anybody noticing: the graph state /load would build is due for the
\* same agent and has counted the same rounds as the one in memory
\* (_initial_state: "current_speaker is set to the last agent turn's speaker so
\* the RoundRobinRouter advances to the correct next speaker").
ResumesInPlace ==
  NoSideTalk(history) /\ ckpt.at \notin {"empty", "end"} =>
    LET s == InitialState(history, None) IN
    DueIn(s) = Due /\ s.rounds = ckpt.rounds

\* Every readable file, whenever it was written, agrees with itself: its
\* current_turn is the agent after the last one in its history, which is what
\* /load shows as current_agent.  And so does the debate in memory.
TurnCountersConsistent ==
  /\ CurrentTurnFollowsHistory
  /\ \A f \in Files : files[f] \in Saved =>
       Follows(files[f].history, AgentTurns(files[f].history), files[f].currentTurn)

=============================================================================
