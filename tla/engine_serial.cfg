\* Requests one at a time: three agents, at most one round.
SPECIFICATION SerialSpec
CONSTANTS
  NumAgents = 3
  MaxRounds = 1
  Runs = {r1}
  None = None
  Moderator = Moderator
  MaxHistory = 7
INVARIANTS
  MainTurnsCycle
  CountersAgree
  RoundsCountMainTurns
PROPERTIES
  LimitPassedOnlyAfterSideTalk
  TurnTakingHolds
