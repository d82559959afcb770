\* Does a loaded debate go on with the right speaker?
SPECIFICATION StoreSpec
CONSTANTS
  NumAgents = 2
  MaxRounds = None
  Runs = {r1}
  None = None
  Moderator = Moderator
  MaxHistory = 4
  Files = {f1}
  NoFile = NoFile
  Torn = Torn
INVARIANT MainTurnsCycle
