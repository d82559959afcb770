\* Saves, loads and crashes at any moment, requests one at a time.
SPECIFICATION StoreSpec
CONSTANTS
  NumAgents = 2
  MaxRounds = 1
  Runs = {r1}
  None = None
  Moderator = Moderator
  MaxHistory = 3
  Files = {f1, f2}
  NoFile = NoFile
  Torn = Torn
INVARIANTS
  StoreTypeOK
  CycleWithoutSideTalk
  ResumesInPlace
  TurnCountersConsistent
SYMMETRY StoreSymmetry
