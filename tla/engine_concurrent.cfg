\* Two turn requests under way at once, no discipline among the clients.
SPECIFICATION FairSpec
CONSTANTS
  NumAgents = 2
  MaxRounds = 1
  Runs = {r1, r2}
  None = None
  Moderator = Moderator
  MaxHistory = 3
INVARIANTS
  TypeOK
  CurrentTurnFollowsHistory
  NeverEndsEarly
PROPERTIES
  EveryRequestAnswered
