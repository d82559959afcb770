\* Turns, side conversations and the end of the debate, nothing failing.
SPECIFICATION ChatSpec
CONSTANTS
  NumAgents = 3
  MaxRounds = 2
  Runs = {r1, r2}
  None = None
  Moderator = Moderator
  MaxHistory = 20
  UserInputs = {"next", "mention", "end"}
  ContinueRounds = {}
  FaultyAgents = {}
  LossyRuns = {}
  MaxInputs = 7
INVARIANTS
  OneTurnAtATime
  ResumeShowsDue
PROPERTIES
  LabelMatchesTurn
CHECK_DEADLOCK FALSE
