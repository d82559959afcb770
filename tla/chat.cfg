\* All inputs but empty messages to an agent, unavailable models and lost connections.
SPECIFICATION ChatFairSpec
CONSTANTS
  NumAgents = 1
  MaxRounds = 1
  Runs = {r1, r2}
  None = None
  Moderator = Moderator
  MaxHistory = 20
  UserInputs = {"next", "mention", "unknown", "plain", "continue", "end", "connect"}
  ContinueRounds = {1}
  FaultyAgents = {0}
  LossyRuns = {r1}
  MaxInputs = 2
INVARIANTS
  ChatTypeOK
PROPERTIES
  InputComesBack
\* A page whose debate was closed has nothing left to do.
CHECK_DEADLOCK FALSE
