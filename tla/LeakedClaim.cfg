SPECIFICATION FairSpec
CONSTANTS
  Requests = {r1, r2}
  Applies = {}
  Plans = {p1}
  Workers = {w1}
  Watchers = {}
  Existing = {}
  Names = {n1}
  Workspaces = {s1}
  Conversations = {c1}
  Workspace <- MCWorkspace
  Conversation <- MCConversation
  None = None
  Slots = 1
  MaxAttempts = 1
  MaxFaults = 1
  ModelErrors = {}
CHECK_DEADLOCK FALSE
PROPERTY QueueMoves
CONSTRAINT Steady
