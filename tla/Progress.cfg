SPECIFICATION FairSpec
CONSTANTS
  Requests = {r1}
  Applies = {}
  Plans = {}
  Workers = {w1, w2}
  Watchers = {}
  Existing = {}
  Names = {}
  Workspaces = {s1}
  Conversations = {c1}
  Workspace <- MCWorkspace
  Conversation <- MCConversation
  None = None
  Slots = 1
  MaxAttempts = 2
  MaxFaults = 1
  ModelErrors = {"failed"}
CHECK_DEADLOCK FALSE
INVARIANTS ClaimFence
PROPERTIES TerminalExecutions ClaimsReleased QueueMoves
