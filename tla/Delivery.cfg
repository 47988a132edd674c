SPECIFICATION Spec
CONSTANTS
  Requests = {r1}
  Applies = {}
  Plans = {}
  Workers = {w1}
  Watchers = {k1, k2}
  Existing = {}
  Names = {}
  Workspaces = {s1}
  Conversations = {c1}
  Workspace <- MCWorkspace
  Conversation <- MCConversation
  None = None
  Slots = 1
  MaxAttempts = 2
  MaxFaults = 1
  ModelErrors = {"failed"}
SYMMETRY MCSymmetry
CHECK_DEADLOCK FALSE
INVARIANTS SentOnce SendingIsCurrent
