SPECIFICATION Spec
CONSTANTS
  Requests = {r1}
  Applies = {a1}
  Plans = {p1}
  Workers = {w1}
  Watchers = {}
  Existing = {}
  Names = {n1}
  Workspaces = {s1}
  Conversations = {c1}
  Workspace <- MCWorkspace
  Conversation <- MCConversation
  None = None
  Slots = 2
  MaxAttempts = 2
  MaxFaults = 1
  ModelErrors = {"failed"}
SYMMETRY MCSymmetry
CHECK_DEADLOCK FALSE
PROPERTY CompletedIsFinal
