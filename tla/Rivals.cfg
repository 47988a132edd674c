SPECIFICATION Spec
CONSTANTS
  Requests = {r1, r2}
  Applies = {a1, a2}
  Plans = {p1, p2}
  Workers = {w1}
  Watchers = {}
  Existing = {}
  Names = {n1}
  Workspaces = {s1}
  Conversations = {c1}
  Workspace <- MCWorkspace
  Conversation <- MCConversation
  None = None
  Slots = 2
  MaxAttempts = 1
  MaxFaults = 0
  ModelErrors = {}
SYMMETRY MCSymmetry
CHECK_DEADLOCK FALSE
CONSTRAINT Steady
INVARIANTS OneUnsettledPlan OnePlanPerDraft TurnsAlone
