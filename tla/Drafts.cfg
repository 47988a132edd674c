SPECIFICATION Spec
CONSTANTS
  Requests = {r1, r2}
  Applies = {a1}
  Plans = {p1, p2}
  Workers = {w1}
  Watchers = {}
  Existing = {x1}
  Names = {}
  Workspaces = {s1}
  Conversations = {c1}
  Workspace <- MCWorkspace
  Conversation <- MCConversation
  None = None
  Slots = 1
  MaxAttempts = 1
  MaxFaults = 2
  ModelErrors = {"failed"}
SYMMETRY MCSymmetry
CHECK_DEADLOCK FALSE
CONSTRAINTS LooksAtEffects FewTroubles
INVARIANTS
  PendingIsWaiting AppliedDraft ActiveIsClaimed ReviewHasSubject CancelledIsClosed
  EffectsRecorded CompletedIsApplied
PROPERTIES EditsSurvive AppliedMeansWritten
