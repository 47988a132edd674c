SPECIFICATION Spec
CONSTANTS
  Tasks = {t1}
  Coordinators = {c1}
  Callers = {h1, h2}
  Servers = {h3, h4}
  Home <- MCHome
  Adapters = {"subprocess", "tmux"}
  Resources = {r1}
  Approvals = {a1, a2}
  None = None
  MaxExecutions = 2
  MaxFaults = 1
SYMMETRY MCSymmetry
CONSTRAINT OneRace
CHECK_DEADLOCK FALSE
INVARIANTS ApprovalOnce SuccessIsReported StoppedIsGone SessionAgrees
PROPERTIES LeaseOutlastsAttempt
