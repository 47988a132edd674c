SPECIFICATION Spec
CONSTANTS
  Tasks = {t1}
  Coordinators = {c1, c2}
  Callers = {h1}
  Servers = {h2}
  Home <- MCApart
  Adapters = {"subprocess"}
  Resources = {r1}
  Approvals = {a1, a2}
  None = None
  MaxExecutions = 2
  MaxFaults = 0
SYMMETRY MCSymmetry
CONSTRAINTS LeasesLast GrantedFirst
CHECK_DEADLOCK FALSE
INVARIANTS OneWriter
