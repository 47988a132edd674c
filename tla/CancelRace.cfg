SPECIFICATION UploadsSpec
CONSTANTS
  Jobs = {j1,j2}
  Copying = {}
  Owners = {o1}
  Services = {s1}
  JobOwner <- MCJobOwner
  Home <- MCHome
  Cancellers = {k1}
  Site <- MCSite
  MaxFaults = 0
  Messages = {m1,m2}
  Recording = {s1}
  ClaimLimit = 1
  Consents = {c1}
  LastVersion = 2
  Private = {1}
  MaxPending = 1
  QueueMax = 2
SYMMETRY MCSymmetry
CHECK_DEADLOCK FALSE
PROPERTY CancelledBeforeSending
