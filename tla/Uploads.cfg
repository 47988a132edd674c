SPECIFICATION UploadsSpec
CONSTANTS
  Jobs = {j1,j2,j3,j4}
  Copying = {j3,j4}
  Owners = {o1}
  Services = {s1,s2}
  JobOwner <- MCJobOwner
  Home <- MCHome
  Cancellers = {k1}
  Site <- MCSite
  MaxFaults = 1
  Messages = {m1,m2,m3}
  Recording = {s1}
  ClaimLimit = 1
  Consents = {c1}
  LastVersion = 2
  Private = {1}
  MaxPending = 1
  QueueMax = 2
SYMMETRY MCSymmetry
CONSTRAINT OneTrouble
\* Every message, job and version is used up in the end.
CHECK_DEADLOCK FALSE
INVARIANTS OwnerRunsAlone OneConsentOneSend ReportsTransfer OneSendPerMessage
