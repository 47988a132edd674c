SPECIFICATION Spec
CONSTANTS
  \* the logs of a service
  Segments = {s1, s2}
  LogMonths = {1, 2}
  RawLimit = 2
  MaxAccidents = 2
  \* a call of a model
  MaxHelpers = 2
  \* the updates of a chat
  LastUpdate = 3
  MaxBreaks = 1
  \* the audit archive, every limit of which can be reached
  Rows = {11, 12, 21, 31}
  Months = {1, 2, 3}
  MonthOf <- MCMonthOf
  Pinned = {21}
  Batch = 1
  Budget = 1
  ScanLimit = 3
  MonthLimit = 1
  ArchiveLimit = 2
  MaxFailures = 2
  \* the memory of a conversation
  Turns = {t1, t2, t3}
  Refused = {t3}
  Sensitive = {}
  Changing = {t1, t3}
  Topics = {k1}
  Texts = {x1, x2}
  Reviewers = {v1}
  Copies = 1
  MaxAttempts = 3
  MaxResets = 1
  MaxReviews = 2
\* The bounds end every machine; a file left with two names ends maintenance.
CHECK_DEADLOCK FALSE
INVARIANTS
  NoSegmentLost
  StopIsConfirmed
  EveryUpdateTaken
  QuestionIsLatest
  ResetIsBoundary
  ForgottenStaysForgotten
  OneSelected
PROPERTIES
  KeepsTrail
  AgedRowsLeave
