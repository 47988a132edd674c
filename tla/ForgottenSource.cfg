SPECIFICATION MemorySpec
CONSTANTS
  Turns = {t1}
  Refused = {}
  Sensitive = {}
  Changing = {t1}
  Topics = {k1}
  Texts = {x1}
  Reviewers = {v1}
  Copies = 1
  MaxAttempts = 3
  MaxResets = 0
  MaxReviews = 1
\* The bounds end the conversation.
CHECK_DEADLOCK FALSE
INVARIANTS
  SourceForgotten
