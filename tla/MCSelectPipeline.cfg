SPECIFICATION Spec
CONSTANTS
  Calls = {c1, c2}
  Requests = {r1, r2}
  None = None
  N = 2
  MaxConnects = 2
  MaxFeedback = 1
\* Every call is made once.
CHECK_DEADLOCK FALSE
INVARIANTS
  OneWriter
  AnswerIsRecorded
  ReplayIsPersisted
PROPERTY PublishesAtomically
SYMMETRY Symmetry
