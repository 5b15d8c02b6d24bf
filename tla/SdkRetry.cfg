SPECIFICATION Spec
CONSTANTS
  Calls = {c1}
  SDKs = {"python", "typescript", "go"}
  MaxRetries = 3
  Slots = 2
  None = None
INVARIANTS
  AnswerIsTheRecord
  PythonActsOnce
PROPERTY
  CallReturns
CHECK_DEADLOCK FALSE
