SPECIFICATION Spec
CONSTANTS
  Callers = {c1, c2}
  Threshold = 2
  Cooldown = 1
  MaxRetries = 3
  Models = 2
INVARIANT FailuresOpenCircuit
