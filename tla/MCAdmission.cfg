SPECIFICATION Spec
CONSTANTS
  Callers = {c1, c2, c3, c4}
  Threshold = 3
  Cooldown = 2
  Hosts = {h1, h2, h3}
  Unknown = Unknown
  Rpm = 2
  Interval = 2
  MaxClients = 2
  Window = 2
  Burst = 3
INVARIANTS
  CountMatchesState
  NothingNewWhileOpen
  RateHolds
  TableIsBounded
PROPERTIES
  OpenEnds
  RetryIsAdmitted
