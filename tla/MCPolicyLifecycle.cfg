SPECIFICATION Spec
CONSTANTS
  Objs = {o1, o2, o3, o4}
  NoObj = NoObj
  Torn = Torn
  Missing = Missing
  MaxVersions = 2
  MaxTrains = 2
SYMMETRY Symmetry
\* A torn registry.json or production checkpoint stops the service for good.
CHECK_DEADLOCK FALSE
INVARIANTS
  AtMostOneProduction
  ActiveIsProduction
  AcknowledgedIsDurable
  RegisteredHasCheckpoint
  NeverServesUnpromoted
  TrainedIsCheckpointed
