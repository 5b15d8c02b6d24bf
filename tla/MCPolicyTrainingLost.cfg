SPECIFICATION Spec
CONSTANTS
  Objs = {o1, o2, o3, o4}
  NoObj = NoObj
  Torn = Torn
  Missing = Missing
  MaxVersions = 1
  MaxTrains = 2
CHECK_DEADLOCK FALSE
PROPERTY TrainingAccumulates
