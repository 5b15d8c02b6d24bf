SPECIFICATION Spec
CONSTANTS
  Clients = {"script"}
  Facades = {}
  MaxSelects = 2
  BatchSize = 1
  Rollout = 2
  Rollouts = {1}
  Rounds = 1
  TrainEvery = 1
  None = None
PROPERTY
  RatingShapesTraining
