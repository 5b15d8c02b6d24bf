SPECIFICATION Spec
CONSTANTS
  Clients = {"script"}
  Facades = {"facade"}
  MaxSelects = 3
  BatchSize = 2
  Rollout = 2
  Rollouts = {1}
  Rounds = 3
  TrainEvery = 2
  None = None
INVARIANTS
  LearnsTheRecord
  BatchIsLearned
  ReplayEnds
  CountedIsTrained
PROPERTIES
  LoopEnds
