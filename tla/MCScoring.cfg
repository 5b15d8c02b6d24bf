SPECIFICATION SpecSum
CONSTANTS
  N = 3
  Judges = 2
  Samples = 2
  Scores = {0, 4}
  Actions = 5
  Shares = {0, 2, 8, 10}
  Weight = 5
  Confidence = 3
  None = None
  Arms = 3
  Units = 4
  Common = 12
  Rewards = {0, 1, 3}
  Grades = {1, 2, 5}
  Sample = 3
  History = 4
  MaxData = 5
  Bins = 3
INVARIANTS
  PairwiseIsFair
  OutlierIsDropped
  ChoiceIsBounded
  EstimatesAreSound
  MonitorsAreSound
\* A request is selected once, and a study ends with its last sample.
CHECK_DEADLOCK FALSE
