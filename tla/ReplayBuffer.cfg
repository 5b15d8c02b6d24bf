SPECIFICATION Spec
CONSTANTS
  Capacity = 5
  Priorities = {1, 4}
  BatchSize = 3
  MaxAdds = 6
INVARIANTS
  SumsAgree
  PositiveIffStored
  DrawIsProportional
  HoldsNewest
