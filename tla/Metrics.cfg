SPECIFICATION Spec
CONSTANTS
  Value = {3, 5}
  MaxU64 = 100
  MaxSamples = 3
  MaxSnapshots = 2
INVARIANT AverageIsOfSamples
CHECK_DEADLOCK FALSE
