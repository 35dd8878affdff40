\* A ring charged with bytes it has lost.
CONSTANTS
  BLOCK = 3
  CAP = 6
  ROUNDS = 2
  LATENCY = 1
  Lengths = {2, 3}
  MaxAge = 2
  MaxBatch = 2
  MaxLoad = 9
SPECIFICATION Spec
INVARIANTS
  RingRate
