\* Bursts below and above the capacity, and over-long packets.
CONSTANTS
  BLOCK = 3
  CAP = 6
  ROUNDS = 2
  LATENCY = 1
  Lengths = {1, 3, 7}
  MaxAge = 9
  MaxBatch = 2
  MaxLoad = 8
SPECIFICATION Spec
INVARIANTS
  TypeOK
  BytesConserved
  ArcHoldsAll
  InOrder
  RateUnlessWrapped
  SentInOneTurn
