\* Arrivals at any pace, gaps of any length, every queue of samples.
CONSTANTS
  interval = 2
  QUEUE_SIZE = 4
  Payload <- MCPayload
  TickBytes <- MCTickBytes
SPECIFICATION SpeedSpec
INVARIANTS
  SpeedTypeOK
  RatioFromDensestRange
PROPERTIES
  SampleIsOneWindow
