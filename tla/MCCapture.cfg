\* Up to four frames of ten kinds, with the clock set to and fro.
CONSTANTS
  Frames <- MCFrames
  Word = 65536
  Clock = {0, 2, 3}
  MaxFrames = 4
SPECIFICATION Spec
INVARIANTS
  TypeOK
  LossesAreRepeats
  NoRetransmissionMissed
  IntervalsAddUp
  PortsAsSent
