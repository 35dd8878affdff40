\* Signals between any two steps of the packets of three streams, complaints among
\* the numbers; blank lines before the first one.
\* An int holds an interval of all streams, and not every burst.
CONSTANTS
  web = web
  ssh = ssh
  dns = dns
  Ports <- MCPorts
  qn = 4
  Payload = {1, 2}
  MaxReceived = 2
  INT_MAX = 7
  Unset <- MCUnset
SPECIFICATION BurstSpec
SYMMETRY MCSymmetry
INVARIANTS
  TypeOK
  StreamsDistinct
  NoByteLost
  EveryByteAccounted
PROPERTIES
  BurstEndsWhenQuiet
