SPECIFICATION FairSpec
CONSTANTS
  Capacity = 1
  AmplFactor = 3
  AckThreshold = 2
  Scenarios <- MCScenarios
  MaxProbes = 3
INVARIANTS
  HandshakeSafe
PROPERTIES
  HandshakeCompletes
  CloseCompletes
CHECK_DEADLOCK FALSE
