SPECIFICATION FairSpec
CONSTANTS
  SendBufferSize = 2
  Scenarios <- McScenarios
  PacketRoom = 3
  MaxFlight = 2
CHECK_DEADLOCK FALSE
INVARIANTS
  StreamsSound
  SendableIsQueued
PROPERTIES
  Delivered
