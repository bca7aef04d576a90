SPECIFICATION AckSpec
CONSTANTS
  MaxPacketNumber = 4
  MaxSkippedPackets = 2
  Scenarios <- AllScenarios
  MaxAckDelay = 1
  PacketThreshold = 2
  PathProbeTimeout = 2
  MaxSkipped = 1
  MaxTracked = 5
  MaxOutstanding = 4
INVARIANTS
  HistoryExact
  BytesInFlightExact
  FramesAccounted
  TimersSound
PROPERTIES
  ImplementsTracked
  PtoOnlyWhenDue
CHECK_DEADLOCK FALSE
