SPECIFICATION BBRv3Spec
CONSTANTS
  Spaces = {"handshake", "app"}
  ProbeRttInterval = 1
  MinRttFilterLen = 2
  FullLossCount = 1
  MaxLossEvents = 1
  MaxPacket <- PacketBounds
  MaxTime = 5
  MaxMigrations = 1
  a1 = a1
  a2 = a2
  Apps = {a1, a2}
  Workloads <- CalmToBusy
  MaxCollectors = 2
  MaxSent = 1
INVARIANTS
  MinRttSound
  StatsConsistent
PROPERTIES
  MinRttFresh
  StopEndsLogging
CHECK_DEADLOCK FALSE
