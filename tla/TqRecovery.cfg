SPECIFICATION Spec
CONSTANTS
  Tick = 8
  Granularity = 8
  InitialRtt = 8
  MaxAckDelay = 8
  MaxPto = 40
  PtoLinearFactor = 0
  Cwnd = 4
  MaxSize = 2
  Scenarios <- MCScenarios
  MaxTime = 32
  MaxPtoCount = 2
INVARIANTS
  InFlightExactUnlessLate
  TimerArmed
  PacketsKept
CHECK_DEADLOCK FALSE
