SPECIFICATION Spec
CONSTANTS
  Scale = 100
  Mtu = 12
  MinCwnd = 24
  InitialCwnd = 48
  InitialRtt = 30
  PaceGranularity = 5
  MinBurst = 2
  MaxBurst = 4
  Algorithms <- MCAlgorithms
  Plans <- MCPlans
  LinkTime = 8
  Queue = 3
  Delay = 16
  SlowDelay = 28
  PauseTime = 60
  Deadline = 1200
  ProbeRttStay = 300
  FollowTime = 400
  PacketThreshold = 3
  MtuProbeSize = 15
  AckSize = 3
  ProbeRttInterval = 150
  ProbeRttDuration = 10
  MinRttFilterLen = 220
  ProbeMaxRounds = 63
  QuantumRate = 1000
  ExtraAckedLen = 10
  ProbeWaits <- MCProbeWaits
  RtpropFilterLen = 150
  BtlbwFilterLen = 10
  ProbeRttBasedOnBdp = FALSE
  ProbeRttCwndGain = 75
  SlowStartThresh = 1000000
  FastConvergence = TRUE
  HystartEnabled = TRUE
  MinRttThresh = 1
  MaxRttThresh = 4
  RttSamples = 2
  CssRounds = 2
  SlowStartDelta = 4
  SteadyDelta = 4
  UseStandingRtt = TRUE
  CopaMinRttWindow = 200
  CopaMaxVelocity = 16
INVARIANTS NoStall InFlightAgrees EstimatesFollow
