SPECIFICATION Spec
CONSTANTS
  Win = 6
  MaxBuf = 8
  MaxSettings = 8
  MaxStreams = 2
  Caps = {1, 4}
  Plans <- ModelPlans
  Scripts <- ModelScripts
INVARIANTS MessagesKept PeersServed
