SPECIFICATION Spec
CONSTANTS
  None = None
  Client = Client
  Server = Server
  Alien = Alien
  Empty = Empty
  Junk = Junk
  Lifetime = 5
  MaxPtos = 2
  MaxZeroRtt = 2
  CacheSize = 1
  BatchSize = 2
  CidLen = 20
  Plans <- ModelPlans
INVARIANTS EndpointSound NoLostWakeup
 
