SPECIFICATION MoqSpec
CONSTANTS
  Pipes = {p1, p2}
  MaxObjects = 3
  pub1 = pub1
  pub2 = pub2
  sub1 = sub1
  sub2 = sub2
  video = video
  catalog = catalog
  None = None
  Publishers = {pub1, pub2}
  Subscribers = {sub1, sub2}
  Tracks = {video, catalog}
  FreshTracks = {catalog}
  Plans <- RelayPlans
  MaxStreams = 1
  Messages <- ControlItems
  Objects <- AllObjects
  Header <- ObjectHeader
  MaxItems = 2
  MaxOut = 3
INVARIANTS
  StreamIntact
  RelayServes
  SessionSafe
  WireInStep
PROPERTIES
  WokenPipeDelivers
  HandlersReturn
  SessionServes
  AllHandled
CHECK_DEADLOCK FALSE
