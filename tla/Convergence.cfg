CONSTANTS
  Parts = {"starting", "opening", "events"}
  p1 = p1
  p2 = p2
  w1 = w1
  w2 = w2
  NoPort = NoPort
  Ports = {p1, p2}
  MaxIds = 1
  RemoteKinds = {TRUE}
  Requests = {"START", "UPDATE", "OPEN"}
  Writers = {w1, w2}
  MaxEvents = 4
  PageLimit = 2
  MaxDrops = 1
SPECIFICATION Spec
CHECK_DEADLOCK FALSE
INVARIANTS ShownInOrder
PROPERTIES RouteConverges ErrorCleaned EventDelivered
