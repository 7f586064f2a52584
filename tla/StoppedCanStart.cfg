CONSTANTS
  Parts = {"convergence"}
  n1 = n1
  n2 = n2
  n3 = n3
  n4 = n4
  w1 = w1
  k1 = k1
  k2 = k2
  c1 = c1
  p1 = p1
  NoSession = NoSession
  Nowhere = Nowhere
  NoPort = NoPort
  Nodes = {n1}
  Sessions = {k1, k2}
  FleetNodes = {n1, n2, n3, n4}
  Workspaces = {w1}
  Workers = {k1, k2}
  Scalers = {c1}
  MaxNodes = 1
  MinNodes = 1
  MaxProvisioning = 2
  MinReady = 1
  MinIdleSlots = 1
  MaxWorkspaces = 1
  MaxSignals = 2
  Ports = {p1}
  MaxIds = 2
  RemoteKinds = {FALSE}
  Requests = {"START", "STOP", "DELETE"}
SPECIFICATION Spec
CHECK_DEADLOCK FALSE
INVARIANT StoppedCanStart
