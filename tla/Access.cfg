CONSTANTS
  Parts = {"admission", "sessions", "slots"}
  x1 = x1
  x2 = x2
  x3 = x3
  y1 = y1
  y2 = y2
  n1 = n1
  c1 = c1
  Owned = {x1, x2, x3}
  Requesters = {y1, y2}
  Offered = {"CREATE", "START", "DELETE"}
  OwnLimit = 1
  RunLimit = 1
  CpuLimit = 2
  MaxQueued = 1
  Tokens = {x1, x2, x3}
  Attachers = {y1, y2}
  MaxSessions = 2
  MaxRuns = 3
  Nowhere = Nowhere
  FleetNodes = {n1}
  Workspaces = {x1, x2, x3}
  Workers = {y1, y2}
  Scalers = {c1}
  MaxNodes = 1
  MinNodes = 1
  MaxProvisioning = 2
  MinReady = 1
  MinIdleSlots = 1
  MaxWorkspaces = 1
  MaxSignals = 1
SPECIFICATION Spec
SYMMETRY Symmetric
CHECK_DEADLOCK FALSE
INVARIANTS
  OwnedWithinLimit AdmittedWithinLimit
  OldSessionsRefused CountBracketed
  SlotOvershootBounded
