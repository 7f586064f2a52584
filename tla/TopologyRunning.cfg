CONSTANTS
  w1 = w1
  w2 = w2
  j1 = j1
  None = None
  Workspaces <- TwoWorkspaces
  NumAddresses = 2
  Janitors <- NoJanitor
  Kinds <- NoDelete
  MaxAllocAttempts = 1
  MaxAttempts = 0
  CleanupMayFail = TRUE
SPECIFICATION Spec
SYMMETRY Symmetric
INVARIANTS RunningOnItsAddress RunningApart
