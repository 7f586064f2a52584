CONSTANTS
  w1 = w1
  w2 = w2
  j1 = j1
  None = None
  Workspaces <- TwoWorkspaces
  NumAddresses = 2
  Janitors <- NoJanitor
  Kinds <- AllKinds
  MaxAllocAttempts = 2
  MaxAttempts = 0
  CleanupMayFail = FALSE
SPECIFICATION Spec
SYMMETRY Symmetric
INVARIANT AddressesApart
PROPERTY ImplementsAddressPool
