CONSTANTS
  w1 = w1
  w2 = w2
  j1 = j1
  None = None
  Workspaces <- OneWorkspace
  NumAddresses = 1
  Janitors <- OneJanitor
  Kinds <- AllKinds
  MaxAllocAttempts = 2
  MaxAttempts = 1
  CleanupMayFail = TRUE
SPECIFICATION FairSpec
PROPERTIES JobDescends JobEnds AbandonedAddressReturns StuckAttachmentEnds
