CONSTANTS
  w1 = w1
  h1 = h1
  h2 = h2
  k1 = k1
  k2 = k2
  r1 = r1
  None = None
  Workspaces <- OneWorkspace
  Handlers <- TwoHandlers
  Workers <- OneWorker
  Reclaimers <- OneReclaimer
  IntentTypes <- CoreTypes
  MaxJobs = 3
  MaxAttempts = 2
  MaxFaults = 1
  MayOverrun = FALSE
  MayConflict = TRUE
SPECIFICATION FairIntentSpec
INVARIANT QueueInv
PROPERTIES BusyEventuallySettles ImplementsFairLifecycle
