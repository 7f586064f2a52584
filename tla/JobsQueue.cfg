CONSTANTS
  w1 = w1
  h1 = h1
  h2 = h2
  k1 = k1
  k2 = k2
  r1 = r1
  None = None
  Workspaces <- OneWorkspace
  Handlers <- TwoHandlers
  Workers <- TwoWorkers
  Reclaimers <- OneReclaimer
  IntentTypes <- EveryKind
  MaxJobs = 3
  MaxAttempts = 2
  MaxFaults = 1
  MayOverrun = FALSE
  MayConflict = FALSE
SPECIFICATION IntentSpec
INVARIANTS BusyHasJob NoDoubleExecution IntentsAreExclusive
PROPERTIES FinishedJobsStay RetriesDescend DeletedIsLeftByDelete ImplementsLifecycle
SYMMETRY Symmetric
