CONSTANTS
  Parts = {"repos"}
  y1 = y1
  y2 = y2
  z1 = z1
  z2 = z2
  Snaps = {y1, y2}
  SnapJobs = {z1, z2}
  MaxTries = 2
  MaxCalls = 2
  MaxFaults = 2
  Dirs = {y1, y2}
  ImportJobs = {z1, z2}
  MaxRepos = 3
  MaxImports = 2
  MaxImportTries = 2
  Callers = {z1, z2}
  RefreshRows = {y1, y2}
  ResetRows = {z1, z2}
  MaxPasswords = 2
  Retriers = {z1, z2}
SPECIFICATION Spec
CHECK_DEADLOCK FALSE
INVARIANT FailureRecorded
