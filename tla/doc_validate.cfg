SPECIFICATION FairSpec
CONSTANTS
  primary = primary
  child = child
  Key = {primary, child}
  Parent <- Parents
  Secret <- Secrets
  HasPolicy = {child}
  Slot = {s1, s2}
  Session = {a1}
  VHandle = {v1, v2}
  PHandle = {p1}
  Faults = TRUE
  Others = FALSE
  MaxRuns = 1
  Earlier <- Directories
  Leftover <- Occupied
  v1 = v1
  v2 = v2
  p1 = p1
  None = None
PROPERTY ValidateDropsOnlyStale
CHECK_DEADLOCK FALSE
