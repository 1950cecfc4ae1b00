SPECIFICATION FairSpec
CONSTANTS
  primary = primary
  child = child
  Key = {primary, child}
  Parent <- Parents
  Secret <- Secrets
  HasPolicy = {child}
  Slot = {s1, s2}
  Session = {a1}
  VHandle = {v1, v2}
  PHandle = {p1}
  Faults = FALSE
  Others = FALSE
  MaxRuns = 1
  Earlier <- Directories
  Leftover <- Occupied
  v1 = v1
  v2 = v2
  p1 = p1
  None = None
INVARIANT FlushedBeforeExit
CHECK_DEADLOCK FALSE
