SPECIFICATION Spec
CONSTANTS
  a = a  b = b  u = u  na = na  nb = nb  nul = nul  dflt = dflt  ctx = ctx
  None = None  Garbage = Garbage
  NullPublic = nul
  DefaultContext = dflt
  TRANSIENT_START = 1
  TRANSIENT_END = 2
  PersistentHandle <- Persistent
  SessionFile = {3}
  OtherFile = {4}
  Public <- PublicsWithUnnameable
  Name <- OneName
  tpm_make_name <- NameOrNone
  ParentsOf <- Flat
  Context <- OneContext
  MAX_POLICY_COUNT = 0
  MaxPolicy = 1
  ForeignFile <- Litter
  ReadFault = FALSE
  UnlinkFault = FALSE
  WriteFault = TRUE
INVARIANTS
  SelfHeals
PROPERTIES
  ImplementsKeyStore
  CleanIsDurable
