SPECIFICATION FairSpec
CONSTANTS
  a = a  b = b  u = u  na = na  nb = nb  nul = nul  dflt = dflt  ctx = ctx
  None = None  Garbage = Garbage
  NullPublic = nul
  DefaultContext = dflt
  TRANSIENT_START = 1
  TRANSIENT_END = 3
  PersistentHandle <- NoPersistent
  SessionFile = {}
  OtherFile = {}
  Public <- Publics
  Name <- Names
  tpm_make_name <- NameOf
  ParentsOf <- Cyclic
  Context <- OneContext
  MAX_POLICY_COUNT = 0
  MaxPolicy = 0
  ForeignFile <- NoFiles
  ReadFault = FALSE
  UnlinkFault = FALSE
  WriteFault = FALSE
INVARIANTS
  RemovesSubtree
PROPERTIES
  CallsReturn
