SPECIFICATION FairSpec
CONSTANTS
  CAPABILITY_PAGE_SIZE = 2
  MaxProp = 7
  Span = 4
  Class = 1
  Handles <- HandleSpace
  Banks = {1, 3}
  Algs = {0, 2, 3, 6, 7}
  Names = {key, other}
  Target = key
  Pcr = {0, 1, 2}
  MaxDigests = 2
  NvSizes = {0, 1, 3, 5}
  BadItems = {0, 5, 7}
  MaxChanges = 2
  None = None
INVARIANTS
  ListIsWhole
  FindIsRight
  AllPcrsRead
  NvIsWhole
PROPERTIES
  QueriesReturn
CHECK_DEADLOCK FALSE
