SPECIFICATION FairSpec
CONSTANTS
  TPM_HEADER_SIZE = 2
  TPM_MAX_COMMAND_SIZE = 4
  Sizes <- FrameSizes
  Replies <- AnyReplies
  AnySize <- DeclaredSizes
  Capacity = 2
  MaxCommand = 2
INVARIANTS
  FramesStayWhole
PROPERTIES
  ImplementsExchange
  BothReturn
CHECK_DEADLOCK FALSE
