SPECIFICATION FairSpec
CONSTANTS
  TPM_HEADER_SIZE = 2
  TPM_MAX_COMMAND_SIZE = 5
  ChunkSize = 2
  Reply <- Replies
  MaxCommand = 3
  IoFault = TRUE
  None = None
INVARIANTS
  Paired
PROPERTIES
  ImplementsExchange
  TransmitReturns
CHECK_DEADLOCK FALSE
