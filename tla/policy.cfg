SPECIFICATION Spec
CONSTANTS
    Bank = "sha256"
    Pcrs = {1, 2}
    MaxList = 8
    MAX_RSA_KEY_BYTES = 2
    MAX_POLICY_COUNT = 7
    MaxMoves = 2
    PolicyCcs <- MCPolicyCcs
    Parse <- parse
    Walk <- compile_walk
    FromCommands <- from_commands
    Show <- Display
    Texts <- MCTexts
    Files <- MCFiles
    VHandles <- MCVHandles
    Persistent <- MCPersistent
    Names <- MCNames
CHECK_DEADLOCK FALSE
INVARIANTS
    RunAuthorizes
    OnlyConditionsRefuse
    DigestMeansText
    ShownCanBeTyped
    OwnKeysLast
