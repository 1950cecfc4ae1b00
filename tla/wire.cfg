SPECIFICATION Spec
CONSTANTS
    Types <- TypeTable
    Rank <- MCRank
    Size <- MCSize
    LenOf <- MCLenOf
    LenTo <- MCLenTo
    Marshal <- MCMarshal
    MarshalTo <- MCMarshalTo
    Marshals <- MCMarshals
    Unmarshal <- MCUnmarshal
    UnmarshalTo <- MCUnmarshalTo
    CastPrefix <- MCCastPrefix
    CastTo <- MCCastTo
    DispatchTable <- TPM_DISPATCH_TABLE
    Handles <- MCHandles
    RespHandles <- MCRespHandles
    Requests <- MCRequests
    Request <- MCRequest
    Tags <- MCTags
    EditBytes <- MCEditBytes
    NewCodes <- MCNewCodes
    NewRcs <- MCNewRcs
    MaxEdits <- MCMaxEdits
    Variants <- MCVariants
    FragileCodes <- MCFragileCodes
    Fragile <- MCFragile
    Twice <- MCTwice
INVARIANTS
    RoundTrip
    Canonical
    AreasTile
PROPERTIES
    AreaWritesStay
