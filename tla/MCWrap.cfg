SPECIFICATION Spec
CONSTANTS
    Block = 2
    ChunkSize = 8
    Scratch = 3
    IdentitySize = 1
    InputLens <- MCInputLens
    GlobalSizes <- MCGlobalSizes
    Headers <- MCHeaders
    FrameSizes <- MCFrameSizes
    TocSizes <- MCTocSizes
    MaxPayload = 8
    ComputeSha256 = TRUE
INVARIANTS
    TypeOK
    FramesTileTar
    PosIsOutputLength
    WindowHoldsPending
    ChunksTileRegions
    DigestsCoverContent
    ReportsInOrder
    FramesBounded
    StreamingWindowBounded
    FooterMeansComplete
PROPERTIES
    ReportedIsFinal
    ImplementsLossless
    Terminates
