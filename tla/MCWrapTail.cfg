SPECIFICATION Spec
CONSTANTS
    Block = 2
    ChunkSize = 8
    Scratch = 3
    IdentitySize = 1
    InputLens <- MCTailLens
    GlobalSizes <- MCTailGlobals
    Headers <- MCTailHeaders
    FrameSizes <- MCFrameSizes
    TocSizes <- MCTocSizes
    MaxPayload = 8
    ComputeSha256 = TRUE
INVARIANT PeakMemoryBounded
