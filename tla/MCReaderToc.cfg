SPECIFICATION ArchiveSpec
CONSTANTS
    Block = 2
    ChunkSize = 6
    Scratch = 2
    IdentitySize = 1
    InputLens <- MCInputLens
    GlobalSizes <- MCGlobalSizes
    Headers <- MCHeaders
    FrameSizes <- MCFrameSizes
    TocSizes <- MCTocSizes
    MaxPayload = 8
    ComputeSha256 = TRUE
    MaxTocJson = 20
    MaxBadFrames = 1
    MetaDamages <- MCMetaDamages
    Word = 100
    Slips <- MCSlips
INVARIANT TocDamageRefused
