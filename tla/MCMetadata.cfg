SPECIFICATION Spec
CONSTANTS
    Scenarios <- MCScenarios
    XattrNames = {"x"}
    MaxI64 = 1199999
    MaxU64 = 2399999
    MaxU32 = 9
    YearSpan = 2103
    FracDigits = 2
    SecsPerMin = 3
    MinsPerHour = 2
    HoursPerDay = 4
    GlobMatches <- MCGlobMatches
INVARIANTS MetadataTypeOK LastWordCounts ListingTrue
