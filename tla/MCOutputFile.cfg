SPECIFICATION Spec
CONSTANTS
    w1 = w1
    w2 = w2
    w3 = w3
    Writers <- MCWriters
    Pid <- MCPid
    NoSync <- MCNoSync
    MaxAttempts = 2
    Size = 1
    Old = Old
    NoFile = NoFile
    Partial = Partial
    Output = Output
    Existing = Old
    MaxPowerLosses = 1
CHECK_DEADLOCK FALSE
INVARIANTS
    OutputTypeOK
    OutputComplete
    NameAfterContent
    TempIsOwn
    NoLeftovers
    ReturnedIsSafe
PROPERTIES
    PublishesAtomically
    RunsEnd
