SPECIFICATION Spec
CONSTANTS
    p = p
    P = P
    q = q
    h = h
    d = d
    c = c
    none = none
    up = up
    left = left
    e1 = e1
    e2 = e2
    e3 = e3
    e4 = e4
    e5 = e5
    Top = Top
    Skipped = Skipped
    Refused = Refused
    Scenarios <- MCSelfLink
    Paths <- MCPaths
    Entries <- MCEntries
    Parent <- MCParent
    Dest <- MCDest
    Excluded <- MCExcluded
    MaxInodes = 4
    SkipBad = TRUE
    RestoreMtime = TRUE
    Strict = TRUE
INVARIANT ContentSurvives
