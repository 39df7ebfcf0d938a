CONSTANTS
    Parts <- MCParts
    Paths <- MCPathsOfRoot
    Data <- MCOneData
    EmptyData = "empty"
    PackedLength <- MCPackedLength
    Without <- MCWithout
    Rank <- MCRank
    MaxFiles = 3
    MaxSaves = 1
    MaxDamaged = 0
SPECIFICATION Spec
INVARIANTS ExtractsBelowDestination
CHECK_DEADLOCK FALSE
