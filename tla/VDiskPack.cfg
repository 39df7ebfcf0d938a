CONSTANTS
    Parts <- MCParts
    Paths <- MCPaths
    Data <- MCData
    EmptyData = "empty"
    PackedLength <- MCPackedLength
    Without <- MCWithout
    Rank <- MCRank
    MaxFiles = 3
    MaxSaves = 1
    MaxDamaged = 0
SPECIFICATION Spec
INVARIANTS TypeOK HeaderTrue FolderLinks FolderEnds
PROPERTIES RoundTrip SaveAllOrNothing
CHECK_DEADLOCK FALSE
