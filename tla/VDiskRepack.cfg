CONSTANTS
    Parts <- MCParts
    Paths <- MCPathsTree
    Data <- MCOneData
    EmptyData = "empty"
    PackedLength <- MCPackedLength
    Without <- MCWithout
    Rank <- MCRank
    MaxFiles = 3
    MaxSaves = 1
    MaxDamaged = 0
SPECIFICATION Spec
PROPERTIES UnpacksWhatWasPacked
CHECK_DEADLOCK FALSE
