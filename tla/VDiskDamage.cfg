CONSTANTS
    Parts <- MCParts
    Paths <- MCPathsDeep
    Data <- MCOneData
    EmptyData = "empty"
    PackedLength <- MCPackedLength
    Without <- MCWithout
    Rank <- MCRank
    MaxFiles = 3
    MaxSaves = 2
    MaxDamaged = 1
SPECIFICATION FairSpec
PROPERTIES RoundTrip  DamageContained OpenComesToAnEnd
CHECK_DEADLOCK FALSE
