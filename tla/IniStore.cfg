\* Every sequence of calls, with a heap that fills up.
SPECIFICATION Spec
CONSTANTS
    Padded <- MCPadded
    Tags <- MCTags
    Addresses = {1, 2, 3, 4, 5}
    SectionNames <- MCSectionNames
    Keys <- MCKeys
    Values <- MCValues
    Comments <- MCComments
    Texts <- MCTexts
    MaxSet = 5
    MaxLoad = 5
INVARIANTS
    TypeOK
    Consistent
    MemorySafe
    RoundTrip
PROPERTIES
    ImplementsKeyValues
    OrderKept
