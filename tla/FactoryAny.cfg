\* Every segmentation, and length fields that are too small.
SPECIFICATION Spec
CONSTANTS
    ByteRange = 4
    Ids = {1, 6}
    Payloads <- MCPayloads
    MalformedSizes = {0, 3}
    SplitAfterHeader = TRUE
    MaxSent = 3
INVARIANTS
    InOrder
    Aligned
    BufferIsTail
    FramesWhole
    CutFromStream
CHECK_DEADLOCK FALSE
