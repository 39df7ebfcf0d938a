\* Well-formed frames, every segmentation.
SPECIFICATION FairSpec
CONSTANTS
    ByteRange = 4
    Ids = {1}
    Payloads <- MCPayloadsSmall
    MalformedSizes = {}
    SplitAfterHeader = TRUE
    MaxSent = 1
PROPERTIES
    EverythingArrives
CHECK_DEADLOCK FALSE
