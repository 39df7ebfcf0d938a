\* Well-formed frames, and no segment that ends behind a lone header.
SPECIFICATION FairSpec
CONSTANTS
    ByteRange = 4
    Ids = {1, 6}
    Payloads <- MCPayloads
    MalformedSizes = {}
    SplitAfterHeader = FALSE
    MaxSent = 3
INVARIANTS
    TypeOK
    InOrderAlways
PROPERTIES
    EverythingArrives
    ImplementsStream
\* The peer may fall silent: the model stops when all it wrote is read.
CHECK_DEADLOCK FALSE
