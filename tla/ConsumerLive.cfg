\* Two connections that share one thread.
SPECIFICATION FairSpec
CONSTANTS
    Sockets = {s1, s2}
    Units = {1}
    Packets <- MCPackets
    Batches <- MCBatchesSmall
    LoginReplies = 1
    MaxPackets = 2
PROPERTIES
    Answered
    Forgotten
CHECK_DEADLOCK FALSE
