\* Every interleaving of two connections with the threads of two units.
SPECIFICATION Spec
CONSTANTS
    Sockets = {s1, s2}
    Units = {1, 2}
    Packets <- MCPackets
    Batches <- MCBatches
    LoginReplies = 2
    MaxPackets = 2
INVARIANTS
    TypeOK
    NoLookupErrors
    RegistryFollowsSockets
    HandledIsRegistered
PROPERTIES
    ImplementsSessions
\* The server may be stopped, or every connection closed.
CHECK_DEADLOCK FALSE
