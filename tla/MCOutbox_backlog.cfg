\* Six status messages to one client, whose writes may be slow or fail.
SPECIFICATION FairSpec
CONSTANTS
    EmitBound = 6
INVARIANTS
    OutboxInv
    OneStableWrite
    EachOnce
PROPERTIES
    ServesClient
    EverythingArrives
CHECK_DEADLOCK FALSE
