\* SIGINT at any time on any thread, or not at all, with up to two clients.
SPECIFICATION FairSpec
CONSTANTS
    Interrupted = {"main", "io", "writer", "pool"}
    ClientBound = 2
INVARIANTS
    ShutdownInv
    StreamsStopLast
    MainNeverTerminates
PROPERTIES
    KeptOnlyByThese
CHECK_DEADLOCK FALSE
