\* A failed ErrorCheck, or SIGINT on main; no client ever comes.
SPECIFICATION FairSpec
CONSTANTS
    Interrupted = {"main"}
    ClientBound = 0
PROPERTIES
    EndsWhenTold
CHECK_DEADLOCK FALSE
