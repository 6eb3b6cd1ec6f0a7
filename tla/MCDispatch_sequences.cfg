\* The oxidizer sequence, the hot fire, a brief command, a line nobody knows and
\* the abort, over two threads.
SPECIFICATION Spec
CONSTANTS
    Worker = {w1, w2}
    Line <- SequenceLines
    FoundOpen = {"V21"}
    QueueBound = 1
    MissBound = 0
SYMMETRY SameThreads
INVARIANTS
    IInv
    NoSurvivor
    NothingLeftOpen
PROPERTIES
    OnlyAbortCutsShort
    NothingStartsInAbort
CHECK_DEADLOCK FALSE
