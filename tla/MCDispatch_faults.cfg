\* The promise of the abort while the device refuses writes.
SPECIFICATION Spec
CONSTANTS
    Worker = {w1, w2}
    Line <- FaultLines
    FoundOpen = {"V21"}
    QueueBound = 1
    MissBound = 2
SYMMETRY SameThreads
INVARIANTS
    NothingLeftOpen
PROPERTIES
    KeepsContract
CHECK_DEADLOCK FALSE
