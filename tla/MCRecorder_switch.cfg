\* The recording switched on and off by two threads.
SPECIFICATION FairSpec
CONSTANTS
    Worker = {w1, w2}
INVARIANTS
    RecorderInv
    OneLateRow
    MissedOnlyInGap
PROPERTIES
    NotifyResumes
