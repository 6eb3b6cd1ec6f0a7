\* Each sequence by itself, from its first write to its last.
SPECIFICATION Spec
CONSTANTS
    Script <- Scripted
    Temperature <- Readings
    FoundLow <- LowLines
    MissBound = 2
    HeatBound = 20
INVARIANTS
    OxidizerAsCommented
    BurnAsCommented
    NeverBothOpen
    FireOnlyIgnited
CHECK_DEADLOCK FALSE
