\* The sequences against the comments above and in them.
SPECIFICATION Spec
CONSTANTS
    Script <- Disputed
    Temperature <- Readings
    FoundLow = {}
    MissBound = 0
    HeatBound = 20
INVARIANTS
    AsCommented
CHECK_DEADLOCK FALSE
