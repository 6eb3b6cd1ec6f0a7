\* Two iterations of the sampling loop next to the CSV writer.
SPECIFICATION Spec
CONSTANTS
    IterBound = 2
    Stamps = 2
INVARIANTS
    SamplesInv
    StampsDiffer
    ColumnsAsCommented
    AsConfigured
CHECK_DEADLOCK FALSE
