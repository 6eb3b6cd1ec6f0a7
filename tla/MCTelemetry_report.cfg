\* Four valves moved while the loop samples.
SPECIFICATION FairSpec
CONSTANTS
    Moving <- MovingValves
    Spare <- SpareLines
    MoveBound = 3
INVARIANTS
    TelemetryInv
    TellsWhatWasRead
PROPERTIES
    ReportCatchesUp
