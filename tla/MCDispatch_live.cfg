\* The abort, "ign" and a hot fire whose igniter may never get hot.
SPECIFICATION FairSpec
CONSTANTS
    Worker = {w1, w2}
    Line <- LiveLines
    FoundOpen = {}
    QueueBound = 1
    MissBound = 0
PROPERTIES
    AbortCompletes
    CommandsFinish
    IgniterLeftOn
CHECK_DEADLOCK FALSE
