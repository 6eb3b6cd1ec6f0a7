\* Two connections that come, type, hang up or break, over one thread, under the
\* scheduling the operating system gives.
SPECIFICATION FairSpec
CONSTANTS
    Client = {c1, c2}
    Worker = {w1}
    Line <- Typing
    Piece <- Pieces
    LineBound = 1
    EmitBound = 1
INVARIANTS
    SessionsInv
    GoneOnlyAfterHangUp
PROPERTIES
    GoneForGood
    EverythingTaken
    EverybodyAccepted
    SessionsEnd
CHECK_DEADLOCK FALSE
