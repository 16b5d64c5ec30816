SPECIFICATION Spec
CONSTANTS
    Boards = {b1, b2}
    Sync = sync
    Messages <- WithSlashes
    MayChange = TRUE
    MaxRequests = 4
SYMMETRY Exchangeable
CHECK_DEADLOCK FALSE
INVARIANTS
    ReadsFinal
    FinalStays
PROPERTIES
    WroteIsWritten
    ReadAnswersFinal
