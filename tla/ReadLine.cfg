SPECIFICATION Spec
CONSTANTS
    Letters = {a, b}
    LineEnds = {cr, lf}
    MaxInput = 6
    ALEN = 3
CHECK_DEADLOCK FALSE
INVARIANTS
    CommandsAsSent
