SPECIFICATION FairSpec
CONSTANTS
    Threads = {b1, b2}
    Sync = sync
    Kinds = {"READ", "WRITE", "REJECTED", "QUIT"}
    Ends = {"eof", "reset"}
    BindMayFail = TRUE
    Budget <- TwoSignals
CHECK_DEADLOCK FALSE
INVARIANTS
    SocketsOwned
    LockHeldByThread
PROPERTIES
    CommandsNotCutShort
    SignalHandled
