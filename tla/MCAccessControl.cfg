CONSTANT Threads = {th1, th2, th3, th4}
SPECIFICATION FairSpec
INVARIANT TypeOK
INVARIANT CountersExact
INVARIANT Exclusion
INVARIANT NoLostWakeup
PROPERTY WriterGetsIn
PROPERTY ReadersGetIn
PROPERTY ImplementsFileLock
