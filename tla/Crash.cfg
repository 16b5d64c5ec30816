CONSTANTS
    n1 = n1  n2 = n2  n3 = n3  t1 = t1  t2 = t2  t3 = t3
    Old = old  Torn = torn  NoThread = noThread
    Nodes = {n1, n2, n3}
    Txns = {t1, t2, t3}
    Home <- ThreeHomes
    Peers <- PairAndReplica
    Command <- WriteAndReplaces
    InitialLength = 0
    Faulty = {n3}
    Fragile = {n1}
    tmax = 1
SPECIFICATION Spec
INVARIANTS NumbersExact AnsweredWriteStays MessagesExpected LockOwnedOrReset
PROPERTIES FlagsSettled ImplementsCommitProtocol
