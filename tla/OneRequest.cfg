CONSTANTS
    n1 = n1  n2 = n2  n3 = n3  t1 = t1  t2 = t2  t3 = t3
    Old = old  Torn = torn  NoThread = noThread
    Nodes = {n1, n2, n3}
    Txns = {t1}
    Home <- OneHome
    Peers <- Everybody
    Command <- AllWrite
    InitialLength = 1
    Faulty = {n1, n2}
    Fragile = {}
    tmax = 1
SPECIFICATION FairSpec
INVARIANTS TypeOK LockOwned DecisionsAgree NobodyForgotten
PROPERTIES EveryRequestAnswered ImplementsCommitProtocol
