CONSTANTS
    n1 = n1  n2 = n2  n3 = n3  t1 = t1  t2 = t2  t3 = t3
    Old = old  Torn = torn  NoThread = noThread
    Nodes = {n1, n2}
    Txns = {t1, t2, t3}
    Home <- TwoHomes
    Peers <- Mesh
    Command <- TwoWritesAndReplace
    InitialLength = 1
    Faulty = {n1}
    Fragile = {}
    tmax = 1
SPECIFICATION FairSpec
INVARIANTS UncommittedStaysLocked ReplicasAgree AnsweredWriteStays
PROPERTIES EveryRequestAnswered PeersBecomeFree
