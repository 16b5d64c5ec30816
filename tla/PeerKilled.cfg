CONSTANTS
    n1 = n1  n2 = n2  n3 = n3  t1 = t1  t2 = t2  t3 = t3
    Old = old  Torn = torn  NoThread = noThread
    Nodes = {n1, n2, n3}
    Txns = {t1}
    Home <- OneHome
    Peers <- Mesh
    Command <- AllWrite
    InitialLength = 0
    Faulty = {}
    Fragile = {n2}
    tmax = 1
SPECIFICATION FairSpec
PROPERTY EveryRequestAnswered
