CONSTANTS
    n1 = n1  n2 = n2  n3 = n3  t1 = t1  t2 = t2  t3 = t3
    Old = old  Torn = torn  NoThread = noThread
    Nodes = {n1, n2}
    Txns = {t1, t2}
    Home <- TwoHomes
    Peers <- Mesh
    Command <- WriteAndReplaces
    InitialLength = 0
    Faulty = {}
    Fragile = {}
    tmax = 1
SPECIFICATION Spec
INVARIANT NoAssertionFails
