CONSTANTS
    c1 = c1
    c2 = c2
    Clients = {c1, c2}
    Threads = {t1, t2}
    Datas = {1, 2, 3, 4, 5, 6, 7}
    NoClient = NoClient
    NoData = NoData
    MaxConnection = 1
    NumAccept = 1
    PoolInit = {1}
    PoolCapacity = 2
    Chunk = 1
    Loads <- FourLoads
SPECIFICATION FairSpec
INVARIANTS OneHolder StaysPosted BytesInOrder
PROPERTIES Served CleanupReturns
