CONSTANTS
    c1 = c1
    c2 = c2
    Clients = {c1, c2}
    NoClient = NoClient
    IdSpace = 2
    Chunk = 2
    Loads <- FourLoads
SPECIFICATION Spec
INVARIANT CleanupDisconnectsAll
