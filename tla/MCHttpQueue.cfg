CONSTANTS
    get = get
    post1 = post1
    post2 = post2
    Requests <- MCRequests
    NoRequest = NoRequest
    Workers = {w1, w2}
    Calls <- MCCalls
    MaxPieces = 1
SPECIFICATION FairSpec
INVARIANT NothingCarriedOver
PROPERTIES Served ImplementsRequestQueue
