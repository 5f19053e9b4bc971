CONSTANTS
    Requests = {r1, r2}
    NoRequest = NoRequest
    MaxThreads = 2
    MaxResizes = 3
    MaxOutages = 1
SPECIFICATION FairSpec
INVARIANTS TypeOK ExactlyOnce SingleWorkerFIFO DrainedOnDestroy
PROPERTIES LeavesEmptyHanded Served JoinsReturn ImplementsRequestQueue
