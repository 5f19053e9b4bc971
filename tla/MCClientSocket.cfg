CONSTANTS
    Chunk = 2
    SendsWhen = {"CONNECTED", "CONNECTING", "DISCONNECTED"}
    MaxConnects = 3
    MaxIn = 2
    MaxOut = 3
SPECIFICATION FairSpec
INVARIANTS ConnectUndisturbed NothingHalfSent BytesConserved
PROPERTIES Answered ClosedNoticed
