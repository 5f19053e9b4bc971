CONSTANTS
    Bytes = {b0, b1}
    Junk = Junk
    InitialCapacity = 2
    MaxLength = 3
    MaxCapacity = 8
    Queries <- MCQueries
    Limits = {5, 512}
    Generations = 3
    MaxSearches = 3
SPECIFICATION CoreSpec
INVARIANTS TypeOK PathIsWay FindsAWay
PROPERTY ImplementsByteQueue
