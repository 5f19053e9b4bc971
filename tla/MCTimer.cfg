CONSTANTS
    Near = 2
    Far = 2
    Levels = 3
    Span <- MCSpan
    MaxTimers = 1
    MaxLag = 1
    Intervals <- MCIntervals
    Times <- MCTimes
SPECIFICATION FairSpec
INVARIANTS InOneSlot NeverLate CallsConserved RemoveStops
PROPERTIES NeverEarly Fires
