SPECIFICATION FairSpec
CONSTANTS
    Worker = {w1, w2}
    LastDate = 4
    SessionsPerCycle = 2
    MaxNumber = 6
INVARIANT OnlyLastIsOpen
PROPERTY EveryRunEnds
