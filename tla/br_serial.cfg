SPECIFICATION SerialSpec
CONSTANTS
    Worker = {w1, w2}
    LastDate = 4
    SessionsPerCycle = 2
    MaxNumber = 3
INVARIANT TypeOK
PROPERTY KeepsPromise
