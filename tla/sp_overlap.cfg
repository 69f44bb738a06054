SPECIFICATION FairSpec
CONSTANTS
    Worker = {w1, w2}
    LastDate = 3
    SessionsPerCycle = 1
INVARIANTS TypeOK SessionsPaidOnce
PROPERTIES CountsNeverLost EveryRunEnds
