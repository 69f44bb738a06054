SPECIFICATION NumberingSpec
CONSTANTS
    Base = 3
    Width = 2
    Started = {0, 9}
    Deletable = {1, 2, 3, 4, 5, 6, 7, 8, 9, 10, 11}
    MaxNumber = 11
INVARIANTS NumberingTypeOK NextFollowsAll
PROPERTIES StopsAtLimit
