SPECIFICATION FairSpec
CONSTANTS
    Student = {ann}
    Parent = {pia}
    NoParent = NoParent
    NoInvoice = NoInvoice
    LastDate = 3
    Schedules <- ManySettings
    Guardians = {pia, NoParent}
    Marks = {"UNMARKED", "PRESENT", "ABSENT"}
    MaxCycles = 4
    MaxBatch = 9
INVARIANTS TypeOK NoSessionCountedTwice CountersExact LinesMatchCycles
PROPERTIES ClosedCyclesFrozen RerunFindsNothing DueIsInvoiced
