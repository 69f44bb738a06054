SPECIFICATION FairSpec
CONSTANTS
    LastDay = 3
    MonthLength = 2
    ClassDays = {1, 2}
    SessionsPerInvoice = 1
    MaxMishaps = 1
    MaxCycles = 3
    MaxInvoices = 4
INVARIANTS TypeOK SessionsChargedOnce PeriodsChargedOnce
PROPERTIES FullCycleIsFollowed
