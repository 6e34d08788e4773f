SPECIFICATION FairImportSpec
\* Once everything is imported there is nothing left to do.
CHECK_DEADLOCK FALSE
CONSTANTS
    Payments = {p1}
    Statements = {s1}
    Clerks = {k1, k2}
    Cron = cron
    Staff = staff
    Reallocated = {}
    MaxReallocations = 0
    Unnamed = {p1}
    None = none
INVARIANTS
    ImportedOnce
PROPERTIES
    OwnIsNotOffered
    EveryStatementIsOffered
