SPECIFICATION FairSpec
\* Once every payment is reversed there is nothing left to do.
CHECK_DEADLOCK FALSE
CONSTANTS
    Payments = {p1, p2}
    Cron = cron
    Staff = staff
    Reallocated = {p1}
    MaxReallocations = 1
    Unnamed = {}
    None = none
INVARIANTS
    SyncedIsBooked
    SyncedMatchesBooks
PROPERTIES
    CreditedIsPushed
