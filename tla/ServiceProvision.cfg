SPECIFICATION FairProvisionSpec
\* The server may stay down when no month is left to pass.
CHECK_DEADLOCK FALSE
CONSTANTS
    Scheduled = scheduled
    Startup = startup
    Manual = manual
    MaxVersions = 2
    Absent = absent
INVARIANTS
    SyncedMatchesUnlessOverlap
PROPERTIES
    PreviousMonthIsSent
