SPECIFICATION FairBroadcastSpec
\* The dialog is closed, everything is delivered.
CHECK_DEADLOCK FALSE
CONSTANTS
    Requests = {r1, r2, r3}
    Recipients = {p1, p2}
    BatchSize = 1
    MaxRetries = 1
    MaxRestarts = 1
INVARIANTS
    OneMessagePerRecipient
    StoredFilesExist
PROPERTIES
    EveryRecipientIsDecided
