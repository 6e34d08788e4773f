SPECIFICATION FairSpec
\* Everything is delivered, skipped or given up.
CHECK_DEADLOCK FALSE
CONSTANTS
    MaxMessages = 2
    Shown = 1
    Long = {}
    DigestDelay = 1
    MaxDigestDelay = 2
    MaxBackoff = 1
    MaxAttempts = 2
    MaxCrashes = 1
    None = none
INVARIANTS
    SentWasAnnounced
    RepeatedOnlyUnmarked
    DigestInTime
PROPERTIES
    EveryDeliveryEnds
