SPECIFICATION FairSpec
CONSTANTS
    Workers = {w1}
    Events = {e1}
    Subscribed = {e1}
    BatchSize = 2
    MaxStreamLen = 3
    MaxEntries = 2
    RedisFaults = FALSE
    Terminations = TRUE
CHECK_DEADLOCK FALSE
PROPERTY AtLeastOnce
