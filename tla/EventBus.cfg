SPECIFICATION FairSpec
CONSTANTS
    Workers = {w1, w2}
    Events = {e1, e2}
    Subscribed = {e1}
    BatchSize = 2
    MaxStreamLen = 2
    MaxEntries = 3
    RedisFaults = TRUE
    Terminations = TRUE
CHECK_DEADLOCK FALSE
INVARIANT TypeOK
INVARIANT StartedAtMostOnce
PROPERTY ProcessedUnlessMishap
PROPERTY ImplementsMailbox
