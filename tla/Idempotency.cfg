SPECIFICATION FairSpec
CONSTANTS
    Requests = {r1, r2, r3}
    Keys = {k1}
    NoKey = NoKey
    None = None
    RedisFaults = TRUE
    Crashes = TRUE
CHECK_DEADLOCK FALSE
INVARIANT TypeOK
INVARIANT MutualExclusion
INVARIANT RetryNotReexecuted
INVARIANT ReplayIsGenuine
PROPERTY LockIsFreed
