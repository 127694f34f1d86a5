SPECIFICATION Spec
CONSTANTS
    Requests = {r1, r2}
    Keys = {k1}
    NoKey = NoKey
    None = None
    RedisFaults = FALSE
    Crashes = FALSE
CHECK_DEADLOCK FALSE
INVARIANT ProcessedExactlyOnce
