SPECIFICATION FairSpec
CONSTANTS
    j1 = j1
    j2 = j2
    t1 = t1
    t2 = t2
    t3 = t3
    Jobs = {j1, j2}
    Names = {t1, t2, t3}
    Namings <- TwoTasks
    Excluded = {t3}
    Fields = {"a"}
    Values = {1}
    NoName = NoName
    MaxRetries = 1
    DbAttempts = 2
    MaxItems = 2
    Budget = 2
CHECK_DEADLOCK FALSE
INVARIANT TypeOK
INVARIANT AtMostOneCopy
INVARIANT NothingLost
INVARIANT EditsReachTheJob
PROPERTY RetriggeredSettles
