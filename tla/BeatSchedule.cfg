SPECIFICATION FairSpec
CONSTANTS
    Tasks = {t1, t2}
    Settings = {s1, s2, s3}
    Unparsable = {s3}
    MaxWrites = 3
CHECK_DEADLOCK FALSE
INVARIANT TypeOK
INVARIANT StaleOnlyWhenEmpty
PROPERTY SyncedWhileEnabled
