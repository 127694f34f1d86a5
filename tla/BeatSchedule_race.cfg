SPECIFICATION FairSpec
CONSTANTS
    Tasks = {t1}
    Settings = {s1}
    Unparsable = {}
    MaxWrites = 2
CHECK_DEADLOCK FALSE
PROPERTY SyncedEventually
