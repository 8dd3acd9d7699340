CONSTANTS
    Dirs <- TwoDirs
    Home = "iCloud"
    Commands = 4
    Faults = 1
SPECIFICATION FairSpec
INVARIANTS DoctorKnows LabelKnown PurgedClean
PROPERTIES ComesBack ClearedRestarts CacheNotInUse
CHECK_DEADLOCK FALSE
