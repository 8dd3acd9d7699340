CONSTANTS
    Dirs = {"iCloud"}
    Fallback = "iCloudDrive"
    Presses <- SomePresses
    MaxJobs = 2
SPECIFICATION FairSpec
INVARIANTS ThreeCodes OneProof StoredIsUsed ShownIsMounted
PROPERTIES Answered
CHECK_DEADLOCK FALSE
