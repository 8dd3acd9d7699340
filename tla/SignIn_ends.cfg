CONSTANTS
    Losses = 1
    Lapses = 1
    Runs = 2
    Starts = 2
    Accounts <- SomeAccounts
SPECIFICATION FairSpec
INVARIANTS SavedServesAlone RefusedOnce ThreeCodes TrustedOnly
PROPERTIES SignInEnds
CONSTRAINT NotAllSix
CHECK_DEADLOCK FALSE
