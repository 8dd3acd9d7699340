SPECIFICATION FairSpec
CONSTANTS
    Name = {"p", "c1", "n1", "g1", "g2"}
    Conflict = {"c1"}
    Numbered = {"n1"}
    Grave = {"g1", "g2"}
    ChecksEtag = FALSE
    CrawlMode = "full"
    Seed <- OneFile
    UserOps = {"write", "create", "unlink"}
    RemoteOps = {"edit", "delete"}
    CanFail = {"upload", "restart"}
    UserBudget = 2
    RemoteBudget = 1
    FailBudget = 1
INVARIANTS
    EditSafe
    CleanMeansSame
PROPERTIES
    EventuallySettled
CONSTRAINTS
    Calm
    FewWithFailure
