SPECIFICATION Spec
CONSTANTS
    Name = {"p", "q", "c1", "n1", "g1", "g2"}
    Conflict = {"c1"}
    Numbered = {"n1"}
    Grave = {"g1", "g2"}
    ChecksEtag = FALSE
    CrawlMode = "lazy"
    Seed <- OneFile
    UserOps = {"write", "create", "rename", "unlink", "touch"}
    RemoteOps = {}
    CanFail = {"rename"}
    UserBudget = 2
    RemoteBudget = 0
    FailBudget = 1
INVARIANTS
    CleanMeansSame
    NoZerosSent
    UniqueIds
    NoOrphanFile
CONSTRAINT Calm
