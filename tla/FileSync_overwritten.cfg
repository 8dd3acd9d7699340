SPECIFICATION Spec
CONSTANTS
    Name = {"p", "q", "c1", "n1", "g1"}
    Conflict = {"c1"}
    Numbered = {"n1"}
    Grave = {"g1"}
    ChecksEtag = FALSE
    CrawlMode = "lazy"
    Seed <- OneFile
    UserOps = {"create"}
    RemoteOps = {"rename"}
    CanFail = {}
    UserBudget = 1
    RemoteBudget = 1
    FailBudget = 0
INVARIANT
    EditSafe
