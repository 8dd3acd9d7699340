SPECIFICATION Spec
CONSTANTS
    Name = {"p", "q", "c1", "n1", "g1", "g2"}
    Conflict = {"c1"}
    Numbered = {"n1"}
    Grave = {"g1", "g2"}
    ChecksEtag = TRUE
    CrawlMode = "lazy"
    Seed <- OneFile
    UserOps = {"rename", "unlink"}
    RemoteOps = {"add"}
    CanFail = {}
    UserBudget = 2
    RemoteBudget = 1
    FailBudget = 0
INVARIANT
    DeleteSticks
