SPECIFICATION BulkSpec
CONSTANTS
    File = {f1, f2}
    Worker = {w1, w2}
    Caller = {u}
    Server = u
    Crawler = {r1, r2}
    Second = r2
    NoThread = none
    NoFile = nil
    ChangeBudget = 1
    FailBudget = 1
    CallBudget = 1
INVARIANTS
    OneEach
    NobodyOverslept
PROPERTIES
    EventuallyLocal
    WorkersEnd
    BulkEnds
CONSTRAINT AtMostOne
CHECK_DEADLOCK FALSE
