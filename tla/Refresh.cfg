CONSTANTS
    Tool = {q1, q2}
    Folder = {"a"}
    Configs <- Every
    Edits = 1
    Fails = 1
    Turns = 2
SPECIFICATION FairSpec
INVARIANTS DoneIsTrue
PROPERTIES NeverBack RequestsBegin
CHECK_DEADLOCK FALSE
