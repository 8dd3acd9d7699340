CONSTANTS
    Losses = 0
    Lapses = 1
    Runs = 2
    Starts = 2
    Accounts <- NoPassword
SPECIFICATION Spec
INVARIANTS RestartServes
CHECK_DEADLOCK FALSE
