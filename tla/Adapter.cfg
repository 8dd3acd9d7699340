CONSTANTS
    n1 = n1
    n2 = n2
    t1 = t1
    t2 = t2
    Name = {n1, n2}
    Thread = {t1, t2}
    Events = 3
    MaxDepth = 2
SPECIFICATION Spec
SYMMETRY Alike
INVARIANTS TypeOK OneNumberEach ToldTrue WritesRight
PROPERTIES KeepsPromise
CHECK_DEADLOCK FALSE
