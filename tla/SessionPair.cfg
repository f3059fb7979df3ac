\* Two processes, three requests, one second.
CONSTANTS
    Workers = {w1, w2}
    Inodes = {i1, i2}
    Seconds = {s1}
    MaxRetry = 0
    MaxReq = 3
    MaxFds = 3
    None = None
SPECIFICATION Spec
SYMMETRY Symmetry
INVARIANTS
    FreshReports
    NothingLost
CHECK_DEADLOCK FALSE
