\* One process, three requests: it can lose two replies and starve the third.
CONSTANTS
    Workers = {w1}
    Inodes = {i1, i2}
    Seconds = {s1}
    MaxRetry = 1
    MaxReq = 3
    MaxFds = 3
    None = None
SPECIFICATION FairSpec
INVARIANTS
    HandlesKept
    DescriptorsLast
PROPERTIES
    Answered
CHECK_DEADLOCK FALSE
