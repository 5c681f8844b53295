SPECIFICATION FairSpec
CONSTANTS
    t1 = t1
    t2 = t2
    Threads <- TwoThreads
    MaxWork = 1
    MaxAbove = 1
    MaxLeaves = 1
    MaxRestarts = 0
CHECK_DEADLOCK FALSE
PROPERTY RestartsCorrectly
