SPECIFICATION Spec
CONSTANTS
    t1 = t1
    t2 = t2
    Threads <- TwoThreads
    MaxWork = 2
    MaxAbove = 2
    MaxLeaves = 1
    MaxRestarts = 1
CHECK_DEADLOCK FALSE
SYMMETRY ThreadSymmetry

    
PROPERTIES
    RestoreIsOffered
    
