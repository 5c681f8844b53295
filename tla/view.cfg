SPECIFICATION FairSpec
CONSTANTS
    w1 = w1
    w2 = w2
    r1 = r1
    Writers <- TwoWriters
    Readers <- OneReader
    MaxWrites = 3
    MaxQueue = 3
CHECK_DEADLOCK FALSE
INVARIANTS
    
    WakesUpOnce
 
