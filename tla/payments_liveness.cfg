SPECIFICATION FairSpec
CONSTANTS
    h1 = h1
    h2 = h2
    a1 = a1
    a2 = a2
    a3 = a3
    Null = Null
    Hashes <- TwoHashes
    Attempts <- TwoAttempts
    Restored = {}
    Amounts <- OneAmount
    Fees <- OneFee
    MaxMailbox = 2
    MaxCrashes = 0
CHECK_DEADLOCK FALSE
INVARIANT
    PendingIsLive
PROPERTIES
    AttemptsAreResolved
    SettledIsRecorded
