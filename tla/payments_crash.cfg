SPECIFICATION Spec
CONSTANTS
    h1 = h1
    h2 = h2
    a1 = a1
    a2 = a2
    a3 = a3
    Null = Null
    Hashes <- OneHash
    Attempts <- ThreeAttempts
    Restored <- OneRestored
    Amounts <- TwoAmounts
    Fees <- OneFee
    MaxMailbox = 2
    MaxCrashes = 1
CHECK_DEADLOCK FALSE
SYMMETRY AttemptSymmetry
INVARIANTS
    TypeOK
    
    StatusIsJustified
PROPERTY SupervisorKeepsPaid
