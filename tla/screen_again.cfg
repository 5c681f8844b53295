SPECIFICATION ScreenSpec
CONSTANTS
    h1 = h1
    a1 = a1
    a2 = a2
    s1 = s1
    s2 = s2
    d1 = d1
    Null = Null
    Hashes <- OneHash
    Attempts <- TwoAttempts
    Restored = {}
    Amounts <- OneAmount
    Fees <- OneFee
    MaxMailbox = 1
    MaxCrashes = 0
    Screens <- TwoScreens
    Dialogs = {}
    MaxConfirms = 2
CHECK_DEADLOCK FALSE
INVARIANT NoConcurrentAttempts
