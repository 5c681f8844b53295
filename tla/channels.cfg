SPECIFICATION FairSpec
CONSTANTS
    Null = Null
    Channels = {c1}
    Funding = 1
    Reserve = 0
    MaxMailbox = 4
    MaxCrashes = 2
CHECK_DEADLOCK FALSE
INVARIANTS
    MapFollowsNode
    MapIsIdentified
    OneRowPerChannel
    AlertedOnce
    BalanceFollowsNode
PROPERTIES
    RefundSurvives
    StoppedIsHistory
