CONSTANTS
    Timeframes = {"5M"}
    Period <- MCPeriod
    PreSubscribe = 0
    SlotCap = 64
    MapCap = 6
    BootTime = 0
    MaxTime = 7
    EndTimes = {}
    SimCap = 1
    IntentCap = 1
SPECIFICATION RotationsSpec
CHECK_DEADLOCK FALSE
INVARIANT CurrentIsQuotable
