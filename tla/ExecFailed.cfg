SPECIFICATION Spec
CONSTANTS
    OrderIds = {"o1"}
    TradeIds = {"t1"}
    Assets = {"UP", "DOWN"}
    OurOrders = {"o1"}
    Orders <- MCOrders
    Trades <- MCTrades
    PriceScale = 4
    QueueCap = 3
    MaxOrders = 1
    MaxTrades = 1
    MaxSeen = 1
    OrderTtl = 2
    TradeTtl = 2
    SeenTtl = 2
    SweepInterval = 1
    Stages = {"MATCHED", "RETRYING", "MINED", "CONFIRMED", "FAILED"}
    MaxDelay = 1
    MaxTime = 1
INVARIANTS FailedTradeHoldsNothing
CHECK_DEADLOCK FALSE
