SPECIFICATION ScenariosSpec
CONSTANTS
    OrderIds = {"o1", "o2"}
    TradeIds = {"t1", "t2"}
    Assets = {"UP", "DOWN"}
    OurOrders = {"o1"}
    Orders <- MCOrders
    Trades <- MCTrades
    PriceScale = 4
    QueueCap = 1
    MaxOrders = 1
    MaxTrades = 2
    MaxSeen = 2
    OrderTtl = 2
    TradeTtl = 2
    SeenTtl = 2
    SweepInterval = 0
    Stages = {"FAILED"}
    MaxDelay = 1
    MaxTime = 1
INVARIANTS TypeOK NoDoubleCount BooksBalance FillsReachT2
PROPERTIES LiveOrdersEvictedLast TerminalStaysTerminal
CHECK_DEADLOCK FALSE
