CONSTANTS
    \* UiBridge
    MaxSessions = 3
    WriteCap = 1
    CtlCap = 1
    AuthToken = TRUE
    \* Watcher
    MaxWindows = 2
    MaxWatchers = 1
    MaxFound = 1
    \* WsClients
    Clients = {"market", "user", "rtds", "binance"}
    Redundancy <- MCRedundancy
    MaxQueue <- MCMaxQueue
    MaxAuth = 2
    MaxUp = 2
    MaxOps = 4
    \* MarketBooks
    MaxPrice = 1
    Changes <- MCChanges
    MaxBatch = 2
    DeltaCap = 1
    NoteCap = 1
    \* Http2Client
    MaxRequests = 5
    MaxStreams = 2
    MaxConnects = 4
    \* RestClient
    RcRequests = 5
    RcDepth = 2
    RcPending = 3
    RcConnects = 4
    \* RateLimiter
    Buckets = 3
    BucketTicks = 2
    Limit <- MCLimit
    BackoffBase = 1
    Backoff425 = 3
    BackoffMax = 4
    MaxNow = 7
    MaxAnswers = 1
    \* GatewayHealth
    MaxFailures = 2
    Max429 = 1
    Max425 = 1
    CancelAllOnFailure = TRUE
    MaxIntents = 1
    \* GatewayOrders
    Assets = {a1, a2}
    Sizes = {1}
    BatchMax = 2
    MaxOrders = 3
    MaxQueued = 3
    MaxPosition = 1
    \* InventoryService
    QueueCap = 1
    MaxPolls = 2
    MaxEvents = 1
    \* Sessions
    Timeframes = {"5M", "15M"}
    Period <- MCPeriod
    PreSubscribe = 0
    SlotCap = 4
    MapCap = 6
    BootTime = 2
    MaxTime = 4
    EndTimes = {0, 4}
    SimCap = 1
    IntentCap = 1
SPECIFICATION ComponentsSpec
CHECK_DEADLOCK FALSE
INVARIANTS ComponentsTypeOK NeverDeaf LadderIsTheMarkets NeverDark BboIsBest ShadowFollows
    GrantsBounded ReservationsReturn OneSweepPerStreak InventoryFollowsChain
    SlotsAgree QuotedIsSubscribed StopSticks SessionEndsInTime
PROPERTY TransportsImplement
VIEW ComponentsView
