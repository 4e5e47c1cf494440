SPECIFICATION FairSpec
CONSTANTS
    ClientIds = {c1}
    Quotes = {c1}
    QuoteOf <- MCQuoteOf
    MaxWorking = 1
    NoId = NoId
    ExecCap = 1
    FeedbackCap = 1
    UserCap = 1
    MaxRequests = 1
    PlaceOutcomes = {"OK", "UNAVAILABLE"}
    CancelOutcomes = {"OK", "LIMITED"}
    Fills = {"PARTIAL", "FILLED"}
    TimesOut = {"CANCEL"}
    Noise = TRUE
    RateLimited = {"CANCEL_ALL"}
    Refuses = TRUE
    Redundant = TRUE
    Controls = {"CANCEL_ALL", "LIVE", "DRY_RUN"}
    Echo = {TRUE}
    Prompt = FALSE
INVARIANTS TypeOK
PROPERTIES PhantomsEnd
CHECK_DEADLOCK FALSE
