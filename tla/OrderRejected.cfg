SPECIFICATION Spec
CONSTANTS
    ClientIds = {c1}
    Quotes = {c1}
    QuoteOf <- MCQuoteOf
    MaxWorking = 1
    NoId = NoId
    ExecCap = 1
    FeedbackCap = 2
    UserCap = 1
    MaxRequests = 1
    PlaceOutcomes = {"OK", "REJECT"}
    CancelOutcomes = {"OK"}
    Fills = {"PARTIAL", "FILLED"}
    TimesOut = {}
    Noise = FALSE
    RateLimited = {"CANCEL"}
    Refuses = FALSE
    Redundant = FALSE
    Controls = {}
    Echo = {FALSE}
    Prompt = TRUE
PROPERTIES RejectedWasNotPlaced
CHECK_DEADLOCK FALSE
