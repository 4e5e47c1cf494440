SPECIFICATION Spec
CONSTANTS
    ClientIds = {c1, c2}
    Quotes = {c1, c2}
    QuoteOf <- MCQuoteOf
    MaxWorking = 2
    NoId = NoId
    ExecCap = 1
    FeedbackCap = 1
    UserCap = 1
    MaxRequests = 2
    PlaceOutcomes = {"OK","NOID"}
    CancelOutcomes = {"OK"}
    Fills = {}
    TimesOut = {"PLACE"}
    Noise = FALSE
    RateLimited = {"CANCEL"}
    Refuses = FALSE
    Redundant = FALSE
    Controls = {"LIVE"}
    Echo = {FALSE}
    Prompt = TRUE
INVARIANTS NoLostOrder IdsCorrelateRight
CONSTRAINT Alive
SYMMETRY Perms
CHECK_DEADLOCK FALSE
