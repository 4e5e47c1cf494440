CONSTANTS
    MaxFailures = 2
    Max429 = 2
    Max425 = 2
    CancelAllOnFailure = TRUE
    MaxIntents = 1
SPECIFICATION HealthSpec
INVARIANT CancelsGetThrough
