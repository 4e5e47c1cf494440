CONSTANTS
    RcRequests = 3
    RcDepth = 2
    RcPending = 3
    RcConnects = 1
SPECIFICATION RcSpec
INVARIANT AnswersMatch
CHECK_DEADLOCK FALSE
