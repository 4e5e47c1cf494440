SPECIFICATION TestSpec
CONSTANTS
    MaxMessages = 2
INVARIANTS NoOrderForgotten
CHECK_DEADLOCK FALSE
