\* The life of one session, every goroutine of it scheduled.
SPECIFICATION FairSpec
CONSTANTS
    Attempts = 1
    MinBytes = 1
    Healthy  = 2
PROPERTIES
    ClosedIsGone
    StarvationNoticed
    StallNoticed
\* The session may be over.
CHECK_DEADLOCK FALSE
