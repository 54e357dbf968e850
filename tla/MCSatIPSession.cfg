\* Two attempts, and a dial that is scheduled.
SPECIFICATION FairDial
CONSTANTS
    Attempts = 2
    MinBytes = 1
    Healthy  = 2
INVARIANTS
    AnswersMatch
PROPERTIES
    SessionAsPromised
    DialReturns
\* Every session may be over.
CHECK_DEADLOCK FALSE
