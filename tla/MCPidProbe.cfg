\* Three programs, two losses.
SPECIFICATION ProbeSpec
CONSTANTS
    Header = 2
    Room   = 3
    Programs  <- MCPrograms
    Streams   <- MCStreams
    Requested <- MCRequested
    Misread   <- MCMisread
    Losses = 2
INVARIANTS
    SectionWhole
    ExpandedCovers
    Collected
\* The probe returns.
CHECK_DEADLOCK FALSE
