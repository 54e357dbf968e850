\* Two channels on two muxes and one without pids, two prefetchers, the sweeper, a tuned channel.
SPECIFICATION FairSpec
CONSTANTS
    a = a
    c = c
    n = n
    m1 = m1
    m2 = m2
    Urls  = {a, c, n}
    NoPids = {n}
    Mux   <- MCMux
    Lists <- MCLists
    Files <- MCFiles
    Prefetchers = {p1, p2}
    Tuned = {t1}
INVARIANTS
    OneSession
    PidsKept
PROPERTIES
    ServiceKnown
    SweeperFollows
    BackgroundEnds
\* Every goroutine may have ended.
CHECK_DEADLOCK FALSE
