\* Writes of whole and of partial packets, one larger than two packets, and
\* enough of them to trim the window several times; then a close.
SPECIFICATION RingFairSpec
CONSTANTS
    Readers  = {r1, r2}
    Packet   = 3
    Max      = 7
    Chunks   = {2, 3, 6}
    ReadLens = {2, 4}
    MaxBytes = 12
INVARIANTS
    WindowInPackets
    NoLostWakeup
PROPERTIES
    ImplementsFeed
    ReadersReleased
\* Every reader may have left and the ring be closed or full.
CHECK_DEADLOCK FALSE
