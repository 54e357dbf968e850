\* A zap races with the goroutine of a neighbour; loadfiles may be refused.
SPECIFICATION FairSpec
CONSTANTS
    a = a
    b = b
    p = p
    URLs     = {a, b, p}
    Rtsp     = {a, b}
    Expanded = {a}
    Channels <- ThreeChannels
    Main     = main
    Workers  = {w1}
    Sessions = {s1, s2, s3}
    Tuners   = 2
    LoadfileMayFail = TRUE
    None     = None
INVARIANTS
    NoOrphanSession
    ServedNotClosing
    ProxyReady
PROPERTIES
    WarmSessionKept
    MainReturns
    TunersComeBack
\* After Quit nothing needs to happen.
CHECK_DEADLOCK FALSE
