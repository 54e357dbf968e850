\* What a comment says, and the code does not do: see README.
SPECIFICATION Spec
CONSTANTS
    a = a
    b = b
    p = p
    URLs     = {a, b, p}
    Rtsp     = {a, b}
    Expanded = {a}
    Channels <- ThreeChannels
    Main     = main
    Workers  = {w1, w2}
    Sessions = {s1, s2, s3, s4}
    Tuners   = 3
    LoadfileMayFail = FALSE
    None     = None
SYMMETRY Symmetry
INVARIANTS
    OnlyActiveUp
CHECK_DEADLOCK FALSE
