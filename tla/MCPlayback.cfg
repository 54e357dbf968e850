\* A play, its retry, its failure and another play.
SPECIFICATION SubFairSpec
CONSTANTS
    local = local
    public = public
    TracksOf <- Tracks
    RegionLangs <- FinlandLangs
    Chans = {local, public}
    Rtsp  = {local}
    IdleSource = idle
    None  = None
    LoadfileMayFail = TRUE
    MaxLoads  = 5
    MaxEvents = 3
    MaxRefreshes = 1
INVARIANTS
    OneRetry
    StatusSettles
    SubsFollow
PROPERTIES
    TuningEnds
\* The bound on loads ends a run.
CHECK_DEADLOCK FALSE
