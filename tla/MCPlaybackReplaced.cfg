\* What ui.go:660-661 says of a replaced stream.
SPECIFICATION SubSpec
CONSTANTS
    local = local
    public = public
    TracksOf <- Tracks
    RegionLangs <- FinlandLangs
    Chans = {local, public}
    Rtsp  = {local}
    IdleSource = idle
    None  = None
    LoadfileMayFail = FALSE
    MaxLoads  = 4
    MaxEvents = 3
    MaxRefreshes = 0
PROPERTIES
    ReplacedIsNoFailure
\* The bound on loads ends a run.
CHECK_DEADLOCK FALSE
