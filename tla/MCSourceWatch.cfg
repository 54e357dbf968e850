\* Two networks, a channel that can fill up, one restart.
SPECIFICATION FairSpec
CONSTANTS
    home = home
    cabin = cabin
    Networks <- Nets
    BoxPage <- Boxes
    Announced = {cabin}
    OtherPage <- Others
    PublicPages <- Served
    Down = Down
    None = None
    Cap = 2
    MaxChanges = 3
    MaxStops = 1
INVARIANTS
    NoStaleBox
    ShownAsSent
    ListSurvives
PROPERTIES
    SourcesAppear
