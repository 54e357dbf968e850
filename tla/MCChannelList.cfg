\* Safety and the marker of the playing channel.
SPECIFICATION PanelSpec
CONSTANTS
    Locals  <- MCLocals
    Publics <- MCPublics
    Categories <- MCCategories
    Undefined = "Undefined"
    Home = "FI"
    LocalHeader = "Local"
    Letters = {"x"}
    MaxRows   = 3
    MaxFilter = 2
INVARIANTS
    SelOnPanel
    Arranged
    OverlayFresh
    BarTrue
PROPERTIES
    MarkerFollows
