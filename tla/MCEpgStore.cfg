\* The store, the guide and their caches, through replans, outages, restarts.
SPECIFICATION Spec
CONSTANTS
  None = None
  NoProgrammes = NoProgrammes
  Down = Down
  Cut = Cut
  Services <- OneMux
  Plans <- OneMuxPlans
  Misread <- NeverPlanned
  Guides <- TwoGuides
  LastSlot = 4
  Hour = 1
  MaxReplans = 1
  MaxOutages = 2
  MaxStops = 1
  MaxFaults = 1
INVARIANTS
  NowIsTrue
  BarSurvives
PROPERTIES
  GuideKept
\* The clock and the counters are bounded.
CHECK_DEADLOCK FALSE
