\* Two projects, three clicks that start something, any cancellation and closing,
\* and one profile that cannot be read.
SPECIFICATION FairSpec
CONSTANTS
  p = p
  q = q
  NoProject = NoProject
  Defaults = Defaults
  Projects <- TwoProjects
  MaxClicks = 3
  MaxFaults = 1
  PageSize = 1
  MaxScans = 2
INVARIANTS
  AllTypeOK
  ShownBelongsTogether
  ButtonsComeBack
  DialogTellsTheTruth
PROPERTIES
  CancelledShowsNothing
  EverythingCloses
\* A closed window, and one whose user has clicked enough, may stop.
CHECK_DEADLOCK FALSE
