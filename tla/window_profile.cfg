\* Two projects, four clicks that start something, any cancellation and closing,
\* and one profile that cannot be read.
SPECIFICATION Spec
CONSTANTS
  p = p
  q = q
  NoProject = NoProject
  Defaults = Defaults
  Projects <- TwoProjects
  MaxClicks = 4
  MaxFaults = 1
INVARIANTS
  ProfilesStayApart
CHECK_DEADLOCK FALSE
