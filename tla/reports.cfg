SPECIFICATION Spec
CONSTANTS
  a = a
  b = b
  h = h
  c = c
  d = d
  Order <- TwoUnits
  Header = h
  Unsafe = Unsafe
  NoChoice = NoChoice
  NoUnit = NoUnit
  Unknown = Unknown
  Texts <- SmallTexts
  CommandSets <- SmallCommands
  FirstEdits = 1
  MaxEdits = 3
  MaxScans = 2
  Vertices = {1, 2, 3, 4}
  MaxEdges = 4
  Comparisons = {"x", "y"}
  MaxDepth = 1
  MaxNodes = 5
  MaxTokens = 7
SYMMETRY CommandSymmetry
INVARIANTS
  AnalysisIsScheduleFree
  FixCandidatesAreGone
  EveryObservationHasItsChange
  SuppressionsStayWithTheirText
  GraphIsRight
  TreesMeanTheirText
CHECK_DEADLOCK FALSE
