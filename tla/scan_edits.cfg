\* Two scans, one of them analysing, of a file that is written, created and removed
\* while they run, and that may be unreadable.
SPECIFICATION Spec
CONSTANTS
  s1 = s1
  s2 = s2
  f1 = f1
  f2 = f2
  a = a
  b = b
  cli = cli
  Absent = Absent
  NoScan = NoScan
  MaxEdits = 2
  Scans <- TwoScans
  Analyzing <- OneScan
  Browsers <- Nobody
  Files <- OneFile
  Texts <- TwoTexts
SYMMETRY TextSymmetry
INVARIANTS
  AnalysisDescribesInventory
  CountsAreTrue
CHECK_DEADLOCK FALSE
