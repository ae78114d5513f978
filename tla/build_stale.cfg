\* The tree is edited before the build starts.
SPECIFICATION Spec
CONSTANTS
  b1 = b1
  f1 = f1
  f2 = f2
  x = x
  y = y
  Absent = Absent
  Builds <- OneBuild
  Files <- OneFile
  Texts <- TwoTexts
  MaxEdits = 1
  MaxScans = 1
INVARIANTS
  RunsAreOfMatchingScans
CHECK_DEADLOCK FALSE
