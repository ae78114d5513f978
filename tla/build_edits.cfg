\* One build, full or configure-only, of two files, edited twice: enough for an
\* edit that is undone between the copy and the comparison.  CMake may write the
\* file that the tree lacks.
SPECIFICATION FairSpec
CONSTANTS
  b1 = b1
  f1 = f1
  f2 = f2
  x = x
  y = y
  Absent = Absent
  Builds <- OneBuild
  Files <- TwoFiles
  Texts <- OneText
  MaxEdits = 2
  MaxScans = 1
INVARIANTS
  PassedRunIsOfItsScan
  ConfiguredSourcesAreScanned
  RecordTellsTheRun
PROPERTIES
  EveryBuildIsDelivered
\* The build is over.
CHECK_DEADLOCK FALSE
