\* Two scans of one project, one of them analysing, race for the database
\* while a query command reads it.
SPECIFICATION Spec
CONSTANTS
  s1 = s1
  s2 = s2
  f1 = f1
  f2 = f2
  a = a
  b = b
  cli = cli
  Absent = Absent
  NoScan = NoScan
  MaxEdits = 0
  Scans <- TwoScans
  Analyzing <- OneScan
  Browsers <- OneCli
  Files <- OneFile
  Texts <- OneText
INVARIANTS
  CancelledLeavesNoSnapshot
  OutcomeTellsTheStore
  NoLockOutlivesItsScan
PROPERTIES
  CancellingEndsCancelled
  ScanIsAtomic
