\* The locks, the busy waits and the exceptions of two scans let both end.
SPECIFICATION FairSpec
CONSTANTS
  s1 = s1
  s2 = s2
  f1 = f1
  f2 = f2
  a = a
  b = b
  cli = cli
  Absent = Absent
  NoScan = NoScan
  MaxEdits = 0
  Scans <- TwoScans
  Analyzing <- Nobody
  Browsers <- OneCli
  Files <- OneFile
  Texts <- OneText
PROPERTIES
  EveryScanIsDelivered
