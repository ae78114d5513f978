\* One managed program with two further members in its group.  The pipe and
\* a drain hold two bytes, the captured text three, so that output is cut, and
\* five bytes are enough to fill the pipe again after the cut.
SPECIFICATION FairSpec
CONSTANTS
  m1 = m1
  m2 = m2
  Members <- TwoMembers
  PipeCapacity = 2
  DrainLimit = 2
  CaptureLimit = 3
  MaxWritten = 5
INVARIANTS
  NothingSurvives
  ResultTellsTheRun
PROPERTIES
  CallIsAnswered
\* The call is over.
CHECK_DEADLOCK FALSE
