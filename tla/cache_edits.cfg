\* Two analyses of a unit with one optional header, edited three times: enough
\* to edit the source during the parse and back before the second probe, and to
\* let the header appear.
SPECIFICATION Spec
CONSTANTS
  a1 = a1
  a2 = a2
  full = full
  strict = strict
  source = source
  header = header
  optional = optional
  x = x
  y = y
  Absent = Absent
  There = There
  NoView = NoView
  Analyses <- TwoAnalyses
  Scopes <- TwoScopes
  Opened <- OneOpened
  LookedUp <- OneLookedUp
  Texts <- OneText
  MaxEdits = 3
INVARIANTS
  EntriesAreSound
  HitsAreFullResults
PROPERTIES
  EntriesAreWrittenOnce
\* All analyses are over.
CHECK_DEADLOCK FALSE
