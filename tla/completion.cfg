SPECIFICATION Spec
CONSTANTS
  base = base
  bis = bis
  m1 = m1
  m2 = m2
  All = All
  Task <- MCTask
  Covers <- MCCovers
  Message <- MCMessage
  Drafts <- ThreeDrafts
  ScanBound = 1
  MaxTime = 1
  MaxCommits = 2
SYMMETRY Messages
INVARIANTS
  NoFilingMissed
PROPERTIES
  RetractionHolds
  FinishedStaysFinished
  CutIsPerTask
