SPECIFICATION Spec
CONSTANTS
  w1 = w1
  w2 = w2
  s1 = s1
  p1 = p1
  p2 = p2
  Absent = Absent
  Empty = Empty
  Garbled = Garbled
  NoAnswer = NoAnswer
  NoJob = NoJob
  Writer <- TwoWriters
  Service <- NoService
  Program <- TwoPrograms
  State <- TwoStates
  Default = "active"
  MaxCalls = 2
  MayBreak = FALSE
CHECK_DEADLOCK FALSE
PROPERTY HistoryAppendOnly
