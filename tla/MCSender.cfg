SPECIFICATION SenderSpec
CONSTANTS
  N = 3
  Garbage <- MCGarbage
  Junk = Junk
  Empty = Empty
  MaxCopies = 1
  Duplication = FALSE
  AddrLen = {"fits", "truncated", "invalid"}
  Slack = 2
  MaxCwnd = 5
INVARIANTS
  DuplicatesStillCount
  SlowStartBelowThreshold
  NoGapInSent
  RetransmitInArray
PROPERTY EmptyWindowStalls
\* The sender stops when it is done, dead or crashed.
CHECK_DEADLOCK FALSE
