SPECIFICATION ReceiverSpec
CONSTANTS
  N = 4
  Garbage <- MCGarbage
  Junk = Junk
  Empty = Empty
  NoData = NoData
  NotWritten = NotWritten
  MaxCopies = 2
  Duplication = TRUE
  CanOpen = TRUE
INVARIANTS
  AckIsFirstMissing
  AcksAreTrue
  FileIsPrefix
\* The receiver blocks for ever in recvfrom when nothing more arrives, and
\* stops when it exits or dies.
CHECK_DEADLOCK FALSE
