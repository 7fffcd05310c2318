SPECIFICATION FairTransferSpec
CONSTANTS
  N = 1
  Garbage <- AnyGarbage
  Junk = Junk
  Empty = Empty
  NoData = NoData
  NotWritten = NotWritten
  MaxCopies = 3
  Duplication = FALSE
  CanOpen = TRUE
  AddrLen = {"fits"}
  Slack = 2
  MaxCwnd = 6
INVARIANTS
  DoneMeansHeld
  StoresInVector
PROPERTIES
  KeepsPromise
  EstablishedDelivers
  StrandedForEver
\* The programs stop when they are done or dead, and block in recvfrom when
\* the handshake is lost.
CHECK_DEADLOCK FALSE
