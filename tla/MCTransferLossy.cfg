SPECIFICATION FairTransferSpec
CONSTANTS
  N = 1
  Garbage <- AnyGarbage
  Junk = Junk
  Empty = Empty
  NoData = NoData
  NotWritten = NotWritten
  MaxCopies = 2
  Duplication = FALSE
  CanOpen = TRUE
  AddrLen = {"fits"}
  Slack = 1
  MaxCwnd = 6
PROPERTY TransferCompletes
\* The programs stop when they are done or dead, and block in recvfrom when
\* the handshake is lost.
CHECK_DEADLOCK FALSE
