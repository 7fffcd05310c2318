SPECIFICATION TransferSpec
CONSTANTS
  N = 2
  Garbage <- InsideGarbage
  Junk = Junk
  Empty = Empty
  NoData = NoData
  NotWritten = NotWritten
  MaxCopies = 2
  Duplication = TRUE
  CanOpen = TRUE
  AddrLen = {"fits"}
  Slack = 1
  MaxCwnd = 3
INVARIANTS
  TransferTypeOK
  LongFileNeverDone
  HandshakeAgrees
\* The programs stop when they are done or dead, and block in recvfrom when
\* the handshake is lost.
CHECK_DEADLOCK FALSE
