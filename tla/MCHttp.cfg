SPECIFICATION FairHttpSpec
CONSTANTS
  reader = reader
  idler = idler
  letter = letter
  Clients = {reader, idler}
  Diligent = {reader}
  Names = {"page", "list", "lost", "secret"}
  Unreadable = {"secret"}
  Nl = Nl
  Nul = Nul
  Bytes = {letter, Nl, Nul}
  Files <- MCFiles
  Wishes <- MCWishes
  Nobody = Nobody
  Window = 3
  MAXDATASIZE = 4
  ForkMayFail = TRUE
  Cuttable = {reader}
INVARIANTS
  HttpTypeOK
  NoZombieForgotten
  OutputIsTail
  DownloadIsFileUnlessCut
PROPERTY EveryDownloadEnds
\* The server waits for connections for ever.
CHECK_DEADLOCK FALSE
