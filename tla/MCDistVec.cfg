SPECIFICATION FairSpec
CONSTANTS
  Topologies <- MCTopologies
  Changes <- MCChanges
INVARIANTS
  DistVecTypeOK
  NextHopIsNearer
  TableIsShortest
  PrintsSettled
  MessagesArrive
PROPERTY RoundsEnd
\* The program ends when the changes file does.
CHECK_DEADLOCK FALSE
