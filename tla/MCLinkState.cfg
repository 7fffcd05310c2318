SPECIFICATION Spec
CONSTANTS
  Topologies <- MCTopologies
  Changes <- MCChanges
INVARIANTS
  LinkStateTypeOK
  PathsMatchDistances
  DistancesAreShortest
  TieGoesToNearest
PROPERTY VisitedIsFinal
\* The program ends when the changes file does.
CHECK_DEADLOCK FALSE
