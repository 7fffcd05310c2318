SPECIFICATION Spec
CONSTANT Inputs <- MCInputs
INVARIANTS
  CsmaTypeOK
  BusyMeansOneSender
  EngagedFitsArray
  UtilizationIsWholePackets
PROPERTIES
  CollisionJamsChannel
  MissedZeroStarves
\* The simulation ends at tick T.
CHECK_DEADLOCK FALSE
