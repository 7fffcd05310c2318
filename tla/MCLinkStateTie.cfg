SPECIFICATION Spec
CONSTANTS
  Topologies <- MCTopologies
  Changes <- MCChanges
INVARIANT TieGoesToSmallerID
\* The program ends when the changes file does.
CHECK_DEADLOCK FALSE
