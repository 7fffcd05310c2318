------------------------------ MODULE MCDistVec -----------------------------
(***************************************************************************)
(* DistVec for TLC, on the graphs and changes of MCTopology.               *)
(***************************************************************************)
EXTENDS DistVec, MCTopology
=============================================================================
