----------------------------- MODULE MCLinkState ----------------------------
(***************************************************************************)
(* LinkState for TLC, on the graphs and changes of MCTopology.             *)
(***************************************************************************)
EXTENDS LinkState, MCTopology
=============================================================================
