------------------------------ MODULE MCSender ------------------------------
(***************************************************************************)
(* ReliableSender for TLC.                                                 *)
(***************************************************************************)
EXTENDS ReliableSender

MCGarbage == {0}
=============================================================================
