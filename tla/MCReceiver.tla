----------------------------- MODULE MCReceiver -----------------------------
(***************************************************************************)
(* ReliableReceiver for TLC.  Garbage holds a number inside the vector,    *)
(* two outside it and the one just past it.                                *)
(***************************************************************************)
EXTENDS ReliableReceiver

MCGarbage == {-1, 0, N}
=============================================================================
