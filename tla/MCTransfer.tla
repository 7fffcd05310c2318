----------------------------- MODULE MCTransfer -----------------------------
(***************************************************************************)
(* ReliableTransfer for TLC.                                               *)
(***************************************************************************)
EXTENDS ReliableTransfer

\* For a long file: the number of its first packet, which is not its last.
InsideGarbage == {0}

\* For a file of one packet: outside the array of records, and inside it.
AnyGarbage == {-1, 0}
=============================================================================
