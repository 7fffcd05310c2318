---------------------------- MODULE FileTransfer ----------------------------
(***************************************************************************)
(* What a file transfer promises, with no network and no window: the       *)
(* receiver comes to hold the whole file; only then may the sender stop,   *)
(* satisfied, and only then is a file written, and it is the whole file.   *)
(***************************************************************************)
CONSTANTS
  File,        \* what the sender was given
  NoFile       \* nothing written yet

VARIABLES
  held,        \* the receiver has every packet
  satisfied,   \* the sender has returned from reliablyTransfer
  output       \* the destination file

vars == <<held, satisfied, output>>

Init ==
  /\ held = FALSE
  /\ satisfied = FALSE
  /\ output = NoFile

Hold ==
  /\ ~held
  /\ held' = TRUE
  /\ UNCHANGED <<satisfied, output>>

Satisfy ==
  /\ held
  /\ satisfied' = TRUE
  /\ UNCHANGED <<held, output>>

Write ==
  /\ held
  /\ output' = File
  /\ UNCHANGED <<held, satisfied>>

Next == Hold \/ Satisfy \/ Write

Spec == Init /\ [][Next]_vars
=============================================================================
