------------------------------- MODULE MCCsma -------------------------------
(***************************************************************************)
(* Csma for TLC: every input file of up to four nodes, packets of up to    *)
(* three ticks, one or two gears, and ranges from 1 to 5.                  *)
(***************************************************************************)
EXTENDS Csma

MCInputs ==
  {[N |-> n, L |-> l, M |-> m, R |-> r, T |-> 16] :
     n \in 1..4, l \in 1..3, m \in 1..2, r \in [1..2 -> 1..5]}
=============================================================================
