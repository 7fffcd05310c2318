-------------------------------- MODULE Csma --------------------------------
(***************************************************************************)
(* mp4/csma.cpp: the simulator of CSMA backoff.  The program is one loop   *)
(* over clock ticks; one action is one tick, with the branch the tick      *)
(* takes: two or more nodes collide, one transmits, or all count down.     *)
(* A run is determined by its input file; Init chooses it from Inputs.     *)
(***************************************************************************)
EXTENDS Integers, Sequences, FiniteSets

CONSTANT Inputs   \* input files: records with the fields N, L, M, R and T

\* R has a range for every gear and no range is empty (it is a divisor); a
\* packet lasts at least a tick.
ASSUME InputsAssumption ==
  \A f \in Inputs :
    /\ f.N \in Nat \ {0} /\ f.L \in Nat \ {0} /\ f.M \in Nat \ {0} /\ f.T \in Nat
    /\ f.R \in Seq(Nat \ {0}) /\ Len(f.R) >= f.M

VARIABLES
  input,                    \* the file read by main; it never changes
  tick_time,
  countdown, gear_R, need_reload_countdown,   \* of each node of nodes_array
  channel_idle,
  engaged,                  \* engaged_nodes_id, up to count_engaged_nodes
  valid_job_node_id, valid_job_time_left,     \* read only while busy
  utilization_time_count

nodeVars == <<countdown, gear_R, need_reload_countdown>>
jobVars == <<valid_job_node_id, valid_job_time_left, utilization_time_count>>
vars == <<input, tick_time, nodeVars, channel_idle, engaged, jobVars>>

Nodes == 0..input.N-1
BackOff(id, gear) == (tick_time + id) % input.R[gear + 1]

Init ==
  /\ input \in Inputs
  /\ tick_time = 0
  /\ countdown = [id \in Nodes |-> BackOff(id, 0)]
  /\ gear_R = [id \in Nodes |-> 0]
  /\ need_reload_countdown = [id \in Nodes |-> FALSE]
  /\ channel_idle = TRUE
  /\ engaged = <<>>
  /\ valid_job_node_id = 0 /\ valid_job_time_left = 0
  /\ utilization_time_count = 0

----------------------------------------------------------------------------
\* The first half of a tick.  On an idle channel the nodes that have counted
\* down join those engaged, in the order of their ids (the new draw that this
\* loop makes for the others is made on a copy and lost); on a busy one the
\* job loses a tick and, with its last, the channel and its node are released.

\* Mutant of JobEnds: the job is over a tick after its last.
JobEndsLate == ~channel_idle /\ valid_job_time_left = 0

JobEnds == ~channel_idle /\ valid_job_time_left = 1

\* Mutant of Ready: a node that must draw again is not passed over.
ReadyAgain(id) == countdown[id] = 0

\* Mutant of Ready: a node that counted down past 0 is ready.
ReadyPastZero(id) == ~need_reload_countdown[id] /\ countdown[id] <= 0

Ready(id) == ~need_reload_countdown[id] /\ countdown[id] = 0

\* Those engaged after the loop has been through the first n nodes.
Joined[n \in 0..input.N] ==
  IF n = 0 THEN engaged
  ELSE IF Ready(n - 1) THEN Append(Joined[n - 1], n - 1)
  ELSE Joined[n - 1]

Sensed ==
  IF channel_idle THEN Joined[input.N]
  ELSE IF JobEnds THEN <<>>
  ELSE engaged

MustReload(id) ==
  need_reload_countdown[id] \/ (JobEnds /\ id = valid_job_node_id)

SensedNodes == {Sensed[i] : i \in 1..Len(Sensed)}

----------------------------------------------------------------------------
\* Mutant of NextGear: there is no highest gear.
NextGearUnbounded(gear) == gear + 1

\* The second half.  Collided nodes shift up a gear and are to draw again;
\* count_engaged_nodes is not reset.
NextGear(gear) == (gear + 1) % input.M

Collide ==
  /\ Len(Sensed) > 1
  /\ engaged' = Sensed
  /\ gear_R' = [id \in Nodes |->
                  IF id \in SensedNodes THEN NextGear(gear_R[id]) ELSE gear_R[id]]
  /\ need_reload_countdown' =
       [id \in Nodes |-> MustReload(id) \/ id \in SensedNodes]
  /\ channel_idle' = TRUE
  /\ UNCHANGED <<countdown, jobVars>>

Transmit ==
  /\ Len(Sensed) = 1
  /\ engaged' = Sensed
  /\ valid_job_node_id' = Sensed[1]
  /\ valid_job_time_left' = IF channel_idle THEN input.L ELSE valid_job_time_left - 1
  /\ channel_idle' = FALSE
  /\ utilization_time_count' = utilization_time_count + 1
  /\ UNCHANGED nodeVars

\* Nodes that must draw again do so now; then every node counts down.
CountDown ==
  /\ Len(Sensed) = 0
  /\ engaged' = <<>>
  /\ countdown' = [id \in Nodes |->
       (IF MustReload(id) THEN BackOff(id, gear_R[id]) ELSE countdown[id]) - 1]
  /\ need_reload_countdown' = [id \in Nodes |-> FALSE]
  /\ valid_job_time_left' =
       IF channel_idle THEN valid_job_time_left ELSE valid_job_time_left - 1
  /\ channel_idle' = TRUE
  /\ UNCHANGED <<gear_R, valid_job_node_id, utilization_time_count>>

Next ==
  /\ tick_time < input.T
  /\ Collide \/ Transmit \/ CountDown
  /\ tick_time' = tick_time + 1
  /\ UNCHANGED input

Spec == Init /\ [][Next]_vars

----------------------------------------------------------------------------
\* Type correctness of main's variables.  A countdown may be negative.
CsmaTypeOK ==
  /\ input \in Inputs
  /\ tick_time \in 0..input.T
  /\ countdown \in [Nodes -> Int]
  /\ gear_R \in [Nodes -> 0..input.M-1]
  /\ need_reload_countdown \in [Nodes -> BOOLEAN]
  /\ channel_idle \in BOOLEAN
  /\ engaged \in Seq(Nodes)
  /\ valid_job_node_id \in Nodes
  /\ valid_job_time_left \in 0..input.L
  /\ utilization_time_count \in 0..tick_time

\* A busy channel carries one packet of one node that had counted down to 0:
\* no other node was at 0 in that tick and none reaches it before the packet
\* ends (the channel is sensed before anybody counts down).
BusyMeansOneSender ==
  ~channel_idle =>
    /\ engaged = <<valid_job_node_id>>
    /\ valid_job_time_left \in 1..input.L
    /\ {id \in Nodes : countdown[id] = 0} = {valid_job_node_id}

\* engaged_nodes_id has room for each node once and is appended to without a
\* check, in every tick that finds the channel idle; what keeps it from
\* running over is that a node already in it never joins it again, although
\* count_engaged_nodes survives a collision.
EngagedFitsArray ==
  /\ Len(engaged) <= input.N
  /\ \A i, j \in 1..Len(engaged) : engaged[i] = engaged[j] => i = j

\* The utilisation counts whole packets of L ticks, and of the packet on the
\* channel the ticks it has had: no tick of a collision or of a released
\* channel is counted.
UtilizationIsWholePackets ==
  LET ticks_of_job == IF channel_idle THEN 0 ELSE input.L - valid_job_time_left + 1
  IN  /\ ticks_of_job <= utilization_time_count
      /\ (utilization_time_count - ticks_of_job) % input.L = 0

\* A collision is never over: the nodes stay engaged, collide again in every
\* later tick and nothing is ever transmitted or counted down again.
\* (A finding as well: MP4.pdf has the nodes draw again in the next tick.)
CollisionJamsChannel ==
  [][Len(engaged) > 1 =>
       /\ Collide
       /\ UNCHANGED <<engaged, countdown, utilization_time_count>>]_vars

\* A draw of 0 is counted down at once, past the 0 that alone lets a node
\* transmit: the node takes no part in any later tick.  That is a defect, and
\* a finding: csma.cpp:93 wants a countdown "initiated within [0, R)", of
\* which 0 is one and the -1 the node is left with is none.
MissedZeroStarves ==
  [][\A id \in DOMAIN countdown :
       countdown[id] < 0 =>
         /\ countdown'[id] < 0
         /\ \A i \in 1..Len(engaged') : engaged'[i] # id]_vars
=============================================================================
