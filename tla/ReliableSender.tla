--------------------------- MODULE ReliableSender ---------------------------
(***************************************************************************)
(* sender_main.cpp: reliablyTransfer with the functions it calls.  One     *)
(* thread; it stops only in recvfrom (handshake) and in select (main       *)
(* loop), so each action is the code from one of these to the next, or to  *)
(* the head of a loop.                                                     *)
(*                                                                         *)
(* Time is abstracted: select may time out whenever it is waiting, which   *)
(* covers every value update_RTT gives TimeoutInterval.                    *)
(*                                                                         *)
(* SenderSpec runs the sender alone, against a receiver that acknowledges  *)
(* cumulatively.  ReliableTransfer runs it against receiver_main.cpp.      *)
(***************************************************************************)
EXTENDS UdpWire

CONSTANTS
  AddrLen,   \* what the uninitialised si_recvfrom_len makes of a recvfrom
  Slack,     \* records' worth of readable heap after packets_state_array
  MaxCwnd    \* bound: cwnd does not grow beyond it

ASSUME AddrLenAssumption == AddrLen \subseteq {"fits", "truncated", "invalid"}
ASSUME SlackAssumption == Slack \in Nat
ASSUME MaxCwndAssumption == MaxCwnd \in Nat \ {0}

VARIABLES
  spc,            \* where reliablyTransfer is
  curr_state,     \* state of congestion control
  cwnd, ssthresh, dupACKcount,
  cwnd_start, cwnd_end,   \* the window is cwnd_start..cwnd_end-1
  packet_state            \* of each record of packets_state_array

senderVars ==
  <<spc, curr_state, cwnd, ssthresh, dupACKcount, cwnd_start, cwnd_end,
    packet_state>>

congestionVars == <<curr_state, cwnd, ssthresh, dupACKcount>>

SPC == {"sync", "sync_wait", "estab", "loop", "select", "done", "dead", "crashed"}

MSS == 1

\* Initialised to -1 and assigned nowhere.
newest_seq_num == -1

SenderInit ==
  /\ spc = "sync"
  /\ curr_state = "slow_start"
  /\ cwnd = MSS
  /\ ssthresh = 64
  /\ dupACKcount = 0
  /\ cwnd_start = 0
  /\ cwnd_end = MSS
  /\ packet_state = [i \in Index |-> "not_sent"]

----------------------------------------------------------------------------
\* Mutant of DataPacket: the packet is numbered by its place in the file.
NumberedPacket(i) == Data(i, i)

\* Sending.  Every data packet goes out with the seq_num that memset left in
\* packet_this: 0.
DataPacket(i) == Data(0, i)

\* packets_state_array is indexed unchecked.  The heap after it reads as
\* zeros, a state other than not_sent and a packet without data, for Slack
\* records; beyond them the access faults.
Faults(i) == i >= N + Slack

\* Mutant of NewPackets: the scan stops short of the start of the window.
NewPacketsButFirst(lo, hi) ==
  {i \in Index : /\ i > lo /\ i < hi
                 /\ \A j \in i..hi-1 : j \in Index /\ packet_state[j] = "not_sent"}

\* transmit_new over the window lo..hi-1: from the back, the packets not yet
\* sent, up to the first one that was.
NewPackets(lo, hi) ==
  {i \in Index : /\ i >= lo /\ i < hi
                 /\ \A j \in i..hi-1 : j \in Index /\ packet_state[j] = "not_sent"}

TransmitFaults(lo, hi) == hi > lo /\ Faults(hi - 1)

Sent(S) == [i \in Index |-> IF i \in S THEN "sent_not_acked" ELSE packet_state[i]]

\* retransmit: the packet at cwnd_start.
RetransmitPacket ==
  IF cwnd_start \in Index THEN DataPacket(cwnd_start) ELSE Data(0, Empty)

\* Mutant of Retransmit: nothing is sent again.
NoRetransmit == toReceiver

Retransmit == Put(toReceiver, {RetransmitPacket})

\* Mutant of Marked: an ACK is taken to name the next packet expected.
MarkedBefore(st, a) == [i \in Index |-> IF i = a - 1 THEN "acked" ELSE st[i]]

\* The record of an acknowledged packet, marked after the rest of the handler.
Marked(st, a) == [i \in Index |-> IF i = a THEN "acked" ELSE st[i]]

\* A fault kills the process; what it leaves behind is of no interest.
Crash ==
  /\ spc' = "crashed"
  /\ UNCHANGED <<congestionVars, cwnd_start, cwnd_end, packet_state, toReceiver>>

----------------------------------------------------------------------------
\* Connection set-up.

\* while(!SYNC_SENT), up to its recvfrom.
SendSyn ==
  /\ spc = "sync"
  /\ toReceiver' = Put(toReceiver, {Syn})
  /\ spc' = "sync_wait"
  /\ UNCHANGED <<congestionVars, cwnd_start, cwnd_end, packet_state, toSender>>

\* The rest of while(!SYNC_SENT): recvfrom has no timeout.  A length too short
\* truncates the address, which then matches no peer and the SYN is repeated;
\* an invalid one fails recvfrom.
RecvSynAck ==
  /\ spc = "sync_wait"
  /\ \E m \in InFlight(toSender), len \in AddrLen :
       /\ toSender' = Take(toSender, m)
       /\ spc' = IF len = "invalid" THEN "dead"
                 ELSE IF /\ len = "fits"
                         /\ m.ACK_BIT /\ m.SYN_BIT /\ m.ack_seq_num = N + 1
                      THEN "estab"
                      ELSE "sync"
  /\ UNCHANGED <<congestionVars, cwnd_start, cwnd_end, packet_state, toReceiver>>

\* while(!ESTAB): sent once, whatever becomes of it.
SendHandshakeAck ==
  /\ spc = "estab"
  /\ \E g \in Garbage : toReceiver' = Put(toReceiver, {HandshakeAck(g)})
  /\ spc' = "loop"
  /\ UNCHANGED <<congestionVars, cwnd_start, cwnd_end, packet_state, toSender>>

----------------------------------------------------------------------------
\* The head of while(!FIN_WAIT): leave, or transmit_new and wait in select.

\* Mutant of Finish: the last packet need only have been sent.
FinishWhenSent ==
  /\ spc = "loop"
  /\ packet_state[N-1] # "not_sent"
  /\ spc' = "done"
  /\ UNCHANGED <<congestionVars, cwnd_start, cwnd_end, packet_state, channels>>

Finish ==
  /\ spc = "loop"
  /\ packet_state[N-1] = "acked"
  /\ spc' = "done"
  /\ UNCHANGED <<congestionVars, cwnd_start, cwnd_end, packet_state, channels>>

Transmit ==
  /\ spc = "loop"
  /\ packet_state[N-1] # "acked"
  /\ \/ TransmitFaults(cwnd_start, cwnd_end) /\ Crash
     \/ /\ ~TransmitFaults(cwnd_start, cwnd_end)
        /\ LET S == NewPackets(cwnd_start, cwnd_end)
           IN  /\ toReceiver' = Put(toReceiver, {DataPacket(i) : i \in S})
               /\ packet_state' = Sent(S)
        /\ spc' = "select"
        /\ UNCHANGED <<congestionVars, cwnd_start, cwnd_end>>
  /\ UNCHANGED toSender

----------------------------------------------------------------------------
\* congestion_control(newACK), in the order of the switch.  The caller has
\* moved cwnd_start to a + 1; slow start moves it again, to the packet after
\* newest_seq_num.

AvoidanceCwnd == cwnd + MSS * (MSS \div cwnd)

\* Memory faults of the handler, and the division by a window of 0.
NewAckCrashes(a) ==
  \/ Faults(a)
  \/ /\ curr_state = "slow_start"
     /\ TransmitFaults(newest_seq_num + 1, newest_seq_num + 1 + cwnd + MSS)
  \/ /\ curr_state = "congestion_avoidance"
     /\ IF cwnd = 0 THEN TRUE ELSE TransmitFaults(a + 1, a + 1 + AvoidanceCwnd)

\* cwnd_end, and transmit_new where the branch calls it.
NewAckWindow(a, start, transmits) ==
  LET S == IF transmits THEN NewPackets(start, start + cwnd') ELSE {}
  IN  /\ cwnd_start' = start
      /\ cwnd_end' = start + cwnd'
      /\ toReceiver' = Put(toReceiver, {DataPacket(i) : i \in S})
      /\ packet_state' = Marked(Sent(S), a)

\* Mutant of NewAckFastRecovery: fast recovery ends in slow start.
NewAckToSlowStart(a) ==
  /\ curr_state = "fast_recovery"
  /\ cwnd' = ssthresh
  /\ curr_state' = "slow_start"
  /\ NewAckWindow(a, a + 1, FALSE)

NewAckFastRecovery(a) ==
  /\ curr_state = "fast_recovery"
  /\ cwnd' = ssthresh
  /\ curr_state' = "congestion_avoidance"
  /\ NewAckWindow(a, a + 1, FALSE)

NewAckSlowStart(a) ==
  /\ curr_state = "slow_start"
  /\ cwnd < MaxCwnd
  /\ cwnd' = cwnd + MSS
  /\ curr_state' = IF cwnd' >= ssthresh THEN "congestion_avoidance" ELSE "slow_start"
  /\ NewAckWindow(a, newest_seq_num + 1, TRUE)

NewAckCongestionAvoidance(a) ==
  /\ curr_state = "congestion_avoidance"
  /\ cwnd' = AvoidanceCwnd
  /\ UNCHANGED curr_state
  /\ NewAckWindow(a, a + 1, TRUE)

\* Mutant of NewAck: dupACKcount is not reset.
NewAckKeepsCount(a) ==
  \/ NewAckCrashes(a) /\ Crash
  \/ /\ ~NewAckCrashes(a)
     /\ \/ NewAckFastRecovery(a)
        \/ NewAckSlowStart(a)
        \/ NewAckCongestionAvoidance(a)
     /\ spc' = "loop"
     /\ UNCHANGED <<ssthresh, dupACKcount>>

NewAck(a) ==
  \/ NewAckCrashes(a) /\ Crash
  \/ /\ ~NewAckCrashes(a)
     /\ \/ NewAckFastRecovery(a)
        \/ NewAckSlowStart(a)
        \/ NewAckCongestionAvoidance(a)
     /\ dupACKcount' = 0
     /\ spc' = "loop"
     /\ UNCHANGED ssthresh
----------------------------------------------------------------------------
\* congestion_control(dupACK).  In fast recovery the window grows and new
\* packets follow; elsewhere the third one in a row starts fast recovery.

DupAckCrashes(a) ==
  \/ Faults(a)
  \/ /\ curr_state = "fast_recovery"
     /\ TransmitFaults(cwnd_start, cwnd_start + cwnd + MSS)
  \/ /\ curr_state # "fast_recovery" /\ dupACKcount + 1 = 3
     /\ Faults(cwnd_start)

DupAckFastRecovery(a) ==
  /\ curr_state = "fast_recovery"
  /\ cwnd < MaxCwnd
  /\ cwnd' = cwnd + MSS
  /\ cwnd_end' = cwnd_start + cwnd'
  /\ LET S == NewPackets(cwnd_start, cwnd_end')
     IN  /\ toReceiver' = Put(toReceiver, {DataPacket(i) : i \in S})
         /\ packet_state' = Marked(Sent(S), a)
  /\ UNCHANGED <<curr_state, ssthresh, dupACKcount>>

DupAckCounted(a) ==
  /\ curr_state # "fast_recovery"
  /\ dupACKcount + 1 # 3
  /\ dupACKcount' = dupACKcount + 1
  /\ packet_state' = Marked(packet_state, a)
  /\ UNCHANGED <<curr_state, cwnd, ssthresh, cwnd_end, toReceiver>>

ThirdDupAck(a) ==
  /\ curr_state # "fast_recovery"
  /\ dupACKcount + 1 = 3
  /\ dupACKcount' = 3
  /\ ssthresh' = cwnd \div 2
  /\ cwnd' = ssthresh' + 3
  /\ cwnd_end' = cwnd_start + cwnd'
  /\ toReceiver' = Retransmit
  /\ packet_state' = Marked(Sent({cwnd_start}), a)
  /\ curr_state' = "fast_recovery"

DupAck(a) ==
  \/ DupAckCrashes(a) /\ Crash
  \/ /\ ~DupAckCrashes(a)
     /\ DupAckFastRecovery(a) \/ DupAckCounted(a) \/ ThirdDupAck(a)
     /\ spc' = "loop"
     /\ UNCHANGED cwnd_start

----------------------------------------------------------------------------
\* select returns with a datagram.  An ACK at or beyond cwnd_start is new;
\* the address that recvfrom may have failed to return is fatal here.
\* Every datagram the receiver sends has its ACK_BIT set.
RecvAck ==
  /\ spc = "select"
  /\ \E m \in InFlight(toSender), len \in AddrLen :
       /\ toSender' = Take(toSender, m)
       /\ \/ /\ len # "fits"
             /\ spc' = "dead"
             /\ UNCHANGED <<congestionVars, cwnd_start, cwnd_end, packet_state,
                            toReceiver>>
          \/ len = "fits" /\ m.ack_seq_num >= cwnd_start /\ NewAck(m.ack_seq_num)
          \/ len = "fits" /\ m.ack_seq_num < cwnd_start /\ DupAck(m.ack_seq_num)

\* Mutant of StateAfterTimeout: the test after the timeout is left out.
SameState == curr_state

\* A timeout may lower ssthresh to the window.
StateAfterTimeout ==
  IF curr_state = "slow_start" /\ MSS >= ssthresh'
  THEN "congestion_avoidance" ELSE curr_state

\* select returns without one: congestion_control(timeout).  Congestion
\* avoidance alone leaves cwnd_end where it was.
Timeout ==
  /\ spc = "select"
  /\ \/ Faults(cwnd_start) /\ Crash
     \/ /\ ~Faults(cwnd_start)
        /\ ssthresh' = cwnd \div 2
        /\ cwnd' = MSS
        /\ dupACKcount' = 0
        /\ cwnd_end' = IF curr_state = "congestion_avoidance"
                       THEN cwnd_end ELSE cwnd_start + MSS
        /\ toReceiver' = Retransmit
        /\ packet_state' = Sent({cwnd_start})
        /\ curr_state' = StateAfterTimeout
        /\ spc' = "loop"
        /\ UNCHANGED cwnd_start
  /\ UNCHANGED toSender

SenderNext ==
  \/ SendSyn
  \/ RecvSynAck
  \/ SendHandshakeAck
  \/ Finish
  \/ Transmit
  \/ RecvAck
  \/ Timeout

----------------------------------------------------------------------------
(***************************************************************************)
(* The sender alone.  Its peer answers the SYN and, from then on, may      *)
(* acknowledge any run of packets from the first that have all been sent   *)
(* (or none of them: -1), in any order and again and again.                *)
(***************************************************************************)
PeerAnswersSyn ==
  /\ toReceiver[Syn] > 0
  /\ toReceiver' = Take(toReceiver, Syn)
  /\ toSender' = Put(toSender, {SynAck(N)})
  /\ UNCHANGED senderVars

PeerAcks ==
  /\ spc = "select"
  /\ \E a \in -1..N-1 :
       /\ \A i \in 0..a : packet_state[i] # "not_sent"
       /\ toSender' = Put(toSender, {Ack(a)})
  /\ UNCHANGED <<senderVars, toReceiver>>

SenderAloneNext == SenderNext \/ PeerAnswersSyn \/ PeerAcks

SenderAlone == SenderInit /\ ChannelsInit

SenderSpec ==
  SenderAlone /\ [][SenderAloneNext]_<<senderVars, channels>>

----------------------------------------------------------------------------
\* Type correctness of sender_main.cpp's globals; fast recovery sets cwnd to
\* three more than half of it.
SenderTypeOK ==
  /\ spc \in SPC
  /\ curr_state \in {"slow_start", "congestion_avoidance", "fast_recovery"}
  /\ cwnd \in 0..MaxCwnd + 3
  /\ ssthresh \in Nat
  /\ dupACKcount \in 0..3
  /\ cwnd_start \in Nat /\ cwnd_end \in Nat
  /\ packet_state \in [Index -> {"not_sent", "sent_not_acked", "acked"}]

\* congestion_control starts fast recovery when the count EQUALS three: if it
\* ever stood at three outside fast recovery, three duplicate ACKs would
\* never be noticed again.
DuplicatesStillCount ==
  curr_state # "fast_recovery" => dupACKcount < 3

\* Slow start ends when the window reaches ssthresh, also when a timeout
\* has lowered ssthresh to it (the test after both branches of slow_start).
SlowStartBelowThreshold ==
  curr_state = "slow_start" => cwnd < ssthresh

\* transmit_new scans from the back of the window and stops at the first
\* packet already sent, so it relies on the packets sent being a prefix of
\* the file: a gap would never be filled.
NoGapInSent ==
  \A i, j \in Index :
    i < j /\ packet_state[j] # "not_sent" => packet_state[i] # "not_sent"

\* While the sender waits, retransmit has a record to send: cwnd_start is
\* inside the array (no check in retransmit; leaving the loop on the last
\* ACK is what keeps it so).
RetransmitInArray == spc = "select" => cwnd_start \in Index

\* Fast recovery hands ssthresh to cwnd, and half of a small window is 0.  An
\* empty window stalls the sender: it sends nothing new, and no ACK moves it
\* on, because congestion avoidance divides by it.  A timeout, or a third
\* duplicate, is the only way out.
EmptyWindowStalls ==
  [][cwnd = 0 =>
       /\ cwnd_start' = cwnd_start
       /\ cwnd' = 0 => \A i \in Index :
                         packet_state[i] = "not_sent" => packet_state'[i] = "not_sent"
    ]_<<senderVars, channels>>
=============================================================================
