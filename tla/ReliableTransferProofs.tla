----------------------- MODULE ReliableTransferProofs -----------------------
(***************************************************************************)
(* Theorems about sender_main.cpp and about the file transfer of mp2, both *)
(* programs and the network, for every number of packets, every number of  *)
(* copies in flight and every window.                                      *)
(*                                                                         *)
(* First what every step of the sender keeps, whoever it talks to: its     *)
(* types and its congestion control (CongestionInv), and its window        *)
(* (WindowInv).  Then the sender alone (AloneInv) and the composition      *)
(* (TransferInv, and CleanInv where nothing stray can be stored).          *)
(***************************************************************************)
EXTENDS ReliableTransfer, ReliableReceiverProofs

PacketStates == {"not_sent", "sent_not_acked", "acked"}

\* transmit_new and retransmit mark packets as sent and the handler's last
\* line marks one as acked: no record leaves the states of a record.
LEMMA RecordTypes ==
  ASSUME packet_state \in [Index -> PacketStates], NEW S, NEW a
  PROVE  /\ Sent(S) \in [Index -> PacketStates]
         /\ Marked(Sent(S), a) \in [Index -> PacketStates]
         /\ Marked(packet_state, a) \in [Index -> PacketStates]
BY DEF Sent, Marked, PacketStates

\* What one more record of the window costs: MSS / cwnd packets.
LEMMA OneOver ==
  ASSUME NEW c \in Nat, c # 0
  PROVE  MSS * (MSS \div c) = IF c = 1 THEN 1 ELSE 0
<1>1. CASE c = 1
  BY <1>1 DEF MSS
<1>2. CASE c # 1
  <2>1. 1 \div c = 0
    BY <1>2
  <2>2. QED
    BY <1>2, <2>1 DEF MSS
<1>3. QED
  BY <1>1, <1>2

----------------------------------------------------------------------------
\* Congestion control, whatever is received.  Outside fast recovery cwnd
\* exceeds its bound by one at most; fast recovery leaves with ssthresh, so
\* that keeps within it too.
CongestionInv ==
  /\ SenderTypeOK
  /\ curr_state # "fast_recovery" => cwnd <= MaxCwnd + 1
  /\ curr_state = "fast_recovery" => ssthresh <= MaxCwnd + 1
  /\ DuplicatesStillCount
  /\ SlowStartBelowThreshold

\* congestion_control(newACK): the records it marks, and where the window
\* starts then.
LEMMA NewAckEffect ==
  ASSUME CongestionInv, spc = "select", NEW a \in Int, a >= cwnd_start, NewAck(a)
  PROVE  \/ Crash
         \/ /\ CongestionInv'
            /\ spc' = "loop"
            /\ \E S : /\ \/ S = {}
                         \/ \E lo, hi : S = NewPackets(lo, hi) /\ lo = cwnd_start' /\ hi = cwnd_end'
                      /\ packet_state' = Marked(Sent(S), a)
                      /\ toReceiver' = Put(toReceiver, {DataPacket(i) : i \in S})
            /\ cwnd_start' \in {0, a + 1}
<1> SUFFICES ASSUME ~Crash
             PROVE  /\ CongestionInv'
                    /\ spc' = "loop"
                    /\ \E S : /\ \/ S = {}
                                 \/ \E lo, hi : S = NewPackets(lo, hi) /\ lo = cwnd_start' /\ hi = cwnd_end'
                              /\ packet_state' = Marked(Sent(S), a)
                              /\ toReceiver' = Put(toReceiver, {DataPacket(i) : i \in S})
                    /\ cwnd_start' \in {0, a + 1}
  OBVIOUS
<1>0. /\ MaxCwnd \in Nat \ {0} /\ cwnd \in 0..MaxCwnd+3 /\ ssthresh \in Nat
      /\ cwnd_start \in Nat /\ a \in Nat
      /\ curr_state \in {"slow_start", "congestion_avoidance", "fast_recovery"}
      /\ packet_state \in [Index -> PacketStates]
  BY MaxCwndAssumption DEF CongestionInv, SenderTypeOK, PacketStates
<1>1. /\ ~NewAckCrashes(a)
      /\ NewAckFastRecovery(a) \/ NewAckSlowStart(a) \/ NewAckCongestionAvoidance(a)
      /\ dupACKcount' = 0 /\ spc' = "loop" /\ ssthresh' = ssthresh
  BY DEF NewAck
<1>2. PICK start \in {0, a + 1}, transmits \in BOOLEAN : NewAckWindow(a, start, transmits)
  <2>1. newest_seq_num + 1 = 0
    BY DEF newest_seq_num
  <2>2. \/ NewAckWindow(a, a + 1, FALSE) \/ NewAckWindow(a, a + 1, TRUE)
        \/ NewAckWindow(a, newest_seq_num + 1, TRUE)
    BY <1>1, Zenon DEF NewAckFastRecovery, NewAckSlowStart, NewAckCongestionAvoidance
  <2>3. QED
    BY <2>1, <2>2, Zenon
<1> DEFINE S == IF transmits THEN NewPackets(start, start + cwnd') ELSE {}
<1>3. /\ cwnd_start' = start /\ cwnd_end' = start + cwnd'
      /\ toReceiver' = Put(toReceiver, {DataPacket(i) : i \in S})
      /\ packet_state' = Marked(Sent(S), a)
  BY <1>2 DEF NewAckWindow
<1>4. S = {} \/ \E lo, hi : S = NewPackets(lo, hi) /\ lo = cwnd_start' /\ hi = cwnd_end'
  BY <1>3
<1> HIDE DEF S
<1>5. packet_state' \in [Index -> PacketStates]
  BY <1>0, <1>3, RecordTypes
<1>6. /\ curr_state' \in {"slow_start", "congestion_avoidance"}
      /\ cwnd' \in 0..MaxCwnd+1
      /\ curr_state' = "slow_start" => cwnd' < ssthresh
  <2>1. CASE NewAckFastRecovery(a)
    BY <1>0, <2>1 DEF NewAckFastRecovery, CongestionInv
  <2>2. CASE NewAckSlowStart(a)
    <3>1. /\ curr_state = "slow_start" /\ cwnd < MaxCwnd /\ cwnd' = cwnd + 1
          /\ curr_state' = IF cwnd' >= ssthresh THEN "congestion_avoidance" ELSE "slow_start"
      BY <2>2 DEF NewAckSlowStart, MSS
    <3> DEFINE w == cwnd'
    <3>2. w \in 1..MaxCwnd
      BY <1>0, <3>1
    <3> HIDE DEF w
    <3>3. curr_state' = IF w >= ssthresh THEN "congestion_avoidance" ELSE "slow_start"
      BY <3>1 DEF w
    <3>4. w \in 0..MaxCwnd+1 /\ (curr_state' = "slow_start" => w < ssthresh)
          /\ curr_state' \in {"slow_start", "congestion_avoidance"}
      BY <1>0, <3>2, <3>3
    <3>5. QED
      BY <3>4 DEF w
  <2>3. CASE NewAckCongestionAvoidance(a)
    <3>1. curr_state = "congestion_avoidance" /\ cwnd' = AvoidanceCwnd /\ curr_state' = curr_state
      BY <2>3 DEF NewAckCongestionAvoidance
    <3>2. cwnd # 0
      BY <1>1, <3>1 DEF NewAckCrashes
    <3>3. AvoidanceCwnd = IF cwnd = 1 THEN 2 ELSE cwnd
      BY <1>0, <3>2, OneOver DEF AvoidanceCwnd
    <3>4. cwnd <= MaxCwnd + 1
      BY <3>1 DEF CongestionInv
    <3>5. AvoidanceCwnd \in 0..MaxCwnd+1
      BY <1>0, <3>3, <3>4
    <3>6. QED
      BY <3>1, <3>5
  <2>4. QED
    BY <1>1, <2>1, <2>2, <2>3
<1>7. cwnd_start' \in Nat /\ cwnd_end' \in Nat
  <2> DEFINE w == cwnd'
  <2>1. w \in Nat /\ start \in Nat /\ cwnd_end' = start + w
    BY <1>0, <1>3, <1>6
  <2> HIDE DEF w
  <2>2. start + w \in Nat
    BY <2>1
  <2>3. QED
    BY <1>3, <2>1, <2>2
<1>8. CongestionInv'
  <2> DEFINE w == cwnd'
  <2>1. w \in 0..MaxCwnd+1
    BY <1>6
  <2> HIDE DEF w
  <2>2. w \in 0..MaxCwnd+3 /\ w <= MaxCwnd + 1
    BY <1>0, <2>1
  <2>3. cwnd' \in 0..MaxCwnd+3 /\ cwnd' <= MaxCwnd + 1
    BY <2>2 DEF w
  <2>4. SenderTypeOK'
    BY <1>0, <1>1, <1>5, <1>6, <1>7, <2>3 DEF SenderTypeOK, SPC, PacketStates
  <2>5. DuplicatesStillCount' /\ SlowStartBelowThreshold'
    BY <1>1, <1>6 DEF DuplicatesStillCount, SlowStartBelowThreshold
  <2>6. curr_state' # "fast_recovery"
    BY <1>6
  <2>7. QED
    BY <2>3, <2>4, <2>5, <2>6 DEF CongestionInv
<1>9. QED
  BY <1>1, <1>3, <1>4, <1>8

\* congestion_control(dupACK).
LEMMA DupAckEffect ==
  ASSUME CongestionInv, spc = "select", NEW a, DupAck(a)
  PROVE  \/ Crash
         \/ /\ CongestionInv'
            /\ spc' = "loop" /\ cwnd_start' = cwnd_start
            /\ \E S : /\ \/ S \in {{}, {cwnd_start}}
                         \/ S = NewPackets(cwnd_start, cwnd_end')
                      /\ packet_state' = Marked(Sent(S), a)
            /\ \E M : /\ toReceiver' = Put(toReceiver, M) \/ toReceiver' = toReceiver
                      /\ \A m \in M : m = RetransmitPacket \/ \E i \in Index : m = DataPacket(i)
<1>0. /\ MaxCwnd \in Nat \ {0} /\ cwnd \in 0..MaxCwnd+3 /\ ssthresh \in Nat
      /\ cwnd_start \in Nat /\ dupACKcount \in 0..3
      /\ curr_state \in {"slow_start", "congestion_avoidance", "fast_recovery"}
      /\ packet_state \in [Index -> PacketStates]
  BY MaxCwndAssumption DEF CongestionInv, SenderTypeOK, PacketStates
<1>1. Sent({}) = packet_state
  BY <1>0 DEF Sent
<1>2. CASE DupAckCrashes(a) /\ Crash
  BY <1>2
<1>3. CASE DupAckFastRecovery(a) /\ spc' = "loop" /\ UNCHANGED cwnd_start
  <2> DEFINE w == cwnd'
             S == NewPackets(cwnd_start, cwnd_end')
  <2>1. /\ curr_state = "fast_recovery" /\ w \in 1..MaxCwnd
        /\ cwnd_end' = cwnd_start + w
        /\ toReceiver' = Put(toReceiver, {DataPacket(i) : i \in S})
        /\ packet_state' = Marked(Sent(S), a)
        /\ UNCHANGED <<curr_state, ssthresh, dupACKcount>>
    <3>1. /\ curr_state = "fast_recovery" /\ cwnd < MaxCwnd /\ w = cwnd + MSS
          /\ cwnd_end' = cwnd_start + w
          /\ toReceiver' = Put(toReceiver, {DataPacket(i) : i \in S})
          /\ packet_state' = Marked(Sent(S), a)
          /\ UNCHANGED <<curr_state, ssthresh, dupACKcount>>
      BY <1>3, Zenon DEF DupAckFastRecovery
    <3> HIDE DEF w
    <3>2. w \in 1..MaxCwnd
      BY <1>0, <3>1 DEF MSS
    <3>3. QED
      BY <3>1, <3>2
  <2>2. S \subseteq Index
    BY DEF NewPackets
  <2>3. S = NewPackets(cwnd_start, cwnd_end')
    OBVIOUS
  <2> HIDE DEF w, S
  <2>4. w \in 0..MaxCwnd+3 /\ cwnd_start + w \in Nat
    BY <1>0, <2>1
  <2>5. cwnd' \in 0..MaxCwnd+3 /\ cwnd_end' \in Nat
    BY <2>1, <2>4 DEF w
  <2>6. packet_state' \in [Index -> PacketStates]
    BY <1>0, <2>1, RecordTypes
  <2>7. CongestionInv'
    BY <1>0, <1>3, <2>1, <2>5, <2>6
       DEF CongestionInv, SenderTypeOK, SPC, PacketStates, DuplicatesStillCount,
           SlowStartBelowThreshold
  <2>8. \A m \in {DataPacket(i) : i \in S} :
          m = RetransmitPacket \/ \E i \in Index : m = DataPacket(i)
    BY <2>2
  <2>9. \E M : /\ toReceiver' = Put(toReceiver, M)
               /\ \A m \in M : m = RetransmitPacket \/ \E i \in Index : m = DataPacket(i)
    BY <2>1, <2>8, Zenon
  <2>10. QED
    BY <1>3, <2>1, <2>3, <2>7, <2>9
<1>4. CASE DupAckCounted(a) /\ spc' = "loop" /\ UNCHANGED cwnd_start
  <2>1. /\ curr_state # "fast_recovery" /\ dupACKcount + 1 # 3
        /\ dupACKcount' = dupACKcount + 1
        /\ packet_state' = Marked(packet_state, a)
        /\ UNCHANGED <<curr_state, cwnd, ssthresh, cwnd_end, toReceiver>>
    BY <1>4 DEF DupAckCounted
  <2>2. dupACKcount' \in 0..2
    BY <1>0, <2>1 DEF CongestionInv, DuplicatesStillCount
  <2>3. packet_state' \in [Index -> PacketStates]
    BY <1>0, <2>1, RecordTypes
  <2>4. CongestionInv'
    BY <1>0, <1>4, <2>1, <2>2, <2>3
       DEF CongestionInv, SenderTypeOK, SPC, PacketStates, DuplicatesStillCount,
           SlowStartBelowThreshold
  <2>5. QED
    BY <1>1, <1>4, <2>1, <2>4
<1>5. CASE ThirdDupAck(a) /\ spc' = "loop" /\ UNCHANGED cwnd_start
  <2>1. /\ curr_state # "fast_recovery" /\ curr_state' = "fast_recovery"
        /\ dupACKcount' = 3
        /\ ssthresh' = cwnd \div 2 /\ cwnd' = ssthresh' + 3
        /\ cwnd_end' = cwnd_start + cwnd'
        /\ toReceiver' = Put(toReceiver, {RetransmitPacket})
        /\ packet_state' = Marked(Sent({cwnd_start}), a)
    BY <1>5 DEF ThirdDupAck, Retransmit
  <2> DEFINE half == cwnd \div 2
  <2>2. cwnd <= MaxCwnd + 1
    BY <2>1 DEF CongestionInv
  <2>3. half \in 0..MaxCwnd
    BY <1>0, <2>2
  <2>4. ssthresh' = half /\ cwnd' = half + 3 /\ cwnd_end' = cwnd_start + (half + 3)
    BY <2>1, Zenon
  <2> HIDE DEF half
  <2>5. /\ half \in Nat /\ half <= MaxCwnd + 1
        /\ half + 3 \in 0..MaxCwnd+3 /\ cwnd_start + (half + 3) \in Nat
    BY <1>0, <2>3
  <2>6. /\ ssthresh' \in Nat /\ ssthresh' <= MaxCwnd + 1
        /\ cwnd' \in 0..MaxCwnd+3 /\ cwnd_end' \in Nat
    BY <2>4, <2>5
  <2>7. packet_state' \in [Index -> PacketStates]
    BY <1>0, <2>1, RecordTypes
  <2>8. CongestionInv'
    <3>1. /\ curr_state' = "fast_recovery" /\ dupACKcount' = 3
          /\ spc' = "loop" /\ cwnd_start' = cwnd_start
      BY <1>5, <2>1
    <3>2. QED
      BY <1>0, <2>6, <2>7, <3>1
         DEF CongestionInv, SenderTypeOK, SPC, PacketStates, DuplicatesStillCount,
             SlowStartBelowThreshold
  <2>9. QED
    BY <1>5, <2>1, <2>8
<1>6. QED
  BY <1>2, <1>3, <1>4, <1>5 DEF DupAck

----------------------------------------------------------------------------
\* The datagrams that reach the sender, and the number each acknowledges.
LEMMA SenderReads ==
  ASSUME NEW m \in ToSender
  PROVE  /\ m.ack_seq_num \in Int /\ m.ack_seq_num >= -1
         /\ m.ack_seq_num = N + 1 <=> m = SynAck(N)
         /\ \A a \in -1..N-1 : m.ack_seq_num = a <=> m = Ack(a)
         /\ m = SynAck(N) \/ \E a \in -1..N-1 : m = Ack(a)
<1>1. SynAck(N).ack_seq_num = N + 1 /\ \A a : Ack(a).ack_seq_num = a
  BY DEF SynAck, Ack, Packet
<1>2. CASE m = SynAck(N)
  BY <1>1, <1>2, NAssumption
<1>3. CASE \E a \in -1..N-1 : m = Ack(a)
  BY <1>1, <1>3, NAssumption
<1>4. QED
  BY <1>2, <1>3 DEF ToSender

\* A step that only leaves the loop, or dies, keeps congestion control.
LEMMA StoppingKeepsCongestion ==
  ASSUME CongestionInv, spc' \in SPC,
         UNCHANGED <<congestionVars, cwnd_start, cwnd_end, packet_state>>
  PROVE  CongestionInv'
BY DEF CongestionInv, SenderTypeOK, congestionVars, DuplicatesStillCount,
       SlowStartBelowThreshold

LEMMA CrashKeepsCongestion ==
  ASSUME CongestionInv, Crash
  PROVE  CongestionInv'
BY StoppingKeepsCongestion DEF Crash, SPC

\* select returns with a datagram: an ACK is handled whole, or the process is
\* at its end with its state as it was.
LEMMA RecvAckEffect ==
  ASSUME CongestionInv, ChannelsTypeOK, RecvAck
  PROVE  \E m \in InFlight(toSender) :
           /\ toSender' = Take(toSender, m) /\ m \in ToSender
           /\ \/ /\ spc' \in {"dead", "crashed"}
                 /\ UNCHANGED <<congestionVars, cwnd_start, cwnd_end, packet_state,
                                toReceiver>>
              \/ m.ack_seq_num >= cwnd_start /\ NewAck(m.ack_seq_num) /\ ~Crash
              \/ m.ack_seq_num < cwnd_start /\ DupAck(m.ack_seq_num) /\ ~Crash
<1>1. PICK m \in InFlight(toSender), len \in AddrLen :
        /\ toSender' = Take(toSender, m)
        /\ \/ /\ len # "fits"
              /\ spc' = "dead"
              /\ UNCHANGED <<congestionVars, cwnd_start, cwnd_end, packet_state,
                             toReceiver>>
           \/ len = "fits" /\ m.ack_seq_num >= cwnd_start /\ NewAck(m.ack_seq_num)
           \/ len = "fits" /\ m.ack_seq_num < cwnd_start /\ DupAck(m.ack_seq_num)
  BY DEF RecvAck
<1>2. m \in ToSender
  BY TakeTypes DEF ChannelsTypeOK
<1>3. CASE Crash
  BY <1>1, <1>2, <1>3 DEF Crash
<1>4. CASE ~Crash
  BY <1>1, <1>2, <1>4
<1>5. QED
  BY <1>3, <1>4

\* select times out.
LEMMA TimeoutEffect ==
  ASSUME CongestionInv, Timeout
  PROVE  /\ spc = "select" /\ toSender' = toSender
         /\ CongestionInv'
         /\ \/ Crash
            \/ /\ spc' = "loop" /\ cwnd_start' = cwnd_start
               /\ packet_state' = Sent({cwnd_start})
               /\ toReceiver' = Put(toReceiver, {RetransmitPacket})
<1>0. /\ MaxCwnd \in Nat \ {0} /\ cwnd \in 0..MaxCwnd+3 /\ ssthresh \in Nat
      /\ cwnd_start \in Nat /\ cwnd_end \in Nat
      /\ curr_state \in {"slow_start", "congestion_avoidance", "fast_recovery"}
      /\ packet_state \in [Index -> PacketStates]
  BY MaxCwndAssumption DEF CongestionInv, SenderTypeOK, PacketStates
<1>1. spc = "select" /\ toSender' = toSender
  BY DEF Timeout
<1>2. CASE Crash
  BY <1>1, <1>2, CrashKeepsCongestion
<1>3. CASE ~Crash
  <2>1. /\ ssthresh' = cwnd \div 2 /\ cwnd' = MSS /\ dupACKcount' = 0
        /\ cwnd_end' = IF curr_state = "congestion_avoidance"
                       THEN cwnd_end ELSE cwnd_start + MSS
        /\ toReceiver' = Put(toReceiver, {RetransmitPacket})
        /\ packet_state' = Sent({cwnd_start})
        /\ curr_state' = StateAfterTimeout
        /\ spc' = "loop" /\ cwnd_start' = cwnd_start
    BY <1>3 DEF Timeout, Retransmit
  <2> DEFINE half == cwnd \div 2
  <2>2. half \in Nat /\ half <= MaxCwnd + 1
    BY <1>0
  <2>3. ssthresh' = half
    BY <2>1
  <2> HIDE DEF half
  <2>4. cwnd_end' \in Nat /\ cwnd' = 1 /\ cwnd' \in 0..MaxCwnd+3 /\ cwnd' <= MaxCwnd + 1
    BY <1>0, <2>1 DEF MSS
  <2>5. /\ curr_state' = IF curr_state = "slow_start" /\ 1 >= half
                         THEN "congestion_avoidance" ELSE curr_state
    BY <2>1, <2>3 DEF StateAfterTimeout, MSS
  <2>6. curr_state' = "slow_start" => 1 < half
    BY <2>2, <2>5
  <2>7. /\ curr_state' \in {"slow_start", "congestion_avoidance", "fast_recovery"}
        /\ ssthresh' \in Nat /\ ssthresh' <= MaxCwnd + 1
        /\ curr_state' = "slow_start" => cwnd' < ssthresh'
    <3>1. curr_state' \in {"slow_start", "congestion_avoidance", "fast_recovery"}
      BY <1>0, <2>5
    <3>2. QED
      BY <2>2, <2>3, <2>4, <2>6, <3>1
  <2>8. packet_state' \in [Index -> PacketStates]
    BY <1>0, <2>1, RecordTypes
  <2>9. dupACKcount' = 0 /\ spc' = "loop" /\ cwnd_start' \in Nat
    BY <1>0, <2>1
  <2>10. CongestionInv'
    BY <2>4, <2>7, <2>8, <2>9
       DEF CongestionInv, SenderTypeOK, SPC, PacketStates, DuplicatesStillCount,
           SlowStartBelowThreshold
  <2>11. QED
    BY <1>1, <2>1, <2>10
<1>4. QED
  BY <1>2, <1>3

\* The head of the loop: transmit_new over the window.
LEMMA TransmitEffect ==
  ASSUME CongestionInv, Transmit
  PROVE  /\ spc = "loop" /\ toSender' = toSender /\ packet_state[N-1] # "acked"
         /\ CongestionInv' /\ cwnd_start' = cwnd_start
         /\ \/ Crash
            \/ /\ spc' = "select"
               /\ LET S == NewPackets(cwnd_start, cwnd_end)
                  IN  /\ packet_state' = Sent(S)
                      /\ toReceiver' = Put(toReceiver, {DataPacket(i) : i \in S})
<1>1. spc = "loop" /\ toSender' = toSender /\ packet_state[N-1] # "acked"
  BY DEF Transmit
<1>2. CASE Crash
  BY <1>1, <1>2, CrashKeepsCongestion DEF Crash
<1>3. CASE ~Crash
  <2> DEFINE S == NewPackets(cwnd_start, cwnd_end)
  <2>1. /\ packet_state' = Sent(S)
        /\ toReceiver' = Put(toReceiver, {DataPacket(i) : i \in S})
        /\ spc' = "select"
        /\ UNCHANGED <<congestionVars, cwnd_start, cwnd_end>>
    BY <1>3 DEF Transmit
  <2> HIDE DEF S
  <2>2. packet_state' \in [Index -> PacketStates]
    BY <2>1, RecordTypes DEF CongestionInv, SenderTypeOK, PacketStates
  <2>3. CongestionInv'
    BY <2>1, <2>2
       DEF CongestionInv, SenderTypeOK, SPC, PacketStates, congestionVars,
           DuplicatesStillCount, SlowStartBelowThreshold
  <2>4. QED
    BY <1>1, <2>1, <2>3 DEF S
<1>4. QED
  BY <1>2, <1>3

----------------------------------------------------------------------------
SenderLoop == Finish \/ Transmit \/ RecvAck \/ Timeout

SenderStarts == {"sync", "sync_wait", "dead"}

\* What the main loop sends.
DataOnly(M) ==
  \A m \in M : \/ spc = "select" /\ m = RetransmitPacket
              \/ \E i \in Index : m = DataPacket(i)

\* A step of the main loop sends packets of the file, reads one datagram at
\* most, and marks a record acked only if that is the one it read.
LEMMA LoopStep ==
  ASSUME CongestionInv, ChannelsTypeOK, SenderLoop
  PROVE  /\ CongestionInv'
         /\ spc \in {"loop", "select"}
         /\ spc' \in {"loop", "select", "done", "dead", "crashed"}
         /\ spc' = "done" => packet_state[N-1] = "acked"
         /\ \E M : /\ toReceiver' = Put(toReceiver, M) \/ toReceiver' = toReceiver
                   /\ DataOnly(M)
         /\ \/ /\ toSender' = toSender
               /\ \A i \in Index : packet_state'[i] = "acked" => packet_state[i] = "acked"
            \/ \E m \in InFlight(toSender) :
                 /\ toSender' = Take(toSender, m)
                 /\ \A i \in Index : packet_state'[i] = "acked" =>
                      packet_state[i] = "acked" \/ i = m.ack_seq_num
<1>0. /\ packet_state \in [Index -> PacketStates]
      /\ DataOnly({})
  BY DEF CongestionInv, SenderTypeOK, PacketStates, DataOnly
<1>1. \A S : \A i \in Index : Sent(S)[i] = "acked" => packet_state[i] = "acked"
  BY DEF Sent
<1>2. \A S, a : \A i \in Index : Marked(Sent(S), a)[i] = "acked" =>
                                packet_state[i] = "acked" \/ i = a
  BY <1>1 DEF Marked
<1>3. \A lo, hi : DataOnly({DataPacket(i) : i \in NewPackets(lo, hi)})
  BY DEF DataOnly, NewPackets
<1>4. CASE Finish
  <2>1. /\ spc = "loop" /\ spc' = "done" /\ packet_state[N-1] = "acked"
        /\ UNCHANGED <<congestionVars, cwnd_start, cwnd_end, packet_state>>
        /\ toReceiver' = toReceiver /\ toSender' = toSender
    BY <1>4 DEF Finish, channels
  <2>2. CongestionInv'
    BY <2>1, StoppingKeepsCongestion DEF SPC
  <2>3. QED
    BY <1>0, <2>1, <2>2
<1>5. CASE Transmit
  <2>1. CASE Crash
    BY <1>0, <1>5, <2>1, TransmitEffect DEF Crash
  <2>2. CASE ~Crash
    <3>1. /\ spc' = "select" /\ spc = "loop" /\ CongestionInv' /\ toSender' = toSender
          /\ packet_state' = Sent(NewPackets(cwnd_start, cwnd_end))
          /\ toReceiver' = Put(toReceiver, {DataPacket(i) : i \in NewPackets(cwnd_start, cwnd_end)})
      BY <1>5, <2>2, TransmitEffect
    <3>2. QED
      BY <1>1, <1>3, <3>1
  <2>3. QED
    BY <2>1, <2>2
<1>6. CASE RecvAck
  <2>1. PICK m \in InFlight(toSender) :
          /\ toSender' = Take(toSender, m) /\ m \in ToSender
          /\ \/ /\ spc' \in {"dead", "crashed"}
                /\ UNCHANGED <<congestionVars, cwnd_start, cwnd_end, packet_state,
                               toReceiver>>
             \/ m.ack_seq_num >= cwnd_start /\ NewAck(m.ack_seq_num) /\ ~Crash
             \/ m.ack_seq_num < cwnd_start /\ DupAck(m.ack_seq_num) /\ ~Crash
    BY <1>6, RecvAckEffect
  <2>2. spc = "select"
    BY <1>6 DEF RecvAck
  <2> DEFINE a == m.ack_seq_num
  <2>3. a \in Int
    BY <2>1, SenderReads
  <2> HIDE DEF a
  <2>4. CASE /\ spc' \in {"dead", "crashed"}
             /\ UNCHANGED <<congestionVars, cwnd_start, cwnd_end, packet_state,
                            toReceiver>>
    <3>1. CongestionInv'
      BY <2>4, StoppingKeepsCongestion DEF SPC
    <3>2. QED
      BY <1>0, <2>1, <2>2, <2>4, <3>1
  <2>5. CASE a >= cwnd_start /\ NewAck(a) /\ ~Crash
    <3>1. CongestionInv' /\ spc' = "loop"
      BY <2>2, <2>3, <2>5, NewAckEffect
    <3>2. PICK S : /\ S = {} \/ \E lo, hi : S = NewPackets(lo, hi)
                   /\ packet_state' = Marked(Sent(S), a)
                   /\ toReceiver' = Put(toReceiver, {DataPacket(i) : i \in S})
      BY <2>2, <2>3, <2>5, NewAckEffect
    <3>3. DataOnly({DataPacket(i) : i \in S})
      BY <1>3, <3>2 DEF DataOnly
    <3>4. QED
      BY <1>2, <2>1, <2>2, <3>1, <3>2, <3>3 DEF a
  <2>6. CASE a < cwnd_start /\ DupAck(a) /\ ~Crash
    <3>1. CongestionInv' /\ spc' = "loop"
      BY <2>2, <2>6, DupAckEffect
    <3>2. PICK S : packet_state' = Marked(Sent(S), a)
      BY <2>2, <2>6, DupAckEffect
    <3>3. PICK M : /\ toReceiver' = Put(toReceiver, M) \/ toReceiver' = toReceiver
                   /\ \A x \in M : x = RetransmitPacket \/ \E i \in Index : x = DataPacket(i)
      BY <2>2, <2>6, DupAckEffect
    <3>4. DataOnly(M)
      BY <2>2, <3>3 DEF DataOnly
    <3>5. QED
      BY <1>2, <2>1, <2>2, <3>1, <3>2, <3>3, <3>4 DEF a
  <2>7. QED
    BY <2>1, <2>4, <2>5, <2>6 DEF a
<1>7. CASE Timeout
  <2>1. CASE Crash
    BY <1>0, <1>7, <2>1, TimeoutEffect DEF Crash
  <2>2. CASE ~Crash
    <3>1. /\ spc' = "loop" /\ spc = "select" /\ CongestionInv' /\ toSender' = toSender
          /\ packet_state' = Sent({cwnd_start})
          /\ toReceiver' = Put(toReceiver, {RetransmitPacket})
      BY <1>7, <2>2, TimeoutEffect
    <3>2. DataOnly({RetransmitPacket})
      BY <3>1 DEF DataOnly
    <3>3. QED
      BY <1>1, <3>1, <3>2
  <2>3. QED
    BY <2>1, <2>2
<1>8. QED
  BY <1>4, <1>5, <1>6, <1>7 DEF SenderLoop

----------------------------------------------------------------------------
\* The window, as long as no SYN-ACK is read in the main loop: it starts
\* inside the array, or behind it once the last packet is acknowledged, which
\* ends the loop before anything is waited for or sent again.
WindowInv ==
  /\ cwnd_start \in 0..N
  /\ cwnd_start = N => packet_state[N-1] = "acked"
  /\ RetransmitInArray

LEMMA WindowKept ==
  ASSUME CongestionInv, ChannelsTypeOK, WindowInv, SenderNext,
         spc = "select" => toSender[SynAck(N)] = 0
  PROVE  WindowInv'
<1>0. /\ N \in Nat \ {0} /\ N-1 \in Index
      /\ packet_state \in [Index -> PacketStates]
  BY NAssumption DEF CongestionInv, SenderTypeOK, PacketStates, Index
<1>1. CASE SendSyn \/ RecvSynAck \/ SendHandshakeAck \/ Finish
  <2>1. UNCHANGED <<cwnd_start, packet_state>> /\ spc' # "select"
    BY <1>1 DEF SendSyn, RecvSynAck, SendHandshakeAck, Finish
  <2>2. QED
    BY <2>1 DEF WindowInv, RetransmitInArray
<1>2. CASE Transmit
  <2>1. cwnd_start' = cwnd_start /\ cwnd_start \in Index
    BY <1>0, <1>2, TransmitEffect DEF WindowInv, Index
  <2>2. cwnd_start \in 0..N /\ cwnd_start # N
    BY <1>0, <2>1 DEF Index
  <2>3. QED
    BY <2>1, <2>2 DEF WindowInv, RetransmitInArray
<1>3. CASE Timeout
  <2>1. cwnd_start' = cwnd_start /\ cwnd_start \in Index
    BY <1>3, TimeoutEffect DEF WindowInv, RetransmitInArray, Crash
  <2>2. cwnd_start \in 0..N /\ cwnd_start # N
    BY <1>0, <2>1 DEF Index
  <2>3. QED
    BY <2>1, <2>2 DEF WindowInv, RetransmitInArray
<1>4. CASE RecvAck
  <2>1. PICK m \in InFlight(toSender) :
          /\ m \in ToSender
          /\ \/ /\ spc' \in {"dead", "crashed"}
                /\ UNCHANGED <<congestionVars, cwnd_start, cwnd_end, packet_state,
                               toReceiver>>
             \/ m.ack_seq_num >= cwnd_start /\ NewAck(m.ack_seq_num) /\ ~Crash
             \/ m.ack_seq_num < cwnd_start /\ DupAck(m.ack_seq_num) /\ ~Crash
    BY <1>4, RecvAckEffect
  <2>2. spc = "select" /\ cwnd_start \in Index
    BY <1>4 DEF RecvAck, WindowInv, RetransmitInArray
  <2> DEFINE a == m.ack_seq_num
  <2>3. a \in -1..N-1
    <3>1. m # SynAck(N)
      BY <2>1, <2>2 DEF InFlight
    <3>2. QED
      BY <2>1, <3>1, SenderReads
  <2> HIDE DEF a
  <2>4. CASE spc' \in {"dead", "crashed"} /\ UNCHANGED <<cwnd_start, packet_state>>
    BY <2>4 DEF WindowInv, RetransmitInArray
  <2>5. CASE a >= cwnd_start /\ NewAck(a) /\ ~Crash
    <3>1. a \in Index /\ a \in Int
      BY <1>0, <2>2, <2>3, <2>5 DEF Index
    <3>2. spc' = "loop" /\ cwnd_start' \in {0, a + 1}
      BY <2>2, <2>5, <3>1, NewAckEffect
    <3>3. PICK S : packet_state' = Marked(Sent(S), a)
      BY <2>2, <2>5, <3>1, NewAckEffect
    <3>4. packet_state'[a] = "acked"
      BY <3>1, <3>3 DEF Marked
    <3>5. a + 1 \in 0..N /\ 0 \in 0..N /\ 0 # N /\ (a + 1 = N => a = N-1)
      BY <1>0, <3>1 DEF Index
    <3>6. cwnd_start' = N => packet_state'[N-1] = "acked"
      BY <3>2, <3>4, <3>5
    <3>7. QED
      BY <3>2, <3>5, <3>6 DEF WindowInv, RetransmitInArray
  <2>6. CASE a < cwnd_start /\ DupAck(a) /\ ~Crash
    <3>1. spc' = "loop" /\ cwnd_start' = cwnd_start
      BY <2>2, <2>6, DupAckEffect
    <3>2. cwnd_start \in 0..N /\ cwnd_start # N
      BY <1>0, <2>2 DEF Index
    <3>3. QED
      BY <3>1, <3>2 DEF WindowInv, RetransmitInArray
  <2>7. QED
    BY <2>1, <2>4, <2>5, <2>6 DEF a
<1>5. QED
  BY <1>1, <1>2, <1>3, <1>4 DEF SenderNext

\* What has been sent is a prefix of the file, of at least the packets before
\* the window.
SentInv ==
  /\ NoGapInSent
  /\ \A i \in Index : i < cwnd_start => packet_state[i] # "not_sent"

\* transmit_new goes on where the prefix ends.
LEMMA NewPacketsLeaveNoGap ==
  ASSUME packet_state \in [Index -> PacketStates], NoGapInSent,
         NEW lo \in Nat, NEW hi \in Nat,
         \A i \in Index : i < lo => packet_state[i] # "not_sent",
         NEW i \in Index, NEW j \in Index, i < j,
         Sent(NewPackets(lo, hi))[j] # "not_sent"
  PROVE  Sent(NewPackets(lo, hi))[i] # "not_sent"
<1>0. N \in Nat /\ i \in Int /\ j \in Int
  BY NAssumption DEF Index
<1> SUFFICES ASSUME packet_state[i] = "not_sent"
             PROVE  i \in NewPackets(lo, hi)
  BY DEF Sent
<1>1. \A k \in Index : k >= i => packet_state[k] = "not_sent"
  BY <1>0 DEF NoGapInSent, Index
<1>2. packet_state[j] = "not_sent" /\ i >= lo
  BY <1>0, <1>1
<1>3. j \in NewPackets(lo, hi)
  BY <1>2 DEF Sent
<1>4. j < hi /\ \A k \in j..hi-1 : k \in Index
  BY <1>3 DEF NewPackets
<1>5. \A k \in i..hi-1 : k \in Index
  BY <1>0, <1>4 DEF Index
<1>6. \A k \in i..hi-1 : k \in Index /\ packet_state[k] = "not_sent"
  BY <1>0, <1>1, <1>5 DEF Index
<1>7. QED
  BY <1>0, <1>2, <1>4, <1>6 DEF NewPackets

\* Nothing that a handler does to the records leaves a gap.
LEMMA HandlerLeavesNoGap ==
  ASSUME packet_state \in [Index -> PacketStates], NoGapInSent,
         NEW lo \in Nat, NEW hi \in Nat,
         \A i \in Index : i < lo => packet_state[i] # "not_sent",
         NEW S, S \in {{}, {lo}, NewPackets(lo, hi)},
         NEW a, a \in Index => \A i \in 0..a : packet_state[i] # "not_sent",
         NEW i \in Index, NEW j \in Index, i < j
  PROVE  /\ Sent(S)[j] # "not_sent" => Sent(S)[i] # "not_sent"
         /\ Marked(Sent(S), a)[j] # "not_sent" => Marked(Sent(S), a)[i] # "not_sent"
<1>0. N \in Nat /\ i \in Nat /\ j \in Nat
  BY NAssumption DEF Index
<1>1. \A k \in Index : packet_state[k] # "not_sent" => Sent(S)[k] # "not_sent"
  BY DEF Sent
<1>2. Sent(S)[j] # "not_sent" => Sent(S)[i] # "not_sent"
  <2>1. CASE S = NewPackets(lo, hi)
    BY <2>1, NewPacketsLeaveNoGap
  <2>2. CASE S = {} \/ (S = {lo} /\ j # lo)
    <3>1. Sent(S)[j] = packet_state[j]
      BY <2>2 DEF Sent
    <3>2. QED
      BY <1>1, <3>1 DEF NoGapInSent
  <2>3. CASE S = {lo} /\ j = lo
    BY <1>0, <1>1, <2>3
  <2>4. QED
    BY <2>1, <2>2, <2>3
<1>3. ASSUME Marked(Sent(S), a)[j] # "not_sent"
      PROVE  Marked(Sent(S), a)[i] # "not_sent"
  <2>1. \A k \in Index : Sent(S)[k] # "not_sent" => Marked(Sent(S), a)[k] # "not_sent"
    BY DEF Marked
  <2>2. CASE j = a
    <3>1. i \in 0..a
      BY <1>0, <2>2
    <3>2. QED
      BY <1>1, <2>1, <2>2, <3>1
  <2>3. CASE j # a
    <3>1. Sent(S)[j] # "not_sent"
      BY <1>3, <2>3 DEF Marked
    <3>2. QED
      BY <1>2, <2>1, <3>1
  <2>4. QED
    BY <2>2, <2>3
<1>4. QED
  BY <1>2, <1>3

\* The ACKs on their way are of packets that were sent.
AcksOfSent ==
  \A a \in Index : toSender[Ack(a)] > 0 => \A i \in 0..a : packet_state[i] # "not_sent"

\* Every step of the sender keeps the prefix, and never takes one back.
LEMMA SentKept ==
  ASSUME CongestionInv, ChannelsTypeOK, WindowInv, SentInv, AcksOfSent, SenderNext,
         spc = "select" => toSender[SynAck(N)] = 0
  PROVE  /\ SentInv'
         /\ \A i \in Index : packet_state[i] # "not_sent" => packet_state'[i] # "not_sent"
<1>0. /\ N \in Nat \ {0} /\ Index \subseteq Nat
      /\ packet_state \in [Index -> PacketStates]
      /\ cwnd_start \in Nat /\ cwnd_end \in Nat
      /\ NoGapInSent /\ \A i \in Index : i < cwnd_start => packet_state[i] # "not_sent"
  BY NAssumption DEF CongestionInv, SenderTypeOK, PacketStates, Index, SentInv
<1>1. \A S, a : \A k \in Index : packet_state[k] # "not_sent" =>
                  Sent(S)[k] # "not_sent" /\ Marked(Sent(S), a)[k] # "not_sent"
  BY DEF Sent, Marked
<1>2. CASE UNCHANGED <<cwnd_start, packet_state>>
  BY <1>2 DEF SentInv, NoGapInSent
<1>3. CASE Transmit /\ ~Crash
  <2> DEFINE S == NewPackets(cwnd_start, cwnd_end)
  <2>1. packet_state' = Sent(S) /\ cwnd_start' = cwnd_start
    BY <1>3, TransmitEffect
  <2> HIDE DEF S
  <2>2. ASSUME NEW i \in Index, NEW j \in Index, i < j
        PROVE  Sent(S)[j] # "not_sent" => Sent(S)[i] # "not_sent"
    BY <1>0, <2>2, NewPacketsLeaveNoGap DEF S
  <2>3. QED
    BY <1>0, <1>1, <2>1, <2>2 DEF SentInv, NoGapInSent
<1>4. CASE Timeout /\ ~Crash
  <2>1. packet_state' = Sent({cwnd_start}) /\ cwnd_start' = cwnd_start
    BY <1>4, TimeoutEffect
  <2>2. ASSUME NEW i \in Index, NEW j \in Index, i < j
        PROVE  Sent({cwnd_start})[j] # "not_sent" => Sent({cwnd_start})[i] # "not_sent"
    <3>1. -1 \notin Index
      BY <1>0
    <3>2. QED
      BY <1>0, <2>2, <3>1, HandlerLeavesNoGap
  <2>3. QED
    BY <1>0, <1>1, <2>1, <2>2 DEF SentInv, NoGapInSent
<1>5. CASE RecvAck /\ ~Crash
  <2>1. PICK m \in InFlight(toSender) :
          /\ m \in ToSender
          /\ \/ /\ spc' \in {"dead", "crashed"}
                /\ UNCHANGED <<congestionVars, cwnd_start, cwnd_end, packet_state,
                               toReceiver>>
             \/ m.ack_seq_num >= cwnd_start /\ NewAck(m.ack_seq_num) /\ ~Crash
             \/ m.ack_seq_num < cwnd_start /\ DupAck(m.ack_seq_num) /\ ~Crash
    BY <1>5, RecvAckEffect
  <2>2. spc = "select" /\ cwnd_start \in Index
    BY <1>5 DEF RecvAck, WindowInv, RetransmitInArray
  <2> DEFINE a == m.ack_seq_num
  <2>3. a \in -1..N-1 /\ m = Ack(a)
    <3>1. m # SynAck(N)
      BY <2>1, <2>2 DEF InFlight
    <3>2. QED
      BY <2>1, <3>1, SenderReads
  <2> HIDE DEF a
  <2>4. a \in Index => \A i \in 0..a : packet_state[i] # "not_sent"
    BY <2>3 DEF AcksOfSent, InFlight
  <2>5. CASE UNCHANGED <<cwnd_start, packet_state>>
    BY <1>2, <2>5
  <2>6. CASE a >= cwnd_start /\ NewAck(a) /\ ~Crash
    <3>1. a \in Index /\ a \in Nat
      BY <1>0, <2>2, <2>3, <2>6 DEF Index
    <3>2. CongestionInv' /\ cwnd_start' \in {0, a + 1}
      BY <2>2, <2>6, <3>1, NewAckEffect
    <3>3. PICK S : /\ \/ S = {}
                      \/ \E lo, hi : S = NewPackets(lo, hi) /\ lo = cwnd_start' /\ hi = cwnd_end'
                   /\ packet_state' = Marked(Sent(S), a)
                   /\ toReceiver' = Put(toReceiver, {DataPacket(i) : i \in S})
      BY <2>2, <2>6, <3>1, NewAckEffect
    <3>4. PICK lo \in Nat, hi \in Nat : lo = cwnd_start' /\ hi = cwnd_end'
      BY <3>2 DEF CongestionInv, SenderTypeOK
    <3>5. \A i \in Index : i < lo => packet_state[i] # "not_sent"
      <4>1. lo = 0 \/ lo = a + 1
        BY <3>2, <3>4
      <4>2. \A i \in Index : i < lo => i \in 0..a
        BY <1>0, <3>1, <4>1
      <4>3. QED
        BY <2>4, <3>1, <4>2
    <3>6. ASSUME NEW i \in Index, NEW j \in Index, i < j
          PROVE  packet_state'[j] # "not_sent" => packet_state'[i] # "not_sent"
      <4>1. S \in {{}, {lo}, NewPackets(lo, hi)}
        BY <3>3, <3>4
      <4>2. QED
        BY <1>0, <2>4, <3>3, <3>5, <3>6, <4>1, HandlerLeavesNoGap
    <3>7. \A i \in Index : packet_state[i] # "not_sent" => packet_state'[i] # "not_sent"
      BY <1>1, <3>3
    <3>8. QED
      BY <3>4, <3>5, <3>6, <3>7 DEF SentInv, NoGapInSent
  <2>7. CASE a < cwnd_start /\ DupAck(a) /\ ~Crash
    <3>1. CongestionInv' /\ cwnd_start' = cwnd_start
      BY <2>2, <2>7, DupAckEffect
    <3>2. PICK S : /\ S \in {{}, {cwnd_start}} \/ S = NewPackets(cwnd_start, cwnd_end')
                   /\ packet_state' = Marked(Sent(S), a)
      BY <2>2, <2>7, DupAckEffect
    <3>3. PICK hi \in Nat : hi = cwnd_end'
      BY <3>1 DEF CongestionInv, SenderTypeOK
    <3>4. ASSUME NEW i \in Index, NEW j \in Index, i < j
          PROVE  packet_state'[j] # "not_sent" => packet_state'[i] # "not_sent"
      <4>1. S \in {{}, {cwnd_start}, NewPackets(cwnd_start, hi)}
        BY <3>2, <3>3
      <4>2. QED
        BY <1>0, <2>4, <3>2, <3>4, <4>1, HandlerLeavesNoGap
    <3>5. QED
      BY <1>0, <1>1, <3>1, <3>2, <3>4 DEF SentInv, NoGapInSent
  <2>8. QED
    BY <2>1, <2>5, <2>6, <2>7 DEF a
<1>6. QED
  <2>1. Crash => UNCHANGED <<cwnd_start, packet_state>>
    BY DEF Crash
  <2>2. SendSyn \/ RecvSynAck \/ SendHandshakeAck \/ Finish
          => UNCHANGED <<cwnd_start, packet_state>>
    BY DEF SendSyn, RecvSynAck, SendHandshakeAck, Finish
  <2>3. QED
    BY <1>2, <1>3, <1>4, <1>5, <2>1, <2>2 DEF SenderNext

----------------------------------------------------------------------------
\* Before the main loop.
LEMMA HandshakeStep ==
  ASSUME CongestionInv, ChannelsTypeOK, SendSyn \/ RecvSynAck \/ SendHandshakeAck
  PROVE  /\ CongestionInv' /\ ChannelsTypeOK'
         /\ UNCHANGED <<cwnd_start, packet_state>>
         /\ spc \in {"sync", "sync_wait", "estab"}
         /\ spc' \in {"sync", "sync_wait", "estab", "loop", "dead"}
         /\ \A m \in ToSender : toSender'[m] > 0 => toSender[m] > 0
         /\ SendSyn => /\ toSender' = toSender /\ spc = "sync" /\ spc' = "sync_wait"
                       /\ toReceiver' = Put(toReceiver, {Syn})
         /\ RecvSynAck => /\ toReceiver' = toReceiver /\ spc = "sync_wait"
                          /\ spc' \in {"sync", "estab", "dead"}
                          /\ \E m \in InFlight(toSender) :
                               /\ toSender' = Take(toSender, m)
                               /\ spc' = "estab" => m = SynAck(N)
         /\ SendHandshakeAck =>
              /\ toSender' = toSender /\ spc = "estab" /\ spc' = "loop"
              /\ \E g \in Garbage : toReceiver' = Put(toReceiver, {HandshakeAck(g)})
<1>0. /\ toReceiver \in [ToReceiver -> 0..MaxCopies]
      /\ toSender \in [ToSender -> 0..MaxCopies]
  BY DEF ChannelsTypeOK
<1>1. CASE SendSyn
  <2>1. /\ toSender' = toSender /\ spc = "sync" /\ spc' = "sync_wait"
        /\ toReceiver' = Put(toReceiver, {Syn})
        /\ UNCHANGED <<congestionVars, cwnd_start, cwnd_end, packet_state>>
    BY <1>1 DEF SendSyn
  <2>2. CongestionInv'
    BY <2>1, StoppingKeepsCongestion DEF SPC
  <2>3. ChannelsTypeOK'
    BY <1>0, <2>1, PutTypes DEF ChannelsTypeOK
  <2>4. ~RecvSynAck /\ ~SendHandshakeAck
    BY <2>1 DEF RecvSynAck, SendHandshakeAck
  <2>5. QED
    BY <2>1, <2>2, <2>3, <2>4
<1>2. CASE RecvSynAck
  <2>1. PICK m \in InFlight(toSender), len \in AddrLen :
          /\ toSender' = Take(toSender, m)
          /\ spc' = IF len = "invalid" THEN "dead"
                    ELSE IF /\ len = "fits"
                            /\ m.ACK_BIT /\ m.SYN_BIT /\ m.ack_seq_num = N + 1
                         THEN "estab"
                         ELSE "sync"
    BY <1>2 DEF RecvSynAck
  <2>2. /\ spc = "sync_wait" /\ toReceiver' = toReceiver
        /\ UNCHANGED <<congestionVars, cwnd_start, cwnd_end, packet_state>>
    BY <1>2 DEF RecvSynAck
  <2>3. /\ m \in ToSender /\ toSender' \in [ToSender -> 0..MaxCopies]
        /\ \A x \in ToSender : toSender'[x] > 0 => toSender[x] > 0
    BY <1>0, <2>1, TakeTypes
  <2>4. spc' \in {"sync", "estab", "dead"} /\ (spc' = "estab" => m = SynAck(N))
    BY <2>1, <2>3, SenderReads
  <2>5. CongestionInv'
    BY <2>2, <2>4, StoppingKeepsCongestion DEF SPC
  <2>6. ~SendSyn /\ ~SendHandshakeAck
    BY <2>2 DEF SendSyn, SendHandshakeAck
  <2>7. ChannelsTypeOK'
    BY <1>0, <2>2, <2>3 DEF ChannelsTypeOK
  <2>8. QED
    BY <2>1, <2>2, <2>3, <2>4, <2>5, <2>6, <2>7
<1>3. CASE SendHandshakeAck
  <2>1. PICK g \in Garbage : toReceiver' = Put(toReceiver, {HandshakeAck(g)})
    BY <1>3 DEF SendHandshakeAck
  <2>2. /\ toSender' = toSender /\ spc = "estab" /\ spc' = "loop"
        /\ UNCHANGED <<congestionVars, cwnd_start, cwnd_end, packet_state>>
    BY <1>3 DEF SendHandshakeAck
  <2>3. CongestionInv'
    BY <2>2, StoppingKeepsCongestion DEF SPC
  <2>4. ChannelsTypeOK'
    BY <1>0, <2>1, <2>2, PutTypes DEF ChannelsTypeOK
  <2>5. ~SendSyn /\ ~RecvSynAck
    BY <2>2 DEF SendSyn, RecvSynAck
  <2>6. QED
    BY <2>1, <2>2, <2>3, <2>4, <2>5
<1>4. QED
  BY <1>1, <1>2, <1>3

\* The main loop's datagrams, counted: data comes on the way to the receiver,
\* and nothing comes on the way back.
LEMMA LoopChannels ==
  ASSUME CongestionInv, ChannelsTypeOK, SenderLoop
  PROVE  /\ ChannelsTypeOK'
         /\ \A m \in ToSender : toSender'[m] > 0 => toSender[m] > 0
         /\ toReceiver'[Syn] = toReceiver[Syn]
         /\ \A g \in Garbage : toReceiver'[HandshakeAck(g)] = toReceiver[HandshakeAck(g)]
         /\ \A m \in ToReceiver : toReceiver'[m] > 0 =>
              \/ toReceiver[m] > 0
              \/ spc = "select" /\ m = RetransmitPacket
              \/ \E i \in Index : m = DataPacket(i)
<1>0. /\ toReceiver \in [ToReceiver -> 0..MaxCopies]
      /\ toSender \in [ToSender -> 0..MaxCopies]
  BY DEF ChannelsTypeOK
<1>1. /\ toSender' \in [ToSender -> 0..MaxCopies]
      /\ \A m \in ToSender : toSender'[m] > 0 => toSender[m] > 0
  <2>1. CASE toSender' = toSender
    BY <1>0, <2>1
  <2>2. CASE \E m \in InFlight(toSender) : toSender' = Take(toSender, m)
    BY <1>0, <2>2, TakeTypes
  <2>3. QED
    BY <2>1, <2>2, LoopStep
<1>2. PICK M : /\ toReceiver' = Put(toReceiver, M) \/ toReceiver' = toReceiver
               /\ DataOnly(M)
  BY LoopStep
<1>3. /\ toReceiver' \in [ToReceiver -> 0..MaxCopies]
      /\ \A m \in ToReceiver : m \notin M => toReceiver'[m] = toReceiver[m]
      /\ \A m \in ToReceiver : toReceiver'[m] > 0 => toReceiver[m] > 0 \/ m \in M
  <2>1. CASE toReceiver' = toReceiver
    BY <1>0, <2>1
  <2>2. CASE toReceiver' = Put(toReceiver, M)
    BY <1>0, <2>2, PutTypes
  <2>3. QED
    BY <1>2, <2>1, <2>2
<1>4. \A m \in M : \E q, p : m = Data(q, p)
  BY <1>2 DEF DataOnly, RetransmitPacket, DataPacket
<1>5. Syn \notin M /\ \A g \in Garbage : HandshakeAck(g) \notin M
  BY <1>4, KindsDiffer
<1>6. /\ toReceiver'[Syn] = toReceiver[Syn]
      /\ \A g \in Garbage : toReceiver'[HandshakeAck(g)] = toReceiver[HandshakeAck(g)]
  BY <1>3, <1>5, KindsDiffer
<1>7. QED
  BY <1>1, <1>2, <1>3, <1>6 DEF ChannelsTypeOK, DataOnly

\* Every step of the sender keeps its types and its congestion control.
LEMMA SenderKeepsTypes ==
  ASSUME CongestionInv, ChannelsTypeOK, SenderNext
  PROVE  CongestionInv' /\ ChannelsTypeOK'
BY LoopStep, LoopChannels, HandshakeStep DEF SenderNext, SenderLoop

----------------------------------------------------------------------------
(***************************************************************************)
(* The sender alone.  Its handshake is one datagram going to and fro, so   *)
(* no SYN-ACK is left when the main loop begins; one read there would move *)
(* the window beyond the array.                                            *)
(***************************************************************************)
OneHandshake ==
  /\ spc # "sync_wait" => toReceiver[Syn] = 0 /\ toSender[SynAck(N)] = 0
  /\ toReceiver[Syn] > 0 => toReceiver[Syn] = 1 /\ toSender[SynAck(N)] = 0
  /\ toSender[SynAck(N)] > 0 => toSender[SynAck(N)] = 1
  /\ spc \in {"sync", "sync_wait"} => \A a \in -1..N-1 : toSender[Ack(a)] = 0

AloneInv ==
  /\ CongestionInv
  /\ ChannelsTypeOK
  /\ WindowInv
  /\ SentInv
  /\ AcksOfSent
  /\ OneHandshake

\* At the start nothing is sent and no congestion is known of.
LEMMA SenderInitially ==
  ASSUME SenderInit, ChannelsInit
  PROVE  /\ CongestionInv /\ ChannelsTypeOK /\ WindowInv /\ SentInv
         /\ \A m \in ToReceiver : toReceiver[m] = 0
         /\ \A m \in ToSender : toSender[m] = 0
         /\ \A i \in Index : packet_state[i] = "not_sent"
<1> USE NAssumption, MaxCwndAssumption, MaxCopiesAssumption
<1>1. /\ spc = "sync" /\ curr_state = "slow_start" /\ cwnd = 1 /\ ssthresh = 64
      /\ dupACKcount = 0 /\ cwnd_start = 0 /\ cwnd_end = 1
      /\ packet_state = [i \in Index |-> "not_sent"]
  BY DEF SenderInit, MSS
<1>2. CongestionInv
  BY <1>1 DEF CongestionInv, SenderTypeOK, SPC, DuplicatesStillCount, SlowStartBelowThreshold
<1>3. /\ ChannelsTypeOK
      /\ \A m \in ToReceiver : toReceiver[m] = 0
      /\ \A m \in ToSender : toSender[m] = 0
  BY DEF ChannelsInit, NoneOf, ChannelsTypeOK
<1>4. WindowInv
  BY <1>1 DEF WindowInv, RetransmitInArray
<1>5. SentInv
  BY <1>1 DEF SentInv, NoGapInSent, Index
<1>6. QED
  BY <1>1, <1>2, <1>3, <1>4, <1>5

LEMMA AloneInvInitially == SenderAlone => AloneInv
<1> SUFFICES ASSUME SenderInit, ChannelsInit PROVE AloneInv
  BY DEF SenderAlone
<1>1. /\ CongestionInv /\ ChannelsTypeOK /\ WindowInv /\ SentInv
      /\ \A m \in ToReceiver : toReceiver[m] = 0
      /\ \A m \in ToSender : toSender[m] = 0
  BY SenderInitially
<1>2. AcksOfSent
  BY <1>1, SenderDatagrams DEF AcksOfSent, Index
<1>3. OneHandshake
  BY <1>1, SenderDatagrams, KindsDiffer DEF OneHandshake
<1>4. QED
  BY <1>1, <1>2, <1>3 DEF AloneInv

LEMMA AloneInvKept ==
  ASSUME AloneInv, [SenderAloneNext]_<<senderVars, channels>>
  PROVE  AloneInv'
<1>0. /\ N \in Nat \ {0} /\ MaxCopies \in Nat \ {0}
      /\ toReceiver \in [ToReceiver -> 0..MaxCopies]
      /\ toSender \in [ToSender -> 0..MaxCopies]
      /\ CongestionInv /\ ChannelsTypeOK /\ WindowInv /\ SentInv /\ AcksOfSent /\ OneHandshake
      /\ Syn \in ToReceiver /\ SynAck(N) \in ToSender
      /\ \A a \in -1..N-1 : Ack(a) \in ToSender /\ Ack(a) # SynAck(N)
      /\ Index \subseteq -1..N-1
  BY NAssumption, MaxCopiesAssumption, SenderDatagrams, KindsDiffer
     DEF AloneInv, ChannelsTypeOK, Index
<1>1. CASE UNCHANGED <<senderVars, channels>>
  BY <1>0, <1>1
     DEF AloneInv, CongestionInv, SenderTypeOK, DuplicatesStillCount, ChannelsTypeOK,
         SlowStartBelowThreshold, WindowInv, RetransmitInArray, SentInv, NoGapInSent,
         AcksOfSent, OneHandshake, senderVars, channels
<1>2. ASSUME UNCHANGED senderVars
      PROVE  CongestionInv' /\ WindowInv' /\ SentInv'
  BY <1>0, <1>2
     DEF CongestionInv, SenderTypeOK, DuplicatesStillCount, SlowStartBelowThreshold,
         WindowInv, RetransmitInArray, SentInv, NoGapInSent, senderVars
<1>3. CASE PeerAnswersSyn
  <2>1. /\ toReceiver[Syn] > 0 /\ Syn \in InFlight(toReceiver)
        /\ toReceiver' = Take(toReceiver, Syn)
        /\ toSender' = Put(toSender, {SynAck(N)})
        /\ UNCHANGED senderVars
    BY <1>0, <1>3 DEF PeerAnswersSyn, InFlight
  <2>2. spc = "sync_wait" /\ toReceiver[Syn] = 1 /\ toSender[SynAck(N)] = 0
    BY <1>0, <2>1 DEF OneHandshake
  <2>3. toReceiver' \in [ToReceiver -> 0..MaxCopies] /\ toReceiver'[Syn] = 0
    BY <1>0, <2>1, <2>2, TakeTypes
  <2>4. toSender' \in [ToSender -> 0..MaxCopies] /\ toSender'[SynAck(N)] = 1
    BY <1>0, <2>1, <2>2 DEF Put
  <2>5. \A a \in -1..N-1 : toSender'[Ack(a)] = toSender[Ack(a)]
    BY <1>0, <2>1 DEF Put
  <2>6. AcksOfSent' /\ OneHandshake'
    BY <1>0, <2>1, <2>2, <2>3, <2>4, <2>5 DEF AcksOfSent, OneHandshake, senderVars
  <2>7. QED
    BY <1>2, <2>1, <2>3, <2>4, <2>6 DEF AloneInv, ChannelsTypeOK
<1>4. CASE PeerAcks
  <2>1. PICK a \in -1..N-1 :
          /\ \A i \in 0..a : packet_state[i] # "not_sent"
          /\ toSender' = Put(toSender, {Ack(a)})
    BY <1>4 DEF PeerAcks
  <2>2. spc = "select" /\ UNCHANGED <<senderVars, toReceiver>>
    BY <1>4 DEF PeerAcks
  <2>3. /\ toSender' \in [ToSender -> 0..MaxCopies]
        /\ \A m \in ToSender : m # Ack(a) => toSender'[m] = toSender[m]
    BY <1>0, <2>1, PutTypes
  <2>4. AcksOfSent'
    <3> SUFFICES ASSUME NEW b \in Index, toSender'[Ack(b)] > 0
                 PROVE  \A i \in 0..b : packet_state[i] # "not_sent"
      BY <2>2 DEF AcksOfSent, senderVars
    <3>1. CASE b = a
      BY <2>1, <3>1
    <3>2. CASE b # a
      <4>1. Ack(b) # Ack(a) /\ Ack(b) \in ToSender
        BY <1>0, <3>2, SenderDatagrams
      <4>2. QED
        BY <1>0, <2>3, <4>1 DEF AcksOfSent
    <3>3. QED
      BY <3>1, <3>2
  <2>5. OneHandshake'
    BY <1>0, <2>2, <2>3 DEF OneHandshake, senderVars
  <2>6. QED
    BY <1>0, <1>2, <2>2, <2>3, <2>4, <2>5 DEF AloneInv, ChannelsTypeOK
<1>5. CASE SenderNext
  <2>1. spc = "select" => toSender[SynAck(N)] = 0
    BY <1>0 DEF OneHandshake
  <2>2. /\ CongestionInv' /\ ChannelsTypeOK' /\ WindowInv' /\ SentInv'
        /\ \A i \in Index : packet_state[i] # "not_sent" => packet_state'[i] # "not_sent"
    <3>1. CongestionInv' /\ ChannelsTypeOK'
      BY <1>0, <1>5, SenderKeepsTypes
    <3>2. WindowInv'
      BY <1>0, <1>5, <2>1, WindowKept
    <3>3. QED
      BY <1>0, <1>5, <2>1, <3>1, <3>2, SentKept
  <2>3. \A m \in ToSender : toSender'[m] > 0 => toSender[m] > 0
    BY <1>0, <1>5, HandshakeStep, LoopChannels DEF SenderNext, SenderLoop
  <2>4. toSender' \in [ToSender -> 0..MaxCopies] /\ toReceiver' \in [ToReceiver -> 0..MaxCopies]
    BY <2>2 DEF ChannelsTypeOK
  <2>5. AcksOfSent'
    <3> SUFFICES ASSUME NEW a \in Index, toSender'[Ack(a)] > 0, NEW i \in 0..a
                 PROVE  packet_state'[i] # "not_sent"
      BY DEF AcksOfSent
    <3>1. i \in Index
      BY <1>0 DEF Index
    <3>2. toSender[Ack(a)] > 0
      BY <1>0, <2>3
    <3>3. QED
      BY <1>0, <2>2, <3>1, <3>2 DEF AcksOfSent
  <2>6. OneHandshake'
    <3>1. CASE SendSyn
      <4>1. /\ spc = "sync" /\ spc' = "sync_wait" /\ toSender' = toSender
            /\ toReceiver' = Put(toReceiver, {Syn})
        BY <1>0, <3>1, HandshakeStep
      <4>2. toReceiver[Syn] = 0 /\ toSender[SynAck(N)] = 0
        BY <1>0, <4>1 DEF OneHandshake
      <4>3. toReceiver'[Syn] = 1
        BY <1>0, <4>1, <4>2 DEF Put
      <4>4. QED
        BY <1>0, <4>1, <4>2, <4>3 DEF OneHandshake
    <3>2. CASE RecvSynAck
      <4>1. PICK m \in InFlight(toSender) : toSender' = Take(toSender, m)
        BY <3>2, <1>0, HandshakeStep
      <4>2. spc = "sync_wait" /\ spc' \in {"sync", "estab", "dead"} /\ toReceiver' = toReceiver
        BY <3>2, <1>0, HandshakeStep
      <4>3. m \in ToSender /\ toSender[m] > 0 /\ toSender'[m] = toSender[m] - 1
        BY <1>0, <4>1, TakeTypes
      <4>4. m = SynAck(N)
        <5>1. \A a \in -1..N-1 : m # Ack(a)
          BY <1>0, <4>2, <4>3 DEF OneHandshake
        <5>2. QED
          BY <4>3, <5>1, SenderReads
      <4>5. toSender'[SynAck(N)] = 0 /\ toReceiver'[Syn] = 0
        BY <1>0, <4>2, <4>3, <4>4 DEF OneHandshake
      <4>6. \A a \in -1..N-1 : toSender'[Ack(a)] = 0
        BY <1>0, <2>3, <2>4, <4>2 DEF OneHandshake
      <4>7. QED
        BY <4>5, <4>6 DEF OneHandshake
    <3>3. CASE SendHandshakeAck \/ SenderLoop
      <4>1. spc \in {"estab", "loop", "select"} /\ spc' \notin {"sync", "sync_wait"}
        BY <1>0, <3>3, HandshakeStep, LoopStep
      <4>2. toReceiver[Syn] = 0 /\ toSender[SynAck(N)] = 0
        BY <1>0, <4>1 DEF OneHandshake
      <4>3. toSender'[SynAck(N)] = 0
        BY <1>0, <2>3, <2>4, <4>2
      <4>4. toReceiver'[Syn] = 0
        <5>1. CASE SenderLoop
          BY <1>0, <4>2, <5>1, LoopChannels
        <5>2. CASE SendHandshakeAck
          <6>1. PICK g \in Garbage : toReceiver' = Put(toReceiver, {HandshakeAck(g)})
            BY <1>0, <5>2, HandshakeStep
          <6>2. QED
            BY <1>0, <4>2, <6>1, PutTypes, KindsDiffer
        <5>3. QED
          BY <3>3, <5>1, <5>2
      <4>5. QED
        BY <4>1, <4>3, <4>4 DEF OneHandshake
    <3>4. QED
      BY <1>5, <3>1, <3>2, <3>3 DEF SenderNext, SenderLoop
  <2>7. QED
    BY <2>2, <2>5, <2>6 DEF AloneInv
<1>6. QED
  BY <1>1, <1>3, <1>4, <1>5 DEF SenderAloneNext

LEMMA AloneInvariant == SenderSpec => []AloneInv
BY AloneInvInitially, AloneInvKept, PTL DEF SenderSpec

----------------------------------------------------------------------------
\* sender_main.cpp's globals keep to their types for every window and every
\* file: cwnd stays within its bound although fast recovery sets it to three
\* more than half of what it was.
THEOREM SenderTypeCorrect == SenderSpec => []SenderTypeOK
<1>1. AloneInv => SenderTypeOK
  BY DEF AloneInv, CongestionInv
<1>2. QED
  BY <1>1, AloneInvariant, PTL

\* Three duplicates in a row are always noticed: outside fast recovery the
\* count congestion_control compares with three has not reached it.
THEOREM DuplicatesAlwaysCount == SenderSpec => []DuplicatesStillCount
<1>1. AloneInv => DuplicatesStillCount
  BY DEF AloneInv, CongestionInv
<1>2. QED
  BY <1>1, AloneInvariant, PTL

\* Slow start never goes on at or above ssthresh, whatever halved it.
THEOREM SlowStartEnds == SenderSpec => []SlowStartBelowThreshold
<1>1. AloneInv => SlowStartBelowThreshold
  BY DEF AloneInv, CongestionInv
<1>2. QED
  BY <1>1, AloneInvariant, PTL

\* transmit_new, which scans backwards from the end of the window, never
\* leaves a packet out, however the window was moved back by slow start.
THEOREM SentIsPrefix == SenderSpec => []NoGapInSent
<1>1. AloneInv => NoGapInSent
  BY DEF AloneInv, SentInv
<1>2. QED
  BY <1>1, AloneInvariant, PTL

\* retransmit finds a record at cwnd_start whenever select may time out: the
\* ACK that moves the window behind the array also ends the loop.
THEOREM RetransmitsARecord == SenderSpec => []RetransmitInArray
<1>1. AloneInv => RetransmitInArray
  BY DEF AloneInv, WindowInv
<1>2. QED
  BY <1>1, AloneInvariant, PTL

\* A window is empty only after fast recovery has handed half of a small one
\* to it, and until something else happens it has no record in it.
EmptyWindowInv ==
  cwnd = 0 => curr_state = "congestion_avoidance" /\ cwnd_end = cwnd_start

LEMMA EmptyWindowKept ==
  ASSUME CongestionInv, ChannelsTypeOK, EmptyWindowInv, SenderNext
  PROVE  EmptyWindowInv'
<1>0. cwnd \in Nat /\ ssthresh \in Nat /\ cwnd_start \in Nat
      /\ curr_state \in {"slow_start", "congestion_avoidance", "fast_recovery"}
  BY MaxCwndAssumption DEF CongestionInv, SenderTypeOK
<1>1. ASSUME UNCHANGED <<congestionVars, cwnd_start, cwnd_end>>
      PROVE  EmptyWindowInv'
  BY <1>1 DEF EmptyWindowInv, congestionVars
<1>2. CASE SendSyn \/ RecvSynAck \/ SendHandshakeAck \/ Finish \/ Transmit
  BY <1>1, <1>2 DEF SendSyn, RecvSynAck, SendHandshakeAck, Finish, Transmit, Crash
<1>3. CASE Timeout
  BY <1>1, <1>3 DEF Timeout, Crash, EmptyWindowInv, MSS
<1>4. CASE RecvAck
  <2>1. PICK m \in InFlight(toSender) :
          /\ m \in ToSender
          /\ \/ UNCHANGED <<congestionVars, cwnd_start, cwnd_end>>
             \/ NewAck(m.ack_seq_num) /\ ~Crash
             \/ DupAck(m.ack_seq_num) /\ ~Crash
    BY <1>4, RecvAckEffect
  <2> DEFINE a == m.ack_seq_num
  <2>2. a \in Int
    BY <2>1, SenderReads
  <2> HIDE DEF a
  <2>3. CASE NewAck(a) /\ ~Crash
    <3>1. CASE NewAckFastRecovery(a)
      <4>1. cwnd' = 0 => cwnd_end' = cwnd_start'
        BY <2>2, <3>1 DEF NewAckFastRecovery, NewAckWindow
      <4>2. QED
        BY <3>1, <4>1 DEF NewAckFastRecovery, EmptyWindowInv
    <3>2. CASE NewAckSlowStart(a)
      BY <1>0, <3>2 DEF NewAckSlowStart, MSS, EmptyWindowInv
    <3>3. CASE NewAckCongestionAvoidance(a)
      <4>1. cwnd # 0
        BY <2>3, <3>3 DEF NewAck, NewAckCrashes, NewAckCongestionAvoidance
      <4>2. MSS * (MSS \div cwnd) \in Nat
        BY <1>0, <4>1, OneOver
      <4>3. cwnd' = cwnd + MSS * (MSS \div cwnd)
        BY <3>3 DEF NewAckCongestionAvoidance, AvoidanceCwnd
      <4>4. cwnd' # 0
        BY <1>0, <4>1, <4>2, <4>3
      <4>5. QED
        BY <4>4 DEF EmptyWindowInv
    <3>4. QED
      BY <2>3, <3>1, <3>2, <3>3 DEF NewAck
  <2>4. CASE DupAck(a) /\ ~Crash
    <3>0. cwnd_start' = cwnd_start
      BY <2>4 DEF DupAck
    <3>1. CASE DupAckFastRecovery(a)
      BY <1>0, <3>1 DEF DupAckFastRecovery, MSS, EmptyWindowInv
    <3>2. CASE DupAckCounted(a)
      BY <3>0, <3>2 DEF DupAckCounted, EmptyWindowInv
    <3>3. CASE ThirdDupAck(a)
      <4>1. cwnd \div 2 \in Nat
        BY <1>0
      <4>2. cwnd' = cwnd \div 2 + 3
        BY <3>3 DEF ThirdDupAck
      <4>3. QED
        BY <4>1, <4>2 DEF EmptyWindowInv
    <3>4. QED
      BY <2>4, <3>1, <3>2, <3>3 DEF DupAck
  <2>5. QED
    BY <1>1, <2>1, <2>3, <2>4 DEF a
<1>5. QED
  BY <1>2, <1>3, <1>4 DEF SenderNext

\* What the sender does with an empty window.
LEMMA EmptyWindowStep ==
  ASSUME CongestionInv, ChannelsTypeOK, AcksOfSent, EmptyWindowInv, SenderNext, cwnd = 0
  PROVE  /\ cwnd_start' = cwnd_start
         /\ cwnd' = 0 => \A i \in Index :
                           packet_state[i] = "not_sent" => packet_state'[i] = "not_sent"
<1>0. /\ curr_state = "congestion_avoidance" /\ cwnd_end = cwnd_start
      /\ cwnd_start \in Nat
  BY DEF EmptyWindowInv, CongestionInv, SenderTypeOK
<1>1. CASE SendSyn \/ RecvSynAck \/ SendHandshakeAck \/ Finish
  BY <1>1 DEF SendSyn, RecvSynAck, SendHandshakeAck, Finish
<1>2. CASE Transmit
  <2>1. NewPackets(cwnd_start, cwnd_start) = {}
    BY <1>0 DEF NewPackets, Index
  <2>2. cwnd_start' = cwnd_start /\ (packet_state' = packet_state \/ packet_state' = Sent({}))
    BY <1>0, <1>2, <2>1, TransmitEffect DEF Crash
  <2>3. QED
    BY <2>2 DEF Sent
<1>3. CASE Timeout
  BY <1>3 DEF Timeout, Crash, MSS
<1>4. CASE RecvAck
  <2>1. PICK m \in InFlight(toSender) :
          /\ m \in ToSender
          /\ \/ UNCHANGED <<cwnd_start, packet_state>>
             \/ NewAck(m.ack_seq_num) /\ ~Crash
             \/ DupAck(m.ack_seq_num) /\ ~Crash
    BY <1>4, RecvAckEffect
  <2>2. CASE NewAck(m.ack_seq_num) /\ ~Crash
    BY <1>0, <2>2 DEF NewAck, NewAckCrashes
  <2>3. CASE DupAck(m.ack_seq_num) /\ ~Crash
    <3>1. cwnd_start' = cwnd_start
      BY <2>3 DEF DupAck
    <3>2. DupAckCounted(m.ack_seq_num) \/ ThirdDupAck(m.ack_seq_num)
      BY <1>0, <2>3 DEF DupAck, DupAckFastRecovery
    <3>3. CASE ThirdDupAck(m.ack_seq_num)
      <4>1. cwnd' = 3
        BY <3>3 DEF ThirdDupAck
      <4>2. QED
        BY <3>1, <4>1
    <3>4. CASE DupAckCounted(m.ack_seq_num)
      <4> SUFFICES ASSUME NEW i \in Index, packet_state[i] = "not_sent"
                   PROVE  packet_state'[i] = "not_sent"
        BY <3>1
      <4>1. i # m.ack_seq_num
        <5> SUFFICES ASSUME i = m.ack_seq_num PROVE FALSE
          OBVIOUS
        <5>1. i \in -1..N-1 /\ i \in 0..i
          BY NAssumption DEF Index
        <5>2. m = Ack(i)
          BY <2>1, <5>1, SenderReads
        <5>3. toSender[Ack(i)] > 0
          BY <5>2 DEF InFlight
        <5>4. QED
          BY <5>1, <5>3 DEF AcksOfSent
      <4>2. packet_state' = Marked(packet_state, m.ack_seq_num)
        BY <3>4 DEF DupAckCounted
      <4>3. QED
        BY <4>1, <4>2 DEF Marked
    <3>5. QED
      BY <3>2, <3>3, <3>4
  <2>4. QED
    BY <2>1, <2>2, <2>3
<1>5. QED
  BY <1>1, <1>2, <1>3, <1>4 DEF SenderNext

\* For every window and threshold: a window of 0 sends nothing new and is
\* moved on by no ACK, since congestion avoidance divides by it.
THEOREM EmptyWindowsStall == SenderSpec => EmptyWindowStalls
<1>1. SenderAlone => EmptyWindowInv
  BY DEF SenderAlone, SenderInit, EmptyWindowInv, MSS
<1>2. AloneInv /\ EmptyWindowInv /\ [SenderAloneNext]_<<senderVars, channels>> => EmptyWindowInv'
  <2> SUFFICES ASSUME AloneInv, EmptyWindowInv, [SenderAloneNext]_<<senderVars, channels>>
               PROVE  EmptyWindowInv'
    OBVIOUS
  <2>1. CASE UNCHANGED senderVars
    BY <2>1 DEF EmptyWindowInv, senderVars
  <2>2. CASE SenderNext
    BY <2>2, EmptyWindowKept DEF AloneInv
  <2>3. QED
    BY <2>1, <2>2 DEF SenderAloneNext, PeerAnswersSyn, PeerAcks
<1>3. AloneInv /\ EmptyWindowInv /\ [SenderAloneNext]_<<senderVars, channels>>
        => [cwnd = 0 =>
              /\ cwnd_start' = cwnd_start
              /\ cwnd' = 0 => \A i \in Index :
                   packet_state[i] = "not_sent" => packet_state'[i] = "not_sent"
           ]_<<senderVars, channels>>
  <2> SUFFICES ASSUME AloneInv, EmptyWindowInv, SenderAloneNext, cwnd = 0
               PROVE  /\ cwnd_start' = cwnd_start
                      /\ cwnd' = 0 => \A i \in Index :
                           packet_state[i] = "not_sent" => packet_state'[i] = "not_sent"
    OBVIOUS
  <2>1. CASE UNCHANGED senderVars
    BY <2>1 DEF senderVars
  <2>2. CASE SenderNext
    BY <2>2, EmptyWindowStep DEF AloneInv
  <2>3. QED
    BY <2>1, <2>2 DEF SenderAloneNext, PeerAnswersSyn, PeerAcks
<1>4. QED
  BY <1>1, <1>2, <1>3, AloneInvariant, PTL DEF SenderSpec, EmptyWindowStalls

----------------------------------------------------------------------------
(***************************************************************************)
(* The two programs and the network, which may do what it likes: lose,     *)
(* reorder and repeat.                                                     *)
(***************************************************************************)

\* The network makes no datagram that was not on its way, and without
\* Duplication no copy of one.
LEMMA NetworkStep ==
  ASSUME ChannelsTypeOK, Network
  PROVE  /\ ChannelsTypeOK' /\ UNCHANGED senderVars /\ UNCHANGED receiverVars
         /\ \A m \in ToSender : toSender'[m] > 0 => toSender[m] > 0
         /\ \A m \in ToReceiver : toReceiver'[m] > 0 => toReceiver[m] > 0
         /\ ~Duplication => /\ \A m \in ToSender : toSender'[m] <= toSender[m]
                            /\ \A m \in ToReceiver : toReceiver'[m] <= toReceiver[m]
<1>0. /\ toReceiver \in [ToReceiver -> 0..MaxCopies]
      /\ toSender \in [ToSender -> 0..MaxCopies]
      /\ UNCHANGED senderVars /\ UNCHANGED receiverVars /\ MaxCopies \in Nat
  BY MaxCopiesAssumption DEF ChannelsTypeOK, Network
<1>1. ASSUME NEW M, NEW ch \in [M -> 0..MaxCopies], NEW x \in InFlight(ch)
      PROVE  /\ Take(ch, x) \in [M -> 0..MaxCopies]
             /\ \A m \in M : Take(ch, x)[m] <= ch[m] /\ (Take(ch, x)[m] > 0 => ch[m] > 0)
  <2>1. /\ x \in M /\ Take(ch, x) \in [M -> 0..MaxCopies]
        /\ Take(ch, x)[x] = ch[x] - 1
        /\ \A m \in M : m # x => Take(ch, x)[m] = ch[m]
        /\ \A m \in M : Take(ch, x)[m] > 0 => ch[m] > 0
    BY TakeTypes
  <2>2. \A m \in M : Take(ch, x)[m] <= ch[m]
    BY <1>0, <2>1
  <2>3. QED
    BY <2>1, <2>2
<1>2. ASSUME NEW M, NEW ch \in [M -> 0..MaxCopies], NEW x \in InFlight(ch)
      PROVE  /\ Put(ch, {x}) \in [M -> 0..MaxCopies]
             /\ \A m \in M : Put(ch, {x})[m] > 0 => ch[m] > 0
  BY PutTypes DEF InFlight
<1>3. CASE LoseToReceiver
  BY <1>0, <1>1, <1>3 DEF LoseToReceiver, ChannelsTypeOK
<1>4. CASE LoseToSender
  BY <1>0, <1>1, <1>4 DEF LoseToSender, ChannelsTypeOK
<1>5. CASE DuplicateToReceiver
  BY <1>0, <1>2, <1>5 DEF DuplicateToReceiver, ChannelsTypeOK
<1>6. CASE DuplicateToSender
  BY <1>0, <1>2, <1>6 DEF DuplicateToSender, ChannelsTypeOK
<1>7. QED
  BY <1>3, <1>4, <1>5, <1>6 DEF Network

\* What the receiver holds it keeps: the array is cleared once, while empty.
LEMMA ReceivedGrows ==
  ASSUME AckInv, ReceiverNext
  PROVE  received \subseteq received'
<1>1. CASE RecvSyn \/ SendSynAck \/ WriteFile
  BY <1>1 DEF RecvSyn, SendSynAck, WriteFile
<1>2. CASE RecvHandshakeAck
  BY <1>2 DEF RecvHandshakeAck, AckInv
<1>3. CASE RecvData
  BY <1>3 DEF RecvData, Acknowledge
<1>4. CASE RecvOutside
  BY <1>4 DEF RecvOutside, Acknowledge
<1>5. QED
  BY <1>1, <1>2, <1>3, <1>4 DEF ReceiverNext

\* The acknowledgements stay right while the receiver does nothing.
LEMMA OthersKeepAckInv ==
  ASSUME AckInv, UNCHANGED receiverVars, ChannelsTypeOK',
         \A m \in ToSender : toSender'[m] > 0 => toSender[m] > 0
  PROVE  AckInv'
<1>1. AcksAreTrue'
  <2>1. \A a \in Index : Ack(a) \in ToSender
    BY NAssumption, SenderDatagrams DEF Index
  <2>2. QED
    BY <2>1 DEF AckInv, AcksAreTrue, receiverVars
<1>2. QED
  BY <1>1 DEF AckInv, ReceiverTypeOK, Slots, AckIsFirstMissing, receiverVars

\* Records marked acked are of packets that arrived, all up to them.
AckedIsHeld ==
  \A i \in Index : packet_state[i] = "acked" => 0..i \subseteq received

\* Until the receiver has answered a SYN the sender has not started.
HandshakeOrder ==
  rpc \in {"sync", "estab_send"} =>
    spc \in SenderStarts /\ \A m \in ToSender : toSender[m] = 0

TransferInv ==
  /\ CongestionInv
  /\ AckInv
  /\ AckedIsHeld
  /\ DoneMeansHeld
  /\ HandshakeOrder

\* The receiver at its start.
LEMMA ReceiverInitially ==
  ASSUME ReceiverInit, ChannelsTypeOK, \A m \in ToSender : toSender[m] = 0
  PROVE  AckInv
<1>1. /\ rpc = "sync" /\ numPackets = 0 /\ received = {}
      /\ slot = [i \in {} |-> NoData] /\ current_acked_index = 0
  BY DEF ReceiverInit
<1>2. ReceiverTypeOK
  BY <1>1 DEF ReceiverTypeOK, RPC, Slots
<1>3. AcksAreTrue
  <2>1. \A a \in Index : Ack(a) \in ToSender
    BY NAssumption, SenderDatagrams DEF Index
  <2>2. QED
    BY <2>1 DEF AcksAreTrue
<1>4. QED
  BY <1>1, <1>2, <1>3 DEF AckInv, AckIsFirstMissing

LEMMA TransferInvInitially == TransferInit => TransferInv
<1> SUFFICES ASSUME SenderInit, ReceiverInit, ChannelsInit PROVE TransferInv
  BY DEF TransferInit
<1>1. /\ CongestionInv /\ ChannelsTypeOK
      /\ \A m \in ToSender : toSender[m] = 0
      /\ \A i \in Index : packet_state[i] = "not_sent"
  BY SenderInitially
<1>2. AckInv
  BY <1>1, ReceiverInitially
<1>3. spc = "sync"
  BY DEF SenderInit
<1>4. QED
  BY <1>1, <1>2, <1>3 DEF TransferInv, AckedIsHeld, DoneMeansHeld, HandshakeOrder, SenderStarts

\* The sender's step.
LEMMA SenderKeepsTransferInv ==
  ASSUME TransferInv, SenderStep
  PROVE  TransferInv'
<1>0. /\ N \in Nat \ {0} /\ N-1 \in Index
      /\ CongestionInv /\ AckInv /\ ChannelsTypeOK
      /\ SenderNext /\ UNCHANGED receiverVars
      /\ toSender \in [ToSender -> 0..MaxCopies]
  BY NAssumption DEF TransferInv, AckInv, SenderStep, Index, ChannelsTypeOK
<1>1. CongestionInv' /\ ChannelsTypeOK'
  BY <1>0, SenderKeepsTypes
<1>2. \A m \in ToSender : toSender'[m] > 0 => toSender[m] > 0
  BY <1>0, HandshakeStep, LoopChannels DEF SenderNext, SenderLoop
<1>3. AckInv'
  BY <1>0, <1>1, <1>2, OthersKeepAckInv
<1>4. CASE SendSyn \/ RecvSynAck \/ SendHandshakeAck
  <2>1. /\ packet_state' = packet_state /\ received' = received /\ rpc' = rpc
        /\ spc' # "done"
    BY <1>0, <1>4, HandshakeStep DEF receiverVars
  <2>2. AckedIsHeld' /\ DoneMeansHeld'
    BY <2>1 DEF TransferInv, AckedIsHeld, DoneMeansHeld
  <2>3. ASSUME rpc \in {"sync", "estab_send"}
        PROVE  spc' \in SenderStarts /\ \A m \in ToSender : toSender'[m] = 0
    <3>1. spc \in SenderStarts /\ \A m \in ToSender : toSender[m] = 0
      BY <2>3 DEF TransferInv, HandshakeOrder
    <3>2. ~RecvSynAck
      BY <1>0, <3>1 DEF RecvSynAck, InFlight
    <3>3. spc' \in SenderStarts /\ toSender' = toSender
      BY <1>0, <1>4, <3>1, <3>2, HandshakeStep DEF SenderStarts
    <3>4. QED
      BY <3>1, <3>3
  <2>4. QED
    BY <1>1, <1>3, <2>1, <2>2, <2>3 DEF TransferInv, HandshakeOrder
<1>5. CASE SenderLoop
  <2>1. /\ spc \in {"loop", "select"} /\ received' = received /\ rpc' = rpc
        /\ spc' = "done" => packet_state[N-1] = "acked"
    BY <1>0, <1>5, LoopStep DEF receiverVars
  <2>2. rpc \notin {"sync", "estab_send"}
    BY <2>1 DEF TransferInv, HandshakeOrder, SenderStarts
  <2>3. AckedIsHeld'
    <3> SUFFICES ASSUME NEW i \in Index, packet_state'[i] = "acked"
                 PROVE  0..i \subseteq received
      BY <2>1 DEF AckedIsHeld
    <3>1. CASE packet_state[i] = "acked"
      BY <3>1 DEF TransferInv, AckedIsHeld
    <3>2. CASE packet_state[i] # "acked"
      <4>1. PICK m \in InFlight(toSender) : i = m.ack_seq_num
        BY <1>0, <1>5, <3>2, LoopStep
      <4>2. m \in ToSender /\ toSender[m] > 0 /\ i \in -1..N-1
        BY <1>0, <4>1 DEF InFlight, Index
      <4>3. m = Ack(i)
        BY <4>1, <4>2, SenderReads
      <4>4. QED
        BY <1>0, <4>2, <4>3 DEF AckInv, AcksAreTrue
    <3>3. QED
      BY <3>1, <3>2
  <2>4. DoneMeansHeld'
    BY <1>0, <2>1 DEF TransferInv, AckedIsHeld, DoneMeansHeld, Index
  <2>5. QED
    BY <1>1, <1>3, <2>1, <2>2, <2>3, <2>4 DEF TransferInv, HandshakeOrder
<1>6. QED
  BY <1>0, <1>4, <1>5 DEF SenderNext, SenderLoop

LEMMA TransferInvKept ==
  ASSUME TransferInv, [TransferNext]_transferVars
  PROVE  TransferInv'
<1>0. CongestionInv /\ AckInv /\ ChannelsTypeOK /\ toSender \in [ToSender -> 0..MaxCopies]
  BY DEF TransferInv, AckInv, ChannelsTypeOK
<1>1. ASSUME UNCHANGED senderVars
      PROVE  CongestionInv' /\ spc' = spc /\ packet_state' = packet_state
  BY <1>0, <1>1 DEF CongestionInv, SenderTypeOK, DuplicatesStillCount,
                    SlowStartBelowThreshold, senderVars
<1>2. CASE UNCHANGED transferVars
  <2>1. UNCHANGED senderVars /\ UNCHANGED receiverVars /\ UNCHANGED channels
    BY <1>2 DEF transferVars
  <2>2. AckInv' /\ toSender' = toSender
    BY <1>0, <2>1, OthersKeepAckInv DEF ChannelsTypeOK, channels
  <2>3. QED
    BY <1>1, <2>1, <2>2 DEF TransferInv, AckedIsHeld, DoneMeansHeld, HandshakeOrder, receiverVars
<1>3. CASE SenderStep
  BY <1>3, SenderKeepsTransferInv
<1>4. CASE Network
  <2>1. /\ UNCHANGED senderVars /\ UNCHANGED receiverVars /\ ChannelsTypeOK'
        /\ \A m \in ToSender : toSender'[m] > 0 => toSender[m] > 0
    BY <1>0, <1>4, NetworkStep
  <2>2. AckInv'
    BY <1>0, <2>1, OthersKeepAckInv
  <2>3. \A m \in ToSender : toSender[m] = 0 => toSender'[m] = 0
    BY <1>0, <2>1 DEF ChannelsTypeOK
  <2>4. QED
    BY <1>1, <2>1, <2>2, <2>3
       DEF TransferInv, AckedIsHeld, DoneMeansHeld, HandshakeOrder, receiverVars
<1>5. CASE ReceiverStep
  <2>1. ReceiverNext /\ UNCHANGED senderVars
    BY <1>5 DEF ReceiverStep
  <2>2. AckInv' /\ received \subseteq received'
    BY <1>0, <2>1, ReceiverKeepsAckInv, ReceivedGrows
  <2>3. AckedIsHeld' /\ DoneMeansHeld'
    BY <1>1, <2>1, <2>2 DEF TransferInv, AckedIsHeld, DoneMeansHeld
  <2>4. HandshakeOrder'
    <3>1. rpc' \in {"sync", "estab_send"} => rpc = "sync" /\ toSender' = toSender
      BY <2>1 DEF ReceiverNext, RecvSyn, SendSynAck, RecvHandshakeAck, RecvData,
                  RecvOutside, WriteFile, Acknowledge
    <3>2. QED
      BY <1>1, <2>1, <3>1 DEF TransferInv, HandshakeOrder
  <2>5. QED
    BY <1>1, <2>1, <2>2, <2>3, <2>4 DEF TransferInv
<1>6. QED
  BY <1>2, <1>3, <1>4, <1>5 DEF TransferNext

LEMMA TransferInvariant == TransferSpec => []TransferInv
BY TransferInvInitially, TransferInvKept, PTL DEF TransferSpec

\* Both programs keep to their types against each other, over a network that
\* loses, reorders and repeats.
THEOREM TransferTypeCorrect == TransferSpec => []TransferTypeOK
<1>1. TransferInv => TransferTypeOK
  BY DEF TransferInv, CongestionInv, AckInv, TransferTypeOK
<1>2. QED
  BY <1>1, TransferInvariant, PTL

\* The sender never returns before the receiver holds the whole file, however
\* late or often an ACK is delivered.
THEOREM DoneOnlyWhenHeld == TransferSpec => []DoneMeansHeld
<1>1. TransferInv => DoneMeansHeld
  BY DEF TransferInv
<1>2. QED
  BY <1>1, TransferInvariant, PTL

\* No SYN, lost or repeated, leaves one program established and the other at
\* its start.
THEOREM HandshakesAgree == TransferSpec => []HandshakeAgrees
<1>1. TransferInv => HandshakeAgrees
  BY DEF TransferInv, HandshakeOrder, SenderStarts, HandshakeAgrees
<1>2. QED
  BY <1>1, TransferInvariant, PTL

\* What the receiver acknowledges it holds, also against this sender and with
\* datagrams repeated: its current_acked_index is the first packet missing.
THEOREM TransferAcknowledgesWhatItHolds ==
  TransferSpec => [](AckIsFirstMissing /\ AcksAreTrue)
<1>1. TransferInv => AckIsFirstMissing /\ AcksAreTrue
  BY DEF TransferInv, AckInv
<1>2. QED
  BY <1>1, TransferInvariant, PTL

\* A receiver that is gone answers nothing, so no record becomes acked again.
LEMMA StrandedStep ==
  ASSUME TransferInv, Stranded, [TransferNext]_transferVars
  PROVE  Stranded'
<1>0. /\ CongestionInv /\ ChannelsTypeOK /\ N \in Nat \ {0} /\ N-1 \in Index
      /\ toSender \in [ToSender -> 0..MaxCopies]
      /\ rpc \in {"exited", "dead"} /\ spc # "done" /\ packet_state[N-1] # "acked"
      /\ toSender[Ack(N-1)] = 0 /\ N-1 \in -1..N-1 /\ Ack(N-1) \in ToSender
  BY NAssumption, SenderDatagrams DEF TransferInv, AckInv, Stranded, ChannelsTypeOK, Index
<1>1. ASSUME ChannelsTypeOK', \A m \in ToSender : toSender'[m] > 0 => toSender[m] > 0
      PROVE  toSender'[Ack(N-1)] = 0
  BY <1>0, <1>1 DEF ChannelsTypeOK
<1>2. CASE UNCHANGED transferVars
  BY <1>0, <1>2 DEF transferVars, senderVars, receiverVars, channels, Stranded
<1>3. CASE SenderStep
  <2>0. SenderNext /\ rpc' = rpc
    BY <1>3 DEF SenderStep, receiverVars
  <2>1. CASE SendSyn \/ RecvSynAck \/ SendHandshakeAck
    BY <1>0, <1>1, <2>0, <2>1, HandshakeStep DEF Stranded
  <2>2. CASE SenderLoop
    <3>1. packet_state'[N-1] # "acked"
      <4>1. \A m \in InFlight(toSender) : m.ack_seq_num # N-1
        BY <1>0, SenderReads DEF InFlight
      <4>2. QED
        BY <1>0, <2>2, <4>1, LoopStep
    <3>2. toSender'[Ack(N-1)] = 0
      BY <1>0, <1>1, <2>2, LoopChannels
    <3>3. spc' # "done"
      BY <1>0, <2>2, LoopStep
    <3>4. QED
      BY <1>0, <2>0, <3>1, <3>2, <3>3 DEF Stranded
  <2>3. QED
    BY <2>0, <2>1, <2>2 DEF SenderNext, SenderLoop
<1>4. CASE Network
  BY <1>0, <1>1, <1>4, NetworkStep DEF Stranded, senderVars, receiverVars
<1>5. ~ReceiverStep
  BY <1>0 DEF ReceiverStep, ReceiverNext, RecvSyn, SendSynAck, RecvHandshakeAck,
              RecvData, RecvOutside, WriteFile
<1>6. QED
  BY <1>2, <1>3, <1>4, <1>5 DEF TransferNext

\* Once the receiver is gone and the ACK of the last packet with it, the
\* sender never returns, whatever the network repeats: nothing but that ACK
\* ends its loop, and nobody is left to send it.
THEOREM StrandedSendersStay == TransferSpec => StrandedForEver
<1>1. TransferInv /\ [TransferNext]_transferVars => [Stranded => Stranded']_transferVars
  BY StrandedStep
<1>2. QED
  BY <1>1, TransferInvariant, PTL DEF TransferSpec, StrandedForEver

----------------------------------------------------------------------------
(***************************************************************************)
(* What is written, where nothing stray is stored as a packet: no datagram *)
(* is repeated, or the file is long and the number that the handshake ACK  *)
(* happens to carry lies outside it.                                       *)
(***************************************************************************)
NothingStray == Duplication => N > 1 /\ Garbage \cap Index = {}

\* Every packet arrives as number 0.  A long file then never has its last
\* packet.  The handshake ACK, read a second time in the main loop, is what
\* could be stored elsewhere.
NumberedZero ==
  \A q \in Index, p \in Payload : toReceiver[Data(q, p)] > 0 => q = 0

NoneStray ==
  MainLoop => \A g \in Garbage : toReceiver[HandshakeAck(g)] > 0 => g \notin Index

ZeroInv ==
  /\ NumberedZero
  /\ received \subseteq {0}
  /\ rpc \in {"write", "exited"} => N = 1 /\ received = {0}
  /\ rpc # "exited" => file = NotWritten

\* Without Duplication the handshake happens once: its SYN-ACK is gone when
\* the sender is established, its ACK when the receiver is.
HandshakeOnce ==
  /\ toSender[SynAck(N)] > 0 => toSender[SynAck(N)] = 1 /\ spc \in SenderStarts
  /\ \A g \in Garbage : toReceiver[HandshakeAck(g)] > 0 => spc \notin {"sync", "sync_wait", "estab"}
  /\ \A g, h \in Garbage :
       toReceiver[HandshakeAck(g)] > 0 /\ toReceiver[HandshakeAck(h)] > 0
         => g = h /\ toReceiver[HandshakeAck(g)] = 1
  /\ MainLoop => NoHandshakeAck /\ spc \notin {"sync", "sync_wait", "estab"}

\* The window then stays inside the array, so only chunks of the file are sent
\* and kept.
ChunksOnly ==
  /\ \A q \in Index, p \in Payload : toReceiver[Data(q, p)] > 0 => p \in Index
  /\ MainLoop => \A i \in received : slot[i] \in Index

OnceInv ==
  ~Duplication => WindowInv /\ HandshakeOnce /\ ChunksOnly

CleanInv == ZeroInv /\ OnceInv /\ WrittenIsWholeFile

\* No number but 0 is in the array when what is on its way is clean.
LEMMA NoneStrayThen ==
  ASSUME NothingStray, OnceInv
  PROVE  NoneStray
<1>1. CASE Duplication
  BY <1>1 DEF NothingStray, NoneStray
<1>2. CASE ~Duplication
  BY <1>2 DEF OnceInv, HandshakeOnce, NoHandshakeAck, NoneStray
<1>3. QED
  BY <1>1, <1>2

\* What the receiver stores in its main loop.
LEMMA StoresZero ==
  ASSUME AckInv, ZeroInv, NoneStray, rpc = "main",
         NEW m \in ToReceiver, toReceiver[m] > 0, m.seq_num \in Slots
  PROVE  /\ m.seq_num = 0
         /\ \E p \in Payload : m = Data(0, p) /\ m.data = p
<1>0. Slots = Index /\ N \in Nat \ {0} /\ N \notin Index
  BY NAssumption DEF AckInv, ReceiverTypeOK, Slots, Index
<1>1. m # Syn
  BY <1>0, ReceiverDatagrams
<1>2. ~m.ACK_BIT
  <2> SUFFICES ASSUME NEW g \in Garbage, m = HandshakeAck(g) PROVE FALSE
    BY ReceiverDatagrams
  <2>1. m.seq_num = g
    BY DEF HandshakeAck, Packet
  <2>2. QED
    BY <1>0, <2>1 DEF NoneStray, MainLoop
<1>3. PICK q \in Index, p \in Payload : m = Data(q, p)
  BY <1>1, <1>2, ReceiverDatagrams
<1>4. q = 0
  BY <1>3 DEF ZeroInv, NumberedZero
<1>5. m.seq_num = 0 /\ m.data = p
  BY <1>3, <1>4 DEF Data, Packet
<1>6. QED
  BY <1>3, <1>4, <1>5

LEMMA CleanInvInitially == TransferInit => CleanInv
<1> SUFFICES ASSUME SenderInit, ReceiverInit, ChannelsInit PROVE CleanInv
  BY DEF TransferInit
<1>1. /\ WindowInv
      /\ \A m \in ToSender : toSender[m] = 0
      /\ \A m \in ToReceiver : toReceiver[m] = 0
  BY SenderInitially
<1>2. rpc = "sync" /\ received = {} /\ file = NotWritten
  BY DEF ReceiverInit
<1>3. ZeroInv
  BY <1>1, <1>2, KindsDiffer DEF ZeroInv, NumberedZero
<1>4. HandshakeOnce /\ ChunksOnly
  BY <1>1, <1>2, KindsDiffer, SenderDatagrams DEF HandshakeOnce, ChunksOnly, MainLoop
<1>5. QED
  BY <1>1, <1>2, <1>3, <1>4 DEF CleanInv, OnceInv, WrittenIsWholeFile

\* The sender's data is numbered 0, and while it waits inside the array it is
\* a chunk of the file.
LEMMA SenderSendsData ==
  ASSUME CongestionInv, ChannelsTypeOK, SenderNext,
         NEW q \in Index, NEW p \in Payload, toReceiver'[Data(q, p)] > 0
  PROVE  \/ toReceiver[Data(q, p)] > 0
         \/ q = 0 /\ (WindowInv => p \in Index)
<1>0. Data(q, p) \in ToReceiver /\ toReceiver \in [ToReceiver -> 0..MaxCopies]
  BY KindsDiffer DEF ChannelsTypeOK
<1>1. CASE SenderLoop
  <2>1. CASE spc = "select" /\ Data(q, p) = RetransmitPacket
    <3>1. CASE cwnd_start \in Index
      BY <2>1, <3>1, KindsDiffer DEF RetransmitPacket, DataPacket
    <3>2. CASE cwnd_start \notin Index
      BY <2>1, <3>2, KindsDiffer DEF RetransmitPacket, WindowInv, RetransmitInArray
    <3>3. QED
      BY <3>1, <3>2
  <2>2. CASE \E i \in Index : Data(q, p) = DataPacket(i)
    BY <2>2, KindsDiffer DEF DataPacket
  <2>3. QED
    BY <1>0, <1>1, <2>1, <2>2, LoopChannels
<1>2. CASE SendSyn \/ SendHandshakeAck
  <2>1. PICK x : /\ toReceiver' = Put(toReceiver, {x})
                 /\ x = Syn \/ \E g \in Garbage : x = HandshakeAck(g)
    BY <1>2, HandshakeStep
  <2>2. Data(q, p) # x
    BY <2>1, KindsDiffer
  <2>3. QED
    BY <1>0, <2>1, <2>2, PutTypes
<1>3. CASE RecvSynAck
  BY <1>3, HandshakeStep
<1>4. QED
  BY <1>1, <1>2, <1>3 DEF SenderNext, SenderLoop

\* A step of the sender.
LEMMA SenderKeepsCleanInv ==
  ASSUME TransferInv, CleanInv, SenderStep
  PROVE  CleanInv'
<1>0. /\ CongestionInv /\ AckInv /\ ChannelsTypeOK /\ SenderNext
      /\ UNCHANGED receiverVars
      /\ toReceiver \in [ToReceiver -> 0..MaxCopies]
      /\ toSender \in [ToSender -> 0..MaxCopies]
      /\ SynAck(N) \in ToSender /\ MaxCopies \in Nat \ {0}
      /\ \A g \in Garbage : HandshakeAck(g) \in ToReceiver
  BY SenderDatagrams, KindsDiffer, MaxCopiesAssumption
     DEF TransferInv, AckInv, ChannelsTypeOK, SenderStep
<1>1. ZeroInv' /\ WrittenIsWholeFile'
  <2>1. NumberedZero'
    BY <1>0, SenderSendsData DEF CleanInv, ZeroInv, NumberedZero
  <2>2. QED
    BY <1>0, <2>1 DEF CleanInv, ZeroInv, WrittenIsWholeFile, receiverVars
<1>2. ASSUME ~Duplication
      PROVE  WindowInv' /\ HandshakeOnce' /\ ChunksOnly'
  <2>0. WindowInv /\ HandshakeOnce /\ ChunksOnly
    BY <1>2 DEF CleanInv, OnceInv
  <2>1. WindowInv'
    <3>1. spc = "select" => toSender[SynAck(N)] = 0
      BY <1>0, <2>0 DEF HandshakeOnce, SenderStarts
    <3>2. QED
      BY <1>0, <2>0, <3>1, WindowKept
  <2>2. ChunksOnly'
    <3>1. \A q \in Index, p \in Payload : toReceiver'[Data(q, p)] > 0 => p \in Index
      BY <1>0, <2>0, SenderSendsData DEF ChunksOnly
    <3>2. MainLoop' => \A i \in received' : slot'[i] \in Index
      BY <1>0, <2>0 DEF ChunksOnly, MainLoop, receiverVars
    <3>3. QED
      BY <3>1, <3>2 DEF ChunksOnly
  <2>3. CASE SendSyn
    <3>1. /\ spc = "sync" /\ spc' = "sync_wait" /\ toSender' = toSender
          /\ toReceiver' = Put(toReceiver, {Syn})
      BY <1>0, <2>3, HandshakeStep
    <3>2. \A g \in Garbage : toReceiver'[HandshakeAck(g)] = toReceiver[HandshakeAck(g)]
      BY <1>0, <3>1, PutTypes, KindsDiffer
    <3>3. /\ \A g \in Garbage : ~(toReceiver'[HandshakeAck(g)] > 0)
          /\ ~MainLoop /\ ~MainLoop'
      BY <1>0, <2>0, <3>1, <3>2 DEF HandshakeOnce, MainLoop, receiverVars
    <3>4. HandshakeOnce'
      BY <2>0, <3>1, <3>3 DEF HandshakeOnce, SenderStarts
    <3>5. QED
      BY <2>1, <2>2, <3>4
  <2>4. CASE RecvSynAck
    <3>1. PICK m \in InFlight(toSender) :
            toSender' = Take(toSender, m) /\ (spc' = "estab" => m = SynAck(N))
      BY <1>0, <2>4, HandshakeStep
    <3>2. spc = "sync_wait" /\ spc' \in {"sync", "estab", "dead"} /\ toReceiver' = toReceiver
      BY <1>0, <2>4, HandshakeStep
    <3>3. /\ \A g \in Garbage : ~(toReceiver'[HandshakeAck(g)] > 0)
          /\ ~MainLoop /\ ~MainLoop'
      BY <1>0, <2>0, <3>2 DEF HandshakeOnce, MainLoop, receiverVars
    <3>4. toSender'[SynAck(N)] > 0 => toSender'[SynAck(N)] = 1 /\ spc' \in SenderStarts
      <4>1. /\ m \in ToSender /\ toSender[m] > 0 /\ toSender'[m] = toSender[m] - 1
            /\ \A x \in ToSender : x # m => toSender'[x] = toSender[x]
        BY <1>0, <3>1, TakeTypes
      <4>2. CASE m = SynAck(N)
        <5>1. toSender[m] = 1
          BY <2>0, <4>1, <4>2 DEF HandshakeOnce
        <5>2. QED
          BY <4>1, <4>2, <5>1
      <4>3. CASE m # SynAck(N)
        BY <1>0, <2>0, <3>1, <3>2, <4>1, <4>3 DEF HandshakeOnce, SenderStarts
      <4>4. QED
        BY <4>2, <4>3
    <3>5. HandshakeOnce'
      BY <3>3, <3>4 DEF HandshakeOnce
    <3>6. QED
      BY <2>1, <2>2, <3>5
  <2>5. CASE SendHandshakeAck
    <3>1. PICK g \in Garbage : toReceiver' = Put(toReceiver, {HandshakeAck(g)})
      BY <1>0, <2>5, HandshakeStep
    <3>2. spc = "estab" /\ spc' = "loop" /\ toSender' = toSender
      BY <1>0, <2>5, HandshakeStep
    <3>3. /\ \A h \in Garbage : toReceiver[HandshakeAck(h)] = 0
          /\ ~MainLoop /\ ~MainLoop' /\ toSender'[SynAck(N)] = 0
      BY <1>0, <2>0, <3>2 DEF HandshakeOnce, MainLoop, receiverVars, SenderStarts
    <3>4. toReceiver'[HandshakeAck(g)] = 1
      BY <1>0, <3>1, <3>3 DEF Put
    <3>5. \A h \in Garbage : h # g => toReceiver'[HandshakeAck(h)] = 0
      BY <1>0, <3>1, <3>3, PutTypes, KindsDiffer
    <3>6. HandshakeOnce'
      BY <3>2, <3>3, <3>4, <3>5 DEF HandshakeOnce
    <3>7. QED
      BY <2>1, <2>2, <3>6
  <2>6. CASE SenderLoop
    <3>1. /\ spc \in {"loop", "select"}
          /\ spc' \in {"loop", "select", "done", "dead", "crashed"}
      BY <1>0, <2>6, LoopStep
    <3>2. /\ toSender'[SynAck(N)] > 0 => toSender[SynAck(N)] > 0
          /\ \A g \in Garbage : toReceiver'[HandshakeAck(g)] = toReceiver[HandshakeAck(g)]
      BY <1>0, <2>6, LoopChannels
    <3>3. ~(toSender'[SynAck(N)] > 0)
      BY <2>0, <3>1, <3>2 DEF HandshakeOnce, SenderStarts
    <3>4. MainLoop' = MainLoop
      BY <1>0 DEF MainLoop, receiverVars
    <3>5. HandshakeOnce'
      BY <2>0, <3>1, <3>2, <3>3, <3>4 DEF HandshakeOnce, NoHandshakeAck
    <3>6. QED
      BY <2>1, <2>2, <3>5
  <2>7. QED
    BY <1>0, <2>3, <2>4, <2>5, <2>6 DEF SenderNext, SenderLoop
<1>3. QED
  BY <1>1, <1>2 DEF CleanInv, OnceInv
\* Less on its way to the receiver takes nothing from the invariant.
LEMMA FewerArrive ==
  ASSUME ChannelsTypeOK, toReceiver' \in [ToReceiver -> 0..MaxCopies],
         \A m \in ToReceiver : toReceiver'[m] <= toReceiver[m]
  PROVE  /\ \A m \in ToReceiver : toReceiver'[m] > 0 => toReceiver[m] > 0
         /\ NumberedZero => NumberedZero'
         /\ NoHandshakeAck => NoHandshakeAck'
         /\ HandshakeOnce =>
              \A g, h \in Garbage :
                toReceiver'[HandshakeAck(g)] > 0 /\ toReceiver'[HandshakeAck(h)] > 0
                  => g = h /\ toReceiver'[HandshakeAck(g)] = 1
<1>0. MaxCopies \in Nat /\ toReceiver \in [ToReceiver -> 0..MaxCopies]
  BY MaxCopiesAssumption DEF ChannelsTypeOK
<1>1. ASSUME NEW m \in ToReceiver
      PROVE  /\ toReceiver[m] \in Nat /\ toReceiver'[m] \in Nat
             /\ toReceiver'[m] <= toReceiver[m]
             /\ toReceiver'[m] > 0 => toReceiver[m] > 0
  <2> DEFINE old == toReceiver[m]
             new == toReceiver'[m]
  <2>1. old \in Nat /\ new \in Nat /\ new <= old
    BY <1>0
  <2> HIDE DEF old, new
  <2>2. new > 0 => old > 0
    BY <2>1
  <2>3. QED
    BY <2>1, <2>2 DEF old, new
<1>2. NumberedZero => NumberedZero'
  BY <1>1, KindsDiffer DEF NumberedZero
<1>3. NoHandshakeAck => NoHandshakeAck'
  BY <1>1, KindsDiffer DEF NoHandshakeAck
<1>4. ASSUME HandshakeOnce, NEW g \in Garbage, NEW h \in Garbage,
             toReceiver'[HandshakeAck(g)] > 0, toReceiver'[HandshakeAck(h)] > 0
      PROVE  g = h /\ toReceiver'[HandshakeAck(g)] = 1
  <2>1. HandshakeAck(g) \in ToReceiver /\ HandshakeAck(h) \in ToReceiver
    BY KindsDiffer
  <2>2. toReceiver[HandshakeAck(g)] > 0 /\ toReceiver[HandshakeAck(h)] > 0
    BY <1>1, <1>4, <2>1
  <2>3. g = h /\ toReceiver[HandshakeAck(g)] = 1
    BY <1>4, <2>2 DEF HandshakeOnce
  <2>4. PICK new \in Nat : new = toReceiver'[HandshakeAck(g)]
    BY <1>1, <2>1
  <2>5. new <= 1 /\ new > 0
    BY <1>1, <1>4, <2>1, <2>3, <2>4
  <2>6. QED
    BY <2>3, <2>4, <2>5
<1>5. QED
  BY <1>1, <1>2, <1>3, <1>4

\* A step of the network.
LEMMA NetworkKeepsCleanInv ==
  ASSUME TransferInv, CleanInv, Network
  PROVE  CleanInv'
<1>1. ChannelsTypeOK
  BY DEF TransferInv, AckInv
<1>2. /\ ChannelsTypeOK' /\ UNCHANGED senderVars /\ UNCHANGED receiverVars
      /\ \A m \in ToSender : toSender'[m] > 0 => toSender[m] > 0
      /\ \A m \in ToReceiver : toReceiver'[m] > 0 => toReceiver[m] > 0
      /\ ~Duplication => /\ \A m \in ToSender : toSender'[m] <= toSender[m]
                         /\ \A m \in ToReceiver : toReceiver'[m] <= toReceiver[m]
  BY <1>1, NetworkStep
<1>3. ZeroInv' /\ WrittenIsWholeFile'
  <2>1. NumberedZero'
    BY <1>2, KindsDiffer DEF CleanInv, ZeroInv, NumberedZero
  <2>2. QED
    BY <1>2, <2>1 DEF CleanInv, ZeroInv, WrittenIsWholeFile, receiverVars
<1>4. ASSUME ~Duplication
      PROVE  WindowInv' /\ HandshakeOnce' /\ ChunksOnly'
  <2>0. WindowInv /\ HandshakeOnce /\ ChunksOnly
    BY <1>4 DEF CleanInv, OnceInv
  <2>1. toReceiver' \in [ToReceiver -> 0..MaxCopies]
    BY <1>2 DEF ChannelsTypeOK
  <2>2. \A m \in ToReceiver : toReceiver'[m] <= toReceiver[m]
    BY <1>2, <1>4
  <2>3. /\ NoHandshakeAck => NoHandshakeAck'
        /\ \A g, h \in Garbage :
             toReceiver'[HandshakeAck(g)] > 0 /\ toReceiver'[HandshakeAck(h)] > 0
               => g = h /\ toReceiver'[HandshakeAck(g)] = 1
    BY <1>1, <2>0, <2>1, <2>2, FewerArrive
  <2>4. WindowInv'
    BY <1>2, <2>0 DEF WindowInv, RetransmitInArray, senderVars
  <2>5. ChunksOnly'
    BY <1>2, <2>0, KindsDiffer DEF ChunksOnly, MainLoop, receiverVars
  <2>6. toSender'[SynAck(N)] > 0 => toSender'[SynAck(N)] = 1 /\ spc' \in SenderStarts
    <3> SUFFICES ASSUME toSender'[SynAck(N)] > 0
                 PROVE  toSender'[SynAck(N)] = 1 /\ spc' \in SenderStarts
      OBVIOUS
    <3>1. SynAck(N) \in ToSender
      BY SenderDatagrams
    <3>2. toSender[SynAck(N)] = 1 /\ spc \in SenderStarts
      BY <1>2, <2>0, <3>1 DEF HandshakeOnce
    <3>3. PICK new \in Nat : new = toSender'[SynAck(N)]
      BY <1>2, <3>1, MaxCopiesAssumption DEF ChannelsTypeOK
    <3>4. new <= 1 /\ new > 0
      BY <1>2, <1>4, <3>1, <3>2, <3>3
    <3>5. new = 1
      BY <3>4
    <3>6. QED
      BY <1>2, <3>2, <3>3, <3>5 DEF senderVars
  <2>7. \A g \in Garbage : toReceiver'[HandshakeAck(g)] > 0 =>
                             spc' \notin {"sync", "sync_wait", "estab"}
    BY <1>2, <2>0, KindsDiffer DEF HandshakeOnce, senderVars
  <2>8. MainLoop' => NoHandshakeAck' /\ spc' \notin {"sync", "sync_wait", "estab"}
    BY <1>2, <2>0, <2>3 DEF HandshakeOnce, MainLoop, senderVars, receiverVars
  <2>9. QED
    BY <2>3, <2>4, <2>5, <2>6, <2>7, <2>8 DEF HandshakeOnce
<1>5. QED
  BY <1>3, <1>4 DEF CleanInv, OnceInv

\* The receiver only reads what is on its way to it.
LEMMA ReceiverReads ==
  ASSUME ChannelsTypeOK, ReceiverNext
  PROVE  /\ toReceiver' \in [ToReceiver -> 0..MaxCopies]
         /\ \A m \in ToReceiver : toReceiver'[m] <= toReceiver[m]
<1>0. MaxCopies \in Nat /\ toReceiver \in [ToReceiver -> 0..MaxCopies]
  BY MaxCopiesAssumption DEF ChannelsTypeOK
<1>1. ASSUME NEW m \in InFlight(toReceiver), toReceiver' = Take(toReceiver, m)
      PROVE  /\ toReceiver' \in [ToReceiver -> 0..MaxCopies]
             /\ \A x \in ToReceiver : toReceiver'[x] <= toReceiver[x]
  <2>1. /\ Take(toReceiver, m) \in [ToReceiver -> 0..MaxCopies]
        /\ Take(toReceiver, m)[m] = toReceiver[m] - 1
        /\ \A x \in ToReceiver : x # m => Take(toReceiver, m)[x] = toReceiver[x]
    BY <1>0, TakeTypes
  <2>2. \A x \in ToReceiver : Take(toReceiver, m)[x] <= toReceiver[x]
    BY <1>0, <2>1
  <2>3. QED
    BY <1>1, <2>1, <2>2
<1>2. CASE toReceiver' = toReceiver
  BY <1>0, <1>2
<1>3. toReceiver' = toReceiver \/ \E m \in InFlight(toReceiver) : toReceiver' = Take(toReceiver, m)
  BY DEF ReceiverNext, RecvSyn, SendSynAck, RecvHandshakeAck, RecvData, RecvOutside, WriteFile
<1>4. QED
  BY <1>1, <1>2, <1>3
\* The receiver's SYN-ACK goes out once, and before the sender is established.
LEMMA ReceiverKeepsHandshakeOnce ==
  ASSUME TransferInv, HandshakeOnce, ReceiverStep
  PROVE  HandshakeOnce'
<1>0. /\ AckInv /\ ChannelsTypeOK /\ ReceiverNext /\ UNCHANGED senderVars
      /\ toReceiver \in [ToReceiver -> 0..MaxCopies]
      /\ toSender \in [ToSender -> 0..MaxCopies]
      /\ SynAck(N) \in ToSender /\ MaxCopies \in Nat \ {0}
      /\ spc' = spc
  BY SenderDatagrams, MaxCopiesAssumption
     DEF TransferInv, AckInv, ChannelsTypeOK, ReceiverStep, senderVars
<1>1. /\ toReceiver' \in [ToReceiver -> 0..MaxCopies]
      /\ \A m \in ToReceiver : toReceiver'[m] <= toReceiver[m]
  BY <1>0, ReceiverReads
<1>2. /\ \A m \in ToReceiver : toReceiver'[m] > 0 => toReceiver[m] > 0
      /\ NoHandshakeAck => NoHandshakeAck'
      /\ \A g, h \in Garbage :
           toReceiver'[HandshakeAck(g)] > 0 /\ toReceiver'[HandshakeAck(h)] > 0
             => g = h /\ toReceiver'[HandshakeAck(g)] = 1
  BY <1>0, <1>1, FewerArrive
<1>3. \A g \in Garbage : toReceiver'[HandshakeAck(g)] > 0 =>
                           spc' \notin {"sync", "sync_wait", "estab"}
  BY <1>0, <1>2, KindsDiffer DEF HandshakeOnce
<1>4. ASSUME toSender'[SynAck(N)] = toSender[SynAck(N)],
             MainLoop' => MainLoop
      PROVE  HandshakeOnce'
  BY <1>0, <1>2, <1>3, <1>4 DEF HandshakeOnce
<1>5. CASE RecvSyn
  BY <1>4, <1>5 DEF RecvSyn, MainLoop
<1>6. CASE SendSynAck
  <2>1. /\ rpc = "estab_send" /\ rpc' = "estab_wait"
        /\ toSender' = Put(toSender, {SynAck(N)})
    BY <1>0, <1>6 DEF SendSynAck, AckInv, ReceiverTypeOK
  <2>2. toSender[SynAck(N)] = 0 /\ spc \in SenderStarts
    BY <1>0, <2>1 DEF TransferInv, HandshakeOrder
  <2>3. toSender'[SynAck(N)] = 1
    BY <1>0, <2>1, <2>2 DEF Put
  <2>4. QED
    BY <1>0, <1>2, <1>3, <2>1, <2>2, <2>3 DEF HandshakeOnce, MainLoop
<1>7. CASE RecvHandshakeAck
  <2>1. PICK m \in InFlight(toReceiver) :
          /\ toReceiver' = Take(toReceiver, m)
          /\ IsHandshakeAck(m) \/ rpc' = "dead"
    BY <1>7 DEF RecvHandshakeAck
  <2>2. toSender' = toSender
    BY <1>7 DEF RecvHandshakeAck
  <2>3. CASE rpc' = "dead"
    BY <1>4, <2>2, <2>3 DEF MainLoop
  <2>4. CASE IsHandshakeAck(m)
    <3>1. /\ m \in ToReceiver /\ toReceiver[m] > 0
          /\ toReceiver'[m] = toReceiver[m] - 1
          /\ \A x \in ToReceiver : x # m => toReceiver'[x] = toReceiver[x]
      BY <1>0, <2>1, TakeTypes
    <3>2. PICK g \in Garbage : m = HandshakeAck(g)
      BY <2>4, <3>1, ReceiverDatagrams DEF IsHandshakeAck
    <3>3. toReceiver[HandshakeAck(g)] = 1 /\ spc \notin {"sync", "sync_wait", "estab"}
      BY <3>1, <3>2 DEF HandshakeOnce
    <3>4. NoHandshakeAck'
      <4> SUFFICES ASSUME NEW h \in Garbage PROVE toReceiver'[HandshakeAck(h)] = 0
        BY DEF NoHandshakeAck
      <4>1. CASE h = g
        BY <3>1, <3>2, <3>3, <4>1
      <4>2. CASE h # g
        <5>1. toReceiver[HandshakeAck(h)] = 0
          BY <1>0, <3>3, <4>2, KindsDiffer DEF HandshakeOnce
        <5>2. QED
          BY <3>1, <3>2, <4>2, <5>1, KindsDiffer
      <4>3. QED
        BY <4>1, <4>2
    <3>5. QED
      BY <1>0, <1>2, <1>3, <2>2, <3>3, <3>4 DEF HandshakeOnce
  <2>5. QED
    BY <2>1, <2>3, <2>4
<1>8. CASE RecvData \/ RecvOutside
  <2>1. rpc = "main" /\ (UNCHANGED toSender \/ \E R \in SUBSET Slots : received \subseteq R /\ Acknowledge(R))
    <3>1. received \subseteq Slots
      BY <1>0 DEF AckInv, ReceiverTypeOK
    <3>2. CASE RecvData
      <4>1. PICK m \in InFlight(toReceiver) :
              m.seq_num \in Slots /\ Acknowledge(received \cup {m.seq_num})
        BY <3>2 DEF RecvData
      <4>2. received \cup {m.seq_num} \in SUBSET Slots
        BY <3>1, <4>1
      <4>3. QED
        BY <3>2, <4>1, <4>2 DEF RecvData
    <3>3. CASE RecvOutside
      BY <3>1, <3>3 DEF RecvOutside
    <3>4. QED
      BY <1>8, <3>2, <3>3
  <2>2. toSender'[SynAck(N)] = toSender[SynAck(N)]
    BY <1>0, <2>1, AcknowledgeKeepsAckInv
  <2>3. QED
    BY <1>4, <2>1, <2>2 DEF MainLoop
<1>9. CASE WriteFile
  BY <1>4, <1>9 DEF WriteFile, MainLoop
<1>10. QED
  BY <1>0, <1>5, <1>6, <1>7, <1>8, <1>9 DEF ReceiverNext

\* A step of the receiver.
LEMMA ReceiverKeepsCleanInv ==
  ASSUME NothingStray, TransferInv, CleanInv, ReceiverStep
  PROVE  CleanInv'
<1>0. /\ N \in Nat \ {0} /\ AckInv /\ ChannelsTypeOK /\ ReceiverNext
      /\ UNCHANGED senderVars
      /\ toReceiver \in [ToReceiver -> 0..MaxCopies]
      /\ ZeroInv /\ NoneStray
      /\ NumberedZero
  BY NAssumption, NoneStrayThen
     DEF TransferInv, AckInv, ReceiverStep, CleanInv, ZeroInv, ChannelsTypeOK
<1>1. /\ \A m \in ToReceiver : toReceiver'[m] > 0 => toReceiver[m] > 0
      /\ NumberedZero'
  BY <1>0, ReceiverReads, FewerArrive
<1>2. ASSUME ZeroInv', WrittenIsWholeFile',
             ~Duplication => (MainLoop' => \A i \in received' : slot'[i] \in Index)
      PROVE  CleanInv'
  <2>1. CASE Duplication
    BY <1>2, <2>1 DEF CleanInv, OnceInv
  <2>2. CASE ~Duplication
    <3>0. WindowInv /\ HandshakeOnce /\ ChunksOnly
      BY <2>2 DEF CleanInv, OnceInv
    <3>1. HandshakeOnce'
      BY <3>0, ReceiverKeepsHandshakeOnce
    <3>2. WindowInv'
      BY <1>0, <3>0 DEF WindowInv, RetransmitInArray, senderVars
    <3>3. ChunksOnly'
      BY <1>1, <1>2, <2>2, <3>0, KindsDiffer DEF ChunksOnly
    <3>4. QED
      BY <1>2, <3>1, <3>2, <3>3 DEF CleanInv, OnceInv
  <2>3. QED
    BY <2>1, <2>2
<1>3. /\ received \subseteq {0}
      /\ rpc \in {"write", "exited"} => N = 1 /\ received = {0}
      /\ rpc # "exited" => file = NotWritten
  BY <1>0 DEF ZeroInv
<1>4. ~Duplication /\ MainLoop => \A i \in received : slot[i] \in Index
  BY DEF CleanInv, OnceInv, ChunksOnly
<1>5. CASE RecvSyn \/ SendSynAck
  <2>1. /\ UNCHANGED <<received, slot, file>>
        /\ rpc \in {"sync", "estab_send"} /\ rpc' \in {"estab_send", "estab_wait", "dead"}
    BY <1>5 DEF RecvSyn, SendSynAck
  <2>2. QED
    BY <1>1, <1>2, <1>3, <2>1 DEF ZeroInv, WrittenIsWholeFile, MainLoop
<1>6. CASE RecvHandshakeAck
  <2>1. /\ rpc = "estab_wait" /\ UNCHANGED file
        /\ \/ rpc' = "main" /\ received' = {}
           \/ rpc' = "dead" /\ UNCHANGED received
    BY <1>6 DEF RecvHandshakeAck
  <2>2. QED
    BY <1>1, <1>2, <1>3, <2>1 DEF ZeroInv, WrittenIsWholeFile, MainLoop
<1>7. CASE RecvData
  <2>1. PICK m \in InFlight(toReceiver) :
          /\ m.seq_num \in Slots
          /\ slot' = [slot EXCEPT ![m.seq_num] = m.data]
          /\ Acknowledge(received \cup {m.seq_num})
    BY <1>7 DEF RecvData
  <2>2. rpc = "main" /\ UNCHANGED <<numPackets, file>>
    BY <1>7 DEF RecvData
  <2>3. m \in ToReceiver /\ toReceiver[m] > 0
    BY <1>0 DEF InFlight
  <2>4. m.seq_num = 0 /\ \E p \in Payload : m = Data(0, p) /\ m.data = p
    BY <1>0, <2>1, <2>2, <2>3, StoresZero
  <2>5. received' = {0}
    BY <1>3, <2>1, <2>4 DEF Acknowledge
  <2>6. rpc' \in {"main", "write"} /\ (rpc' = "write" => N = 1)
    <3>1. numPackets = N /\ received \cup {0} = {0}
      BY <1>0, <1>3, <2>2 DEF AckInv, ReceiverTypeOK
    <3>2. rpc' = IF N - 1 \in {0} THEN "write" ELSE "main"
      BY <2>1, <2>4, <3>1 DEF Acknowledge
    <3>3. QED
      BY <1>0, <3>2
  <2>7. ZeroInv' /\ WrittenIsWholeFile'
    BY <1>1, <1>3, <2>2, <2>5, <2>6 DEF ZeroInv, WrittenIsWholeFile
  <2>8. ASSUME ~Duplication
        PROVE  \A i \in received' : slot'[i] \in Index
    <3>1. m.data \in Index
      BY <1>0, <2>3, <2>4, <2>8 DEF CleanInv, OnceInv, ChunksOnly, Index
    <3>2. DOMAIN slot = Slots
      BY <1>0, <2>2 DEF AckInv, ReceiverTypeOK
    <3>3. slot'[0] = m.data
      BY <2>1, <2>4, <3>2
    <3>4. QED
      BY <2>5, <3>1, <3>3
  <2>9. QED
    BY <1>2, <2>7, <2>8
<1>8. CASE RecvOutside
  <2>1. /\ rpc = "main" /\ UNCHANGED <<numPackets, slot, file>> /\ received' = received
        /\ rpc' = "dead" \/ rpc' = IF numPackets - 1 \in received THEN "write" ELSE "main"
    BY <1>8 DEF RecvOutside, Acknowledge
  <2>2. numPackets = N
    BY <1>0, <2>1 DEF AckInv, ReceiverTypeOK
  <2>3. rpc' \in {"main", "write", "dead"} /\ (rpc' = "write" => N = 1 /\ received = {0})
    <3>1. N - 1 \in received => N = 1 /\ received = {0}
      <4>1. N - 1 \in received => N - 1 = 0 /\ received = {0}
        BY <1>3
      <4>2. QED
        BY <1>0, <4>1
    <3>2. QED
      BY <2>1, <2>2, <3>1
  <2>4. ZeroInv' /\ WrittenIsWholeFile'
    BY <1>1, <1>3, <2>1, <2>3 DEF ZeroInv, WrittenIsWholeFile
  <2>5. QED
    BY <1>2, <1>4, <2>1, <2>4 DEF MainLoop
<1>9. CASE WriteFile
  <2>1. /\ rpc = "write" /\ rpc' = "exited"
        /\ file' = IF CanOpen
                   THEN [i \in 0..FirstMissing(received, 0, numPackets)-1 |-> slot[i]]
                   ELSE NotWritten
        /\ UNCHANGED <<numPackets, received, slot, current_acked_index>>
    BY <1>9 DEF WriteFile
  <2>2. N = 1 /\ received = {0} /\ ~Duplication
    BY <1>3, <2>1 DEF NothingStray
  <2>3. /\ current_acked_index \in 0..N /\ numPackets = N
        /\ 0..current_acked_index-1 \subseteq received
        /\ current_acked_index \notin received
    BY <1>0, <2>1 DEF AckInv, ReceiverTypeOK, AckIsFirstMissing
  <2>4. FirstMissing(received, 0, numPackets) = 1
    <3>1. FirstMissing(received, 0, numPackets) = current_acked_index
      BY <1>0, <2>3, FirstMissingFromZero
    <3>2. QED
      BY <2>2, <2>3, <3>1
  <2>5. slot[0] = 0 /\ Index = 0..0
    BY <1>4, <2>1, <2>2 DEF MainLoop, Index
  <2>6. [i \in 0..0 |-> slot[i]] = [i \in Index |-> i]
    BY <2>5
  <2>7. WrittenIsWholeFile'
    BY <2>1, <2>4, <2>6 DEF WrittenIsWholeFile
  <2>8. ZeroInv'
    BY <1>1, <1>3, <2>1, <2>2 DEF ZeroInv
  <2>9. QED
    BY <1>2, <1>4, <2>1, <2>7, <2>8 DEF MainLoop
<1>10. QED
  BY <1>0, <1>5, <1>6, <1>7, <1>8, <1>9 DEF ReceiverNext
LEMMA CleanInvKept ==
  ASSUME NothingStray, TransferInv, CleanInv, [TransferNext]_transferVars
  PROVE  CleanInv'
<1>1. CASE UNCHANGED transferVars
  <2>1. /\ UNCHANGED senderVars /\ UNCHANGED receiverVars
        /\ toReceiver' = toReceiver /\ toSender' = toSender
    BY <1>1 DEF transferVars, channels
  <2>2. ZeroInv' /\ WrittenIsWholeFile'
    BY <2>1 DEF CleanInv, ZeroInv, NumberedZero, WrittenIsWholeFile, receiverVars
  <2>3. OnceInv'
    BY <2>1 DEF CleanInv, OnceInv, WindowInv, RetransmitInArray, HandshakeOnce, ChunksOnly,
                MainLoop, NoHandshakeAck, senderVars, receiverVars
  <2>4. QED
    BY <2>2, <2>3 DEF CleanInv
<1>2. QED
  BY <1>1, SenderKeepsCleanInv, ReceiverKeepsCleanInv, NetworkKeepsCleanInv DEF TransferNext

LEMMA CleanInvariant == TransferSpec => [](TransferInv /\ (NothingStray => CleanInv))
<1> DEFINE Inv == TransferInv /\ (NothingStray => CleanInv)
<1>1. TransferInit => Inv
  BY TransferInvInitially, CleanInvInitially
<1>2. Inv /\ [TransferNext]_transferVars => Inv'
  <2>1. NothingStray' = NothingStray
    BY DEF NothingStray, Index
  <2>2. QED
    BY <2>1, TransferInvKept, CleanInvKept
<1>3. QED
  BY <1>1, <1>2, PTL DEF TransferSpec

\* A file is written whole or not at all, chunk by chunk what the sender was
\* given, when no datagram is repeated or, whatever is repeated, the file is
\* long and the handshake ACK numbers no packet of it.
THEOREM WholeFileOrNone ==
  TransferSpec => [](NothingStray => WrittenIsWholeFile)
<1>1. TransferInv /\ (NothingStray => CleanInv) => (NothingStray => WrittenIsWholeFile)
  BY DEF CleanInv
<1>2. QED
  BY <1>1, CleanInvariant, PTL

\* A long file, with whatever the network repeats: the last record is never
\* marked, as the packets are number 0 and the ACK of the handshake carries
\* another number.
LastIsMissing ==
  /\ NumberedZero
  /\ N-1 \notin received
  /\ rpc \notin {"write", "exited"}
  /\ file = NotWritten

LEMMA LastStaysMissing ==
  ASSUME N > 1, N-1 \notin Garbage, TransferInv, LastIsMissing, [TransferNext]_transferVars
  PROVE  LastIsMissing'
<1>0. /\ CongestionInv /\ AckInv /\ ChannelsTypeOK /\ N \in Nat
      /\ NumberedZero /\ N-1 \notin received /\ rpc \notin {"write", "exited"}
      /\ file = NotWritten
  BY NAssumption DEF TransferInv, AckInv, LastIsMissing
<1>1. CASE UNCHANGED transferVars
  BY <1>1 DEF LastIsMissing, NumberedZero, transferVars, receiverVars, channels
<1>2. CASE SenderStep
  BY <1>0, <1>2, SenderSendsData DEF SenderStep, LastIsMissing, NumberedZero, receiverVars
<1>3. CASE Network
  BY <1>0, <1>3, NetworkStep, KindsDiffer DEF LastIsMissing, NumberedZero, receiverVars
<1>4. CASE ReceiverStep
  <2>1. ReceiverNext /\ NumberedZero'
    BY <1>0, <1>4, ReceiverReads, FewerArrive DEF ReceiverStep
  <2>2. CASE RecvSyn \/ SendSynAck \/ RecvHandshakeAck
    BY <1>0, <2>1, <2>2 DEF RecvSyn, SendSynAck, RecvHandshakeAck, LastIsMissing
  <2>3. ASSUME NEW R, N-1 \notin R, rpc = "main", Acknowledge(R), UNCHANGED file
        PROVE  LastIsMissing'
    <3>1. numPackets = N
      BY <1>0, <2>3 DEF AckInv, ReceiverTypeOK
    <3>2. QED
      BY <1>0, <2>1, <2>3, <3>1 DEF Acknowledge, LastIsMissing
  <2>4. CASE RecvData
    <3>1. PICK m \in InFlight(toReceiver) : Acknowledge(received \cup {m.seq_num})
      BY <2>4 DEF RecvData
    <3>2. m \in ToReceiver /\ toReceiver[m] > 0
      BY <1>0 DEF InFlight, ChannelsTypeOK
    <3>3. m.seq_num # N-1
      <4>1. CASE m = Syn
        BY <1>0, <4>1 DEF Syn, Packet
      <4>2. CASE \E g \in Garbage : m = HandshakeAck(g)
        BY <4>2 DEF HandshakeAck, Packet
      <4>3. CASE \E q \in Index, p \in Payload : m = Data(q, p)
        <5>1. PICK q \in Index, p \in Payload : m = Data(q, p)
          BY <4>3
        <5>2. q = 0
          BY <1>0, <3>2, <5>1 DEF NumberedZero
        <5>3. m.seq_num = 0
          BY <5>1, <5>2 DEF Data, Packet
        <5>4. QED
          BY <1>0, <5>3
      <4>4. QED
        BY <3>2, <4>1, <4>2, <4>3 DEF ToReceiver
    <3>4. N-1 \notin received \cup {m.seq_num}
      BY <1>0, <3>3
    <3>5. QED
      BY <2>3, <2>4, <3>1, <3>4 DEF RecvData
  <2>5. CASE RecvOutside
    <3>1. rpc = "main" /\ file' = file
      BY <2>5 DEF RecvOutside
    <3>2. CASE Acknowledge(received)
      BY <1>0, <2>3, <3>1, <3>2
    <3>3. CASE rpc' = "dead" /\ received' = received
      BY <1>0, <2>1, <3>1, <3>3 DEF LastIsMissing
    <3>4. QED
      BY <2>5, <3>2, <3>3 DEF RecvOutside
  <2>6. QED
    BY <1>0, <2>1, <2>2, <2>4, <2>5 DEF ReceiverNext, WriteFile
<1>5. QED
  BY <1>1, <1>2, <1>3, <1>4 DEF TransferNext

LEMMA LastMissingInvariant ==
  ASSUME N > 1, N-1 \notin Garbage
  PROVE  TransferSpec => []LastIsMissing
<1>1. TransferInit => LastIsMissing
  <2> SUFFICES ASSUME TransferInit PROVE LastIsMissing
    OBVIOUS
  <2>1. NumberedZero
    BY CleanInvInitially DEF CleanInv, ZeroInv
  <2>2. QED
    BY <2>1 DEF TransferInit, ReceiverInit, LastIsMissing
<1>2. TransferInv /\ LastIsMissing /\ [TransferNext]_transferVars => LastIsMissing'
  BY LastStaysMissing
<1>3. QED
  BY <1>1, <1>2, TransferInvariant, PTL DEF TransferSpec

\* A file of two packets or more never arrives, whatever the network loses,
\* reorders or repeats: every packet is number 0, so the last one never comes,
\* nothing is written and reliablyTransfer retransmits for ever.
THEOREM LongFileStaysUndone == TransferSpec => []LongFileNeverDone
<1>0. N \in Nat
  BY NAssumption
<1>1. ASSUME N > 1, N-1 \notin received, TransferInv
      PROVE  spc # "done"
  BY <1>0, <1>1 DEF TransferInv, DoneMeansHeld, Index
<1>2. CASE N > 1 /\ N-1 \notin Garbage
  <2>1. TransferInv /\ LastIsMissing => LongFileNeverDone
    BY <1>1, <1>2 DEF LastIsMissing, LongFileNeverDone
  <2>2. TransferSpec => []LastIsMissing
    BY <1>2, LastMissingInvariant
  <2>3. QED
    BY <2>1, <2>2, TransferInvariant, PTL
<1>3. CASE N > 1 /\ ~Duplication
  <2>1. TransferInv /\ (NothingStray => CleanInv) => LongFileNeverDone
    <3> SUFFICES ASSUME TransferInv, CleanInv
                 PROVE  spc # "done" /\ file = NotWritten
      BY <1>3 DEF LongFileNeverDone, NothingStray
    <3>1. file = NotWritten
      BY <1>0, <1>3 DEF CleanInv, ZeroInv
    <3>2. N-1 \notin received
      BY <1>0, <1>3 DEF CleanInv, ZeroInv
    <3>3. QED
      BY <1>1, <1>3, <3>1, <3>2
  <2>2. QED
    BY <2>1, CleanInvariant, PTL
<1>4. CASE ~(N > 1 /\ (Duplication => N-1 \notin Garbage))
  <2>1. LongFileNeverDone
    BY <1>4 DEF LongFileNeverDone
  <2>2. QED
    BY <2>1, PTL
<1>5. QED
  BY <1>2, <1>3, <1>4

\* Against this receiver too, three duplicates in a row are noticed and slow
\* start ends at ssthresh, whatever the network repeats.
THEOREM TransferControlsCongestion ==
  TransferSpec => [](DuplicatesStillCount /\ SlowStartBelowThreshold)
<1>1. TransferInv => DuplicatesStillCount /\ SlowStartBelowThreshold
  BY DEF TransferInv, CongestionInv
<1>2. QED
  BY <1>1, TransferInvariant, PTL

\* A timeout finds a record to retransmit as long as the network repeats
\* nothing: the one SYN-ACK has been read before the main loop, where it would
\* acknowledge a packet beyond the array.
THEOREM TransferRetransmitsARecord ==
  TransferSpec => [](~Duplication => RetransmitInArray)
<1>1. TransferInv /\ (NothingStray => CleanInv) => (~Duplication => RetransmitInArray)
  BY DEF CleanInv, OnceInv, WindowInv, NothingStray
<1>2. QED
  BY <1>1, CleanInvariant, PTL

----------------------------------------------------------------------------
(***************************************************************************)
(* What the main loop may read.  Without Duplication there is one SYN at a *)
(* time, and none once the receiver has answered it.                       *)
(***************************************************************************)
SynOnce ==
  /\ rpc = "sync" => toReceiver[Syn] <= 1 /\ (spc = "sync" => toReceiver[Syn] = 0)
  /\ rpc = "estab_send" => toReceiver[Syn] = 0 /\ spc # "sync"
  /\ toSender[SynAck(N)] > 0 => toReceiver[Syn] = 0 /\ spc # "sync"
  /\ spc = "estab" => toReceiver[Syn] = 0
  /\ \A g \in Garbage : toReceiver[HandshakeAck(g)] > 0 => toReceiver[Syn] = 0
  /\ MainLoop => toReceiver[Syn] = 0
  /\ \A a \in -1..N-1 : toSender[Ack(a)] > 0 => spc \notin {"sync", "sync_wait", "estab"}

\* Less on its way, and a receiver that stays or dies, take nothing from it.
LEMMA FewerKeepSynOnce ==
  ASSUME SynOnce, ChannelsTypeOK, spc' = spc, rpc' \in {rpc, "dead"},
         toReceiver' \in [ToReceiver -> 0..MaxCopies],
         \A m \in ToReceiver : toReceiver'[m] <= toReceiver[m],
         \A m \in ToSender : toSender'[m] > 0 => toSender[m] > 0
  PROVE  SynOnce'
<1>1. /\ Syn \in ToReceiver /\ \A g \in Garbage : HandshakeAck(g) \in ToReceiver
      /\ SynAck(N) \in ToSender /\ \A a \in -1..N-1 : Ack(a) \in ToSender
  BY SenderDatagrams, KindsDiffer
<1>2. PICK old, new \in Nat : old = toReceiver[Syn] /\ new = toReceiver'[Syn] /\ new <= old
  BY <1>1, MaxCopiesAssumption DEF ChannelsTypeOK
<1>3. (old <= 1 => new <= 1) /\ (old = 0 => new = 0)
  BY <1>2
<1>4. \A g \in Garbage : toReceiver'[HandshakeAck(g)] > 0 => toReceiver[HandshakeAck(g)] > 0
  BY <1>1, FewerArrive
<1>5. MainLoop' => MainLoop
  BY DEF MainLoop
<1>6. (rpc' = "sync" => rpc = "sync") /\ (rpc' = "estab_send" => rpc = "estab_send")
  OBVIOUS
<1>7. QED
  BY <1>1, <1>2, <1>3, <1>4, <1>5, <1>6 DEF SynOnce

LEMMA SenderKeepsSynOnce ==
  ASSUME TransferInv, HandshakeOnce, SynOnce, SenderStep
  PROVE  SynOnce'
<1>0. /\ CongestionInv /\ ChannelsTypeOK /\ SenderNext /\ rpc' = rpc /\ (MainLoop' <=> MainLoop)
      /\ toReceiver \in [ToReceiver -> 0..MaxCopies]
      /\ toSender \in [ToSender -> 0..MaxCopies] /\ MaxCopies \in Nat \ {0}
      /\ Syn \in ToReceiver /\ \A g \in Garbage : HandshakeAck(g) \in ToReceiver
      /\ SynAck(N) \in ToSender /\ \A a \in -1..N-1 : Ack(a) \in ToSender
  BY SenderDatagrams, KindsDiffer, MaxCopiesAssumption
     DEF TransferInv, AckInv, ChannelsTypeOK, SenderStep, receiverVars, MainLoop
<1>1. CASE SendSyn
  <2>1. /\ spc = "sync" /\ spc' = "sync_wait" /\ toSender' = toSender
        /\ toReceiver' = Put(toReceiver, {Syn})
    BY <1>0, <1>1, HandshakeStep
  <2>2. \A g \in Garbage : toReceiver'[HandshakeAck(g)] = toReceiver[HandshakeAck(g)]
    BY <1>0, <2>1, PutTypes, KindsDiffer
  <2>3. /\ ~MainLoop /\ rpc # "estab_send"
        /\ \A g \in Garbage : ~(toReceiver[HandshakeAck(g)] > 0)
        /\ ~(toSender[SynAck(N)] > 0)
        /\ \A a \in -1..N-1 : ~(toSender[Ack(a)] > 0)
    BY <2>1 DEF HandshakeOnce, SynOnce
  <2>4. rpc = "sync" => toReceiver'[Syn] = 1
    BY <1>0, <2>1 DEF SynOnce, Put
  <2>5. QED
    BY <1>0, <2>1, <2>2, <2>3, <2>4 DEF SynOnce
<1>2. CASE RecvSynAck
  <2>1. PICK m \in InFlight(toSender) :
          toSender' = Take(toSender, m) /\ (spc' = "estab" => m = SynAck(N))
    BY <1>0, <1>2, HandshakeStep
  <2>2. spc = "sync_wait" /\ spc' \in {"sync", "estab", "dead"} /\ toReceiver' = toReceiver
    BY <1>0, <1>2, HandshakeStep
  <2>3. /\ m \in ToSender /\ toSender[m] > 0 /\ toSender'[m] = toSender[m] - 1
        /\ \A x \in ToSender : toSender'[x] > 0 => toSender[x] > 0
    BY <1>0, <2>1, TakeTypes
  <2>4. \A a \in -1..N-1 : ~(toSender[Ack(a)] > 0)
    BY <2>2 DEF SynOnce
  <2>5. m = SynAck(N)
    BY <2>3, <2>4, SenderReads
  <2>6. toReceiver[Syn] = 0 /\ toSender'[SynAck(N)] = 0
    BY <2>3, <2>5 DEF SynOnce, HandshakeOnce
  <2>7. rpc \notin {"sync", "estab_send"}
    BY <1>0, <2>3 DEF TransferInv, HandshakeOrder
  <2>8. QED
    BY <1>0, <2>2, <2>3, <2>4, <2>6, <2>7 DEF SynOnce
<1>3. CASE SendHandshakeAck \/ SenderLoop
  <2>1. spc \in {"estab", "loop", "select"} /\ spc' \notin {"sync", "sync_wait", "estab"}
    BY <1>0, <1>3, HandshakeStep, LoopStep
  <2>2. rpc \notin {"sync", "estab_send"} /\ ~(toSender[SynAck(N)] > 0)
    BY <2>1 DEF TransferInv, HandshakeOrder, SenderStarts, HandshakeOnce
  <2>3. ~(toSender'[SynAck(N)] > 0)
    BY <1>0, <1>3, <2>2, HandshakeStep, LoopChannels
  <2>4. toReceiver'[Syn] = toReceiver[Syn]
    <3>1. CASE SendHandshakeAck
      <4>1. PICK g \in Garbage : toReceiver' = Put(toReceiver, {HandshakeAck(g)})
        BY <1>0, <3>1, HandshakeStep
      <4>2. QED
        BY <1>0, <4>1, PutTypes, KindsDiffer
    <3>2. QED
      BY <1>0, <1>3, <3>1, LoopChannels
  <2>5. \A g \in Garbage : toReceiver'[HandshakeAck(g)] > 0 => toReceiver'[Syn] = 0
    <3>1. CASE SendHandshakeAck
      BY <1>0, <2>4, <3>1, HandshakeStep DEF SynOnce
    <3>2. CASE SenderLoop
      BY <1>0, <2>4, <3>2, LoopChannels DEF SynOnce
    <3>3. QED
      BY <1>3, <3>1, <3>2
  <2>6. QED
    BY <1>0, <2>1, <2>2, <2>3, <2>4, <2>5 DEF SynOnce
<1>4. QED
  BY <1>0, <1>1, <1>2, <1>3 DEF SenderNext, SenderLoop

LEMMA ReceiverKeepsSynOnce ==
  ASSUME TransferInv, HandshakeOnce, SynOnce, ReceiverStep
  PROVE  SynOnce'
<1>0. /\ AckInv /\ ChannelsTypeOK /\ ReceiverNext /\ spc' = spc
      /\ toReceiver \in [ToReceiver -> 0..MaxCopies]
      /\ toSender \in [ToSender -> 0..MaxCopies] /\ MaxCopies \in Nat \ {0}
      /\ Syn \in ToReceiver /\ \A g \in Garbage : HandshakeAck(g) \in ToReceiver
      /\ SynAck(N) \in ToSender /\ \A a \in -1..N-1 : Ack(a) \in ToSender
  BY SenderDatagrams, KindsDiffer, MaxCopiesAssumption
     DEF TransferInv, AckInv, ChannelsTypeOK, ReceiverStep, senderVars
<1>1. /\ toReceiver' \in [ToReceiver -> 0..MaxCopies]
      /\ \A m \in ToReceiver : toReceiver'[m] <= toReceiver[m]
      /\ \A m \in ToReceiver : toReceiver'[m] > 0 => toReceiver[m] > 0
  BY <1>0, ReceiverReads, FewerArrive
<1>2. ASSUME toReceiver[Syn] = 0
      PROVE  toReceiver'[Syn] = 0
  BY <1>0, <1>1, <1>2
<1>3. CASE rpc' \in {rpc, "dead"} /\ toSender' = toSender
  BY <1>0, <1>1, <1>3, FewerKeepSynOnce
<1>4. CASE RecvSyn /\ rpc' # "dead"
  <2>1. PICK m \in InFlight(toReceiver) :
          toReceiver' = Take(toReceiver, m) /\ m.SYN_BIT
    BY <1>4 DEF RecvSyn
  <2>2. rpc = "sync" /\ rpc' = "estab_send" /\ toSender' = toSender
    BY <1>4 DEF RecvSyn
  <2>3. /\ m \in ToReceiver /\ toReceiver[m] > 0 /\ toReceiver'[m] = toReceiver[m] - 1
    BY <1>0, <2>1, TakeTypes
  <2>4. m = Syn
    BY <2>1, <2>3, ReceiverDatagrams
  <2>5. toReceiver'[Syn] = 0 /\ spc # "sync"
    BY <1>0, <2>2, <2>3, <2>4 DEF SynOnce
  <2>6. QED
    BY <1>0, <2>2, <2>5 DEF SynOnce, MainLoop
<1>5. CASE SendSynAck
  <2>1. /\ rpc = "estab_send" /\ rpc' = "estab_wait" /\ toReceiver' = toReceiver
        /\ toSender' = Put(toSender, {SynAck(N)})
    BY <1>0, <1>5 DEF SendSynAck, AckInv, ReceiverTypeOK
  <2>2. toReceiver[Syn] = 0 /\ spc # "sync"
    BY <2>1 DEF SynOnce
  <2>3. \A a \in -1..N-1 : toSender'[Ack(a)] = toSender[Ack(a)]
    BY <1>0, <2>1, PutTypes, SenderDatagrams
  <2>4. QED
    BY <1>0, <2>1, <2>2, <2>3 DEF SynOnce, MainLoop
<1>6. CASE RecvHandshakeAck /\ rpc' # "dead"
  <2>1. PICK m \in InFlight(toReceiver) : IsHandshakeAck(m)
    BY <1>6 DEF RecvHandshakeAck
  <2>2. rpc' = "main" /\ toSender' = toSender
    BY <1>6 DEF RecvHandshakeAck
  <2>3. m \in ToReceiver /\ toReceiver[m] > 0
    BY <1>0 DEF InFlight
  <2>4. PICK g \in Garbage : m = HandshakeAck(g)
    BY <2>1, <2>3, ReceiverDatagrams DEF IsHandshakeAck
  <2>5. toReceiver'[Syn] = 0
    BY <1>2, <2>3, <2>4 DEF SynOnce
  <2>6. QED
    BY <1>0, <2>2, <2>5 DEF SynOnce
<1>7. CASE (RecvData \/ RecvOutside) /\ rpc' # "dead"
  <2>1. PICK R \in SUBSET Slots : rpc = "main" /\ received \subseteq R /\ Acknowledge(R)
    <3>1. received \subseteq Slots
      BY <1>0 DEF AckInv, ReceiverTypeOK
    <3>2. CASE RecvData
      <4>1. PICK m \in InFlight(toReceiver) :
              m.seq_num \in Slots /\ Acknowledge(received \cup {m.seq_num})
        BY <3>2 DEF RecvData
      <4>2. received \cup {m.seq_num} \in SUBSET Slots
        BY <3>1, <4>1
      <4>3. QED
        BY <3>2, <4>1, <4>2 DEF RecvData
    <3>3. CASE RecvOutside
      BY <1>7, <3>1, <3>3 DEF RecvOutside
    <3>4. QED
      BY <1>7, <3>2, <3>3
  <2>2. toSender'[SynAck(N)] = toSender[SynAck(N)]
    BY <1>0, <2>1, AcknowledgeKeepsAckInv
  <2>3. rpc' \in {"main", "write"} /\ toReceiver'[Syn] = 0 /\ spc \notin {"sync", "sync_wait", "estab"}
    BY <1>2, <2>1 DEF Acknowledge, SynOnce, HandshakeOnce, MainLoop
  <2>4. QED
    BY <1>0, <2>2, <2>3 DEF SynOnce
<1>8. CASE WriteFile
  BY <1>0, <1>8 DEF WriteFile, SynOnce, MainLoop
<1>9. CASE rpc' = "dead"
  BY <1>0, <1>3, <1>9 DEF ReceiverNext, RecvSyn, SendSynAck, RecvHandshakeAck,
                          RecvData, RecvOutside, WriteFile, Acknowledge
<1>10. QED
  BY <1>0, <1>4, <1>5, <1>6, <1>7, <1>8, <1>9 DEF ReceiverNext

LEMMA SynOnceKept ==
  ASSUME ~Duplication, TransferInv, CleanInv, SynOnce, [TransferNext]_transferVars
  PROVE  SynOnce'
<1>0. ChannelsTypeOK /\ HandshakeOnce
  BY DEF TransferInv, AckInv, CleanInv, OnceInv
<1>1. CASE UNCHANGED transferVars
  BY <1>1 DEF SynOnce, MainLoop, transferVars, senderVars, receiverVars, channels
<1>2. CASE Network
  <2>1. /\ ChannelsTypeOK' /\ UNCHANGED senderVars /\ UNCHANGED receiverVars
        /\ \A m \in ToSender : toSender'[m] > 0 => toSender[m] > 0
        /\ \A m \in ToReceiver : toReceiver'[m] <= toReceiver[m]
    BY <1>0, <1>2, NetworkStep
  <2>2. spc' = spc /\ rpc' = rpc /\ toReceiver' \in [ToReceiver -> 0..MaxCopies]
    BY <2>1 DEF senderVars, receiverVars, ChannelsTypeOK
  <2>3. QED
    BY <1>0, <2>1, <2>2, FewerKeepSynOnce
<1>3. QED
  BY <1>0, <1>1, <1>2, SenderKeepsSynOnce, ReceiverKeepsSynOnce DEF TransferNext

\* For every file, window and garbage: what the main loop reads is numbered
\* inside the vector, as long as the network repeats nothing.
THEOREM StoresStayInVector == TransferSpec => []StoresInVector
<1>1. CASE Duplication
  <2>1. StoresInVector
    BY <1>1 DEF StoresInVector
  <2>2. QED
    BY <2>1, PTL
<1>2. CASE ~Duplication
  <2> DEFINE Clean == TransferInv /\ (NothingStray => CleanInv)
  <2>1. TransferInit => SynOnce
    <3> SUFFICES ASSUME TransferInit PROVE SynOnce
      OBVIOUS
    <3>1. /\ \A m \in ToReceiver : toReceiver[m] = 0
          /\ \A m \in ToSender : toSender[m] = 0
      BY SenderInitially DEF TransferInit
    <3>2. /\ Syn \in ToReceiver /\ \A g \in Garbage : HandshakeAck(g) \in ToReceiver
          /\ SynAck(N) \in ToSender /\ \A a \in -1..N-1 : Ack(a) \in ToSender
      BY SenderDatagrams, KindsDiffer
    <3>3. /\ toReceiver[Syn] = 0 /\ toSender[SynAck(N)] = 0
          /\ \A a \in -1..N-1 : ~(toSender[Ack(a)] > 0)
      BY <3>1, <3>2
    <3>4. rpc = "sync" /\ ~MainLoop /\ spc = "sync"
      BY DEF TransferInit, ReceiverInit, SenderInit, MainLoop
    <3>5. QED
      BY <3>3, <3>4 DEF SynOnce
  <2>2. Clean /\ SynOnce /\ [TransferNext]_transferVars => SynOnce'
    BY <1>2, SynOnceKept DEF NothingStray
  <2>3. Clean /\ SynOnce => StoresInVector
    <3> SUFFICES ASSUME TransferInv, CleanInv, SynOnce, rpc = "main",
                        NEW m \in InFlight(toReceiver)
                 PROVE  m.seq_num \in Slots
      BY <1>2 DEF StoresInVector, NothingStray
    <3>1. m \in ToReceiver /\ toReceiver[m] > 0 /\ MainLoop /\ Slots = Index
      BY DEF InFlight, TransferInv, AckInv, ChannelsTypeOK, MainLoop, ReceiverTypeOK,
             Slots, Index
    <3>2. m # Syn
      BY <3>1 DEF SynOnce
    <3>3. \A g \in Garbage : m # HandshakeAck(g)
      BY <1>2, <3>1 DEF CleanInv, OnceInv, HandshakeOnce, NoHandshakeAck
    <3>4. PICK q \in Index, p \in Payload : m = Data(q, p)
      BY <3>1, <3>2, <3>3 DEF ToReceiver
    <3>5. QED
      BY <3>1, <3>4 DEF Data, Packet
  <2>4. QED
    BY <2>1, <2>2, <2>3, CleanInvariant, PTL DEF TransferSpec
<1>3. QED
  BY <1>1, <1>2

----------------------------------------------------------------------------
\* A step of the two programs is a step of what they promise, or none of it.
LEMMA StepKeepsPromise ==
  ASSUME TransferInv, TransferInv', CleanInv, CleanInv', [TransferNext]_transferVars
  PROVE  [Promise!Next]_Promise!vars
<1>1. ASSUME UNCHANGED senderVars, UNCHANGED receiverVars
      PROVE  UNCHANGED Promise!vars
  BY <1>1 DEF Promise!vars, senderVars, receiverVars
<1>2. CASE UNCHANGED transferVars
  BY <1>1, <1>2 DEF transferVars
<1>3. CASE Network
  BY <1>1, <1>3 DEF Network
<1>4. CASE SenderStep
  <2>1. /\ received' = received /\ file' = file /\ SenderNext
    BY <1>4 DEF SenderStep, receiverVars
  <2>2. spc # "done"
    BY <2>1, HandshakeStep, LoopStep DEF TransferInv, AckInv, SenderNext, SenderLoop
  <2>3. CASE spc' = "done"
    <3>1. Index \subseteq received
      BY <2>1, <2>3 DEF TransferInv, DoneMeansHeld
    <3>2. Promise!Satisfy
      BY <2>1, <2>3, <3>1 DEF Promise!Satisfy
    <3>3. QED
      BY <3>2 DEF Promise!Next
  <2>4. CASE spc' # "done"
    BY <2>1, <2>2, <2>4 DEF Promise!vars
  <2>5. QED
    BY <2>3, <2>4
<1>5. CASE ReceiverStep
  <2>1. /\ spc' = spc /\ ReceiverNext
        /\ received \subseteq received'
    BY <1>5, ReceivedGrows DEF ReceiverStep, senderVars, TransferInv
  <2>2. CASE file' = file
    <3>1. CASE ~(Index \subseteq received) /\ Index \subseteq received'
      <4>1. Promise!Hold
        BY <2>1, <2>2, <3>1 DEF Promise!Hold
      <4>2. QED
        BY <4>1 DEF Promise!Next
    <3>2. CASE (Index \subseteq received) <=> (Index \subseteq received')
      BY <2>1, <2>2, <3>2 DEF Promise!vars
    <3>3. QED
      BY <2>1, <3>1, <3>2
  <2>3. CASE file' # file
    <3>1. /\ rpc = "write" /\ received' = received
      BY <2>1, <2>3 DEF ReceiverNext, RecvSyn, SendSynAck, RecvHandshakeAck, RecvData,
                        RecvOutside, WriteFile
    <3>2. file = NotWritten /\ received = {0} /\ N = 1
      BY <3>1 DEF CleanInv, ZeroInv
    <3>3. Index \subseteq received
      BY <3>2 DEF Index
    <3>4. file' = [i \in Index |-> i]
      BY <2>3, <3>2 DEF CleanInv, WrittenIsWholeFile
    <3>5. Promise!Write
      BY <2>1, <3>1, <3>3, <3>4 DEF Promise!Write
    <3>6. QED
      BY <3>5 DEF Promise!Next
  <2>4. QED
    BY <2>2, <2>3
<1>6. QED
  BY <1>2, <1>3, <1>4, <1>5 DEF TransferNext

\* The two programs over the network implement the promise of a file transfer,
\* for every file: the sender is satisfied only once the whole file is held,
\* and what is output is the file.
THEOREM TransferKeepsPromise ==
  ASSUME NothingStray
  PROVE  TransferSpec => KeepsPromise
<1>1. TransferInit => Promise!Init
  <2> SUFFICES ASSUME SenderInit, ReceiverInit PROVE Promise!Init
    BY DEF TransferInit
  <2>1. 0 \in Index
    BY NAssumption DEF Index
  <2>2. spc = "sync" /\ received = {} /\ file = NotWritten
    BY DEF SenderInit, ReceiverInit
  <2>3. QED
    BY <2>1, <2>2 DEF Promise!Init
<1>2. TransferInv /\ CleanInv /\ TransferInv' /\ CleanInv' /\ [TransferNext]_transferVars
        => [Promise!Next]_Promise!vars
  BY StepKeepsPromise
<1>3. TransferInv /\ (NothingStray => CleanInv) => TransferInv /\ CleanInv
  OBVIOUS
<1>4. QED
  BY <1>1, <1>2, <1>3, CleanInvariant, PTL DEF TransferSpec, KeepsPromise, Promise!Spec
=============================================================================
