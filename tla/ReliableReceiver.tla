-------------------------- MODULE ReliableReceiver --------------------------
(***************************************************************************)
(* receiver_main.cpp: reliablyReceive, one action per blocking call or     *)
(* stretch of code between two of them.  The program has one thread and    *)
(* no timer: it moves only when a datagram arrives.                        *)
(*                                                                         *)
(* ReceiverSpec runs the receiver alone, against a peer that numbers its   *)
(* packets as the wire format means it to.  ReliableTransfer runs it       *)
(* against sender_main.cpp.                                                *)
(***************************************************************************)
EXTENDS UdpWire

CONSTANTS
  NoData,       \* a record of packets_state_array still cleared
  NotWritten,   \* the destination file before write_file_to_local
  CanOpen       \* whether the destination file opens for writing

ASSUME CanOpenAssumption == CanOpen \in BOOLEAN

VARIABLES
  rpc,                  \* where reliablyReceive is
  numPackets,           \* learnt from the SYN
  received,             \* indices of packets_state_array marked received
  slot,                 \* the data kept in each record
  current_acked_index,
  file                  \* chunks written to the destination file, in order

receiverVars ==
  <<rpc, numPackets, received, slot, current_acked_index, file>>

RPC == {"sync", "estab_send", "estab_wait", "main", "write", "exited", "dead"}

Slots == 0..numPackets-1

\* Mutant of FirstMissing: one step for every datagram, received or not.
OneFurther(R, c, n) == c + 1

\* update_current_acked_index: from c, over the records already received.
FirstMissing(R, c, n) ==
  CHOOSE k \in c..n : (k = n \/ k \notin R) /\ \A i \in c..k-1 : i \in R

ReceiverInit ==
  /\ rpc = "sync"
  /\ numPackets = 0
  /\ received = {}
  /\ slot = [i \in {} |-> NoData]
  /\ current_acked_index = 0
  /\ file = NotWritten

----------------------------------------------------------------------------
\* while(!SYNC_RECV): the first datagram must be a SYN; diep otherwise.
RecvSyn ==
  /\ rpc = "sync"
  /\ \E m \in InFlight(toReceiver) :
       /\ toReceiver' = Take(toReceiver, m)
       /\ \/ m.SYN_BIT /\ numPackets' = m.seq_num /\ rpc' = "estab_send"
          \/ ~m.SYN_BIT /\ rpc' = "dead" /\ UNCHANGED numPackets
  /\ UNCHANGED <<received, slot, current_acked_index, file, toSender>>

\* while(!ESTAB), up to its recvfrom.
SendSynAck ==
  /\ rpc = "estab_send"
  /\ toSender' = Put(toSender, {SynAck(numPackets)})
  /\ rpc' = "estab_wait"
  /\ UNCHANGED <<numPackets, received, slot, current_acked_index, file, toReceiver>>

\* Mutant of IsHandshakeAck: whatever is not a SYN completes the handshake.
IsNoSyn(m) == ~m.SYN_BIT

\* The rest of while(!ESTAB), and the array of records cleared after it.
\* Anything but the expected ACK ends the program.
IsHandshakeAck(m) == m.ACK_BIT /\ m.ack_seq_num = SynAckSeq + 1

\* Mutant of RecvHandshakeAck: whatever is not the ACK makes it try again.
RecvHandshakeAckOrRetry ==
  /\ rpc = "estab_wait"
  /\ \E m \in InFlight(toReceiver) :
       /\ toReceiver' = Take(toReceiver, m)
       /\ received' = {}
       /\ slot' = [i \in Slots |-> NoData]
       /\ rpc' = IF IsHandshakeAck(m) THEN "main" ELSE "estab_send"
  /\ UNCHANGED <<numPackets, current_acked_index, file, toSender>>

RecvHandshakeAck ==
  /\ rpc = "estab_wait"
  /\ \E m \in InFlight(toReceiver) :
       /\ toReceiver' = Take(toReceiver, m)
       /\ \/ /\ IsHandshakeAck(m)
             /\ rpc' = "main"
             /\ received' = {}
             /\ slot' = [i \in Slots |-> NoData]
          \/ /\ ~IsHandshakeAck(m)
             /\ rpc' = "dead"
             /\ UNCHANGED <<received, slot>>
  /\ UNCHANGED <<numPackets, current_acked_index, file, toSender>>

\* Mutant of Acknowledge: the highest packet received is acknowledged.
AcknowledgeHighest(R) ==
  /\ received' = R
  /\ current_acked_index' = FirstMissing(R, current_acked_index, numPackets)
  /\ toSender' = Put(toSender, {Ack(i) : i \in {j \in R : \A k \in R : k <= j}})
  /\ rpc' = IF numPackets - 1 \in R THEN "write" ELSE "main"

\* send_ack after update_current_acked_index: the cumulative ACK, and CLOSED
\* as soon as the record of the LAST packet is marked, whatever came before.
Acknowledge(R) ==
  /\ received' = R
  /\ current_acked_index' = FirstMissing(R, current_acked_index, numPackets)
  /\ toSender' = Put(toSender, {Ack(current_acked_index' - 1)})
  /\ rpc' = IF numPackets - 1 \in R THEN "write" ELSE "main"

\* while (!CLOSED): whatever arrives is stored at its seq_num.  No field of
\* the header is checked.
RecvData ==
  /\ rpc = "main"
  /\ \E m \in InFlight(toReceiver) :
       /\ toReceiver' = Take(toReceiver, m)
       /\ m.seq_num \in Slots
       /\ slot' = [slot EXCEPT ![m.seq_num] = m.data]
       /\ Acknowledge(received \cup {m.seq_num})
  /\ UNCHANGED <<numPackets, file>>

\* The same handler on a datagram numbered outside the vector: operator[] is
\* unchecked, so the store either faults or lands in memory that is not the
\* receiver's records, after which the handler goes on.
RecvOutside ==
  /\ rpc = "main"
  /\ \E m \in InFlight(toReceiver) :
       /\ toReceiver' = Take(toReceiver, m)
       /\ m.seq_num \notin Slots
       /\ \/ rpc' = "dead" /\ UNCHANGED <<received, current_acked_index, toSender>>
          \/ Acknowledge(received)
  /\ UNCHANGED <<numPackets, slot, file>>

\* Mutant of WriteFile: it stops before the first record missing, and one more.
WriteFileShort ==
  /\ rpc = "write"
  /\ file' = [i \in 0..FirstMissing(received, 0, numPackets)-2 |-> slot[i]]
  /\ rpc' = "exited"
  /\ UNCHANGED <<numPackets, received, slot, current_acked_index, toReceiver, toSender>>

\* write_file_to_local, and the end of the program: the records up to the
\* first one not received, or no file at all when it cannot be opened.
WriteFile ==
  /\ rpc = "write"
  /\ file' = IF CanOpen
             THEN [i \in 0..FirstMissing(received, 0, numPackets)-1 |-> slot[i]]
             ELSE NotWritten
  /\ rpc' = "exited"
  /\ UNCHANGED <<numPackets, received, slot, current_acked_index, toReceiver, toSender>>

ReceiverNext ==
  \/ RecvSyn
  \/ SendSynAck
  \/ RecvHandshakeAck
  \/ RecvData
  \/ RecvOutside
  \/ WriteFile
----------------------------------------------------------------------------
(***************************************************************************)
(* The receiver alone.  Its peer sends one SYN, which the network repeats  *)
(* where Duplication is set, completes the handshake and has sent up to    *)
(* MaxCopies copies of every packet of the file, each numbered by its      *)
(* place in the file.  Any of them arrives in any order, late or never.    *)
(***************************************************************************)
PeerAnswers ==
  /\ toSender[SynAck(N)] > 0
  /\ toSender' = Take(toSender, SynAck(N))
  /\ \E g \in Garbage :
       toReceiver' = [m \in ToReceiver |->
                        IF m = HandshakeAck(g) THEN 1
                        ELSE IF m \in {Data(i, i) : i \in Index} THEN MaxCopies
                        ELSE toReceiver[m]]
  /\ UNCHANGED receiverVars

ReceiverAlone ==
  /\ ReceiverInit
  /\ toSender = NoneOf(ToSender)
  /\ toReceiver = [NoneOf(ToReceiver) EXCEPT ![Syn] =
                                         IF Duplication THEN MaxCopies ELSE 1]

ReceiverAloneNext == PeerAnswers \/ ReceiverNext

ReceiverSpec ==
  ReceiverAlone /\ [][ReceiverAloneNext]_<<receiverVars, channels>>

----------------------------------------------------------------------------
\* Type correctness of receiver_main.cpp's variables.  The number of records
\* is the number of packets as soon as the SYN has been read.
ReceiverTypeOK ==
  /\ rpc \in RPC
  /\ numPackets \in {0, N}
  /\ rpc \notin {"sync", "dead"} => numPackets = N
  /\ received \subseteq Slots
  /\ current_acked_index \in 0..numPackets
  /\ slot \in [DOMAIN slot -> Payload \cup {NoData}]
  /\ rpc \in {"main", "write", "exited"} => DOMAIN slot = Slots

\* send_ack acknowledges cumulatively: current_acked_index is the first packet
\* not received, however the packets were ordered or repeated.
\* update_current_acked_index only ever resumes from where it stopped, so a
\* hole filled late must release all that follows.
AckIsFirstMissing ==
  /\ 0..current_acked_index-1 \subseteq received
  /\ current_acked_index \notin received

\* An ACK still in the network, however old, never claims a packet the
\* receiver does not hold (send_ack).
AcksAreTrue ==
  \A a \in Index : toSender[Ack(a)] > 0 => 0..a \subseteq received

\* The destination file is a prefix of the file that was sent, as long as
\* what was acknowledged, whatever arrived out of order (write_file_to_local
\* stops at the first record not received).
FileIsPrefix ==
  file # NotWritten => file = [i \in 0..current_acked_index-1 |-> i]

\* What the assignment asks of the receiver: the file it writes is the whole
\* file (MP2.pdf, "exactly what the sender was given").
FileIsWhole ==
  file # NotWritten => file = [i \in Index |-> i]
=============================================================================
