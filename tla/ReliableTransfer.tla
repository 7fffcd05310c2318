-------------------------- MODULE ReliableTransfer --------------------------
(***************************************************************************)
(* The mp2 file transfer: sender_main.cpp and receiver_main.cpp, each as   *)
(* it is, over a UDP network that loses, reorders and (where Duplication   *)
(* is set) repeats their datagrams.                                        *)
(*                                                                         *)
(* The two programs do not agree on packet numbers: reliablyTransfer       *)
(* numbers the records of packets_state_array but not the packets in them, *)
(* so each data packet is sent as number 0 (DataPacket).  A file of one    *)
(* packet is transferred; a longer one never is.                           *)
(***************************************************************************)
EXTENDS ReliableReceiver, ReliableSender

transferVars == <<senderVars, receiverVars, channels>>

TransferInit == SenderInit /\ ReceiverInit /\ ChannelsInit

Network ==
  /\ \/ LoseToReceiver \/ LoseToSender
     \/ DuplicateToReceiver \/ DuplicateToSender
  /\ UNCHANGED <<senderVars, receiverVars>>

SenderStep == SenderNext /\ UNCHANGED receiverVars

ReceiverStep == ReceiverNext /\ UNCHANGED senderVars

TransferNext == SenderStep \/ ReceiverStep \/ Network

TransferSpec == TransferInit /\ [][TransferNext]_transferVars

(***************************************************************************)
(* Fairness.  Each program runs on: a step it can take without waiting for *)
(* a datagram is taken, and a select that keeps waiting times out (weak).  *)
(* The network is fair to what is repeated: a program that again and again *)
(* finds a datagram of the main loop waiting reads one in the end, though  *)
(* any single copy may be lost (strong).  Nothing else repeats a datagram, *)
(* so nothing more is assumed of the handshake, whose datagrams the        *)
(* network may lose for good.                                              *)
(***************************************************************************)
Fairness ==
  /\ WF_transferVars((SendSyn \/ SendHandshakeAck \/ Finish \/ Transmit)
                       /\ UNCHANGED receiverVars)
  /\ WF_transferVars(Timeout /\ UNCHANGED receiverVars)
  /\ WF_transferVars((SendSynAck \/ WriteFile) /\ UNCHANGED senderVars)
  /\ SF_transferVars((RecvData \/ RecvOutside) /\ UNCHANGED senderVars)
  /\ SF_transferVars(RecvAck /\ UNCHANGED receiverVars)

FairTransferSpec == TransferSpec /\ Fairness

----------------------------------------------------------------------------
\* Type correctness of both programs and the network.
TransferTypeOK == SenderTypeOK /\ ReceiverTypeOK /\ ChannelsTypeOK

\* reliablyTransfer returns only when the receiver holds every packet: a
\* record is marked acked by an ACK alone (line 393), and an ACK in the network
\* is never ahead of the receiver, even one that is late or repeated.
DoneMeansHeld ==
  spc = "done" => Index \subseteq received

\* Whatever is written to disk is what the sender was given: neither a hole
\* nor the bytes of a datagram that is no packet of the file.
WrittenIsWholeFile ==
  file # NotWritten => file = [i \in Index |-> i]

\* A file of two packets or more is never written and never acknowledged:
\* every packet arrives as number 0.  A repeated ACK of the handshake is stored
\* at whatever number its stack bytes make, which must not be the last one's.
LongFileNeverDone ==
  N > 1 /\ (Duplication => N-1 \notin Garbage)
    => spc # "done" /\ file = NotWritten

\* The receiver's main loop stores at seq_num unchecked, but a network that
\* repeats nothing brings it nothing to store beyond the vector: no SYN (whose
\* number is one past it) and no ACK of the handshake is left by then.
StoresInVector ==
  ~Duplication /\ rpc = "main" =>
    \A m \in InFlight(toReceiver) : m.seq_num \in Slots

\* The receiver has exited or died, the last packet is unacknowledged and its
\* ACK not on the way.
Stranded ==
  /\ rpc \in {"exited", "dead"}
  /\ spc # "done" /\ packet_state[N-1] # "acked"
  /\ toSender[Ack(N-1)] = 0

\* The receiver acknowledges the last packet once and does not stay to do it
\* again (send_ack sets CLOSED); it also exits on a datagram the handshake did
\* not expect.  A sender left so never returns.
StrandedForEver == [][Stranded => Stranded']_transferVars

\* A sender that has sent the last packet of the handshake faces a receiver
\* that was waiting for it: two SYNs, or a SYN and a packet of the file, never
\* leave one side established and the other at its start.
HandshakeAgrees ==
  spc \in {"estab", "loop", "select", "done", "crashed"} =>
    rpc \notin {"sync", "estab_send"}

\* The promise of a transfer, of what the receiver holds and what the two
\* programs have produced.
Promise == INSTANCE FileTransfer WITH
  File <- [i \in Index |-> i],
  NoFile <- NotWritten,
  held <- Index \subseteq received,
  satisfied <- spc = "done",
  output <- file

KeepsPromise == Promise!Spec

\* Once the receiver is in its main loop, the file is written, whatever is
\* lost from then on: the sender's timeouts retransmit until the ACK arrives.
EstablishedDelivers == rpc = "main" ~> file # NotWritten

\* The transfer comes to its end (MP2.pdf: the implementation must tolerate
\* packet drops).
TransferCompletes == <>(file # NotWritten)
=============================================================================
