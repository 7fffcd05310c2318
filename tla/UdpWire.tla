------------------------------ MODULE UdpWire ------------------------------
(***************************************************************************)
(* The datagrams of the file transfer of mp2 (struct packet, declared with *)
(* the same layout in sender_main.cpp and receiver_main.cpp) and the UDP   *)
(* network between the two programs.                                       *)
(*                                                                         *)
(* A datagram keeps the header fields the two programs test.  The 1011     *)
(* data bytes are abstracted to WHICH chunk of the file they hold.  The    *)
(* network loses and reorders datagrams and, where Duplication is set,     *)
(* delivers one twice; it never alters one (the assignment excludes bit    *)
(* errors) and mixes in none of another host.                              *)
(***************************************************************************)
EXTENDS Integers

CONSTANTS
  N,            \* packets the file is cut into (numPackets of the sender)
  Garbage,      \* values an uninitialised int32 of the sender's stack may hold
  Junk,         \* data bytes that are no chunk of the file
  Empty,        \* no data bytes at all
  MaxCopies,    \* bound: copies of one datagram in flight at a time
  Duplication   \* TRUE: the network may deliver a datagram twice

ASSUME NAssumption == N \in Nat \ {0}
ASSUME GarbageAssumption == Garbage \subseteq Int
ASSUME MaxCopiesAssumption == MaxCopies \in Nat \ {0}
ASSUME DuplicationAssumption == Duplication \in BOOLEAN

VARIABLES
  toReceiver,   \* copies in flight of each datagram, sender to receiver
  toSender      \* the same, receiver to sender

channels == <<toReceiver, toSender>>

Index == 0..N-1
Payload == Index \cup {Junk, Empty}

----------------------------------------------------------------------------
\* The datagrams.

Packet(syn, ack, seq, ackno, body) ==
  [SYN_BIT |-> syn, ACK_BIT |-> ack, seq_num |-> seq, ack_seq_num |-> ackno,
   data |-> body]

Syn == Packet(TRUE, FALSE, N, 0, Junk)

\* The receiver numbers its half of the handshake 666.
SynAckSeq == 666
SynAck(n) == Packet(TRUE, TRUE, SynAckSeq, n + 1, Empty)

\* The sender's third packet of the handshake is not cleared before it is
\* sent: its seq_num is what the stack held.
HandshakeAck(g) == Packet(FALSE, TRUE, g, SynAckSeq + 1, Junk)

Data(seq, body) == Packet(FALSE, FALSE, seq, 0, body)

Ack(a) == Packet(FALSE, TRUE, 0, a, Empty)

ToReceiver ==
  {Syn} \cup {HandshakeAck(g) : g \in Garbage}
        \cup {Data(q, p) : q \in Index, p \in Payload}

ToSender == {SynAck(N)} \cup {Ack(a) : a \in -1..N-1}

----------------------------------------------------------------------------
\* The network: a bag of datagrams in each direction.  A sendto beyond
\* MaxCopies copies of the same datagram is one the network drops.

InFlight(ch) == {m \in DOMAIN ch : ch[m] > 0}

Put(ch, S) ==
  [m \in DOMAIN ch |-> IF m \in S /\ ch[m] < MaxCopies THEN ch[m] + 1 ELSE ch[m]]

Take(ch, m) == [ch EXCEPT ![m] = @ - 1]

NoneOf(M) == [m \in M |-> 0]

ChannelsTypeOK ==
  /\ toReceiver \in [ToReceiver -> 0..MaxCopies]
  /\ toSender \in [ToSender -> 0..MaxCopies]

ChannelsInit ==
  /\ toReceiver = NoneOf(ToReceiver)
  /\ toSender = NoneOf(ToSender)

LoseToReceiver ==
  \E m \in InFlight(toReceiver) :
    toReceiver' = Take(toReceiver, m) /\ UNCHANGED toSender

LoseToSender ==
  \E m \in InFlight(toSender) :
    toSender' = Take(toSender, m) /\ UNCHANGED toReceiver

DuplicateToReceiver ==
  /\ Duplication
  /\ \E m \in InFlight(toReceiver) :
       toReceiver' = Put(toReceiver, {m}) /\ UNCHANGED toSender

DuplicateToSender ==
  /\ Duplication
  /\ \E m \in InFlight(toSender) :
       toSender' = Put(toSender, {m}) /\ UNCHANGED toReceiver
=============================================================================
