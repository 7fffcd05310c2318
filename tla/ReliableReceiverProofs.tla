----------------------- MODULE ReliableReceiverProofs -----------------------
(***************************************************************************)
(* Theorems about receiver_main.cpp, for every number of packets and every *)
(* number of copies in flight.                                             *)
(*                                                                         *)
(* The acknowledgements are right whatever datagrams arrive, so that part  *)
(* of the invariant (AckInv) is proved preserved by the receiver's actions *)
(* alone.  What is written is right only of a peer that numbers its        *)
(* packets and of a handshake ACK that is not repeated (PeerInv).          *)
(***************************************************************************)
EXTENDS ReliableReceiver, WellFoundedInduction, TLAPS

\* What the loop of update_current_acked_index finds.
LEMMA FirstMissingFound ==
  ASSUME NEW R, NEW c \in Nat, NEW n \in Nat, c <= n
  PROVE  LET k == FirstMissing(R, c, n)
         IN  /\ k \in c..n
             /\ k = n \/ k \notin R
             /\ \A i \in c..k-1 : i \in R
<1> DEFINE T == {k \in c..n : k = n \/ k \notin R}
<1>1. T \subseteq Nat /\ n \in T
  OBVIOUS
<1>2. PICK k \in T : \A y \in T : k <= y
  <2>1. \A x, y \in Nat : x < y => <<x, y>> \in OpToRel(<, Nat)
    BY DEF OpToRel
  <2>2. PICK k \in T : \A y \in T : ~(<<y, k>> \in OpToRel(<, Nat))
    BY <1>1, NatLessThanWellFounded, WFMin
  <2>3. \A y \in T : ~(y < k)
    BY <1>1, <2>1, <2>2, Zenon
  <2>4. QED
    BY <1>1, <2>3
<1>3. \A i \in c..k-1 : i \in R
  BY <1>2
<1>4. /\ k \in c..n /\ (k = n \/ k \notin R)
      /\ \A i \in c..k-1 : i \in R
  BY <1>3
<1>5. QED
  BY <1>4 DEF FirstMissing

\* It resumes where it stopped: over a set whose first missing packet is c, a
\* scan from 0 gives c again.
LEMMA FirstMissingFromZero ==
  ASSUME NEW R, NEW c \in Nat, NEW n \in Nat, c <= n,
         0..c-1 \subseteq R, c \notin R
  PROVE  FirstMissing(R, 0, n) = c
<1> DEFINE k == FirstMissing(R, 0, n)
<1>1. /\ k \in 0..n
      /\ k = n \/ k \notin R
      /\ \A i \in 0..k-1 : i \in R
  BY FirstMissingFound
<1> HIDE DEF k
<1>2. ~(k < c)
  BY <1>1
<1>3. ~(c < k)
  BY <1>1
<1>4. QED
  BY <1>1, <1>2, <1>3 DEF k

----------------------------------------------------------------------------
\* What a sendto does to the datagrams in flight.
LEMMA PutTypes ==
  ASSUME NEW M, NEW ch \in [M -> 0..MaxCopies], NEW S
  PROVE  /\ Put(ch, S) \in [M -> 0..MaxCopies]
         /\ \A m \in M : m \notin S => Put(ch, S)[m] = ch[m]
         /\ \A m \in M : Put(ch, S)[m] > 0 => ch[m] > 0 \/ m \in S
BY MaxCopiesAssumption DEF Put

\* What a recvfrom does to them.
LEMMA TakeTypes ==
  ASSUME NEW M, NEW ch \in [M -> 0..MaxCopies], NEW m \in InFlight(ch)
  PROVE  /\ m \in M /\ ch[m] > 0
         /\ Take(ch, m) \in [M -> 0..MaxCopies]
         /\ Take(ch, m)[m] = ch[m] - 1
         /\ \A x \in M : x # m => Take(ch, m)[x] = ch[x]
         /\ \A x \in M : Take(ch, m)[x] > 0 => ch[x] > 0
BY MaxCopiesAssumption DEF Take, InFlight

\* Which datagrams have which header.
LEMMA ReceiverDatagrams ==
  ASSUME NEW m \in ToReceiver
  PROVE  /\ m.seq_num \in Int /\ m.data \in Payload
         /\ m.SYN_BIT <=> m = Syn
         /\ m.ACK_BIT <=> \E g \in Garbage : m = HandshakeAck(g)
         /\ m = Syn => m.seq_num = N
         /\ m = Syn \/ m.ACK_BIT \/ \E q \in Index, p \in Payload : m = Data(q, p)
         /\ m.SYN_BIT \in BOOLEAN /\ m.ACK_BIT \in BOOLEAN
<1>1. /\ Syn.SYN_BIT = TRUE /\ Syn.ACK_BIT = FALSE
      /\ Syn.seq_num = N /\ Syn.data = Junk
  BY DEF Syn, Packet
<1>2. \A g : LET h == HandshakeAck(g)
            IN  /\ h.SYN_BIT = FALSE /\ h.ACK_BIT = TRUE
                /\ h.seq_num = g /\ h.data = Junk
  BY DEF HandshakeAck, Packet
<1>3. \A q, p : LET d == Data(q, p)
               IN  /\ d.SYN_BIT = FALSE /\ d.ACK_BIT = FALSE
                   /\ d.seq_num = q /\ d.data = p
  BY DEF Data, Packet
<1>4. CASE m = Syn
  <2>1. /\ m.SYN_BIT = TRUE /\ m.ACK_BIT = FALSE /\ m.seq_num = N /\ m.data = Junk
    BY <1>1, <1>4
  <2>2. \A g \in Garbage : m # HandshakeAck(g)
    BY <1>2, <2>1
  <2>3. m.seq_num \in Int /\ m.data \in Payload
    BY <2>1, NAssumption DEF Payload
  <2>4. QED
    BY <1>4, <2>1, <2>2, <2>3, Zenon
<1>5. CASE \E g \in Garbage : m = HandshakeAck(g)
  <2>1. PICK g \in Garbage : m = HandshakeAck(g)
    BY <1>5
  <2>2. /\ m.SYN_BIT = FALSE /\ m.ACK_BIT = TRUE /\ m.seq_num = g /\ m.data = Junk
    BY <1>2, <2>1
  <2>3. m # Syn
    BY <1>1, <2>2
  <2>4. QED
    BY <1>5, <2>2, <2>3, GarbageAssumption DEF Payload
<1>6. CASE \E q \in Index, p \in Payload : m = Data(q, p)
  <2>1. PICK q \in Index, p \in Payload : m = Data(q, p)
    BY <1>6
  <2>2. /\ m.SYN_BIT = FALSE /\ m.ACK_BIT = FALSE /\ m.seq_num = q /\ m.data = p
    BY <1>3, <2>1
  <2>3. m # Syn /\ \A g \in Garbage : m # HandshakeAck(g)
    BY <1>1, <1>2, <2>2
  <2>4. q \in Int
    BY NAssumption DEF Index
  <2>5. QED
    BY <1>6, <2>2, <2>3, <2>4
<1>7. QED
  BY <1>4, <1>5, <1>6 DEF ToReceiver

\* The ACKs of different packets, and the SYN-ACK, are different datagrams.
LEMMA SenderDatagrams ==
  /\ SynAck(N) \in ToSender
  /\ \A a \in -1..N-1 : Ack(a) \in ToSender
  /\ \A a, b \in -1..N-1 : Ack(a) = Ack(b) => a = b
  /\ \A a \in -1..N-1 : Ack(a) # SynAck(N)
BY NAssumption DEF ToSender, Ack, SynAck, Packet
----------------------------------------------------------------------------
\* What keeps the acknowledgements right: the part of the invariant that no
\* datagram can disturb.
AckInv ==
  /\ ReceiverTypeOK
  /\ ChannelsTypeOK
  /\ rpc \in {"sync", "estab_send", "estab_wait"} => received = {} /\ current_acked_index = 0
  /\ AckIsFirstMissing
  /\ AcksAreTrue

\* send_ack and update_current_acked_index keep it, whatever was marked.
LEMMA AcknowledgeKeepsAckInv ==
  ASSUME AckInv, rpc = "main",
         NEW R, received \subseteq R, R \subseteq Slots,
         Acknowledge(R)
  PROVE  /\ received' = R
         /\ current_acked_index' \in current_acked_index..numPackets
         /\ 0..current_acked_index'-1 \subseteq R
         /\ current_acked_index' \notin R
         /\ toSender' \in [ToSender -> 0..MaxCopies]
         /\ \A a \in Index : toSender'[Ack(a)] > 0 => 0..a \subseteq R
         /\ toSender'[SynAck(N)] = toSender[SynAck(N)]
         /\ rpc' \in {"main", "write"}
<1> DEFINE k == current_acked_index'
<1>1. numPackets = N /\ N \in Nat \ {0} /\ current_acked_index \in 0..N
  BY NAssumption DEF AckInv, ReceiverTypeOK
<1>2. k = FirstMissing(R, current_acked_index, N) /\ received' = R
  BY <1>1 DEF Acknowledge
<1>3. /\ k \in current_acked_index..N
      /\ k = N \/ k \notin R
      /\ \A i \in current_acked_index..k-1 : i \in R
  BY <1>1, <1>2, FirstMissingFound
<1> HIDE DEF k
<1>4. 0..current_acked_index-1 \subseteq R
  BY DEF AckInv, AckIsFirstMissing
<1>5. 0..k-1 \subseteq R
  BY <1>1, <1>3, <1>4
<1>6. k \notin R
  BY <1>1, <1>3 DEF Slots
<1>7. toSender' = Put(toSender, {Ack(k-1)}) /\ k-1 \in -1..N-1
  BY <1>1, <1>3 DEF Acknowledge, k
<1>8. toSender \in [ToSender -> 0..MaxCopies]
  BY DEF AckInv, ChannelsTypeOK
<1>9. /\ toSender' \in [ToSender -> 0..MaxCopies]
      /\ \A m \in ToSender : m # Ack(k-1) => toSender'[m] = toSender[m]
  BY <1>7, <1>8, PutTypes
<1>10. ASSUME NEW a \in Index, toSender'[Ack(a)] > 0 PROVE 0..a \subseteq R
  <2>1. a \in -1..N-1 /\ a \in Int
    BY <1>1 DEF Index
  <2>2. CASE a = k-1
    BY <1>5, <2>2
  <2>3. CASE a # k-1
    <3>1. toSender[Ack(a)] > 0
      BY <1>7, <1>9, <1>10, <2>1, <2>3, SenderDatagrams
    <3>2. QED
      BY <3>1 DEF AckInv, AcksAreTrue
  <2>4. QED
    BY <2>2, <2>3
<1>11. toSender'[SynAck(N)] = toSender[SynAck(N)]
  BY <1>7, <1>9, SenderDatagrams
<1>12. rpc' \in {"main", "write"}
  BY DEF Acknowledge
<1>13. QED
  BY <1>1, <1>2, <1>3, <1>5, <1>6, <1>9, <1>10, <1>11, <1>12 DEF k

\* Every step of the receiver keeps it.
LEMMA ReceiverKeepsAckInv ==
  ASSUME AckInv, ReceiverNext
  PROVE  AckInv'
<1> USE DEF AckInv
<1>0. /\ N \in Nat \ {0} /\ Slots \subseteq Nat
      /\ toReceiver \in [ToReceiver -> 0..MaxCopies]
      /\ toSender \in [ToSender -> 0..MaxCopies]
  BY NAssumption DEF ChannelsTypeOK, Slots, ReceiverTypeOK
<1>1. CASE RecvSyn
  <2>1. PICK m \in InFlight(toReceiver) :
          /\ toReceiver' = Take(toReceiver, m)
          /\ \/ m.SYN_BIT /\ numPackets' = m.seq_num /\ rpc' = "estab_send"
             \/ ~m.SYN_BIT /\ rpc' = "dead" /\ UNCHANGED numPackets
    BY <1>1 DEF RecvSyn
  <2>2. UNCHANGED <<received, slot, current_acked_index, file, toSender>> /\ rpc = "sync"
    BY <1>1 DEF RecvSyn
  <2>3. toReceiver' \in [ToReceiver -> 0..MaxCopies] /\ m \in ToReceiver
    BY <1>0, <2>1, TakeTypes
  <2>4. m.SYN_BIT => m.seq_num = N
    BY <2>3, ReceiverDatagrams
  <2>5. ReceiverTypeOK'
    BY <1>0, <2>1, <2>2, <2>4 DEF ReceiverTypeOK, RPC, Slots
  <2>6. QED
    BY <2>1, <2>2, <2>3, <2>5 DEF ChannelsTypeOK, AckIsFirstMissing, AcksAreTrue
<1>2. CASE SendSynAck
  <2>1. /\ rpc = "estab_send" /\ rpc' = "estab_wait"
        /\ toSender' = Put(toSender, {SynAck(N)})
        /\ UNCHANGED <<numPackets, received, slot, current_acked_index, file, toReceiver>>
    BY <1>2 DEF SendSynAck, ReceiverTypeOK
  <2>2. /\ toSender' \in [ToSender -> 0..MaxCopies]
        /\ \A m \in ToSender : m # SynAck(N) => toSender'[m] = toSender[m]
    BY <1>0, <2>1, PutTypes
  <2>3. \A a \in Index : toSender'[Ack(a)] = toSender[Ack(a)]
    BY <1>0, <2>2, SenderDatagrams DEF Index
  <2>4. ReceiverTypeOK' /\ AckIsFirstMissing' /\ AcksAreTrue'
    BY <2>1, <2>3 DEF ReceiverTypeOK, RPC, Slots, AckIsFirstMissing, AcksAreTrue
  <2>5. QED
    BY <2>1, <2>2, <2>4 DEF ChannelsTypeOK
<1>3. CASE RecvHandshakeAck
  <2>1. PICK m \in InFlight(toReceiver) :
          /\ toReceiver' = Take(toReceiver, m)
          /\ \/ /\ rpc' = "main"
                /\ received' = {}
                /\ slot' = [i \in Slots |-> NoData]
             \/ rpc' = "dead" /\ UNCHANGED <<received, slot>>
    BY <1>3 DEF RecvHandshakeAck
  <2>2. /\ rpc = "estab_wait" /\ numPackets = N
        /\ UNCHANGED <<numPackets, current_acked_index, file, toSender>>
    BY <1>3 DEF RecvHandshakeAck, ReceiverTypeOK
  <2>3. toReceiver' \in [ToReceiver -> 0..MaxCopies]
    BY <1>0, <2>1, TakeTypes
  <2>4. ReceiverTypeOK'
    BY <1>0, <2>1, <2>2 DEF ReceiverTypeOK, RPC, Slots
  <2>5. QED
    BY <2>1, <2>2, <2>3, <2>4 DEF ChannelsTypeOK, AckIsFirstMissing, AcksAreTrue
<1>4. CASE RecvData
  <2>1. PICK m \in InFlight(toReceiver) :
          /\ toReceiver' = Take(toReceiver, m)
          /\ m.seq_num \in Slots
          /\ slot' = [slot EXCEPT ![m.seq_num] = m.data]
          /\ Acknowledge(received \cup {m.seq_num})
    BY <1>4 DEF RecvData
  <2>2. rpc = "main" /\ UNCHANGED <<numPackets, file>>
    BY <1>4 DEF RecvData
  <2>3. toReceiver' \in [ToReceiver -> 0..MaxCopies] /\ m \in ToReceiver
    BY <1>0, <2>1, TakeTypes
  <2>4. m.data \in Payload
    BY <2>3, ReceiverDatagrams
  <2> DEFINE R == received \cup {m.seq_num}
  <2>5. R \subseteq Slots /\ received \subseteq R
    BY <2>1 DEF ReceiverTypeOK
  <2>6. /\ received' = R
        /\ current_acked_index' \in current_acked_index..numPackets
        /\ 0..current_acked_index'-1 \subseteq R
        /\ current_acked_index' \notin R
        /\ toSender' \in [ToSender -> 0..MaxCopies]
        /\ \A a \in Index : toSender'[Ack(a)] > 0 => 0..a \subseteq R
        /\ rpc' \in {"main", "write"}
    BY <2>1, <2>2, <2>5, AcknowledgeKeepsAckInv
  <2> HIDE DEF R
  <2>7. ReceiverTypeOK'
    <3>1. slot' \in [Slots -> Payload \cup {NoData}]
      BY <2>1, <2>2, <2>4 DEF ReceiverTypeOK
    <3>2. Slots' = Slots /\ numPackets' = N
      BY <2>2 DEF Slots, ReceiverTypeOK
    <3>3. current_acked_index' \in 0..N
      BY <2>2, <2>6, <3>2 DEF ReceiverTypeOK
    <3>4. QED
      BY <1>0, <2>5, <2>6, <3>1, <3>2, <3>3 DEF ReceiverTypeOK, RPC
  <2>8. QED
    BY <2>3, <2>6, <2>7 DEF ChannelsTypeOK, AckIsFirstMissing, AcksAreTrue
<1>5. CASE RecvOutside
  <2>1. PICK m \in InFlight(toReceiver) :
          /\ toReceiver' = Take(toReceiver, m)
          /\ \/ rpc' = "dead" /\ UNCHANGED <<received, current_acked_index, toSender>>
             \/ Acknowledge(received)
    BY <1>5 DEF RecvOutside
  <2>2. rpc = "main" /\ UNCHANGED <<numPackets, slot, file>>
    BY <1>5 DEF RecvOutside
  <2>3. toReceiver' \in [ToReceiver -> 0..MaxCopies]
    BY <1>0, <2>1, TakeTypes
  <2>4. CASE rpc' = "dead" /\ UNCHANGED <<received, current_acked_index, toSender>>
    <3>1. ReceiverTypeOK'
      BY <2>2, <2>4 DEF ReceiverTypeOK, RPC, Slots
    <3>2. QED
      BY <2>2, <2>3, <2>4, <3>1 DEF ChannelsTypeOK, AckIsFirstMissing, AcksAreTrue
  <2>5. CASE Acknowledge(received)
    <3>1. received \subseteq Slots
      BY DEF ReceiverTypeOK
    <3>2. /\ received' = received
          /\ current_acked_index' \in current_acked_index..numPackets
          /\ 0..current_acked_index'-1 \subseteq received
          /\ current_acked_index' \notin received
          /\ toSender' \in [ToSender -> 0..MaxCopies]
          /\ \A a \in Index : toSender'[Ack(a)] > 0 => 0..a \subseteq received
          /\ rpc' \in {"main", "write"}
      BY <2>2, <2>5, <3>1, AcknowledgeKeepsAckInv
    <3>3. ReceiverTypeOK'
      BY <1>0, <2>2, <3>1, <3>2 DEF ReceiverTypeOK, RPC, Slots
    <3>4. QED
      BY <2>3, <3>2, <3>3 DEF ChannelsTypeOK, AckIsFirstMissing, AcksAreTrue
  <2>6. QED
    BY <2>1, <2>4, <2>5
<1>6. CASE WriteFile
  <2>1. /\ rpc = "write" /\ rpc' = "exited"
        /\ UNCHANGED <<numPackets, received, slot, current_acked_index, toReceiver, toSender>>
    BY <1>6 DEF WriteFile
  <2>2. ReceiverTypeOK'
    BY <2>1 DEF ReceiverTypeOK, RPC, Slots
  <2>3. QED
    BY <2>1, <2>2 DEF ChannelsTypeOK, AckIsFirstMissing, AcksAreTrue
<1>7. QED
  BY <1>1, <1>2, <1>3, <1>4, <1>5, <1>6 DEF ReceiverNext
----------------------------------------------------------------------------
(***************************************************************************)
(* The receiver with the peer of ReceiverSpec.  The peer's packets carry   *)
(* their own number; its handshake ACK, whose seq_num may be anything, is  *)
(* one datagram, and it is gone when the main loop begins.  Without that   *)
(* it would be stored as a packet of the file.                             *)
(***************************************************************************)
NoHandshakeAck == \A g \in Garbage : toReceiver[HandshakeAck(g)] = 0

MainLoop == rpc \in {"main", "write", "exited"}

PeerInv ==
  /\ AckInv
  /\ \A q \in Index, p \in Payload : toReceiver[Data(q, p)] > 0 => p = q
  /\ rpc \in {"sync", "estab_send"} => toSender[SynAck(N)] = 0 /\ NoHandshakeAck
  /\ toSender[SynAck(N)] > 0 => toSender[SynAck(N)] = 1 /\ NoHandshakeAck
  /\ \A g, h \in Garbage :
       toReceiver[HandshakeAck(g)] > 0 /\ toReceiver[HandshakeAck(h)] > 0
         => g = h /\ toReceiver[HandshakeAck(g)] = 1
  /\ MainLoop => toSender[SynAck(N)] = 0 /\ NoHandshakeAck
  /\ MainLoop => \A i \in received : slot[i] = i
  /\ rpc # "exited" => file = NotWritten
  /\ FileIsPrefix

\* The datagrams of the three kinds are distinct.
LEMMA KindsDiffer ==
  /\ Syn \in ToReceiver
  /\ \A g \in Garbage : HandshakeAck(g) \in ToReceiver
  /\ \A q \in Index, p \in Payload : Data(q, p) \in ToReceiver
  /\ \A g : HandshakeAck(g) # Syn
  /\ \A g, h : HandshakeAck(g) = HandshakeAck(h) => g = h
  /\ \A q, p : Data(q, p) # Syn
  /\ \A g, q, p : Data(q, p) # HandshakeAck(g)
  /\ \A q, p, r, t : Data(q, p) = Data(r, t) => q = r /\ p = t
<1>1. /\ Syn \in ToReceiver
      /\ \A g \in Garbage : HandshakeAck(g) \in ToReceiver
      /\ \A q \in Index, p \in Payload : Data(q, p) \in ToReceiver
  BY DEF ToReceiver
<1>2. Syn.SYN_BIT = TRUE /\ Syn.ACK_BIT = FALSE
  BY DEF Syn, Packet
<1>3. \A g : HandshakeAck(g).SYN_BIT = FALSE /\ HandshakeAck(g).ACK_BIT = TRUE
             /\ HandshakeAck(g).seq_num = g
  BY DEF HandshakeAck, Packet
<1>4. \A q, p : Data(q, p).SYN_BIT = FALSE /\ Data(q, p).ACK_BIT = FALSE
               /\ Data(q, p).seq_num = q /\ Data(q, p).data = p
  BY DEF Data, Packet
<1>5. \A g : HandshakeAck(g) # Syn
  BY <1>2, <1>3
<1>6. \A g, h : HandshakeAck(g) = HandshakeAck(h) => g = h
  BY <1>3
<1>7. \A q, p : Data(q, p) # Syn
  BY <1>2, <1>4
<1>8. \A g, q, p : Data(q, p) # HandshakeAck(g)
  BY <1>3, <1>4
<1>9. \A q, p, r, t : Data(q, p) = Data(r, t) => q = r /\ p = t
  BY <1>4
<1>10. QED
  BY <1>1, <1>5, <1>6, <1>7, <1>8, <1>9

\* The invariant of the receiver and its peer: it holds at the start,
LEMMA PeerInvInitially == ReceiverAlone => PeerInv
<1> SUFFICES ASSUME ReceiverAlone PROVE PeerInv
  OBVIOUS
<1> USE NAssumption, MaxCopiesAssumption
<1>1. /\ rpc = "sync" /\ numPackets = 0 /\ received = {}
      /\ slot = [i \in {} |-> NoData] /\ current_acked_index = 0
      /\ file = NotWritten
      /\ toSender = NoneOf(ToSender)
      /\ toReceiver = [NoneOf(ToReceiver) EXCEPT ![Syn] =
                         IF Duplication THEN MaxCopies ELSE 1]
  BY DEF ReceiverAlone, ReceiverInit
<1>2. /\ toSender \in [ToSender -> 0..MaxCopies]
      /\ \A m \in ToSender : toSender[m] = 0
  BY <1>1 DEF NoneOf
<1>3. /\ toReceiver \in [ToReceiver -> 0..MaxCopies]
      /\ \A m \in ToReceiver : m # Syn => toReceiver[m] = 0
  <2>1. toReceiver = [m \in ToReceiver |->
                        IF m = Syn THEN IF Duplication THEN MaxCopies ELSE 1 ELSE 0]
    BY <1>1 DEF NoneOf
  <2>2. QED
    BY <2>1
<1>4. ReceiverTypeOK
  BY <1>1 DEF ReceiverTypeOK, RPC, Slots
<1>5. AckIsFirstMissing
  BY <1>1 DEF AckIsFirstMissing
<1>6. AcksAreTrue
  BY <1>2, SenderDatagrams DEF AcksAreTrue, Index
<1>7. AckInv
  BY <1>1, <1>2, <1>3, <1>4, <1>5, <1>6 DEF AckInv, ChannelsTypeOK
<1>8. NoHandshakeAck /\ \A q \in Index, p \in Payload : toReceiver[Data(q, p)] = 0
  BY <1>3, KindsDiffer DEF NoHandshakeAck
<1>9. toSender[SynAck(N)] = 0
  BY <1>2, SenderDatagrams
<1>10. QED
  BY <1>1, <1>7, <1>8, <1>9 DEF PeerInv, MainLoop, FileIsPrefix, NoHandshakeAck

\* and every step of the receiver or of its peer keeps it.
LEMMA PeerInvKept ==
  ASSUME PeerInv, [ReceiverAloneNext]_<<receiverVars, channels>>
  PROVE  PeerInv'
<1>0. /\ N \in Nat \ {0} /\ MaxCopies \in Nat \ {0}
      /\ toReceiver \in [ToReceiver -> 0..MaxCopies]
      /\ toSender \in [ToSender -> 0..MaxCopies]
      /\ AckInv /\ Slots \subseteq Nat
  BY NAssumption, MaxCopiesAssumption
     DEF PeerInv, AckInv, ChannelsTypeOK, Slots, ReceiverTypeOK
<1>1. CASE UNCHANGED <<receiverVars, channels>>
  BY <1>1 DEF PeerInv, AckInv, ReceiverTypeOK, ChannelsTypeOK, Slots,
       AckIsFirstMissing, AcksAreTrue, NoHandshakeAck, MainLoop, FileIsPrefix,
       receiverVars, channels
<1>2. CASE PeerAnswers
  <2>1. PICK g \in Garbage :
          toReceiver' = [m \in ToReceiver |->
                           IF m = HandshakeAck(g) THEN 1
                           ELSE IF m \in {Data(i, i) : i \in Index} THEN MaxCopies
                           ELSE toReceiver[m]]
    BY <1>2 DEF PeerAnswers
  <2>2. /\ toSender[SynAck(N)] > 0
        /\ toSender' = Take(toSender, SynAck(N))
        /\ UNCHANGED receiverVars
    BY <1>2 DEF PeerAnswers
  <2>3. /\ toSender' \in [ToSender -> 0..MaxCopies]
        /\ toSender'[SynAck(N)] = toSender[SynAck(N)] - 1
        /\ \A m \in ToSender : toSender'[m] > 0 => toSender[m] > 0
    BY <1>0, <2>2, TakeTypes, SenderDatagrams DEF InFlight
  <2>4. toReceiver' \in [ToReceiver -> 0..MaxCopies]
    BY <1>0, <2>1
  <2>5. AckInv'
    <3>1. \A a \in Index : toSender'[Ack(a)] > 0 => toSender[Ack(a)] > 0
      BY <1>0, <2>3, SenderDatagrams DEF Index
    <3>2. QED
      BY <1>0, <2>2, <2>3, <2>4, <3>1
         DEF AckInv, ReceiverTypeOK, ChannelsTypeOK, Slots, AckIsFirstMissing,
             AcksAreTrue, receiverVars
  <2>6. toSender[SynAck(N)] = 1 /\ NoHandshakeAck /\ ~MainLoop
        /\ rpc \notin {"sync", "estab_send"}
    BY <1>0, <2>2 DEF PeerInv
  <2>7. \A h \in Garbage : h # g => toReceiver'[HandshakeAck(h)] = 0
    BY <2>1, <2>6, KindsDiffer DEF NoHandshakeAck
  <2>8. toReceiver'[HandshakeAck(g)] = 1
    BY <2>1, KindsDiffer
  <2>9. \A q \in Index, p \in Payload : toReceiver'[Data(q, p)] > 0 => p = q
    <3> SUFFICES ASSUME NEW q \in Index, NEW p \in Payload,
                        toReceiver'[Data(q, p)] > 0, p # q
                 PROVE  FALSE
      OBVIOUS
    <3>1. Data(q, p) \notin {Data(i, i) : i \in Index}
      BY KindsDiffer
    <3>2. toReceiver'[Data(q, p)] = toReceiver[Data(q, p)]
      BY <2>1, <3>1, KindsDiffer
    <3>3. QED
      BY <3>2 DEF PeerInv
  <2>10. toSender'[SynAck(N)] = 0
    BY <2>3, <2>6
  <2>11. /\ \A x, y \in Garbage :
             toReceiver'[HandshakeAck(x)] > 0 /\ toReceiver'[HandshakeAck(y)] > 0
               => x = y /\ toReceiver'[HandshakeAck(x)] = 1
         /\ rpc' = rpc /\ file' = file
    BY <2>2, <2>7, <2>8 DEF receiverVars
  <2>12. FileIsPrefix' /\ (rpc' # "exited" => file' = NotWritten)
    BY <2>2 DEF PeerInv, FileIsPrefix, receiverVars
  <2>13. QED
    BY <2>5, <2>6, <2>9, <2>10, <2>11, <2>12 DEF PeerInv, MainLoop
<1>3. CASE ReceiverNext
  <2>0. AckInv'
    BY <1>0, <1>3, ReceiverKeepsAckInv
  <2>1. CASE RecvSyn
    <3>1. PICK m \in InFlight(toReceiver) : toReceiver' = Take(toReceiver, m)
      BY <2>1 DEF RecvSyn
    <3>2. /\ rpc = "sync" /\ rpc' \in {"estab_send", "dead"}
          /\ UNCHANGED <<received, slot, current_acked_index, file, toSender>>
      BY <2>1 DEF RecvSyn
    <3>3. \A x \in ToReceiver : toReceiver'[x] > 0 => toReceiver[x] > 0
      BY <1>0, <3>1, TakeTypes
    <3>4. toReceiver' \in [ToReceiver -> 0..MaxCopies]
      BY <1>0, <3>1, TakeTypes
    <3>5. NoHandshakeAck /\ NoHandshakeAck' /\ toSender[SynAck(N)] = 0
      <4>1. NoHandshakeAck /\ toSender[SynAck(N)] = 0
        BY <3>2 DEF PeerInv
      <4>2. QED
        BY <3>3, <3>4, <4>1, KindsDiffer DEF NoHandshakeAck
    <3>6. \A q \in Index, p \in Payload : toReceiver'[Data(q, p)] > 0 => p = q
      BY <3>3, KindsDiffer DEF PeerInv
    <3>7. FileIsPrefix' /\ file' = NotWritten
      BY <3>2 DEF PeerInv, FileIsPrefix
    <3>8. QED
      BY <2>0, <3>2, <3>5, <3>6, <3>7 DEF PeerInv, MainLoop, NoHandshakeAck
  <2>2. CASE SendSynAck
    <3>1. /\ rpc = "estab_send" /\ rpc' = "estab_wait"
          /\ toSender' = Put(toSender, {SynAck(N)})
          /\ UNCHANGED <<numPackets, received, slot, current_acked_index, file, toReceiver>>
      BY <1>0, <2>2 DEF SendSynAck, AckInv, ReceiverTypeOK
    <3>2. toSender[SynAck(N)] = 0 /\ NoHandshakeAck
      BY <3>1 DEF PeerInv
    <3>3. toSender'[SynAck(N)] = 1
      BY <1>0, <3>1, <3>2, SenderDatagrams DEF Put
    <3>4. FileIsPrefix' /\ file' = NotWritten
      BY <3>1 DEF PeerInv, FileIsPrefix
    <3>5. QED
      BY <2>0, <3>1, <3>2, <3>3, <3>4 DEF PeerInv, MainLoop, NoHandshakeAck
  <2>3. CASE RecvHandshakeAck
    <3>1. PICK m \in InFlight(toReceiver) :
            /\ toReceiver' = Take(toReceiver, m)
            /\ \/ /\ IsHandshakeAck(m)
                  /\ rpc' = "main"
                  /\ received' = {}
               \/ rpc' = "dead"
      BY <2>3 DEF RecvHandshakeAck
    <3>2. /\ rpc = "estab_wait"
          /\ UNCHANGED <<numPackets, current_acked_index, file, toSender>>
      BY <2>3 DEF RecvHandshakeAck
    <3>3. /\ m \in ToReceiver /\ toReceiver[m] > 0
          /\ toReceiver' \in [ToReceiver -> 0..MaxCopies]
          /\ toReceiver'[m] = toReceiver[m] - 1
          /\ \A x \in ToReceiver : x # m => toReceiver'[x] = toReceiver[x]
      BY <1>0, <3>1, TakeTypes
    <3>4. \A q \in Index, p \in Payload : toReceiver'[Data(q, p)] > 0 => p = q
      <4> TAKE q \in Index, p \in Payload
      <4>1. Data(q, p) \in ToReceiver
        BY KindsDiffer
      <4>2. toReceiver'[Data(q, p)] > 0 => toReceiver[Data(q, p)] > 0
        BY <1>0, <3>3, <4>1
      <4>3. QED
        BY <4>2 DEF PeerInv
    <3>5. \A g, h \in Garbage :
            toReceiver'[HandshakeAck(g)] > 0 /\ toReceiver'[HandshakeAck(h)] > 0
              => g = h /\ toReceiver'[HandshakeAck(g)] = 1
      <4> TAKE g, h \in Garbage
      <4>1. /\ HandshakeAck(g) \in ToReceiver /\ HandshakeAck(h) \in ToReceiver
            /\ HandshakeAck(g) = HandshakeAck(h) => g = h
        BY KindsDiffer
      <4>2. /\ toReceiver'[HandshakeAck(g)] \in {toReceiver[HandshakeAck(g)], toReceiver[HandshakeAck(g)] - 1}
            /\ toReceiver'[HandshakeAck(h)] \in {toReceiver[HandshakeAck(h)], toReceiver[HandshakeAck(h)] - 1}
            /\ toReceiver[HandshakeAck(g)] \in Nat /\ toReceiver[HandshakeAck(h)] \in Nat
        BY <1>0, <3>3, <4>1
      <4>3. QED
        BY <4>2 DEF PeerInv
    <3>6. FileIsPrefix' /\ file' = NotWritten
      BY <3>2 DEF PeerInv, FileIsPrefix
    <3>7. NoHandshakeAck => NoHandshakeAck'
      BY <1>0, <3>3, KindsDiffer DEF NoHandshakeAck
    <3>8. CASE IsHandshakeAck(m) /\ rpc' = "main" /\ received' = {}
      <4>1. PICK g \in Garbage : m = HandshakeAck(g)
        BY <3>3, <3>8, ReceiverDatagrams DEF IsHandshakeAck
      <4>2. toReceiver[HandshakeAck(g)] = 1
        BY <3>3, <4>1 DEF PeerInv
      <4>3. toSender[SynAck(N)] = 0
        BY <1>0, <4>2, SenderDatagrams DEF PeerInv, NoHandshakeAck
      <4>4. NoHandshakeAck'
        <5> SUFFICES ASSUME NEW h \in Garbage PROVE toReceiver'[HandshakeAck(h)] = 0
          BY DEF NoHandshakeAck
        <5>1. CASE h = g
          BY <3>3, <4>1, <4>2, <5>1
        <5>2. CASE h # g
          <6>1. toReceiver[HandshakeAck(h)] = 0
            BY <1>0, <4>2, <5>2, KindsDiffer DEF PeerInv
          <6>2. QED
            BY <3>3, <4>1, <5>2, <6>1, KindsDiffer
        <5>3. QED
          BY <5>1, <5>2
      <4>5. QED
        BY <2>0, <3>2, <3>4, <3>5, <3>6, <3>8, <4>3, <4>4 DEF PeerInv, MainLoop
    <3>9. CASE rpc' = "dead"
      BY <2>0, <3>2, <3>4, <3>5, <3>6, <3>7, <3>9 DEF PeerInv, MainLoop
    <3>10. QED
      BY <3>1, <3>8, <3>9
  <2>4. ASSUME RecvData \/ RecvOutside
        PROVE  /\ rpc = "main" /\ rpc' \in {"main", "write", "dead"}
               /\ FileIsPrefix' /\ file' = NotWritten
               /\ toSender'[SynAck(N)] = 0 /\ NoHandshakeAck /\ NoHandshakeAck'
               /\ \A q \in Index, p \in Payload : toReceiver'[Data(q, p)] > 0 => p = q
    <3>1. PICK m \in InFlight(toReceiver) :
            /\ toReceiver' = Take(toReceiver, m)
            /\ \/ rpc' = "dead" /\ UNCHANGED toSender
               \/ \E R \in SUBSET Slots : received \subseteq R /\ Acknowledge(R)
      <4>1. received \subseteq Slots
        BY <1>0 DEF AckInv, ReceiverTypeOK
      <4>2. CASE RecvData
        <5>1. PICK m \in InFlight(toReceiver) :
                /\ toReceiver' = Take(toReceiver, m)
                /\ m.seq_num \in Slots
                /\ Acknowledge(received \cup {m.seq_num})
          BY <4>2 DEF RecvData
        <5>2. received \cup {m.seq_num} \in SUBSET Slots
          BY <4>1, <5>1
        <5>3. QED
          BY <5>1, <5>2
      <4>3. CASE RecvOutside
        BY <4>1, <4>3 DEF RecvOutside
      <4>4. QED
        BY <2>4, <4>2, <4>3
    <3>2. rpc = "main" /\ UNCHANGED <<numPackets, file>>
      BY <2>4 DEF RecvData, RecvOutside
    <3>3. toSender'[SynAck(N)] = toSender[SynAck(N)] /\ rpc' \in {"main", "write", "dead"}
      <4>1. CASE rpc' = "dead" /\ UNCHANGED toSender
        BY <4>1
      <4>2. CASE \E R \in SUBSET Slots : received \subseteq R /\ Acknowledge(R)
        BY <1>0, <3>2, <4>2, AcknowledgeKeepsAckInv
      <4>3. QED
        BY <3>1, <4>1, <4>2
    <3>4. toSender[SynAck(N)] = 0 /\ NoHandshakeAck /\ file = NotWritten
      BY <3>2 DEF PeerInv, MainLoop
    <3>5. FileIsPrefix'
      BY <3>2, <3>4 DEF FileIsPrefix
    <3>6. /\ toReceiver' \in [ToReceiver -> 0..MaxCopies]
          /\ \A x \in ToReceiver : toReceiver'[x] > 0 => toReceiver[x] > 0
      BY <1>0, <3>1, TakeTypes
    <3>7. NoHandshakeAck'
      BY <3>4, <3>6, KindsDiffer DEF NoHandshakeAck
    <3>8. \A q \in Index, p \in Payload : toReceiver'[Data(q, p)] > 0 => p = q
      BY <3>6, KindsDiffer DEF PeerInv
    <3>9. QED
      BY <3>2, <3>3, <3>4, <3>5, <3>7, <3>8
  <2>5. CASE RecvData
    <3>1. PICK m \in InFlight(toReceiver) :
            /\ m.seq_num \in Slots
            /\ slot' = [slot EXCEPT ![m.seq_num] = m.data]
            /\ Acknowledge(received \cup {m.seq_num})
      BY <2>5 DEF RecvData
    <3>2. m \in ToReceiver /\ toReceiver[m] > 0
      BY <1>0 DEF InFlight
    <3>3. NoHandshakeAck
      BY <2>4, <2>5
    <3>4. m # Syn /\ ~m.ACK_BIT
      <4>1. m # Syn
        BY <1>0, <2>4, <2>5, <3>1, <3>2, ReceiverDatagrams DEF Slots, AckInv, ReceiverTypeOK
      <4>2. \A g \in Garbage : m # HandshakeAck(g)
        BY <3>2, <3>3 DEF NoHandshakeAck
      <4>3. QED
        BY <3>2, <4>1, <4>2, ReceiverDatagrams
    <3>5. PICK q \in Index, p \in Payload : m = Data(q, p)
      BY <3>2, <3>4, ReceiverDatagrams
    <3>6. m.seq_num = q /\ m.data = q
      <4>1. p = q
        BY <3>2, <3>5 DEF PeerInv
      <4>2. QED
        BY <3>5, <4>1 DEF Data, Packet
    <3>7. received' = received \cup {q}
      BY <3>1, <3>6 DEF Acknowledge
    <3>8. \A i \in received' : slot'[i] = i
      <4>1. /\ \A i \in received : slot[i] = i
            /\ received \subseteq Slots /\ DOMAIN slot = Slots
        BY <1>0, <2>4, <2>5 DEF PeerInv, MainLoop, AckInv, ReceiverTypeOK
      <4>2. QED
        BY <3>1, <3>6, <3>7, <4>1
    <3>9. QED
      BY <2>0, <2>4, <2>5, <3>8 DEF PeerInv, MainLoop, NoHandshakeAck
  <2>6. CASE RecvOutside
    <3>1. UNCHANGED slot /\ received' = received
      BY <2>6 DEF RecvOutside, Acknowledge
    <3>2. QED
      BY <2>0, <2>4, <2>6, <3>1 DEF PeerInv, MainLoop, NoHandshakeAck
  <2>7. CASE WriteFile
    <3>1. /\ rpc = "write" /\ rpc' = "exited"
          /\ file' = IF CanOpen
                     THEN [i \in 0..FirstMissing(received, 0, numPackets)-1 |-> slot[i]]
                     ELSE NotWritten
          /\ UNCHANGED <<numPackets, received, slot, current_acked_index, channels>>
      BY <2>7 DEF WriteFile, channels
    <3>2. /\ current_acked_index \in 0..N /\ numPackets = N
          /\ 0..current_acked_index-1 \subseteq received
          /\ current_acked_index \notin received
      BY <1>0, <3>1 DEF AckInv, ReceiverTypeOK, AckIsFirstMissing
    <3>3. FirstMissing(received, 0, numPackets) = current_acked_index
      BY <1>0, <3>2, FirstMissingFromZero
    <3>4. \A i \in received : slot[i] = i
      BY <3>1 DEF PeerInv, MainLoop
    <3>5. [i \in 0..current_acked_index-1 |-> slot[i]] = [i \in 0..current_acked_index-1 |-> i]
      BY <3>2, <3>4
    <3>6. FileIsPrefix'
      BY <3>1, <3>3, <3>5 DEF FileIsPrefix
    <3>7. NoHandshakeAck' = NoHandshakeAck
      BY <3>1 DEF NoHandshakeAck, channels
    <3>8. QED
      BY <2>0, <3>1, <3>4, <3>6, <3>7 DEF PeerInv, MainLoop, channels
  <2>8. QED
    BY <1>3, <2>1, <2>2, <2>3, <2>5, <2>6, <2>7 DEF ReceiverNext
<1>4. QED
  BY <1>1, <1>2, <1>3 DEF ReceiverAloneNext

\* The receiver never leaves its types: it never acknowledges beyond the file,
\* nor indexes a record it has not allocated without the handler for that.
THEOREM ReceiverTypeCorrect == ReceiverSpec => []ReceiverTypeOK
<1>1. PeerInv => ReceiverTypeOK
  BY DEF PeerInv, AckInv
<1>2. QED
  BY <1>1, PeerInvInitially, PeerInvKept, PTL DEF ReceiverSpec

\* update_current_acked_index is at the first packet missing, for any number
\* of packets in any order of arrival: it never stops short of a hole filled.
THEOREM AcknowledgesFirstMissing == ReceiverSpec => []AckIsFirstMissing
<1>1. PeerInv => AckIsFirstMissing
  BY DEF PeerInv, AckInv
<1>2. QED
  BY <1>1, PeerInvInitially, PeerInvKept, PTL DEF ReceiverSpec

\* An ACK of send_ack, however late it is delivered, is never ahead of what
\* has been received.
THEOREM AcknowledgesWhatItHolds == ReceiverSpec => []AcksAreTrue
<1>1. PeerInv => AcksAreTrue
  BY DEF PeerInv, AckInv
<1>2. QED
  BY <1>1, PeerInvInitially, PeerInvKept, PTL DEF ReceiverSpec

\* What a peer that numbers its packets has sent is written unaltered, as far
\* as the first packet missing.
THEOREM WritesAPrefix == ReceiverSpec => []FileIsPrefix
<1>1. PeerInv => FileIsPrefix
  BY DEF PeerInv
<1>2. QED
  BY <1>1, PeerInvInitially, PeerInvKept, PTL DEF ReceiverSpec
=============================================================================
