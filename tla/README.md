# A TLA+ development of ECE438's machine problems

This directory models the network programs in `src/mp`: the HTTP server and
client (mp1), the reliable file transfer over UDP (mp2), the two routing
programs (mp3) and the CSMA simulator (mp4). TLC checks the models on small
instances, and TLAPS proves what matters most for every instance. Paths below
are relative to the repository's root; `mp0/`, `mp1/`, `mp2/`, `mp3/`, `mp4/`
stand for `src/mp/mp0/mp0/`, `src/mp/mp1/mp1/`, `src/mp/mp2/mp2/`,
`src/mp/mp3/mp3/` and `src/mp/mp4/mp4/mp4/`.

## 1. Inventory

| Component | Source | State it keeps | Operations | What is hard |
|---|---|---|---|---|
| File sender | `mp2/src/sender_main.cpp` | `packets_state_array`, the window `cwnd_start..cwnd_end`, `cwnd`, `ssthresh`, `dupACKcount`, the congestion state | handshake, `transmit_new`, `retransmit`, `congestion_control`, the `select` loop | late and repeated ACKs, a timeout racing an ACK, windows that outgrow the array, integer division of windows |
| File receiver | `mp2/src/receiver_main.cpp` | `packets_state_array`, `current_acked_index`, `numPackets` | handshake, `update_current_acked_index`, `send_ack`, `write_file_to_local` | datagrams in any order, exit on the last packet, unchecked indices |
| File transfer | both, and the UDP network | datagrams in flight | the two programs, loss, reordering, repetition | a handshake without timeouts, the last ACK lost |
| RTT estimator | `mp2/src/sender_main.cpp` (`update_RTT`) | three `int` estimates | one update per ACK | truncation, overflow |
| Distance-vector routing | `mp3/src/distvec.cpp` | the graph, a vector for each node | `updateDistanceVectors` in a random order, `apply_changes`, the two print functions | vectors of two rounds mixed, ties, termination |
| Link-state routing | `mp3/src/linkstate.cpp` | the graph, a result for each node and start | `dijkstra` with stale queue entries, `apply_changes`, printing | out-of-date entries, copied paths, ties |
| CSMA simulator | `mp4/src/csma.cpp` | a countdown and a gear for each node, the channel, `engaged_nodes_id` | one clock tick | state that survives a collision, order within a tick |
| HTTP server | `mp1/src/http_server.c` | the listening socket, the connection in hand, its children | accept, fork and close; one request and one response in each child; a signal handler | children that exit together, descriptors held by two processes, a request cut in two |
| HTTP client | `mp1/src/http_client.c` | the connection, `header_found`, the file `output` | one request, then `recv` until the stream ends | a stream cut anywhere, the blank line above all |
| Demonstrations | `mp0/src` | `server.c`: as the HTTP server | one `send`, one `recv` | the accept loop only |
| C stubs of mp2 | `mp2/src/*.c` | none | empty functions | nothing |

The mp1 programs interact through TCP connections, the processes of the server
through inherited descriptors and SIGCHLD. The mp2 programs interact through
UDP datagrams only. `main` of each mp3
program calls its components in sequence; the two share no state. Everything in
mp4 is one loop. No program of the repository creates a thread: concurrency
comes from processes, a network and a signal handler, and from orders the code
leaves open (`std::shuffle`, hash tables).

What makes each component correct:

* Receiver: it acknowledges exactly the prefix it holds, and writes exactly
  what was sent.
* Sender: it stops only when everything is acknowledged; the packets sent stay
  a prefix; its congestion control never gets into a state it cannot leave.
* Transfer: done means delivered, and a file that is sent arrives.
* Routing: shortest distances, next hops that lead to the destination, ties as
  the assignment says, and an end to the computation.
* RTT estimator: a timeout that covers the round trip and that `select` takes.
* HTTP: a client ends up with the file it asked for, whatever the others do;
  nobody waits for another client; no child remains a zombie.
* CSMA: one sender at a time, whole packets counted, collisions resolved.

The hazards behind these, each with its line, are listed under `hazards` in
`PROJECT.json`.

## 2. Modules

```
TcpConnections     the TCP connections of mp1
  ForkServer         the accept loop of http_server.c and mp0's server.c
    HttpServer         the children of http_server.c
  HttpClient         http_client.c
  HttpTransfer       clients and server        MCHttp, HttpProofs
UdpWire            datagrams and network of mp2
  ReliableReceiver   receiver_main.cpp         MCReceiver, ReliableReceiverProofs
  ReliableSender     sender_main.cpp           MCSender
  ReliableTransfer   both, and the network     MCTransfer, ReliableTransferProofs
    FileTransfer       what a transfer promises (abstract)
RttEstimator       update_RTT of sender_main.cpp   MCRtt, RttProofs
Topology           the graph of mp3, its changes, its shortest paths
  DistVec            distvec.cpp               MCDistVec, DistVecProofs
  LinkState          linkstate.cpp             MCLinkState, LinkStateProofs
  MCTopology         graphs and changes for TLC
Csma               csma.cpp                    MCCsma, CsmaProofs
TopologyProofs     graphs, changes, ways and shortest paths, for both routing proofs
```

`MC*` modules only give constants their values. A definition whose comment
starts "Mutant of" is a slip the code could have made; it is used nowhere in
the model, and replaces its original to test that a property notices.

### TcpConnections, ForkServer, HttpServer, HttpClient, HttpTransfer

One connection per client. `reply` is the whole stream the server will write,
`sent` how much of it has been written and `got` how much has been read, so
what is under way is the part between the two. `open` says which processes hold
the server's end: the client sees the end of the stream when none does. `CloseBy`
models what TCP adds: the last close with part of the request unread resets the
connection, and what was not yet read may be lost. A status line, `"\r\n"`, a zero
byte and any other byte are one token each.

| Action | Code |
|---|---|
| `Accept`, `Fork`, `ForkFails`, `CloseNewFd` | the loop of the server's `main`; `ppc` is its place |
| `EnterHandler`, `Reap`, `LeaveHandler` | `sigchld_handler`: `main` stands still while it runs, `sigchld` is one pending signal whatever the number of exits |
| `RecvRequest` | the child's one `recv`, `sscanf` and `fopen`; for a client in `Cuttable` the `recv` may return part of the request |
| `Send`, `FinishReply` | its `send`s, which block when the connection is full, and its `close` (`ChildCloses`) |
| `ServeNobody` | the same for a client that died |
| `ChildExits` | its `exit`, which raises SIGCHLD: the client may see the end of the stream before |
| `Connect`, `SendRequest` | the client up to its request |
| `Recv` | one turn of its loop, with `WriteAll`, `WriteTail` or `Skip` for the three ways through it |
| `RecvEnd`, `ClientStops` | its end, and its death at any moment |

`BlankLines` is what `strstr` can find: it stops at a zero byte. `cut` is a
history variable: a `recv` ended between the two newlines that end the header.
(A `recv` that ends inside one of the two `"\r\n"` has the same effect.)

### RttEstimator

`Sample` is one new ACK of a packet sent once: `calculateRTT`, then
`update_RTT`, in ints of the width of `INT_MAX`; the doubles are exact for
multiples of 1/8. After a negative `TimeoutInterval` every `select` fails, so
no ACK is read again. `ReliableSender` abstracts from the interval: there
`select` may time out at any moment. `longest` and `setBack` are history
variables.

### ReliableReceiver

`rpc` is the place of `reliablyReceive`: `sync` (waiting for the SYN),
`estab_send`, `estab_wait` (the two halves of `while(!ESTAB)`), `main` (the loop
until CLOSED), `write`, `exited`; `dead` stands for `diep` and for a fault.
`packets_state_array` is split into `received` (which records are marked) and
`slot` (the data in them). Each action is the code from one `recvfrom` to the
next.

| Action | Code |
|---|---|
| `RecvSyn` | `while(!SYNC_RECV)` |
| `SendSynAck`, `RecvHandshakeAck` | `while(!ESTAB)` and the clearing of the records |
| `RecvData` | `while(!CLOSED)`, with `update_current_acked_index` and `send_ack` |
| `RecvOutside` | the same with a `seq_num` outside the vector: undefined behaviour, so either a fault or a store elsewhere |
| `WriteFile` | `write_file_to_local` |

### ReliableSender

`spc` is the place of `reliablyTransfer`. The globals keep their names;
`packet_state` is the state of each record. `newest_seq_num` is initialised to
-1 and never assigned, so it is a constant. `RecvAck` is the whole handler of a
datagram, `congestion_control` and the calls of `transmit_new` included, one
operator per branch of its switch; `Timeout` is the other return of `select`.
Two pieces of undefined behaviour are parameters: the uninitialised
`si_recvfrom_len` (`AddrLen`: the address fits, is truncated, or the call
fails), and how far the heap after `packets_state_array` can be read (`Slack`).
The third, the uninitialised `seq_num` of the handshake's ACK, is `Garbage`.

### ReliableTransfer, FileTransfer

Both programs and `Network`, which loses, reorders and, where `Duplication` is
set, repeats datagrams. `FileTransfer` is the abstract promise: the receiver
comes to hold the whole file; only then may the sender be satisfied, and only
then is a file written, which is the whole file. `KeepsPromise` is that
specification with the detailed state substituted. `Stranded` is a sender that
has missed the last ACK of a receiver that is gone.

### DistVec, LinkState, Topology

A graph is a function from nodes to rows, as the `unordered_map` of
`unordered_map`s is; `Assigned` models that `[]` creates a key, so breaking a
link of an unknown node creates the node.
`DistVec` visits nodes and neighbours in any order, as `std::shuffle` does;
`VisitNode` and `VisitNeighbor` are the two outer loops, `EndRound` is the `do
... while` around them. The loop over destinations is one step: it reads the
neighbour's row and writes the node's own. `PrintTables` prints and changes
nothing; what is printed is `TopologyEntries` (`print_topology_entries`: which
destinations are left out, which next hop is written) and `Hops` (the loop of
`print_message_paths`), and the properties are about these.
`LinkState` takes one queue entry per step: `SkipStale` for one that is out of
date, `Visit` for the others. Relaxing the neighbours is one step, since each
relaxation writes that neighbour's record only. Here `TopologyEntries` writes
the second node of the path as the next hop. Costs are assumed to add up to
less than `INT_MAX`; `INT_MAX` itself, "no way known", is modelled as the code
uses it.

### Csma

One action is one tick, with the branch it takes: `Collide`, `Transmit` or
`CountDown`. What the first half of the tick does to `engaged_nodes_id` and the
reload flags is in `Sensed` and `MustReload`. The new draw made in that half
works on a copy of the node (`csma.cpp:147`) and is lost, so it is not in the
model.

## 3. What the runs show

| Run | States | What it shows |
|---|---|---|
| `http` | 1,298,612 | A reader and an idler who may stop at any moment, streams cut at any place, exits and signals in any order: no child stays a zombie, what is written is one end of the stream, it is the file if and only if no `recv` ended in the header's blank line, and the reader never waits for the idler. |
| `rtt` | 80,439 | The timeout covers the round trip in spite of truncation, and without overflow or a clock set back it is one that `select` accepts. |
| `receiver` | 1,088 | Four packets, two copies each, with any number in the handshake's ACK and a SYN delivered twice: ACKs are cumulative and true, the file written is a prefix. |
| `receiver_out_of_order` | violated | The last packet closes the receiver, whatever is missing: the file is cut short. |
| `sender` | 11,618 | Three packets, any ACKs a cumulative receiver can send, repeated at will: slow start always ends, duplicates always count, no gap is left, retransmission stays in the array; and what an empty window does: no ACK moves it on. |
| `transfer_one` | 134 | A file of one packet: the composition implements `FileTransfer`; once the receiver is in its main loop the file is written, and nothing it stores lies outside its vector; a sender whose last ACK is lost never returns. |
| `transfer_long` | 1,943,125 | Two packets over a network that also repeats: both sides agree on the handshake, and the file is never finished, lost datagrams or not, even when a late copy of the handshake's ACK is stored as a packet: every packet is numbered 0. |
| `transfer_lossy` | violated | One datagram of the handshake lost, and both programs wait for ever. |
| `csma` | 10,200 | 600 input files for 16 ticks: one sender at a time, whole packets; what a collision (the channel is jammed for good) and a draw of 0 lead to. |
| `distvec` | 96,801 | Every order of the rounds, before and after changes: the tables printed are the shortest, with the smallest next hop; the hops printed lead to the destination; no loop at any moment, and an end. |
| `linkstate` | 4,727 | Shortest distances and their next hops in the tables printed, paths that add up to them, visited nodes final, and which of two equal paths is printed. |
| `linkstate_tie` | violated | It is not always the one the assignment asks for. |

The three violated runs are `findings` in `PROJECT.json`; each quotes the
sentence it contradicts. Six more findings are shown by properties that hold:
they say what the code does where the assignments, or the code's own comments,
say otherwise. That such a property passes does not mean that the code is right.

| Property | What it shows | What is said |
|---|---|---|
| `LongFileNeverDone` | Every data packet is numbered 0: a file of two packets is never transferred. | `sender_main.cpp:354` |
| `StrandedForEver` | The last ACK is sent once. Lost, it leaves the sender retransmitting for ever. | `sender_main.cpp:354`, MP2.pdf |
| `EmptyWindowStalls` | With `cwnd` at 0 the sender sends nothing new, and the next ACK kills it. | `sender_main.cpp:354` |
| `CollisionJamsChannel` | Nodes that collide never draw again. | MP4.pdf |
| `MissedZeroStarves` | A node that draws 0 again is counted past it and never transmits. | `csma.cpp:93` |
| `DownloadIsFileUnlessCut` | A download whose `recv` ended in the header's blank line is not the file. | MP1.pdf |

### Bounds, and why they are enough

* HTTP: the files are of two and three tokens behind a header of three, with a
  zero byte, a blank line and a newline at the very front; `MAXDATASIZE` - 1 = 3
  tokens fit in one `recv`, so a header and a body are read in one to six pieces,
  and `Window` = 3 makes a child block before its reply is out. Two clients are
  enough for two children that exit during one run of the handler. The reader's
  request may be cut; the idler's file is too long for the connection.
* RTT: 9-bit ints, with durations just below, at and above the limits that the
  properties name, and negative ones.
* `N` packets: 4 for the receiver (a hole at the front, in the middle and
  before the last packet, all at once), 3 for the sender, 2 for the
  composition (the smallest file that is not numbered correctly), 1 where the
  file does arrive.
* `MaxCopies`, copies of one datagram in flight: 2 or 3 give a late copy after
  its first. A `sendto` beyond them is a datagram the network drops, which the
  lossy network may do anyway.
* `MaxCwnd`: ACKs that would let `cwnd` grow further are not taken. It is large
  enough for three duplicate ACKs in a row, fast recovery (`cwnd` is then up to
  `cwnd/2 + 3`) and a window beyond the array.
* `Slack`: how many records are readable after the array, 1 or 2, so faults
  happen.
* Garbage: for the receiver alone a number inside the array, one below it and
  the one just past it; in `transfer_long` one inside it, so that the handshake's
  ACK can be stored as a packet. A garbage of N - 1, with which a copy of that
  ACK could close the receiver, is what `LongFileNeverDone` leaves out.
* Graphs: all of three nodes with costs 1 to 3, rings of four with costs 1 and
  2, and a ring with a chord of cost 3 (equal ways round, and a long way made
  shorter late). Changes make, change and break a link, in any order and
  number, and one names an unknown node.
* CSMA: `T` = 16 ticks, ranges up to 5 and packets up to 3, so that a node
  counts down, transmits and draws again several times.

### Fairness

* `ReliableTransfer`: each program runs on, so a step that waits for nothing
  is weakly fair, as is the timeout of a `select` that keeps waiting. A program
  that finds a datagram of the main loop waiting again and again reads one in
  the end (strong fairness): the sender repeats those datagrams until they are
  answered, and a network that lets nothing through for ever is no network.
  Nothing is assumed of handshake datagrams, which nobody repeats.
* `HttpTransfer`: `main` of the server, each child and the handler run on (weak
  fairness), signals are delivered, and a client in `Diligent` keeps calling
  `recv`. The others may stop reading or die at any moment.
* `DistVec`: weak fairness of the program's next step; it runs alone, and its
  changes file ends.
* The other models state no liveness.

`CHECK_DEADLOCK FALSE` is set where the programs really stop: at their end,
dead, or blocked in an `accept` or a `recvfrom` that has no timeout.

## 4. What is proved

Every invariant and every safety action property that a run checks is proved
here for every value of the constants, and so is the refinement of
`FileTransfer`. The assumptions are the named ones of the modules only
(`NAssumption`, `GarbageAssumption`, `MaxCopiesAssumption` and their like for
the sender; `TopologiesAssumption`, `ChangesAssumption`; `IntMaxAssumption`,
`DurationsAssumption`; `InputsAssumption` of the simulator;
for mp1 `WishesAssumption`, `WindowAssumption`, `NobodyAssumption`,
`TokensAssumption`, `FilesAssumption`, `MaxDataSizeAssumption`). Where a theorem
needs more, its hypothesis is in its statement.

### HttpProofs

`HttpTypeCorrect`, `AllChildrenReaped`, `OutputIsAlwaysTail`,
`DownloadsAreFiles`, for any number of clients, any files and any sizes of the
buffers. Four invariants, each with the ones before it:

* `LoopInv`: the parent holds the connection it has in hand and no other, a
  child its own, and the kernel alone holds those in the backlog, each of which
  waits there once. The last part is what makes it inductive: a connection that
  waited twice would be taken from the child that serves it.
* `StreamInv`: what was read was written, what was written belongs to the
  reply, and no more is under way than fits. A close may lose what was not read
  (`SentAfterClose`), and only while the request is unread.
* `TailInv`: the blank line found ends at the header's third token exactly if
  `recv` never ended at the second (`HeaderFoundUnlessCut`), else behind it
  (`BlankLineBehindHeader`); the output is all that was read since, because each
  piece continues the last.
* `DownloadInv`: a reply to a request read whole is the one for the path asked
  for, all of it was written before the child closed, and a client that is done
  has read all of it. With `TailInv` and the shape of a reply (`ResponseShape`)
  the output is the file or, if the header was cut, shorter than it.

### RttProofs

`TimeoutCovers`, `TimeoutStaysUsable`, for ints of every width. With L the
longest duration so far: while 9 L fits in an int, both estimates stay within L
and 2 L, so nothing wraps; the four deviations in the timeout are at least the
distance to the sample less 3, since truncation towards zero takes less than 1
of each quarter. If no duration was negative, 5 L is bound enough.

### ReliableReceiverProofs

`ReceiverTypeCorrect`, `AcknowledgesFirstMissing`, `AcknowledgesWhatItHolds`,
`WritesAPrefix`. The argument has two layers.

* `AckInv` holds whatever datagrams arrive: `current_acked_index` is the first
  record missing, and an ACK in flight names only packets that are held. The
  scan of `update_current_acked_index` resumes where it stopped, so the proof
  needs that everything below that point is already received; ACKs in flight
  are true because `received` only grows.
* `PeerInv` adds what the file needs: data packets in flight carry their own
  number, and the one ACK of the handshake, whose `seq_num` is anything, is
  consumed before the main loop begins. Without that conjunct the property is
  not inductive: the stray ACK would be stored as a packet.

### ReliableTransferProofs

The sender alone (`SenderTypeCorrect`, `DuplicatesAlwaysCount`,
`SlowStartEnds`, `SentIsPrefix`, `RetransmitsARecord`, `EmptyWindowsStall`), then
against the receiver (`TransferTypeCorrect`, `DoneOnlyWhenHeld`,
`HandshakesAgree`, `TransferAcknowledgesWhatItHolds`,
`TransferControlsCongestion`, `TransferRetransmitsARecord`, `StoresStayInVector`,
`StrandedSendersStay`, `WholeFileOrNone`, `LongFileStaysUndone`), and
`TransferKeepsPromise`. `NewAckEffect` and its like say once what each handler
does to the records and the window; the invariants share them.

* `CongestionInv` holds whatever is received: the types, `DuplicatesStillCount`
  and `SlowStartBelowThreshold`. What the types need is two bounds that fast
  recovery hands to each other: outside it `cwnd` exceeds `MaxCwnd` by one at
  most, inside it `ssthresh` does, which `cwnd` takes over at its end.
* `WindowInv` and `SentInv`: the window starts inside the array, or behind it
  with the last packet acknowledged, and what precedes it is sent. Both need
  that no SYN-ACK is read in the main loop, where its number N would move the
  window beyond the array. Alone the sender's handshake is one datagram that
  goes to and fro (`OneHandshake`); in the composition it is `HandshakeOnce`,
  for a network that does not repeat. With repetition only the congestion
  invariants are claimed of the composition.
* `TransferInv` ties the two programs: a record marked acked is of a packet the
  receiver holds, with all before it (`AckedIsHeld`, from the receiver's
  `AckInv`), and until a SYN is answered nothing is under way to the sender
  (`HandshakeOrder`). `DoneMeansHeld` and `HandshakeAgrees` follow, repeated
  datagrams or not.
* `EmptyWindowInv` says where an empty window can occur: in congestion
  avoidance, with no packet between its ends. `EmptyWindowsStall` is then a look
  at each branch of `congestion_control`.
* `LastIsMissing` is why a long file is never done: nothing on the way to the
  receiver is numbered N - 1, so its last record is never marked, whatever
  strays into the others. It needs only that the handshake's ACK is not numbered
  so, or is not repeated.
* `SynOnce` follows the one SYN of a network that does not repeat: it is under
  way, or the receiver has left its first loop, and no other number is past the
  vector. `StoresInVector` follows.
* `CleanInv` is about what is stored in the other records as well: no handshake
  ACK is stored as a packet. It needs `NothingStray`: nothing is repeated, or
  the file is long and the garbage in the handshake ACK numbers no packet of it.
  This is a real condition, not a convenience: a repeated handshake ACK whose
  garbage is 0 is stored as the file's first packet.

`TransferKeepsPromise` is the refinement under `NothingStray`: `StepKeepsPromise`
shows that each step is `Hold`, `Write` or `Satisfy` of `FileTransfer`, or none of
it, with `DoneMeansHeld` for the guard of `Satisfy` and `CleanInv` for that of
`Write`.

### CsmaProofs

`CsmaTypeCorrect`, `BusyHasOneSender`, `EngagedNeverOverflows`,
`UtilizationCountsPackets`, `CollisionIsForEver`, `MissedZeroIsForEver`, for any
input file: any number of nodes, any gears, ranges and packets.

`CsmaInv` says which states the channel can be in: free with nobody engaged and
nobody to draw again, busy with the job of the one node engaged, or jammed, with
all who collided at 0 and nobody else ready. The last part is what makes the
rest inductive: a jammed channel engages nobody new, so `engaged_nodes_id`
cannot outgrow its array although nothing clears it. `WholePackets` is the
count in the utilisation as a multiple of L and what the job has had. The
loop over the nodes is a recursive function (`Joined`); that it computes
anything (`JoinedExists`), and which nodes it finds (`Found`), is shown by
looking at the least turn at which it would not.

### DistVecProofs

`DistVecTypeCorrect`, `NeverLoops`, `EndsSettled`, `PrintsTheBest`,
`PrintsShortestTable`, `MessagesGetThrough`. The inductive invariant `DistVecInv` has, besides the types:

* `NextHopIsNearer`: an entry is never smaller than the link to its next hop
  plus what that hop says now. Updates in place only lower entries, so it
  survives any mixture of rounds.
* `RoundInv`: in a round that has changed nothing so far, no neighbour already
  looked at offers anything better; since no vector has changed, none does now.
  It is what makes a quiet round a proof that all is settled.
* `WaysInv`: a node's distance to itself is 0, and "unknown" has no next hop,
  which is why an equal way over an unknown entry is never taken.

`NoWayIsCheaper` walks along any way, of any length, from its end: where
all is settled the way costs at least what the vectors say. Together with
`NextHopIsNearer` this gives `PrintsBestWays`: the distance printed is the
least, the next hop printed achieves it and is the smallest that does.
A settled table is also the one defined by recursion (`SettledIsShortest`,
below), which gives `TableIsShortest`. `MessagesArrive` follows the next hops:
each is nearer to the destination, so fewer nodes are left that are nearer
still, and after as many hops as there are nodes the message is there.

### LinkStateProofs

`LinkStateTypeCorrect`, `NeverRevisits`, `PrintsTheShortest`, `PathsAreWays`,
`TiesGoToNearest`, `PrintsShortestDistances`. A node is
`Visited` when the entry with its distance has come up; entries out of date do
not matter, since they are nobody's distance (`SkipStaleKept`). The loop's
invariant `DijkstraInv` says

* of every visited node that nothing is left to gain over it, and that the
  queue holds nothing nearer than it. An entry that comes up is then no nearer
  than anything visited, and as links cost at least 1, `Visit` only improves
  nodes that are not visited (`VisitSeen`): this is `VisitedIsFinal`.
* of every node reached that its path leads there at its distance. It survives
  because a path is continued by value (`LeadsFarther`), and because the record
  it is continued from is final.

When the queue is empty every node reached is visited, so what `EndRun` keeps is
`IsSettledFrom` its start, and by `NoWayIsCheaper` no way of any length is
cheaper: `PrintsShortestPaths`, and `DistancesAreShortest` by
`SettledIsShortest`. `FirstHopIsBest` is about the next hop printed: what is left
of a path behind it is a way as well, so no cheaper than the distance from it.
`CostOfWay` turns what the invariant says of a path, one
link at a time, into the sum `PathCost` (`PathsMatchDistances`).

`TieInv` says which of several shortest paths is kept. Entries come up by
distance and then by number, so those still in the queue come after every node
visited, and only a strictly shorter path replaces one: the path kept goes over
the visited node that came up first of those that offer its distance. What a
run leaves behind says the same of all nodes reached: `TieGoesToNearest`.

### TopologyProofs

`ChangedIsTopology`: a changed graph has links with two ends of the same cost
again. `IsWay` is what both proofs mean by a way.

`Shortest` is defined by how many links a path may have. `IterationExists` and
`ShortestExists` show that the recursion computes what it says. A table that is
settled, and whose entries are achieved, agrees with it (`SettledIsShortest`):
it is a lower bound for every number of links, and the number of links it takes
to reach an entry is at most the number of nodes nearer than it. It uses that
distances are the same both ways (`ShortestIsSymmetric`), which splits a way at
its last link (`LastLink`) instead of its first.

### Only model-checked

Liveness: `RoundsEnd`, `EstablishedDelivers`, `EveryDownloadEnds`. Fairness and
`ENABLED` are beyond the prover. So is induction over a definition; where a
proof needs it, it looks at the least counterexample instead (`NatLeast` of
`TopologyProofs`, `LeastOf` of `CsmaProofs`), as for `Shortest`, `PathCost`,
`Hops` and `Joined`.

What is not claimed: of the composition with a network that repeats,
`WrittenIsWholeFile` (a theorem that no run checks), `RetransmitInArray`,
`StoresInVector` and the refinement hold only under the hypotheses above; `receiver_out_of_order`, `transfer_lossy` and `linkstate_tie`
show what fails.

## 5. Not modelled

* mp0 but for the loop of `server.c`: programs of one `send` or one `recv` that
  keep no state. The C stubs of mp2 have no code.
* In mp1: the text of requests and replies, the address lookup and `parse_url`;
  what `sscanf` does to a request longer than its arrays; a request of a foreign
  client. Two clients that write the same `output` are two directories here.
* In the models: datagrams of another size than a packet, files of no packets
  (the sender then looks at record -1), datagrams of a third host, malformed
  topology and changes files, and the layout of all output.

## 6. Plan

1. Done: receiver, sender, transfer, routing, CSMA, HTTP, the RTT estimator,
   with their runs; proofs of every safety property the runs check.
2. Left to prove: that both routing programs implement one abstract
   specification (after each change, the shortest table), and so print the same
   distances; an abstract download (asked for, then complete or cut) implemented
   by `HttpTransfer`.
3. Left to model: the sender with a receiver that numbers packets correctly, as
   the composition the wire format was meant for.
