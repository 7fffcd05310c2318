----------------------------- MODULE HttpProofs -----------------------------
(***************************************************************************)
(* Theorems about mp1's server and client, for any number of clients, any  *)
(* files and any sizes of the connections' and the client's buffers.       *)
(***************************************************************************)
EXTENDS HttpTransfer, SequenceTheorems, WellFoundedInduction, TLAPS

----------------------------------------------------------------------------
\* Replies.

LEMMA HeaderTypes ==
  ASSUME NEW status \in Statuses
  PROVE  /\ Header(status) \in Seq(Tokens) /\ Len(Header(status)) = 3
         /\ Header(status)[1] = status
         /\ Header(status)[2] = Nl /\ Header(status)[3] = Nl
BY DEF Header, Tokens

\* A reply is a header of three tokens and the body that belongs to it.
Shape(r, body) ==
  /\ r \in Seq(Tokens) /\ Len(r) >= 3
  /\ r[1] \in Statuses /\ r[2] = Nl /\ r[3] = Nl
  /\ SubSeq(r, 4, Len(r)) = body
  /\ Len(body) = Len(r) - 3

LEMMA HeaderShape ==
  ASSUME NEW status \in Statuses
  PROVE  Shape(Header(status), <<>>)
<1>1. SubSeq(Header(status), 4, 3) = <<>>
  BY HeaderTypes, SubSeqEmpty
<1>2. Len(Header(status)) = 3 /\ Len(<<>>) = 0
  BY HeaderTypes
<1>3. QED
  BY <1>1, <1>2, HeaderTypes DEF Shape

LEMMA ResponseShape ==
  ASSUME NEW name \in Names
  PROVE  Shape(Response(name), Body(name))
<1>1. CASE name \in DOMAIN Files
  <2> DEFINE h == Header("200 OK")
             f == Files[name]
             r == h \o f
  <2>1. /\ h \in Seq(Tokens) /\ Len(h) = 3
        /\ h[1] \in Statuses /\ h[2] = Nl /\ h[3] = Nl
    BY HeaderTypes DEF Statuses
  <2>2. f \in Seq(Tokens)
    <3>1. f \in Seq(Bytes)
      BY <1>1, FilesAssumption
    <3>2. QED
      BY <3>1, SeqMonotonic DEF Tokens
  <2> HIDE DEF h, f
  <2>3. /\ r \in Seq(Tokens) /\ Len(r) = 3 + Len(f) /\ Len(f) \in Nat
        /\ r[1] = h[1] /\ r[2] = h[2] /\ r[3] = h[3]
    <3>1. /\ r \in Seq(Tokens) /\ Len(r) = Len(h) + Len(f)
          /\ \A i \in 1..Len(h) + Len(f) :
               r[i] = IF i <= Len(h) THEN h[i] ELSE f[i - Len(h)]
      BY <2>1, <2>2, ConcatProperties
    <3>2. Len(f) \in Nat
      BY <2>2, LenProperties
    <3> HIDE DEF r
    <3>3. QED
      BY <2>1, <3>1, <3>2
  <2>4. SubSeq(r, 4, Len(r)) = f
    <3>1. CASE f = <<>>
      BY <2>1, <2>2, <2>3, <3>1, SubSeqEmpty
    <3>2. CASE f # <<>>
      <4>1. Len(f) >= 1
        BY <2>2, <3>2, EmptySeq
      <4>2. SubSeq(r, 4, Len(r)) = SubSeq(f, 1, Len(f))
        BY <2>1, <2>2, <2>3, <4>1, SubSeqOfConcat2
      <4>3. QED
        BY <2>2, <4>2, SubSeqFull
    <3>3. QED
      BY <3>1, <3>2
  <2>5. Response(name) = r /\ Body(name) = f
    BY <1>1 DEF Response, Body, h, f
  <2>6. QED
    BY <2>1, <2>3, <2>4, <2>5 DEF Shape
<1>2. CASE name \notin DOMAIN Files
  <2>1. \E status \in Statuses : Response(name) = Header(status)
    BY <1>2 DEF Response, Statuses
  <2>2. Body(name) = <<>>
    BY <1>2 DEF Body
  <2>3. QED
    BY <2>1, <2>2, HeaderShape
<1>3. QED
  BY <1>1, <1>2

LEMMA ReplyShape ==
  ASSUME NEW r \in ResponseToPart
  PROVE  /\ r \in Seq(Tokens) /\ Len(r) >= 3 /\ r # <<>>
         /\ r[1] \notin {Nl, Nul} /\ r[2] = Nl /\ r[3] = Nl
<1>1. \E body : Shape(r, body)
  <2>1. "400 Bad Request" \in Statuses
    BY DEF Statuses
  <2>2. QED
    BY <2>1, HeaderShape, ResponseShape DEF ResponseToPart
<1>2. QED
  BY <1>1, TokensAssumption, EmptySeq DEF Shape

----------------------------------------------------------------------------
\* The loop of main.  Its invariant says who holds which connection: the
\* parent the one it has in hand, a child its own, and the kernel alone those
\* in the backlog, each of which waits there once; so none is accepted twice.
LoopTypes ==
  /\ ppc \in {"accept", "fork", "close"}
  /\ new_fd \in IF ppc = "accept" THEN {Nobody} ELSE Clients
  /\ process \in [Clients -> {"none", "running", "exiting", "zombie", "reaped"}]
  /\ sigchld \in BOOLEAN /\ handling \in BOOLEAN
  /\ open \in [Clients -> SUBSET {"kernel", "parent", "child"}]
  /\ backlog \in Seq(Clients)

Held(c) ==
  /\ "parent" \in open[c] <=> new_fd = c
  /\ "child" \in open[c] <=> process[c] = "running"
  /\ hpc[c] = "connect" => open[c] = {}

Waits ==
  /\ \A i \in 1..Len(backlog) : backlog[i] \in Clients /\ open[backlog[i]] = {"kernel"}
  /\ \A i, j \in 1..Len(backlog) : backlog[i] = backlog[j] => i = j

HpcTypeOK == hpc \in [Clients -> {"connect", "request", "recv", "done", "stopped"}]

LoopInv == LoopTypes /\ (\A c \in Clients : Held(c)) /\ Waits

LEMMA LoopInitially == HttpInit => LoopInv
<1> SUFFICES ASSUME HttpInit PROVE LoopInv
  OBVIOUS
<1>1. /\ backlog = <<>> /\ open = [c \in Clients |-> {}]
      /\ ppc = "accept" /\ new_fd = Nobody /\ process = [c \in Clients |-> "none"]
      /\ sigchld = FALSE /\ handling = FALSE
  BY DEF HttpInit, TcpInit, ForkInit
<1>2. LoopTypes
  <2>1. backlog \in Seq(Clients)
    BY <1>1, EmptySeq
  <2>2. QED
    BY <1>1, <2>1 DEF LoopTypes
<1>3. ASSUME NEW c \in Clients PROVE Held(c)
  BY <1>1, NobodyAssumption DEF Held
<1>4. Waits
  BY <1>1 DEF Waits
<1>5. QED
  BY <1>2, <1>3, <1>4 DEF LoopInv

\* accept takes the first connection of the backlog from the kernel.
LEMMA AcceptKeepsLoop ==
  ASSUME LoopInv, Accept, UNCHANGED hpc
  PROVE  LoopInv'
<1> DEFINE h == Head(backlog)
<1>1. backlog \in Seq(Clients) /\ backlog # <<>> /\ backlog' = Tail(backlog)
  BY DEF LoopInv, LoopTypes, Accept
<1>2. /\ h \in Clients /\ h = backlog[1] /\ 1 \in 1..Len(backlog)
      /\ backlog' \in Seq(Clients) /\ Len(backlog') = Len(backlog) - 1
      /\ Len(backlog) \in Nat
      /\ \A i \in 1..Len(backlog') : backlog'[i] = backlog[i+1] /\ i + 1 \in 1..Len(backlog)
  BY <1>1, HeadTailProperties, EmptySeq, LenProperties
<1>3. /\ open' = [open EXCEPT ![h] = {"parent"}] /\ new_fd' = h /\ ppc' = "fork"
      /\ UNCHANGED <<process, sigchld, handling>> /\ new_fd = Nobody
  BY DEF Accept, LoopInv, LoopTypes
<1> HIDE DEF h
<1>4. open[h] = {"kernel"}
  BY <1>2 DEF LoopInv, Waits
<1>5. LoopTypes'
  BY <1>2, <1>3 DEF LoopInv, LoopTypes
<1>6. ASSUME NEW c \in Clients PROVE Held(c)'
  <2>1. Held(c)
    BY DEF LoopInv
  <2>2. CASE c = h
    BY <1>2, <1>3, <1>4, <2>1, <2>2 DEF LoopInv, LoopTypes, Held
  <2>3. CASE c # h
    BY <1>2, <1>3, <2>1, <2>3, NobodyAssumption DEF LoopInv, LoopTypes, Held
  <2>4. QED
    BY <2>2, <2>3
<1>7. Waits'
  <2>1. ASSUME NEW i \in 1..Len(backlog')
        PROVE  /\ backlog'[i] = backlog[i+1] /\ i + 1 \in 1..Len(backlog)
               /\ backlog[i+1] # h /\ backlog[i+1] \in Clients
               /\ open'[backlog'[i]] = {"kernel"}
    <3>1. backlog'[i] = backlog[i+1] /\ i + 1 \in 1..Len(backlog) /\ i + 1 # 1
      BY <1>2
    <3>2. backlog[i+1] # h /\ backlog[i+1] \in Clients /\ open[backlog[i+1]] = {"kernel"}
      BY <1>2, <3>1 DEF LoopInv, Waits
    <3>3. QED
      BY <1>3, <3>1, <3>2 DEF LoopInv, LoopTypes
  <2>2. ASSUME NEW i \in 1..Len(backlog'), NEW j \in 1..Len(backlog'),
               backlog'[i] = backlog'[j]
        PROVE  i = j
    <3>1. i + 1 = j + 1
      BY <2>1, <2>2 DEF LoopInv, Waits
    <3>2. QED
      BY <1>2, <3>1
  <2>3. QED
    BY <2>1, <2>2 DEF Waits
<1>8. QED
  BY <1>5, <1>6, <1>7 DEF LoopInv

\* connect adds a connection that nobody holds yet.
LEMMA ConnectKeepsLoop ==
  ASSUME LoopInv, HpcTypeOK, NEW c \in Clients, Connect(c),
         UNCHANGED forkVars
  PROVE  LoopInv'
<1>1. /\ backlog \in Seq(Clients) /\ backlog' = Append(backlog, c)
      /\ open' = [open EXCEPT ![c] = {"kernel"}] /\ hpc' = [hpc EXCEPT ![c] = "request"]
      /\ UNCHANGED <<ppc, new_fd, process, sigchld, handling>>
  BY DEF LoopInv, LoopTypes, Connect, Establish, forkVars
<1>2. /\ Len(backlog) \in Nat
      /\ backlog' \in Seq(Clients) /\ Len(backlog') = Len(backlog) + 1
      /\ \A i \in 1..Len(backlog) : backlog'[i] = backlog[i]
      /\ backlog'[Len(backlog) + 1] = c
  BY <1>1, AppendProperties, LenProperties
<1>3. open[c] = {} /\ new_fd # c /\ process[c] # "running"
  BY DEF LoopInv, Held, Connect
<1>4. LoopTypes'
  BY <1>1, <1>2 DEF LoopInv, LoopTypes
<1>5. ASSUME NEW b \in Clients PROVE Held(b)'
  BY <1>1, <1>3 DEF LoopInv, LoopTypes, Held, HpcTypeOK
<1>6. Waits'
  <2>1. ASSUME NEW i \in 1..Len(backlog)
        PROVE  /\ backlog'[i] = backlog[i] /\ backlog[i] # c /\ backlog[i] \in Clients
               /\ open'[backlog[i]] = {"kernel"}
    BY <1>1, <1>2, <1>3 DEF LoopInv, LoopTypes, Waits
  <2>2. ASSUME NEW i \in 1..Len(backlog')
        PROVE  \/ i \in 1..Len(backlog)
               \/ i = Len(backlog) + 1 /\ backlog'[i] = c /\ open'[c] = {"kernel"}
    BY <1>1, <1>2 DEF LoopInv, LoopTypes
  <2>3. ASSUME NEW i \in 1..Len(backlog')
        PROVE  backlog'[i] \in Clients /\ open'[backlog'[i]] = {"kernel"}
    BY <2>1, <2>2
  <2>4. ASSUME NEW i \in 1..Len(backlog'), NEW j \in 1..Len(backlog'),
               backlog'[i] = backlog'[j]
        PROVE  i = j
    <3>1. CASE i \in 1..Len(backlog) /\ j \in 1..Len(backlog)
      BY <2>1, <2>4, <3>1 DEF LoopInv, Waits
    <3>2. CASE i \notin 1..Len(backlog) \/ j \notin 1..Len(backlog)
      BY <2>1, <2>2, <2>4, <3>2
    <3>3. QED
      BY <3>1, <3>2
  <2>5. QED
    BY <2>3, <2>4 DEF Waits
<1>7. QED
  BY <1>4, <1>5, <1>6 DEF LoopInv

\* A step that leaves the backlog alone and changes the holders of one
\* connection that does not wait there.
LEMMA OneConnectionKeepsLoop ==
  ASSUME LoopInv, LoopTypes', NEW c \in Clients, open[c] # {"kernel"},
         UNCHANGED <<hpc, backlog>>, Held(c)',
         \A b \in Clients \ {c} : open'[b] = open[b] /\ process'[b] = process[b]
                                  /\ (new_fd' = b <=> new_fd = b)
  PROVE  LoopInv'
<1>1. ASSUME NEW b \in Clients PROVE Held(b)'
  <2>1. CASE b = c
    BY <2>1
  <2>2. CASE b # c
    BY <2>2 DEF LoopInv, Held
  <2>3. QED
    BY <2>1, <2>2
<1>2. Waits'
  <2>1. ASSUME NEW i \in 1..Len(backlog)
        PROVE  backlog[i] \in Clients /\ open'[backlog[i]] = {"kernel"}
    BY DEF LoopInv, Waits
  <2>2. QED
    BY <2>1 DEF LoopInv, Waits
<1>3. QED
  BY <1>1, <1>2 DEF LoopInv

LEMMA ForkKeepsLoop ==
  ASSUME LoopInv, Fork, UNCHANGED hpc
  PROVE  LoopInv'
<1>1. /\ new_fd \in Clients /\ Held(new_fd) /\ new_fd' = new_fd /\ hpc' = hpc
      /\ open' = [open EXCEPT ![new_fd] = @ \cup {"child"}]
      /\ process' = [process EXCEPT ![new_fd] = "running"]
  BY DEF Fork, LoopInv, LoopTypes
<1>2. LoopTypes'
  BY DEF Fork, LoopInv, LoopTypes
<1>3. Held(new_fd)'
  BY <1>1 DEF LoopInv, LoopTypes, Held
<1>4. open[new_fd] # {"kernel"}
  BY <1>1 DEF Held
<1>5. QED
  BY <1>1, <1>2, <1>3, <1>4, OneConnectionKeepsLoop DEF Fork, LoopInv, LoopTypes

LEMMA CloseKeepsLoop ==
  ASSUME LoopInv, CloseNewFd, UNCHANGED hpc
  PROVE  LoopInv'
<1>1. PICK c \in Clients : c = new_fd
  BY DEF CloseNewFd, LoopInv, LoopTypes
<1>2. /\ Held(c) /\ new_fd' = Nobody /\ hpc' = hpc
      /\ open' = [open EXCEPT ![c] = @ \ {"parent"}]
      /\ process' = process /\ backlog' = backlog
  BY <1>1 DEF CloseNewFd, CloseBy, LoopInv
<1>3. LoopTypes'
  BY DEF CloseNewFd, CloseBy, LoopInv, LoopTypes
<1>4. Held(c)'
  BY <1>2, NobodyAssumption DEF LoopInv, LoopTypes, Held
<1>5. open[c] # {"kernel"}
  BY <1>1, <1>2 DEF Held
<1>6. \A b \in Clients \ {c} : open'[b] = open[b] /\ process'[b] = process[b]
                                 /\ (new_fd' = b <=> new_fd = b)
  BY <1>1, <1>2, NobodyAssumption DEF LoopInv, LoopTypes
<1>7. QED
  BY <1>2, <1>3, <1>4, <1>5, <1>6, OneConnectionKeepsLoop

LEMMA ChildCloseKeepsLoop ==
  ASSUME LoopInv, NEW c \in Clients, process[c] = "running", ChildCloses(c),
         UNCHANGED hpc
  PROVE  LoopInv'
<1>1. /\ Held(c) /\ new_fd' = new_fd /\ hpc' = hpc
      /\ open' = [open EXCEPT ![c] = @ \ {"child"}]
      /\ process' = [process EXCEPT ![c] = "exiting"]
  BY DEF ChildCloses, CloseBy, LoopInv, LoopTypes
<1>2. LoopTypes'
  BY DEF ChildCloses, CloseBy, LoopInv, LoopTypes
<1>3. Held(c)'
  BY <1>1 DEF LoopInv, LoopTypes, Held
<1>4. open[c] # {"kernel"}
  BY <1>1 DEF Held
<1>5. QED
  BY <1>1, <1>2, <1>3, <1>4, OneConnectionKeepsLoop DEF ChildCloses, LoopInv, LoopTypes

\* A step that leaves the connections and their holders as they are.
LEMMA QuietKeepsLoop ==
  ASSUME LoopInv, LoopTypes', UNCHANGED <<open, backlog, new_fd>>,
         \A c \in Clients : /\ process'[c] = "running" <=> process[c] = "running"
                            /\ hpc'[c] = "connect" => hpc[c] = "connect"
  PROVE  LoopInv'
<1>1. ASSUME NEW c \in Clients PROVE Held(c)'
  <2>1. Held(c) /\ open'[c] = open[c] /\ new_fd' = new_fd
    BY DEF LoopInv
  <2>2. process'[c] = "running" <=> process[c] = "running"
    OBVIOUS
  <2>3. hpc'[c] = "connect" => hpc[c] = "connect"
    OBVIOUS
  <2>4. QED
    BY <2>1, <2>2, <2>3 DEF Held
<1>2. Waits'
  BY DEF LoopInv, Waits
<1>3. QED
  BY <1>1, <1>2 DEF LoopInv

LEMMA HpcStep ==
  ASSUME HpcTypeOK, [HttpNext]_httpVars
  PROVE  /\ HpcTypeOK'
         /\ \A c \in Clients : hpc'[c] = "connect" => hpc[c] = "connect"
<1> USE DEF HpcTypeOK
<1>1. CASE UNCHANGED hpc
  BY <1>1
<1>2. ASSUME NEW c \in Clients, Client(c) \/ Stop(c)
      PROVE  /\ HpcTypeOK'
             /\ \A b \in Clients : hpc'[b] = "connect" => hpc[b] = "connect"
  <2>1. \/ UNCHANGED hpc
        \/ \E pc \in {"request", "recv", "done", "stopped"} : hpc' = [hpc EXCEPT ![c] = pc]
    BY <1>2 DEF Client, ClientStep, Connect, SendRequest, Recv, RecvEnd, Stop, ClientStops
  <2>2. QED
    BY <2>1
<1>3. UNCHANGED hpc \/ \E c \in Clients : Client(c) \/ Stop(c)
  BY DEF HttpNext, httpVars, clientVars, Parent, Handler, Child
<1>4. QED
  BY <1>1, <1>2, <1>3

LEMMA LoopNext ==
  ASSUME LoopInv, HpcTypeOK, [HttpNext]_httpVars
  PROVE  LoopInv' /\ HpcTypeOK'
<1>1. /\ HpcTypeOK'
      /\ \A c \in Clients : hpc'[c] = "connect" => hpc[c] = "connect"
  BY HpcStep
<1>2. CASE UNCHANGED <<forkVars, open, backlog>>
  <2>1. LoopTypes' /\ UNCHANGED <<open, backlog, new_fd, process>>
    BY <1>2 DEF forkVars, LoopInv, LoopTypes
  <2>2. QED
    BY <1>1, <2>1, QuietKeepsLoop
<1>3. CASE Parent
  <2>1. UNCHANGED hpc
    BY <1>3 DEF Parent, clientVars
  <2>2. CASE ForkFails
    <3>1. LoopTypes' /\ UNCHANGED <<open, backlog, new_fd, process>>
      BY <2>2 DEF ForkFails, tcpVars, LoopInv, LoopTypes
    <3>2. QED
      BY <1>1, <3>1, QuietKeepsLoop
  <2>3. QED
    BY <1>1, <1>3, <2>1, <2>2, AcceptKeepsLoop, ForkKeepsLoop, CloseKeepsLoop
    DEF Parent, ParentStep
<1>4. CASE Handler
  <2>1. UNCHANGED <<open, backlog, new_fd, hpc>> /\ LoopTypes'
    BY <1>4 DEF Handler, HandlerStep, EnterHandler, Reap, LeaveHandler, Zombies,
                tcpVars, clientVars, LoopInv, LoopTypes
  <2>2. \A c \in Clients : process'[c] = "running" <=> process[c] = "running"
    BY <1>4 DEF Handler, HandlerStep, EnterHandler, Reap, LeaveHandler, Zombies,
                LoopInv, LoopTypes
  <2>3. QED
    BY <1>1, <2>1, <2>2, QuietKeepsLoop
<1>5. ASSUME NEW c \in Clients, Child(c) PROVE LoopInv'
  <2>1. UNCHANGED hpc
    BY <1>5 DEF Child, clientVars
  <2>2. CASE RecvRequest(c) \/ Send(c)
    BY <1>2, <2>2, <1>1 DEF RecvRequest, Send
  <2>3. CASE FinishReply(c) \/ ServeNobody(c)
    BY <2>1, <2>3, ChildCloseKeepsLoop DEF FinishReply, ServeNobody, Serving
  <2>4. CASE ChildExits(c)
    <3>1. LoopTypes' /\ UNCHANGED <<open, backlog, new_fd>>
      BY <2>4 DEF ChildExits, tcpVars, LoopInv, LoopTypes
    <3>2. \A b \in Clients : process'[b] = "running" <=> process[b] = "running"
      BY <2>4 DEF ChildExits, LoopInv, LoopTypes
    <3>3. QED
      BY <1>1, <3>1, <3>2, QuietKeepsLoop
  <2>5. QED
    BY <1>5, <2>2, <2>3, <2>4 DEF Child
<1>6. ASSUME NEW c \in Clients, Client(c) \/ Stop(c) PROVE LoopInv'
  <2>1. UNCHANGED forkVars
    BY <1>6 DEF Client, Stop
  <2>2. CASE Connect(c)
    BY <2>1, <2>2, ConnectKeepsLoop
  <2>3. CASE ~Connect(c)
    BY <1>2, <1>6, <2>1, <2>3
    DEF Client, ClientStep, SendRequest, Recv, RecvEnd, Stop, ClientStops, tcpVars
  <2>4. QED
    BY <2>2, <2>3
<1>7. CASE UNCHANGED httpVars
  BY <1>2, <1>7 DEF httpVars, tcpVars
<1>8. LoopInv'
  BY <1>3, <1>4, <1>5, <1>6, <1>7 DEF HttpNext
<1>9. QED
  BY <1>1, <1>8

LEMMA LoopCorrect == HttpSpec => [](LoopInv /\ HpcTypeOK)
<1>1. HttpInit => LoopInv /\ HpcTypeOK
  BY LoopInitially DEF HttpInit, ClientInit, HpcTypeOK
<1>2. LoopInv /\ HpcTypeOK /\ [HttpNext]_httpVars => LoopInv' /\ HpcTypeOK'
  BY LoopNext
<1>3. QED
  BY <1>1, <1>2, PTL DEF HttpSpec

\* No child that has exited is forgotten, for any number of clients: each exit
\* raises the signal, and the handler leaves only when nobody is left
\* (http_server.c:22-25).
THEOREM AllChildrenReaped == HttpSpec => []NoZombieForgotten
<1>1. HttpInit => NoZombieForgotten
  BY DEF HttpInit, ForkInit, NoZombieForgotten, Zombies
<1>2. NoZombieForgotten /\ LoopInv /\ [HttpNext]_httpVars => NoZombieForgotten'
  <2> SUFFICES ASSUME NoZombieForgotten, LoopInv, [HttpNext]_httpVars
               PROVE  NoZombieForgotten'
    OBVIOUS
  <2>0. process \in [Clients -> {"none", "running", "exiting", "zombie", "reaped"}]
    BY DEF LoopInv, LoopTypes
  <2> USE DEF NoZombieForgotten, Zombies
  <2>1. CASE UNCHANGED httpVars
    BY <2>1 DEF httpVars, forkVars
  <2>2. CASE Parent
    BY <2>0, <2>2 DEF Parent, ParentStep, Accept, Fork, ForkFails, CloseNewFd
  <2>3. CASE Handler
    BY <2>0, <2>3 DEF Handler, HandlerStep, EnterHandler, Reap, LeaveHandler
  <2>4. ASSUME NEW c \in Clients, Child(c) PROVE NoZombieForgotten'
    BY <2>0, <2>4 DEF Child, RecvRequest, Send, FinishReply, ServeNobody, ChildCloses,
                      ChildExits, forkVars
  <2>5. ASSUME NEW c \in Clients, Client(c) \/ Stop(c) PROVE NoZombieForgotten'
    BY <2>5 DEF Client, Stop, forkVars
  <2>6. QED
    BY <2>1, <2>2, <2>3, <2>4, <2>5 DEF HttpNext
<1>3. QED
  BY <1>1, <1>2, LoopCorrect, PTL DEF HttpSpec

----------------------------------------------------------------------------
\* Types and bounds of the streams.

LEMMA StreamsTyped ==
  ASSUME StreamTypes, NEW c \in Clients
  PROVE  /\ reply[c] \in Seq(Tokens) /\ Len(reply[c]) \in Nat
         /\ reply[c] = <<>> => Len(reply[c]) = 0
         /\ reply[c] # <<>> => reply[c] \in ResponseToPart
         /\ sent[c] \in Nat /\ got[c] \in Nat /\ output[c] \in Seq(Tokens)
         /\ asks[c] \in Names
<1>1. reply[c] = <<>> \/ reply[c] \in ResponseToPart
  BY DEF StreamTypes
<1>2. reply[c] \in Seq(Tokens)
  BY <1>1, ReplyShape, EmptySeq
<1>3. QED
  BY <1>1, <1>2, LenProperties, EmptySeq, WishesAssumption DEF StreamTypes

LEMMA SentAfterClose ==
  ASSUME StreamTypes, \A b \in Clients : StreamBounds(b),
         NEW c \in Clients, NEW who, CloseBy(c, who)
  PROVE  /\ \E n \in got[c]..sent[c] : sent' = [sent EXCEPT ![c] = n]
         /\ request[c] # "sent" => sent' = sent
<1>1. sent[c] \in Nat /\ got[c] \in Nat /\ got[c] <= sent[c]
  BY StreamsTyped DEF StreamBounds
<1>2. [sent EXCEPT ![c] = sent[c]] = sent
  BY DEF StreamTypes
<1>3. (\E n \in got[c]..sent[c] : sent' = [sent EXCEPT ![c] = n]) \/ sent' = sent
  BY DEF CloseBy
<1>4. sent[c] \in got[c]..sent[c]
  BY <1>1
<1>5. QED
  BY <1>2, <1>3, <1>4 DEF CloseBy

LEMMA SendBounds ==
  ASSUME NEW g \in Nat, NEW s \in Nat, NEW l \in Nat,
         g <= s, s <= l, s <= g + Window, Window - (s - g) > 0
  PROVE  /\ Lesser(l, s + (Window - (s - g))) \in Nat
         /\ s <= Lesser(l, s + (Window - (s - g)))
         /\ Lesser(l, s + (Window - (s - g))) <= l
         /\ Lesser(l, s + (Window - (s - g))) <= g + Window
BY WindowAssumption DEF Lesser

\* What recv puts into the buffer.
Received(c, n) == SubSeq(reply[c], got[c] + 1, got[c] + n)

LEMMA RecvPiece ==
  ASSUME StreamTypes, NEW c \in Clients, StreamBounds(c), Recv(c)
  PROVE  \E n \in Nat \ {0} :
           /\ got' = [got EXCEPT ![c] = @ + n]
           /\ got[c] + n \in Nat /\ got[c] + n <= sent[c]
           /\ Received(c, n) \in Seq(Tokens) /\ Len(Received(c, n)) = n
           /\ \/ WriteAll(c, Received(c, n))
              \/ WriteTail(c, Received(c, n))
              \/ Skip(c, Received(c, n))
<1>1. PICK n \in 1..Lesser(MAXDATASIZE - 1, sent[c] - got[c]) :
        /\ got' = [got EXCEPT ![c] = @ + n]
        /\ \/ WriteAll(c, Received(c, n))
           \/ WriteTail(c, Received(c, n))
           \/ Skip(c, Received(c, n))
  BY DEF Recv, Received
<1>2. /\ sent[c] \in Nat /\ got[c] \in Nat /\ reply[c] \in Seq(Tokens)
      /\ sent[c] <= Len(reply[c]) /\ Len(reply[c]) \in Nat
  BY StreamsTyped DEF StreamBounds
<1>3. n \in Nat \ {0} /\ got[c] + n \in Nat /\ got[c] + n <= sent[c]
  BY <1>2, MaxDataSizeAssumption DEF Lesser
<1>4. \A i \in got[c]+1..got[c]+n : reply[c][i] \in Tokens
  BY <1>2, <1>3, ElementOfSeq
<1>5. Received(c, n) \in Seq(Tokens) /\ Len(Received(c, n)) = n
  <2>1. /\ got[c] + 1 \in Int /\ got[c] + n \in Int /\ got[c] + 1 <= got[c] + n
        /\ (got[c] + n) - (got[c] + 1) + 1 = n
    BY <1>2, <1>3
  <2>2. QED
    BY <1>4, <2>1, SubSeqProperties DEF Received
<1>6. QED
  BY <1>1, <1>3, <1>5

----------------------------------------------------------------------------
\* Blank lines.  In what follows r is a reply and the piece of n bytes behind
\* its first g is what a recv returns.

LEMMA MinOfBlankLines ==
  ASSUME NEW buf \in Seq(Tokens), BlankLines(buf) # {}
  PROVE  /\ Min(BlankLines(buf)) \in 1..Len(buf)-1
         /\ Min(BlankLines(buf)) \in BlankLines(buf)
         /\ \A i \in BlankLines(buf) : Min(BlankLines(buf)) <= i
<1> DEFINE B == BlankLines(buf)
<1>1. B \subseteq 1..Len(buf)-1 /\ B \subseteq Nat /\ B # {}
  BY LenProperties DEF BlankLines
<1> HIDE DEF B
<1>2. \E x \in B : \A y \in B : x <= y
  <2>1. \A x, y \in Nat : x < y => <<x, y>> \in OpToRel(<, Nat)
    BY DEF OpToRel
  <2>2. PICK k \in B : \A y \in B : ~(<<y, k>> \in OpToRel(<, Nat))
    BY <1>1, NatLessThanWellFounded, WFMin
  <2>3. \A y \in B : ~(y < k)
    BY <1>1, <2>1, <2>2, Zenon
  <2>4. QED
    BY <1>1, <2>3
<1>3. Min(B) \in B /\ \A i \in B : Min(B) <= i
  BY <1>2 DEF Min
<1>4. QED
  BY <1>1, <1>3 DEF B

EndOfBlank(g, buf) == g + Min(BlankLines(buf)) + 1

LEMMA BlankLineBehindHeader ==
  ASSUME NEW r \in ResponseToPart, NEW g \in Nat, NEW n \in Nat \ {0}, g + n <= Len(r),
         NEW buf \in Seq(Tokens), buf = SubSeq(r, g + 1, g + n), BlankLines(buf) # {}
  PROVE  /\ EndOfBlank(g, buf) \in 3..g+n /\ EndOfBlank(g, buf) >= g + 2
         /\ r[EndOfBlank(g, buf) - 1] = Nl /\ r[EndOfBlank(g, buf)] = Nl
         /\ SubSeq(buf, Min(BlankLines(buf)) + 2, Len(buf)) =
              SubSeq(r, EndOfBlank(g, buf) + 1, g + n)
<1> DEFINE m == Min(BlankLines(buf))
           i == g + m + 1
<1>1. r \in Seq(Tokens) /\ Len(r) \in Nat /\ r[1] # Nl
  BY ReplyShape, LenProperties
<1>2. \A j \in g+1..g+n : r[j] \in Tokens
  BY <1>1, ElementOfSeq
<1>3. Len(buf) = n /\ \A j \in 1..n : buf[j] = r[g+j]
  <2>1. /\ g + 1 \in Int /\ g + n \in Int /\ g + 1 <= g + n
        /\ (g + n) - (g + 1) + 1 = n /\ \A j \in 1..n : (g + 1) + j - 1 = g + j
    OBVIOUS
  <2>2. QED
    BY <1>2, <2>1, SubSeqProperties
<1>4. m \in 1..n-1 /\ m \in BlankLines(buf)
  BY <1>3, MinOfBlankLines
<1> HIDE DEF m
<1>5. buf[m] = Nl /\ buf[m+1] = Nl
  BY <1>4 DEF BlankLines
<1>6. r[i-1] = Nl /\ r[i] = Nl /\ i - 1 = g + m
  BY <1>3, <1>4, <1>5
<1>7. i - 1 # 1
  BY <1>1, <1>6
<1>8. i \in 3..g+n /\ i >= g + 2
  BY <1>4, <1>7
<1>9. SubSeq(buf, m + 2, n) = SubSeq(r, i + 1, g + n)
  <2>1. CASE m + 2 <= n
    <3> DEFINE a == g + 1
               b == g + n
               k == m + 2
    <3>1. /\ a \in 1..Len(r) /\ b \in 1..Len(r)
          /\ k \in 1..b-a+1 /\ n \in 1..b-a+1
          /\ a + k - 1 = i + 1 /\ a + n - 1 = b
      BY <1>1, <1>4, <2>1
    <3> HIDE DEF i, a, b, k
    <3>2. SubSeq(SubSeq(r, a, b), k, n) = SubSeq(r, a + k - 1, a + n - 1)
      BY <1>1, <3>1, SubSeqOfSubSeq
    <3>3. SubSeq(SubSeq(r, a, b), k, n) = SubSeq(r, i + 1, b)
      BY <3>1, <3>2
    <3>4. QED
      BY <3>3 DEF a, b, k
  <2>2. CASE ~(m + 2 <= n)
    <3>1. SubSeq(buf, m + 2, n) = <<>>
      BY <1>4, <2>2, SubSeqEmpty
    <3>2. SubSeq(r, i + 1, g + n) = <<>>
      BY <1>4, <2>2, SubSeqEmpty
    <3>3. QED
      BY <3>1, <3>2
  <2>3. QED
    BY <2>1, <2>2
<1>10. QED
  BY <1>3, <1>6, <1>8, <1>9 DEF m, EndOfBlank

LEMMA BlankLineIsSeen ==
  ASSUME NEW buf \in Seq(Tokens), NEW i \in 1..Len(buf)-1,
         buf[i] = Nl, buf[i+1] = Nl, \A j \in 1..i : buf[j] # Nul
  PROVE  i \in BlankLines(buf)
BY DEF BlankLines

\* A recv that takes the header's blank line whole finds it; one that ends
\* before it is complete finds nothing.
LEMMA HeaderFoundUnlessCut ==
  ASSUME NEW r \in ResponseToPart, NEW g \in 0..1, NEW n \in Nat \ {0}, g + n <= Len(r),
         NEW buf \in Seq(Tokens), buf = SubSeq(r, g + 1, g + n)
  PROVE  /\ g + n >= 3 => BlankLines(buf) # {} /\ Min(BlankLines(buf)) = 2 - g
         /\ g + n < 3 => BlankLines(buf) = {}
<1>1. /\ r \in Seq(Tokens) /\ Len(r) \in Nat /\ Nl # Nul
      /\ r[1] \notin {Nl, Nul} /\ r[2] = Nl /\ r[3] = Nl
  BY ReplyShape, LenProperties, TokensAssumption
<1>2. ASSUME BlankLines(buf) # {}
      PROVE  g + n >= 3 /\ Min(BlankLines(buf)) + g >= 2
  <2>1. g \in Nat
    OBVIOUS
  <2>2. g + Min(BlankLines(buf)) + 1 \in 3..g+n
    BY <1>2, <2>1, BlankLineBehindHeader DEF EndOfBlank
  <2>3. Min(BlankLines(buf)) \in 1..Len(buf)-1 /\ Len(buf) \in Nat
    BY <1>2, MinOfBlankLines, LenProperties
  <2>4. QED
    BY <2>1, <2>2, <2>3
<1>3. ASSUME g + n >= 3
      PROVE  BlankLines(buf) # {} /\ Min(BlankLines(buf)) = 2 - g
  <2>1. \A j \in g+1..g+n : r[j] \in Tokens
    BY <1>1, ElementOfSeq
  <2>2. Len(buf) = n /\ \A j \in 1..n : buf[j] = r[g+j]
    <3>1. /\ g + 1 \in Int /\ g + n \in Int /\ g + 1 <= g + n
          /\ (g + n) - (g + 1) + 1 = n /\ \A j \in 1..n : (g + 1) + j - 1 = g + j
      OBVIOUS
    <3>2. QED
      BY <2>1, <3>1, SubSeqProperties
  <2>3. 2 - g \in BlankLines(buf)
    <3>1. CASE g = 0
      <4>1. n >= 3 /\ buf[1] = r[1] /\ buf[2] = r[2] /\ buf[3] = r[3]
        BY <1>3, <2>2, <3>1
      <4>2. /\ 2 \in 1..Len(buf)-1 /\ buf[2] = Nl /\ buf[2+1] = Nl
            /\ buf[1] # Nul /\ buf[2] # Nul
        <5>1. r[1] # Nul /\ r[2] = Nl /\ r[2] # Nul /\ r[3] = Nl
          BY <1>1
        <5>2. 2 \in 1..Len(buf)-1
          BY <2>2, <4>1
        <5>3. buf[1] # Nul /\ buf[2] = Nl /\ buf[2] # Nul /\ buf[3] = Nl
          BY <4>1, <5>1
        <5>4. 2 + 1 = 3
          OBVIOUS
        <5>5. QED
          BY <5>2, <5>3, <5>4
      <4>3. \A j \in 1..2 : j = 1 \/ j = 2
        OBVIOUS
      <4>4. \A j \in 1..2 : buf[j] # Nul
        BY <4>2, <4>3
      <4>5. 2 \in BlankLines(buf)
        BY <4>2, <4>4, BlankLineIsSeen
      <4>6. QED
        BY <3>1, <4>5
    <3>2. CASE g = 1
      <4>1. n >= 2 /\ buf[1] = r[2] /\ buf[2] = r[3]
        BY <1>3, <2>2, <3>2
      <4>2. /\ 1 \in 1..Len(buf)-1 /\ buf[1] = Nl /\ buf[1+1] = Nl
            /\ \A j \in 1..1 : buf[j] # Nul
        <5>1. r[2] = Nl /\ r[3] = Nl /\ Nl # Nul
          BY <1>1
        <5>2. 1 \in 1..Len(buf)-1
          BY <2>2, <4>1
        <5>3. buf[1] = Nl /\ buf[1] # Nul /\ buf[2] = Nl
          BY <4>1, <5>1
        <5>4. 1 + 1 = 2 /\ \A j \in 1..1 : j = 1
          OBVIOUS
        <5>5. QED
          BY <5>2, <5>3, <5>4
      <4>3. 1 \in BlankLines(buf)
        BY <4>2, BlankLineIsSeen
      <4>4. QED
        BY <3>2, <4>3
    <3>3. QED
      BY <3>1, <3>2
  <2>4. Min(BlankLines(buf)) <= 2 - g /\ Min(BlankLines(buf)) \in 1..Len(buf)-1
    BY <2>3, MinOfBlankLines
  <2>5. QED
    BY <1>2, <2>2, <2>3, <2>4
<1>4. QED
  BY <1>2, <1>3

----------------------------------------------------------------------------
\* Type correctness is inductive together with the invariant of the loop.

StreamInv == StreamTypes /\ \A c \in Clients : StreamBounds(c)

\* What a step of the client itself does to the history variable.
LEMMA CutStep ==
  ASSUME StreamTypes, NEW c \in Clients, Client(c)
  PROVE  /\ \E b \in BOOLEAN : cut' = [cut EXCEPT ![c] = b]
         /\ cut'[c] <=> cut[c] \/ got'[c] = 2
<1>1. Len(Header("200 OK")) - 1 = 2
  <2>1. "200 OK" \in Statuses
    BY DEF Statuses
  <2> DEFINE n == Len(Header("200 OK"))
  <2>2. n = 3
    BY <2>1, HeaderTypes
  <2> HIDE DEF n
  <2>3. n - 1 = 2
    BY <2>2
  <2>4. QED
    BY <2>3 DEF n
<1>2. cut' = [cut EXCEPT ![c] = cut[c] \/ got'[c] = 2]
  BY <1>1 DEF Client
<1>3. cut \in [Clients -> BOOLEAN]
  BY DEF StreamTypes
<1> DEFINE b == cut[c] \/ got'[c] = 2
<1>4. b \in BOOLEAN
  OBVIOUS
<1> HIDE DEF b
<1>5. cut' = [cut EXCEPT ![c] = b]
  BY <1>2 DEF b
<1>6. cut'[c] = b
  BY <1>3, <1>5
<1>7. cut'[c] <=> cut[c] \/ got'[c] = 2
  BY <1>6 DEF b
<1>8. QED
  BY <1>4, <1>5, <1>7

LEMMA CloseKeepsStreams ==
  ASSUME StreamInv, HpcTypeOK', NEW c \in Clients, NEW who, CloseBy(c, who),
         UNCHANGED <<asks, request, reply, got, header_found, output, cut>>
  PROVE  StreamInv'
<1>1. PICK n \in got[c]..sent[c] : sent' = [sent EXCEPT ![c] = n]
  BY SentAfterClose DEF StreamInv
<1>2. /\ got[c] \in Nat /\ sent[c] \in Nat /\ Len(reply[c]) \in Nat
      /\ sent[c] <= Len(reply[c]) /\ sent[c] <= got[c] + Window
  BY StreamsTyped DEF StreamInv, StreamBounds
<1>3. n \in Nat /\ got[c] <= n /\ n <= Len(reply[c]) /\ n <= got[c] + Window
  BY <1>2, WindowAssumption
<1>4. StreamTypes'
  BY <1>1, <1>3 DEF StreamInv, StreamTypes, HpcTypeOK
<1>5. ASSUME NEW b \in Clients PROVE StreamBounds(b)'
  BY <1>1, <1>3 DEF StreamInv, StreamTypes, StreamBounds
<1>6. QED
  BY <1>4, <1>5 DEF StreamInv

LEMMA RecvRequestKeepsStreams ==
  ASSUME StreamInv, NEW c \in Clients, RecvRequest(c), UNCHANGED <<clientVars, cut>>
  PROVE  /\ StreamInv'
         /\ \E r \in ResponseToPart : reply' = [reply EXCEPT ![c] = r]
         /\ sent[c] = 0 /\ got[c] = 0
<1>1. asks[c] \in Names
  BY StreamsTyped DEF StreamInv
<1>2. PICK r \in ResponseToPart : reply' = [reply EXCEPT ![c] = r]
  BY <1>1 DEF RecvRequest, ResponseToPart
<1>3. sent[c] = 0 /\ got[c] = 0
  BY StreamsTyped DEF StreamInv, StreamBounds, RecvRequest
<1>4. StreamTypes'
  BY <1>2 DEF RecvRequest, StreamInv, StreamTypes, clientVars
<1>5. ASSUME NEW b \in Clients PROVE StreamBounds(b)'
  <2>1. Len(r) \in Nat /\ sent' = sent /\ got' = got
    BY ReplyShape, LenProperties DEF RecvRequest
  <2>2. QED
    BY <1>2, <1>3, <2>1, WindowAssumption DEF StreamInv, StreamTypes, StreamBounds
<1>6. QED
  BY <1>2, <1>3, <1>4, <1>5 DEF StreamInv

LEMMA SendKeepsStreams ==
  ASSUME StreamInv, NEW c \in Clients, Send(c), UNCHANGED <<clientVars, cut>>
  PROVE  /\ StreamInv'
         /\ \E n \in Nat : n <= Len(reply[c]) /\ sent' = [sent EXCEPT ![c] = n]
<1> DEFINE g == got[c]
           s == sent[c]
           l == Len(reply[c])
           n == Lesser(l, s + (Window - (s - g)))
<1>1. /\ g \in Nat /\ s \in Nat /\ l \in Nat
      /\ g <= s /\ s <= l /\ s <= g + Window
  BY StreamsTyped DEF StreamInv, StreamBounds
<1>2. sent' = [sent EXCEPT ![c] = n] /\ Window - (s - g) > 0
  BY DEF Send
<1> HIDE DEF g, s, l
<1>3. n \in Nat /\ s <= n /\ n <= l /\ n <= g + Window
  BY <1>1, <1>2, SendBounds
<1>4. g <= n
  BY <1>1, <1>3
<1> HIDE DEF n
<1>5. StreamTypes'
  BY <1>2, <1>3 DEF Send, StreamInv, StreamTypes, clientVars
<1>6. ASSUME NEW b \in Clients PROVE StreamBounds(b)'
  BY <1>2, <1>3, <1>4 DEF Send, StreamInv, StreamTypes, StreamBounds, g, l
<1>7. QED
  BY <1>2, <1>3, <1>5, <1>6 DEF StreamInv, l

LEMMA ClientKeepsStreams ==
  ASSUME StreamInv, HpcTypeOK', NEW c \in Clients, Client(c)
  PROVE  StreamInv'
<1>1. PICK b \in BOOLEAN : cut' = [cut EXCEPT ![c] = b]
  BY CutStep DEF StreamInv
<1>2. CASE Recv(c)
  <2>1. PICK n \in Nat \ {0} :
           /\ got' = [got EXCEPT ![c] = @ + n]
           /\ got[c] + n \in Nat /\ got[c] + n <= sent[c]
           /\ Received(c, n) \in Seq(Tokens) /\ Len(Received(c, n)) = n
           /\ \/ WriteAll(c, Received(c, n))
              \/ WriteTail(c, Received(c, n))
              \/ Skip(c, Received(c, n))
    BY <1>2, RecvPiece DEF StreamInv
  <2> DEFINE k == got[c] + n
             buf == Received(c, n)
  <2>2. /\ got' = [got EXCEPT ![c] = k]
        /\ UNCHANGED <<asks, request, reply, sent>>
    BY <1>2, <2>1 DEF Recv
  <2>3. k \in Nat /\ k <= sent[c] /\ sent[c] <= Len(reply[c]) /\ sent[c] <= k + Window
    <3>1. /\ got[c] \in Nat /\ sent[c] \in Nat /\ sent[c] <= Len(reply[c])
          /\ sent[c] <= got[c] + Window
      BY StreamsTyped DEF StreamInv, StreamBounds
    <3>2. QED
      BY <2>1, <3>1, WindowAssumption
  <2> HIDE DEF k
  <2>4. output[c] \in Seq(Tokens) /\ buf \in Seq(Tokens)
    BY <2>1, StreamsTyped DEF StreamInv
  <2>5. output' \in [Clients -> Seq(Tokens)] /\ header_found' \in [Clients -> BOOLEAN]
    <3>1. CASE WriteAll(c, buf)
      <4>1. output[c] \o buf \in Seq(Tokens)
        BY <2>4, ConcatProperties
      <4>2. QED
        BY <3>1, <4>1 DEF WriteAll, StreamInv, StreamTypes
    <3>2. CASE WriteTail(c, buf)
      <4> DEFINE t == SubSeq(buf, Min(BlankLines(buf)) + 2, Len(buf))
      <4>1. Min(BlankLines(buf)) \in Nat /\ Len(buf) \in Nat
        BY <2>4, <3>2, MinOfBlankLines, LenProperties DEF WriteTail
      <4>2. \A i \in Min(BlankLines(buf))+2..Len(buf) : buf[i] \in Tokens
        BY <2>4, <4>1, ElementOfSeq
      <4>3. t \in Seq(Tokens)
        BY <4>1, <4>2, SubSeqProperties
      <4> HIDE DEF t
      <4>4. /\ output' = [output EXCEPT ![c] = t]
            /\ header_found' = [header_found EXCEPT ![c] = TRUE]
        BY <3>2 DEF WriteTail, t
      <4>5. QED
        BY <4>3, <4>4 DEF StreamInv, StreamTypes
    <3>3. CASE Skip(c, buf)
      BY <3>3 DEF Skip, StreamInv, StreamTypes
    <3>4. QED
      BY <2>1, <3>1, <3>2, <3>3
  <2>6. StreamTypes'
    BY <1>1, <2>2, <2>3, <2>5 DEF StreamInv, StreamTypes, HpcTypeOK
  <2>7. ASSUME NEW d \in Clients PROVE StreamBounds(d)'
    BY <2>2, <2>3 DEF StreamInv, StreamTypes, StreamBounds
  <2>8. QED
    BY <2>6, <2>7 DEF StreamInv
<1>3. CASE Connect(c) \/ SendRequest(c) \/ RecvEnd(c)
  <2>1. UNCHANGED <<asks, reply, sent, got, header_found, output>>
    BY <1>3 DEF Connect, SendRequest, RecvEnd, tcpVars
  <2>2. request' \in [Clients -> {"none", "sent", "read"}]
    BY <1>3 DEF Connect, SendRequest, RecvEnd, tcpVars, StreamInv, StreamTypes
  <2>3. StreamTypes'
    BY <1>1, <2>1, <2>2 DEF StreamInv, StreamTypes, HpcTypeOK
  <2>4. ASSUME NEW d \in Clients PROVE StreamBounds(d)'
    BY <2>1 DEF StreamInv, StreamBounds
  <2>5. QED
    BY <2>3, <2>4 DEF StreamInv
<1>4. QED
  BY <1>2, <1>3 DEF Client, ClientStep

LEMMA StreamNext ==
  ASSUME LoopInv, StreamInv, [HttpNext]_httpVars
  PROVE  StreamInv'
<1>1. HpcTypeOK'
  BY HpcStep DEF StreamInv, StreamTypes, HpcTypeOK
<1>2. CASE UNCHANGED <<asks, request, reply, sent, got, header_found, output, cut>>
  <2>1. StreamTypes'
    BY <1>1, <1>2 DEF StreamInv, StreamTypes, HpcTypeOK
  <2>2. ASSUME NEW c \in Clients PROVE StreamBounds(c)'
    BY <1>2 DEF StreamInv, StreamBounds
  <2>3. QED
    BY <2>1, <2>2 DEF StreamInv
<1>3. CASE Parent
  <2>1. CASE CloseNewFd
    <3>1. PICK c \in Clients : c = new_fd
      BY <2>1 DEF CloseNewFd, LoopInv, LoopTypes
    <3>2. /\ CloseBy(c, "parent")
          /\ UNCHANGED <<asks, request, reply, got, header_found, output, cut>>
      BY <1>3, <2>1, <3>1 DEF CloseNewFd, Parent, clientVars
    <3>3. QED
      BY <1>1, <3>2, CloseKeepsStreams
  <2>2. CASE Accept \/ Fork \/ ForkFails
    BY <1>2, <1>3, <2>2 DEF Parent, Accept, Fork, ForkFails, tcpVars, clientVars
  <2>3. QED
    BY <1>3, <2>1, <2>2 DEF Parent, ParentStep
<1>4. CASE Handler
  BY <1>2, <1>4 DEF Handler, HandlerStep, EnterHandler, Reap, LeaveHandler, tcpVars, clientVars
<1>5. ASSUME NEW c \in Clients, Child(c) PROVE StreamInv'
  <2>1. CASE FinishReply(c) \/ ServeNobody(c)
    <3>1. /\ CloseBy(c, "child")
          /\ UNCHANGED <<asks, request, reply, got, header_found, output, cut>>
      BY <1>5, <2>1 DEF FinishReply, ServeNobody, ChildCloses, Child, clientVars
    <3>2. QED
      BY <1>1, <3>1, CloseKeepsStreams
  <2>2. CASE ChildExits(c)
    BY <1>2, <1>5, <2>2 DEF ChildExits, Child, tcpVars, clientVars
  <2>3. QED
    BY <1>5, <2>1, <2>2, RecvRequestKeepsStreams, SendKeepsStreams DEF Child
<1>6. ASSUME NEW c \in Clients, Client(c) PROVE StreamInv'
  BY <1>1, <1>6, ClientKeepsStreams
<1>7. ASSUME NEW c \in Clients, Stop(c) PROVE StreamInv'
  BY <1>2, <1>7 DEF Stop, ClientStops, tcpVars
<1>8. CASE UNCHANGED httpVars
  BY <1>2, <1>8 DEF httpVars, tcpVars, clientVars
<1>9. QED
  BY <1>3, <1>4, <1>5, <1>6, <1>7, <1>8 DEF HttpNext

LEMMA StreamInitially == HttpInit => StreamInv
<1> SUFFICES ASSUME HttpInit PROVE StreamInv
  OBVIOUS
<1>1. StreamTypes
  <2>1. <<>> \in Seq(Tokens)
    BY EmptySeq
  <2>2. QED
    BY <2>1 DEF HttpInit, TcpInit, ClientInit, StreamTypes
<1>2. ASSUME NEW c \in Clients PROVE StreamBounds(c)
  <2>1. /\ got[c] = 0 /\ sent[c] = 0 /\ reply[c] = <<>>
    BY DEF HttpInit, TcpInit
  <2>2. Len(reply[c]) = 0
    BY <2>1, EmptySeq
  <2>3. QED
    BY <2>1, <2>2, WindowAssumption DEF StreamBounds
<1>3. QED
  BY <1>1, <1>2 DEF StreamInv

\* The types of both programs and of the connections, who holds which
\* connection, and that no more is under way than a connection has room for.
THEOREM HttpTypeCorrect == HttpSpec => []HttpTypeOK
<1>1. HttpInit => LoopInv /\ StreamInv
  BY LoopInitially, StreamInitially
<1>2. LoopInv /\ StreamInv /\ [HttpNext]_httpVars => LoopInv' /\ StreamInv'
  BY LoopNext, StreamNext DEF StreamInv, StreamTypes, HpcTypeOK
<1>3. LoopInv /\ StreamInv => HttpTypeOK
  BY DEF LoopInv, LoopTypes, Held, StreamInv, HttpTypeOK, ForkTypeOK
<1>4. QED
  BY <1>1, <1>2, <1>3, PTL DEF HttpSpec

----------------------------------------------------------------------------
\* The output.  With the blank line that made an end of the header, and
\* whether that was the header's own.
TailInv(c) ==
  /\ cut[c] => got[c] >= 2
  /\ got[c] = 2 => cut[c]
  /\ header_found[c] =>
       \E i \in 3..got[c] :
         /\ reply[c][i-1] = Nl /\ reply[c][i] = Nl
         /\ output[c] = SubSeq(reply[c], i + 1, got[c])
         /\ cut[c] <=> i # 3
  /\ ~header_found[c] => output[c] = <<>> /\ (got[c] <= 1 \/ cut[c])

LEMMA QuietKeepsTail ==
  ASSUME NEW c \in Clients, TailInv(c),
         reply'[c] = reply[c], got'[c] = got[c], output'[c] = output[c],
         header_found'[c] = header_found[c], cut'[c] <=> cut[c]
  PROVE  TailInv(c)'
BY DEF TailInv

LEMMA RecvKeepsTail ==
  ASSUME StreamInv, NEW c \in Clients, TailInv(c), Recv(c), Client(c)
  PROVE  TailInv(c)'
<1> DEFINE r == reply[c]
           g == got[c]
<1>1. PICK n \in Nat \ {0} :
         /\ got' = [got EXCEPT ![c] = @ + n]
         /\ g + n \in Nat /\ g + n <= sent[c]
         /\ Received(c, n) \in Seq(Tokens) /\ Len(Received(c, n)) = n
         /\ \/ WriteAll(c, Received(c, n))
            \/ WriteTail(c, Received(c, n))
            \/ Skip(c, Received(c, n))
  BY RecvPiece DEF StreamInv
<1> DEFINE k == g + n
           buf == Received(c, n)
<1>2. /\ g \in Nat /\ r \in Seq(Tokens) /\ Len(r) \in Nat
      /\ sent[c] \in Nat /\ sent[c] <= Len(r)
  BY StreamsTyped DEF StreamInv, StreamBounds
<1>3. k \in Nat /\ k <= Len(r) /\ g < k /\ r \in ResponseToPart
  BY <1>1, <1>2, StreamsTyped DEF StreamInv
<1>4. buf = SubSeq(r, g + 1, g + n) /\ buf \in Seq(Tokens) /\ Len(buf) = n
  BY <1>1 DEF Received
<1>5. /\ got'[c] = k /\ reply'[c] = r
      /\ cut'[c] <=> cut[c] \/ k = 2
  <2>1. got'[c] = k /\ reply'[c] = r
    BY <1>1 DEF Recv, StreamInv, StreamTypes
  <2>2. cut'[c] <=> cut[c] \/ got'[c] = 2
    BY CutStep DEF StreamInv
  <2>3. QED
    BY <2>1, <2>2
<1>6. /\ cut[c] => g >= 2
      /\ ~header_found[c] => output[c] = <<>> /\ (g <= 1 \/ cut[c])
  BY DEF TailInv
<1>7. /\ cut'[c] => k >= 2
      /\ k = 2 => cut'[c]
      /\ k >= 3 => (cut'[c] <=> cut[c])
  BY <1>2, <1>3, <1>5, <1>6
<1>8. header_found \in [Clients -> BOOLEAN] /\ output \in [Clients -> Seq(Tokens)]
  BY DEF StreamInv, StreamTypes
<1>9. CASE WriteAll(c, buf)
  <2>1. header_found'[c] /\ header_found[c] /\ output'[c] = output[c] \o buf
    BY <1>8, <1>9 DEF WriteAll
  <2>2. PICK i \in 3..g : /\ r[i-1] = Nl /\ r[i] = Nl
                          /\ output[c] = SubSeq(r, i + 1, g)
                          /\ cut[c] <=> i # 3
    BY <2>1 DEF TailInv
  <2> HIDE DEF r, g
  <2>3. SubSeq(r, i + 1, g) \o SubSeq(r, g + 1, k) = SubSeq(r, i + 1, k)
    <3> DEFINE m == i + 1
    <3>1. /\ m \in 1..Len(r)+1 /\ g \in m-1..Len(r) /\ k \in g..Len(r)
      BY <1>2, <1>3, <2>2
    <3> HIDE DEF m, k
    <3>2. SubSeq(r, m, g) \o SubSeq(r, g + 1, k) = SubSeq(r, m, k)
      BY <1>2, <3>1, ConcatAdjacentSubSeq
    <3>3. QED
      BY <3>2 DEF m
  <2>4. output'[c] = SubSeq(r, i + 1, k)
    BY <1>4, <2>1, <2>2, <2>3
  <2>5. i \in 3..k /\ k >= 3
    BY <1>2, <1>3, <2>2
  <2> HIDE DEF k
  <2>6. QED
    BY <1>5, <1>7, <2>1, <2>2, <2>4, <2>5 DEF TailInv
<1>10. CASE WriteTail(c, buf)
  <2> DEFINE i == g + Min(BlankLines(buf)) + 1
  <2>1. /\ ~header_found[c] /\ BlankLines(buf) # {}
        /\ header_found'[c] = TRUE
        /\ output'[c] = SubSeq(buf, Min(BlankLines(buf)) + 2, Len(buf))
    BY <1>8, <1>10 DEF WriteTail
  <2> HIDE DEF r, g
  <2>2. /\ i \in 3..k /\ i >= g + 2 /\ r[i-1] = Nl /\ r[i] = Nl
        /\ output'[c] = SubSeq(r, i + 1, k)
    <3> HIDE DEF buf, i
    <3>1. /\ r \in ResponseToPart /\ g \in Nat /\ n \in Nat \ {0} /\ g + n <= Len(r)
          /\ buf \in Seq(Tokens) /\ buf = SubSeq(r, g + 1, g + n) /\ BlankLines(buf) # {}
      BY <1>2, <1>3, <1>4, <2>1
    <3>2. EndOfBlank(g, buf) \in 3..g+n
      BY <3>1, BlankLineBehindHeader
    <3>3. EndOfBlank(g, buf) >= g + 2
      BY <3>1, BlankLineBehindHeader
    <3>4. r[EndOfBlank(g, buf) - 1] = Nl
      BY <3>1, BlankLineBehindHeader
    <3>5. r[EndOfBlank(g, buf)] = Nl
      BY <3>1, BlankLineBehindHeader
    <3>6. SubSeq(buf, Min(BlankLines(buf)) + 2, Len(buf)) =
               SubSeq(r, EndOfBlank(g, buf) + 1, g + n)
      BY <3>1, BlankLineBehindHeader
    <3>7. QED
      BY <2>1, <3>2, <3>3, <3>4, <3>5, <3>6 DEF i, EndOfBlank
  <2>3. k >= 3
    BY <1>3, <2>2
  <2>4. cut[c] <=> i # 3
    <3>1. CASE cut[c]
      BY <1>2, <1>6, <2>2, <3>1
    <3>2. CASE ~cut[c]
      <4>1. g \in 0..1
        BY <1>2, <1>6, <2>1, <3>2
      <4>2. Min(BlankLines(buf)) = 2 - g
        BY <1>3, <1>4, <2>3, <4>1, HeaderFoundUnlessCut
      <4>3. i = 3
        BY <4>1, <4>2
      <4>4. QED
        BY <3>2, <4>3
    <3>3. QED
      BY <3>1, <3>2
  <2> HIDE DEF k, i
  <2>5. QED
    BY <1>5, <1>7, <2>1, <2>2, <2>3, <2>4 DEF TailInv
<1>11. CASE Skip(c, buf)
  <2>1. /\ ~header_found[c] /\ BlankLines(buf) = {}
        /\ header_found'[c] = header_found[c] /\ output'[c] = output[c]
    BY <1>11 DEF Skip
  <2> HIDE DEF r, g
  <2>2. k <= 1 \/ cut'[c]
    <3>1. CASE g \in 0..1
      <4>1. ~(k >= 3)
        BY <1>3, <1>4, <2>1, <3>1, HeaderFoundUnlessCut
      <4>2. QED
        BY <1>3, <1>7, <4>1
    <3>2. CASE g \notin 0..1
      BY <1>2, <1>5, <1>6, <2>1, <3>2
    <3>3. QED
      BY <3>1, <3>2
  <2> HIDE DEF k
  <2>3. QED
    BY <1>5, <1>6, <1>7, <2>1, <2>2 DEF TailInv
<1>12. QED
  BY <1>1, <1>9, <1>10, <1>11

LEMMA TailNext ==
  ASSUME StreamInv, \A c \in Clients : TailInv(c), [HttpNext]_httpVars
  PROVE  \A c \in Clients : TailInv(c)'
<1>1. CASE UNCHANGED <<reply, got, output, header_found, cut>>
  BY <1>1, QuietKeepsTail
<1>2. CASE Parent
  BY <1>1, <1>2 DEF Parent, ParentStep, Accept, Fork, ForkFails, CloseNewFd, tcpVars, clientVars
<1>3. CASE Handler
  BY <1>1, <1>3 DEF Handler, HandlerStep, EnterHandler, Reap, LeaveHandler, tcpVars, clientVars
<1>4. ASSUME NEW c \in Clients, Child(c)
      PROVE  \A d \in Clients : TailInv(d)'
  <2>1. CASE RecvRequest(c)
    <3>1. /\ \E r \in ResponseToPart : reply' = [reply EXCEPT ![c] = r]
          /\ sent[c] = 0 /\ got[c] = 0
      BY <1>4, <2>1, RecvRequestKeepsStreams DEF Child
    <3>2. UNCHANGED <<got, output, header_found, cut>>
      BY <1>4, <2>1 DEF Child, RecvRequest, clientVars
    <3>3. TailInv(c)'
      <4>1. got[c] <= 1 /\ ~header_found[c] /\ output[c] = <<>> /\ ~cut[c]
        BY <3>1 DEF TailInv
      <4>2. QED
        BY <3>1, <3>2, <4>1 DEF TailInv
    <3>4. ASSUME NEW d \in Clients, d # c PROVE TailInv(d)'
      <4>1. reply'[d] = reply[d]
        BY <3>1, <3>4 DEF StreamInv, StreamTypes
      <4>2. QED
        BY <3>2, <4>1, QuietKeepsTail
    <3>5. QED
      BY <3>3, <3>4
  <2>2. CASE ~RecvRequest(c)
    BY <1>1, <1>4, <2>2 DEF Child, Send, FinishReply, ServeNobody, ChildCloses,
                            ChildExits, tcpVars, clientVars
  <2>3. QED
    BY <2>1, <2>2
<1>5. ASSUME NEW c \in Clients, Client(c), NEW d \in Clients
      PROVE  TailInv(d)'
  <2>1. CASE d = c /\ Recv(c)
    BY <1>5, <2>1, RecvKeepsTail
  <2>2. CASE d = c /\ ~Recv(c)
    <3>1. UNCHANGED <<reply, got, output, header_found>>
      BY <1>5, <2>2 DEF Client, ClientStep, Connect, SendRequest, RecvEnd, tcpVars
    <3>2. cut'[c] <=> cut[c]
      BY <1>5, <3>1, CutStep DEF StreamInv, TailInv
    <3>3. QED
      BY <2>2, <3>1, <3>2, QuietKeepsTail
  <2>3. CASE d # c
    <3>1. PICK b \in BOOLEAN : cut' = [cut EXCEPT ![c] = b]
      BY <1>5, CutStep DEF StreamInv
    <3>2. cut'[d] = cut[d]
      BY <2>3, <3>1 DEF StreamInv, StreamTypes
    <3>3. /\ reply'[d] = reply[d] /\ got'[d] = got[d]
          /\ output'[d] = output[d] /\ header_found'[d] = header_found[d]
      BY <1>5, <2>3 DEF Client, ClientStep, Connect, SendRequest, RecvEnd, Recv, WriteAll,
                        WriteTail, Skip, tcpVars, StreamInv, StreamTypes
    <3>4. QED
      BY <3>2, <3>3, QuietKeepsTail
  <2>4. QED
    BY <2>1, <2>2, <2>3
<1>6. ASSUME NEW c \in Clients, Stop(c)
      PROVE  \A d \in Clients : TailInv(d)'
  BY <1>1, <1>6 DEF Stop, ClientStops, tcpVars
<1>7. CASE UNCHANGED httpVars
  BY <1>1, <1>7 DEF httpVars, tcpVars, clientVars
<1>8. QED
  BY <1>2, <1>3, <1>4, <1>5, <1>6, <1>7 DEF HttpNext

LEMMA TailInitially == HttpInit => \A c \in Clients : TailInv(c)
<1> SUFFICES ASSUME HttpInit, NEW c \in Clients PROVE TailInv(c)
  OBVIOUS
<1>1. got[c] = 0 /\ output[c] = <<>>
  BY DEF HttpInit, TcpInit, ClientInit
<1>2. ~header_found[c]
  BY DEF HttpInit, ClientInit
<1>3. ~cut[c]
  BY DEF HttpInit
<1>4. QED
  BY <1>1, <1>2, <1>3 DEF TailInv

LEMMA TailCorrect == HttpSpec => [](LoopInv /\ StreamInv /\ \A c \in Clients : TailInv(c))
<1> DEFINE Tails == \A c \in Clients : TailInv(c)
<1>1. HttpInit => LoopInv /\ StreamInv /\ Tails
  BY LoopInitially, StreamInitially, TailInitially
<1>2. LoopInv /\ StreamInv /\ Tails /\ [HttpNext]_httpVars => LoopInv' /\ StreamInv' /\ Tails'
  BY LoopNext, StreamNext, TailNext DEF StreamInv, StreamTypes, HpcTypeOK
<1> HIDE DEF Tails
<1>3. HttpSpec => [](LoopInv /\ StreamInv /\ Tails)
  BY <1>1, <1>2, PTL DEF HttpSpec
<1>4. QED
  BY <1>3 DEF Tails

\* What a client writes to its file is one unbroken end of what it received,
\* behind a blank line, however recv cuts the stream (http_client.c:132-145).
THEOREM OutputIsAlwaysTail == HttpSpec => []OutputIsTail
<1>1. StreamInv /\ (\A c \in Clients : TailInv(c)) => OutputIsTail
  <2> SUFFICES ASSUME StreamInv, NEW c \in Clients, TailInv(c)
               PROVE  IF header_found[c]
                      THEN \E i \in 2..got[c] :
                             /\ reply[c][i-1] = Nl /\ reply[c][i] = Nl
                             /\ output[c] = SubSeq(reply[c], i + 1, got[c])
                      ELSE output[c] = <<>>
    BY DEF OutputIsTail
  <2>1. got[c] \in Nat
    BY StreamsTyped DEF StreamInv
  <2>2. \A i \in 3..got[c] : i \in 2..got[c]
    BY <2>1
  <2>3. QED
    BY <2>2 DEF TailInv
<1>2. QED
  BY <1>1, TailCorrect, PTL

----------------------------------------------------------------------------
\* The download.  A reply to a request that was read whole is the one for the
\* path asked for, and all of it has been written when the child has closed,
\* unless the client died; a client that is done has read all that was sent.
DownloadInv(c) ==
  /\ hpc[c] \in {"connect", "request"} => request[c] = "none"
  /\ request[c] = "read" => reply[c] = Response(asks[c]) /\ process[c] # "none"
  /\ request[c] = "read" /\ process[c] # "running" /\ hpc[c] # "stopped" =>
       sent[c] = Len(reply[c])
  /\ hpc[c] = "done" => HungUp(c) /\ got[c] = sent[c]

\* A step that changes nothing of one client's download.
LEMMA QuietKeepsDownload ==
  ASSUME NEW c \in Clients, DownloadInv(c), UNCHANGED asks,
         hpc'[c] = hpc[c], request'[c] = request[c], reply'[c] = reply[c],
         process'[c] = process[c], sent'[c] = sent[c], got'[c] = got[c], open'[c] = open[c]
  PROVE  DownloadInv(c)'
BY DEF DownloadInv, HungUp

LEMMA CloseKeepsDownload ==
  ASSUME LoopInv, StreamInv, CloseNewFd, UNCHANGED clientVars,
         NEW c \in Clients, DownloadInv(c)
  PROVE  DownloadInv(c)'
<1>1. PICK b \in Clients : b = new_fd
  BY DEF CloseNewFd, LoopInv, LoopTypes
<1>2. /\ CloseBy(b, "parent") /\ open' = [open EXCEPT ![b] = @ \ {"parent"}]
      /\ UNCHANGED <<asks, hpc, request, reply, process, got>>
  BY <1>1 DEF CloseNewFd, CloseBy, clientVars
<1>3. PICK n : sent' = [sent EXCEPT ![b] = n]
  BY <1>2, SentAfterClose DEF StreamInv
<1>4. request[b] # "sent" => sent' = sent
  BY <1>2, SentAfterClose DEF StreamInv
<1>5. CASE c = b
  <2>1. "parent" \in open[c]
    BY <1>1, <1>5 DEF LoopInv, Held
  <2>2. hpc[c] # "done"
    BY <2>1 DEF DownloadInv, HungUp
  <2>3. QED
    BY <1>2, <1>4, <1>5, <2>2 DEF DownloadInv
<1>6. CASE c # b
  <2>1. sent'[c] = sent[c] /\ open'[c] = open[c]
    BY <1>2, <1>3, <1>6 DEF StreamInv, StreamTypes, LoopInv, LoopTypes
  <2>2. QED
    BY <1>2, <2>1, QuietKeepsDownload
<1>7. QED
  BY <1>5, <1>6

LEMMA ChildCloseKeepsDownload ==
  ASSUME LoopInv, StreamInv, NEW b \in Clients, ChildCloses(b), process[b] = "running",
         sent[b] = Len(reply[b]) \/ hpc[b] = "stopped", UNCHANGED clientVars,
         NEW c \in Clients, DownloadInv(c)
  PROVE  DownloadInv(c)'
<1>1. /\ CloseBy(b, "child") /\ open' = [open EXCEPT ![b] = @ \ {"child"}]
      /\ process' = [process EXCEPT ![b] = "exiting"]
      /\ UNCHANGED <<asks, hpc, request, reply, got>>
  BY DEF ChildCloses, CloseBy, clientVars
<1>2. PICK n : sent' = [sent EXCEPT ![b] = n]
  BY <1>1, SentAfterClose DEF StreamInv
<1>3. request[b] # "sent" => sent' = sent
  BY <1>1, SentAfterClose DEF StreamInv
<1>4. CASE c = b
  <2>1. "child" \in open[c] /\ process'[c] = "exiting"
    BY <1>1, <1>4 DEF LoopInv, LoopTypes, Held
  <2>2. hpc[c] # "done"
    BY <2>1 DEF DownloadInv, HungUp
  <2>3. QED
    BY <1>1, <1>3, <1>4, <2>1, <2>2 DEF DownloadInv
<1>5. CASE c # b
  <2>1. sent'[c] = sent[c] /\ open'[c] = open[c] /\ process'[c] = process[c]
    BY <1>1, <1>2, <1>5 DEF StreamInv, StreamTypes, LoopInv, LoopTypes
  <2>2. QED
    BY <1>1, <2>1, QuietKeepsDownload
<1>6. QED
  BY <1>4, <1>5

LEMMA DownloadNext ==
  ASSUME LoopInv, StreamInv, \A c \in Clients : DownloadInv(c), [HttpNext]_httpVars
  PROVE  \A c \in Clients : DownloadInv(c)'
<1>0. SUFFICES ASSUME NEW c \in Clients PROVE DownloadInv(c)'
  OBVIOUS
<1> USE DEF LoopInv, LoopTypes, StreamInv, StreamTypes
<1>1. DownloadInv(c)
  OBVIOUS
<1>2. CASE UNCHANGED httpVars
  BY <1>1, <1>2, QuietKeepsDownload DEF httpVars, tcpVars, forkVars, clientVars
<1>3. CASE Parent
  <2>1. CASE Accept
    <3>1. /\ backlog # <<>> /\ open' = [open EXCEPT ![Head(backlog)] = {"parent"}]
          /\ UNCHANGED <<asks, hpc, request, reply, process, sent, got>>
      BY <1>3, <2>1 DEF Accept, Parent, clientVars
    <3>2. HungUp(c) => HungUp(c)'
      <4>1. Head(backlog) = backlog[1] /\ 1 \in 1..Len(backlog) /\ Head(backlog) \in Clients
        BY <3>1, HeadTailProperties, EmptySeq, LenProperties
      <4>2. open[Head(backlog)] # {}
        <5>1. \A i \in 1..Len(backlog) : open[backlog[i]] = {"kernel"}
          BY DEF Waits
        <5>2. open[backlog[1]] = {"kernel"}
          BY <4>1, <5>1
        <5>3. QED
          BY <4>1, <5>2
      <4>3. QED
        BY <3>1, <4>2 DEF HungUp
    <3>3. QED
      BY <1>1, <3>1, <3>2 DEF DownloadInv
  <2>2. CASE Fork
    <3>1. PICK b \in Clients : b = new_fd
      BY <2>2 DEF Fork
    <3>2. /\ process' = [process EXCEPT ![b] = "running"]
          /\ open' = [open EXCEPT ![b] = @ \cup {"child"}]
          /\ UNCHANGED <<asks, hpc, request, reply, sent, got>>
      BY <1>3, <2>2, <3>1 DEF Fork, Parent, clientVars
    <3>3. "parent" \in open[b]
      BY <3>1 DEF Held
    <3>4. HungUp(c) => HungUp(c)'
      BY <3>2, <3>3 DEF HungUp
    <3>5. process'[c] = "running" \/ process'[c] = process[c]
      BY <3>2
    <3>6. QED
      BY <1>1, <3>2, <3>4, <3>5 DEF DownloadInv
  <2>3. CASE ForkFails
    BY <1>1, <1>3, <2>3, QuietKeepsDownload DEF ForkFails, Parent, tcpVars, clientVars
  <2>4. CASE CloseNewFd
    BY <1>1, <1>3, <2>4, CloseKeepsDownload DEF Parent
  <2>5. QED
    BY <1>3, <2>1, <2>2, <2>3, <2>4 DEF Parent, ParentStep
<1>4. CASE Handler
  <2>1. /\ UNCHANGED <<asks, hpc, request, reply, sent, got, open>>
        /\ \/ process'[c] = process[c]
           \/ process[c] = "zombie" /\ process'[c] = "reaped"
    BY <1>4 DEF Handler, HandlerStep, EnterHandler, Reap, LeaveHandler, Zombies,
                tcpVars, clientVars
  <2>2. QED
    BY <1>1, <2>1 DEF DownloadInv, HungUp
<1>5. ASSUME NEW b \in Clients, Child(b) PROVE DownloadInv(c)'
  <2>1. CASE RecvRequest(b)
    <3>1. /\ process[b] = "running" /\ request[b] = "sent"
          /\ UNCHANGED <<asks, hpc, process, sent, got, open>>
      BY <1>5, <2>1 DEF RecvRequest, Child, clientVars, forkVars
    <3>2. CASE /\ reply' = [reply EXCEPT ![b] = Response(asks[b])]
               /\ request' = [request EXCEPT ![b] = "read"]
      BY <1>1, <3>1, <3>2 DEF DownloadInv, HungUp
    <3>3. CASE /\ \E r : reply' = [reply EXCEPT ![b] = r]
               /\ request' = request
      BY <1>1, <3>1, <3>3 DEF DownloadInv, HungUp
    <3>4. QED
      BY <2>1, <3>2, <3>3 DEF RecvRequest
  <2>2. CASE Send(b)
    <3>1. PICK n \in Nat : sent' = [sent EXCEPT ![b] = n]
      BY <1>5, <2>2, SendKeepsStreams DEF Child
    <3>2. /\ process[b] = "running"
          /\ UNCHANGED <<asks, hpc, request, reply, process, got, open>>
      BY <1>5, <2>2 DEF Send, Serving, Child, clientVars, forkVars
    <3>3. open[b] # {}
      BY <3>2 DEF Held
    <3>4. CASE c = b
      BY <1>1, <3>1, <3>2, <3>3, <3>4 DEF DownloadInv, HungUp
    <3>5. CASE c # b
      BY <1>1, <3>1, <3>2, <3>5, QuietKeepsDownload
    <3>6. QED
      BY <3>4, <3>5
  <2>3. CASE FinishReply(b) \/ (hpc[b] = "stopped" /\ ServeNobody(b))
    BY <1>1, <1>5, <2>3, ChildCloseKeepsDownload DEF FinishReply, ServeNobody, Serving, Child
  <2>4. CASE ChildExits(b)
    <3>1. /\ process[b] = "exiting" /\ process' = [process EXCEPT ![b] = "zombie"]
          /\ UNCHANGED <<asks, hpc, request, reply, sent, got, open>>
      BY <1>5, <2>4 DEF ChildExits, Child, tcpVars, clientVars
    <3>2. \/ process'[c] = process[c]
          \/ process[c] = "exiting" /\ process'[c] = "zombie"
      BY <3>1
    <3>3. QED
      BY <1>1, <3>1, <3>2 DEF DownloadInv, HungUp
  <2>5. QED
    BY <1>5, <2>1, <2>2, <2>3, <2>4 DEF Child
<1>6. ASSUME NEW b \in Clients, Client(b) PROVE DownloadInv(c)'
  <2>1. UNCHANGED <<asks, reply, process, sent>>
    BY <1>6 DEF Client, ClientStep, Connect, SendRequest, Recv, RecvEnd, tcpVars, forkVars
  <2>2. CASE Connect(b)
    <3>1. /\ hpc[b] = "connect" /\ hpc' = [hpc EXCEPT ![b] = "request"]
          /\ open' = [open EXCEPT ![b] = {"kernel"}] /\ UNCHANGED <<request, got>>
      BY <2>2 DEF Connect, Establish
    <3>2. QED
      BY <1>1, <2>1, <3>1 DEF DownloadInv, HungUp
  <2>3. CASE SendRequest(b)
    <3>1. /\ hpc[b] = "request" /\ hpc' = [hpc EXCEPT ![b] = "recv"]
          /\ request' = [request EXCEPT ![b] = "sent"] /\ UNCHANGED <<open, got>>
      BY <2>3 DEF SendRequest
    <3>2. QED
      BY <1>1, <2>1, <3>1 DEF DownloadInv, HungUp
  <2>4. CASE Recv(b)
    <3>1. hpc[b] = "recv" /\ UNCHANGED <<hpc, request, open>>
      BY <2>4 DEF Recv
    <3>2. QED
      BY <1>1, <2>1, <2>4, <3>1 DEF DownloadInv, HungUp, Recv
  <2>5. CASE RecvEnd(b)
    BY <1>1, <2>1, <2>5 DEF DownloadInv, HungUp, RecvEnd, tcpVars
  <2>6. QED
    BY <1>6, <2>2, <2>3, <2>4, <2>5 DEF Client, ClientStep
<1>7. ASSUME NEW b \in Clients, Stop(b) PROVE DownloadInv(c)'
  <2>1. /\ hpc' = [hpc EXCEPT ![b] = "stopped"]
        /\ UNCHANGED <<asks, request, reply, process, sent, got, open>>
    BY <1>7 DEF Stop, ClientStops, tcpVars, forkVars
  <2>2. QED
    BY <1>1, <2>1 DEF DownloadInv, HungUp
<1>8. QED
  BY <1>2, <1>3, <1>4, <1>5, <1>6, <1>7 DEF HttpNext

LEMMA DownloadInitially == HttpInit => \A c \in Clients : DownloadInv(c)
<1> SUFFICES ASSUME HttpInit, NEW c \in Clients PROVE DownloadInv(c)
  OBVIOUS
<1>1. hpc[c] = "connect" /\ request[c] = "none"
  BY DEF HttpInit, TcpInit, ClientInit
<1>2. QED
  BY <1>1 DEF DownloadInv

\* When a client is done, the invariants say what its file is.
LEMMA DoneDownload ==
  ASSUME LoopInv, StreamInv, NEW c \in Clients, TailInv(c), DownloadInv(c),
         hpc[c] = "done", request[c] = "read"
  PROVE  output[c] = Body(asks[c]) <=> ~cut[c] \/ Body(asks[c]) = <<>>
<1> DEFINE r == reply[c]
           b == Body(asks[c])
           l == Len(r)
<1>1. r = Response(asks[c]) /\ asks[c] \in Names
  BY StreamsTyped DEF DownloadInv, StreamInv
<1>2. r \in Seq(Tokens) /\ l \in Nat /\ l >= 3 /\ b = SubSeq(r, 4, l) /\ Len(b) = l - 3
  <2>1. Shape(r, b)
    BY <1>1, ResponseShape
  <2>2. QED
    BY <2>1, LenProperties DEF Shape
<1>3. got[c] = l
  <2>1. process[c] # "running"
    BY DEF DownloadInv, HungUp, LoopInv, Held
  <2>2. QED
    BY <2>1 DEF DownloadInv
<1> HIDE DEF r, b, l
<1>4. CASE header_found[c]
  <2>1. PICK i \in 3..l : output[c] = SubSeq(r, i + 1, l) /\ (cut[c] <=> i # 3)
    BY <1>3, <1>4 DEF TailInv, r
  <2>2. CASE i = 3
    BY <1>2, <2>1, <2>2 DEF b
  <2>3. CASE i # 3
    <3>1. \A j \in i+1..l : r[j] \in Tokens
      BY <1>2, <2>1, ElementOfSeq DEF l
    <3>2. Len(SubSeq(r, i + 1, l)) = l - i
      <4> DEFINE m == i + 1
      <4>1. m \in Int /\ l \in Int /\ (IF m <= l THEN l - m + 1 ELSE 0) = l - i
        BY <1>2, <2>1
      <4>2. \A j \in m..l : r[j] \in Tokens
        BY <3>1
      <4> HIDE DEF m
      <4>3. Len(SubSeq(r, m, l)) = IF m <= l THEN l - m + 1 ELSE 0
        BY <4>1, <4>2, SubSeqProperties
      <4>4. QED
        BY <4>1, <4>3 DEF m
    <3>3. output[c] # b /\ Len(b) # 0
      BY <1>2, <2>1, <2>3, <3>2
    <3>4. b # <<>>
      BY <3>3, EmptySeq
    <3>5. QED
      BY <2>1, <2>3, <3>3, <3>4 DEF b
  <2>4. QED
    BY <2>2, <2>3
<1>5. CASE ~header_found[c]
  <2>1. output[c] = <<>> /\ cut[c]
    BY <1>2, <1>3, <1>5 DEF TailInv
  <2>2. QED
    BY <2>1 DEF b
<1>6. QED
  BY <1>4, <1>5

\* Whoever else downloads, and however recv and send cut the streams: the file
\* a client has at the end is the one it asked for, unless a recv ended inside
\* the header's blank line and the file is not empty (http_client.c:127-151,
\* http_server.c:124-170).
THEOREM DownloadsAreFiles == HttpSpec => []DownloadIsFileUnlessCut
<1> DEFINE Tails == \A c \in Clients : TailInv(c)
           Downloads == \A c \in Clients : DownloadInv(c)
<1>1. HttpInit => Downloads
  BY DownloadInitially
<1>2. LoopInv /\ StreamInv /\ Downloads /\ [HttpNext]_httpVars => Downloads'
  BY DownloadNext
<1>3. LoopInv /\ StreamInv /\ Tails /\ Downloads => DownloadIsFileUnlessCut
  BY DoneDownload DEF DownloadIsFileUnlessCut
<1>4. HttpSpec => [](LoopInv /\ StreamInv /\ Tails)
  BY TailCorrect
<1> HIDE DEF Tails, Downloads
<1>5. QED
  BY <1>1, <1>2, <1>3, <1>4, PTL DEF HttpSpec
=============================================================================
