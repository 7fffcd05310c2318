--------------------------- MODULE TcpConnections ---------------------------
(***************************************************************************)
(* What mp1's programs (src/mp/mp1) share: the TCP connections between     *)
(* clients and a server, one for each client.  A connection is a stream:   *)
(* of the reply the first sent bytes have been written and the first got   *)
(* have been read, in pieces of any size.  What the kernel does is taken   *)
(* from how the programs use it.                                           *)
(*                                                                         *)
(* Bytes are tokens: Nl stands for "\r\n", Nul for a zero byte, a status   *)
(* line without its newline is one token, and so is any other byte.        *)
(***************************************************************************)
EXTENDS Integers, Sequences

CONSTANTS
  Clients,
  Names,      \* the paths that can be asked for
  Wishes,     \* which of them each client asks for
  Nl, Nul,
  Window      \* bytes written and not read that a connection has room for

ASSUME WishesAssumption == Wishes \subseteq [Clients -> Names]
ASSUME WindowAssumption == Window \in Nat \ {0}

VARIABLES
  backlog,    \* connections made and not yet accepted, in order
  open,       \* who holds the server's end: "kernel", "parent", "child"
  asks,       \* the path each client asks for
  request,    \* "none", "sent", or "read" when the server has read all of it
  reply,      \* what the server writes to the client, <<>> before it knows
  sent,       \* how much of it has been written
  got         \* how much of it has been read

tcpVars == <<backlog, open, asks, request, reply, sent, got>>

TcpInit ==
  /\ backlog = <<>>
  /\ open = [c \in Clients |-> {}]
  /\ asks \in Wishes
  /\ request = [c \in Clients |-> "none"]
  /\ reply = [c \in Clients |-> <<>>]
  /\ sent = [c \in Clients |-> 0]
  /\ got = [c \in Clients |-> 0]

Lesser(m, n) == IF m < n THEN m ELSE n

\* connect: the kernel completes it; the server need not have accepted.
Establish(c) ==
  /\ backlog' = Append(backlog, c)
  /\ open' = [open EXCEPT ![c] = {"kernel"}]

\* Nobody holds the server's end any more: the client comes to an end of file.
HungUp(c) == open[c] = {}

\* close, by one of those who hold the server's end.  When the last one does
\* so and part of the request has not been read, the connection is reset, and
\* what was written and has not been read may be lost.
CloseBy(c, who) ==
  /\ open' = [open EXCEPT ![c] = @ \ {who}]
  /\ \/ /\ open'[c] = {} /\ request[c] = "sent"
        /\ \E n \in got[c]..sent[c] : sent' = [sent EXCEPT ![c] = n]
     \/ /\ ~(open'[c] = {} /\ request[c] = "sent")
        /\ UNCHANGED sent
=============================================================================
