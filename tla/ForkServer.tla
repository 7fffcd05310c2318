----------------------------- MODULE ForkServer -----------------------------
(***************************************************************************)
(* The loop that mp0/src/server.c and mp1's http_server.c have in common:  *)
(* main accepts a connection, forks a child to serve it and closes its own *)
(* descriptor; sigchld_handler, which may interrupt main between any two   *)
(* of its steps, collects the children that have exited.                   *)
(***************************************************************************)
EXTENDS TcpConnections

CONSTANTS
  Nobody,
  ForkMayFail   \* whether fork may return -1

ASSUME NobodyAssumption == Nobody \notin Clients
ASSUME ForkMayFailAssumption == ForkMayFail \in BOOLEAN

VARIABLES
  ppc,        \* where main is: at accept, fork or close
  new_fd,     \* the connection it has in hand, Nobody when it has closed it
  process,    \* the child of each connection
  sigchld,    \* whether a SIGCHLD is pending: signals do not queue up
  handling    \* whether sigchld_handler runs

forkVars == <<ppc, new_fd, process, sigchld, handling>>

ForkInit ==
  /\ ppc = "accept"
  /\ new_fd = Nobody
  /\ process = [c \in Clients |-> "none"]
  /\ sigchld = FALSE
  /\ handling = FALSE

\* accept.  (One that returns -1 changes nothing.)
Accept ==
  /\ ppc = "accept" /\ ~handling
  /\ backlog # <<>>
  /\ new_fd' = Head(backlog)
  /\ backlog' = Tail(backlog)
  /\ open' = [open EXCEPT ![Head(backlog)] = {"parent"}]
  /\ ppc' = "fork"
  /\ UNCHANGED <<process, sigchld, handling, asks, request, reply, sent, got>>

\* fork: the child inherits the descriptor.
Fork ==
  /\ ppc = "fork" /\ ~handling
  /\ process' = [process EXCEPT ![new_fd] = "running"]
  /\ open' = [open EXCEPT ![new_fd] = @ \cup {"child"}]
  /\ ppc' = "close"
  /\ UNCHANGED <<new_fd, sigchld, handling, backlog, asks, request, reply, sent, got>>

\* fork returns -1, which is not 0: main goes on as the parent does.
ForkFails ==
  /\ ForkMayFail
  /\ ppc = "fork" /\ ~handling
  /\ ppc' = "close"
  /\ UNCHANGED <<new_fd, process, sigchld, handling, tcpVars>>

\* Mutant of CloseNewFd: the parent keeps its descriptor.
CloseNewFdNever ==
  /\ ppc = "close" /\ ~handling
  /\ ppc' = "accept"
  /\ new_fd' = Nobody
  /\ UNCHANGED <<process, sigchld, handling, tcpVars>>

\* close(new_fd) by the parent.
CloseNewFd ==
  /\ ppc = "close" /\ ~handling
  /\ CloseBy(new_fd, "parent")
  /\ ppc' = "accept"
  /\ new_fd' = Nobody
  /\ UNCHANGED <<process, sigchld, handling, backlog, asks, request, reply, got>>

Zombies == {c \in Clients : process[c] = "zombie"}

\* The kernel delivers SIGCHLD, which is blocked while its handler runs.
EnterHandler ==
  /\ sigchld /\ ~handling
  /\ sigchld' = FALSE
  /\ handling' = TRUE
  /\ UNCHANGED <<ppc, new_fd, process, tcpVars>>

\* Mutant of Reap: one waitpid for each signal.
ReapOnce ==
  /\ handling
  /\ \E c \in Zombies : process' = [process EXCEPT ![c] = "reaped"]
  /\ handling' = FALSE
  /\ UNCHANGED <<ppc, new_fd, sigchld, tcpVars>>

\* waitpid(-1, NULL, WNOHANG) > 0.
Reap ==
  /\ handling
  /\ \E c \in Zombies : process' = [process EXCEPT ![c] = "reaped"]
  /\ UNCHANGED <<ppc, new_fd, sigchld, handling, tcpVars>>

\* waitpid finds no child that has exited.
LeaveHandler ==
  /\ handling /\ Zombies = {}
  /\ handling' = FALSE
  /\ UNCHANGED <<ppc, new_fd, process, sigchld, tcpVars>>

\* The child of c closes the connection.
ChildCloses(c) ==
  /\ process' = [process EXCEPT ![c] = "exiting"]
  /\ CloseBy(c, "child")
  /\ UNCHANGED <<ppc, new_fd, sigchld, handling, backlog, asks, request, reply, got>>

\* The child of c exits.
ChildExits(c) ==
  /\ process[c] = "exiting"
  /\ process' = [process EXCEPT ![c] = "zombie"]
  /\ sigchld' = TRUE
  /\ UNCHANGED <<ppc, new_fd, handling, tcpVars>>

ParentStep == Accept \/ Fork \/ ForkFails \/ CloseNewFd

HandlerStep == EnterHandler \/ Reap \/ LeaveHandler

----------------------------------------------------------------------------
\* Type correctness of the loop, and who holds which connection when.
ForkTypeOK ==
  /\ ppc \in {"accept", "fork", "close"}
  /\ new_fd \in IF ppc = "accept" THEN {Nobody} ELSE Clients
  /\ process \in [Clients -> {"none", "running", "exiting", "zombie", "reaped"}]
  /\ sigchld \in BOOLEAN /\ handling \in BOOLEAN
  /\ open \in [Clients -> SUBSET {"kernel", "parent", "child"}]
  /\ backlog \in Seq(Clients)
  /\ \A c \in Clients :
       /\ "parent" \in open[c] <=> new_fd = c
       /\ "child" \in open[c] <=> process[c] = "running"

\* No child that has exited is forgotten, although signals that come while
\* one is pending, or while the handler runs, leave no trace of their number:
\* a zombie is always about to be collected (server.c:24, "reap all dead
\* processes").
NoZombieForgotten ==
  Zombies # {} => sigchld \/ handling
=============================================================================
