----------------------------- MODULE HttpClient -----------------------------
(***************************************************************************)
(* mp1/src/http_client.c: main sends a request, looks for the blank line   *)
(* that ends the header of the reply, and writes what follows to the file  *)
(* "output".                                                               *)
(***************************************************************************)
EXTENDS TcpConnections, FiniteSetsExt

CONSTANTS
  MAXDATASIZE    \* the size of buf; scaled down

ASSUME MaxDataSizeAssumption == MAXDATASIZE \in Nat \ {0, 1}

VARIABLES
  hpc,           \* where main is; "stopped" when the process has died
  header_found,
  output         \* the file it writes

clientVars == <<hpc, header_found, output>>

ClientInit ==
  /\ hpc = [c \in Clients |-> "connect"]
  /\ header_found = [c \in Clients |-> FALSE]
  /\ output = [c \in Clients |-> <<>>]

Connect(c) ==
  /\ hpc[c] = "connect"
  /\ hpc' = [hpc EXCEPT ![c] = "request"]
  /\ Establish(c)
  /\ UNCHANGED <<header_found, output, asks, request, reply, sent, got>>

SendRequest(c) ==
  /\ hpc[c] = "request"
  /\ hpc' = [hpc EXCEPT ![c] = "recv"]
  /\ request' = [request EXCEPT ![c] = "sent"]
  /\ UNCHANGED <<header_found, output, backlog, open, asks, reply, sent, got>>

\* Where the blank lines are that strstr can see: it stops at a zero byte.
BlankLines(buf) ==
  {i \in 1..Len(buf)-1 : /\ buf[i] = Nl /\ buf[i+1] = Nl
                         /\ \A j \in 1..i : buf[j] # Nul}

\* fwrite(buf)
WriteAll(c, buf) ==
  /\ header_found[c]
  /\ output' = [output EXCEPT ![c] = @ \o buf]
  /\ UNCHANGED header_found

\* Mutant of WriteTail: the blank line itself is written too.
WriteFromBlank(c, buf) ==
  /\ ~header_found[c] /\ BlankLines(buf) # {}
  /\ header_found' = [header_found EXCEPT ![c] = TRUE]
  /\ output' = [output EXCEPT ![c] = SubSeq(buf, Min(BlankLines(buf)), Len(buf))]

\* fwrite(header_end), behind the first blank line.
WriteTail(c, buf) ==
  /\ ~header_found[c] /\ BlankLines(buf) # {}
  /\ header_found' = [header_found EXCEPT ![c] = TRUE]
  /\ output' = [output EXCEPT ![c] = SubSeq(buf, Min(BlankLines(buf)) + 2, Len(buf))]

\* No blank line in buf: it is taken for header and dropped.
Skip(c, buf) ==
  /\ ~header_found[c] /\ BlankLines(buf) = {}
  /\ UNCHANGED <<header_found, output>>

\* recv: any part of what has come, as far as buf has room for it.
Recv(c) ==
  /\ hpc[c] = "recv"
  /\ \E numbytes \in 1..Lesser(MAXDATASIZE - 1, sent[c] - got[c]) :
       LET buf == SubSeq(reply[c], got[c] + 1, got[c] + numbytes)
       IN  /\ got' = [got EXCEPT ![c] = @ + numbytes]
           /\ WriteAll(c, buf) \/ WriteTail(c, buf) \/ Skip(c, buf)
  /\ UNCHANGED <<hpc, backlog, open, asks, request, reply, sent>>

\* recv returns 0 at the end of the stream, or -1 after a reset.
RecvEnd(c) ==
  /\ hpc[c] = "recv"
  /\ HungUp(c) /\ got[c] = sent[c]
  /\ hpc' = [hpc EXCEPT ![c] = "done"]
  /\ UNCHANGED <<header_found, output, tcpVars>>

\* The process dies, or cannot open "output".
ClientStops(c) ==
  /\ hpc[c] \in {"request", "recv"}
  /\ hpc' = [hpc EXCEPT ![c] = "stopped"]
  /\ UNCHANGED <<header_found, output, tcpVars>>

ClientStep(c) == Connect(c) \/ SendRequest(c) \/ Recv(c) \/ RecvEnd(c)
=============================================================================
