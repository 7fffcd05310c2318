---------------------------- MODULE HttpTransfer ----------------------------
(***************************************************************************)
(* mp1: clients that download from one server, all at once.  Each process  *)
(* runs by itself, and the only bounds on what a recv returns are those of *)
(* TCP: the bytes come in order, in pieces of any size.                    *)
(***************************************************************************)
EXTENDS HttpServer, HttpClient

CONSTANTS Diligent    \* the clients that go on reading

ASSUME DiligentAssumption == Diligent \subseteq Clients

\* History: a recv ended inside the blank line that ends the header.
VARIABLES cut

httpVars == <<tcpVars, forkVars, clientVars, cut>>

HttpInit ==
  /\ TcpInit /\ ForkInit /\ ClientInit
  /\ cut = [c \in Clients |-> FALSE]

\* main of the server, which is one process, and its signal handler.
Parent == ParentStep /\ UNCHANGED <<clientVars, cut>>

Handler == HandlerStep /\ UNCHANGED <<clientVars, cut>>

Child(c) ==
  /\ \/ RecvRequest(c) \/ Send(c) \/ FinishReply(c) \/ ChildExits(c)
     \/ hpc[c] = "stopped" /\ ServeNobody(c)
  /\ UNCHANGED <<clientVars, cut>>

Client(c) ==
  /\ ClientStep(c)
  /\ cut' = [cut EXCEPT ![c] = @ \/ got'[c] = Len(Header("200 OK")) - 1]
  /\ UNCHANGED forkVars

Stop(c) == ClientStops(c) /\ UNCHANGED <<forkVars, cut>>

HttpNext ==
  \/ Parent \/ Handler
  \/ \E c \in Clients : Child(c) \/ Client(c) \/ Stop(c)

HttpSpec == HttpInit /\ [][HttpNext]_httpVars

(***************************************************************************)
(* Fairness.  Every process of the server runs on, and signals are         *)
(* delivered.  Of the clients only the diligent ones go on: the others may *)
(* stop reading at any moment and keep their connections open.             *)
(***************************************************************************)
FairHttpSpec ==
  /\ HttpSpec
  /\ WF_httpVars(Parent) /\ WF_httpVars(Handler)
  /\ \A c \in Clients : WF_httpVars(Child(c))
  /\ \A c \in Diligent : WF_httpVars(Client(c))

----------------------------------------------------------------------------
StreamTypes ==
  /\ asks \in Wishes
  /\ request \in [Clients -> {"none", "sent", "read"}]
  /\ hpc \in [Clients -> {"connect", "request", "recv", "done", "stopped"}]
  /\ header_found \in [Clients -> BOOLEAN] /\ cut \in [Clients -> BOOLEAN]
  /\ output \in [Clients -> Seq(Tokens)]
  /\ reply \in [Clients -> {<<>>} \cup ResponseToPart]
  /\ sent \in [Clients -> Nat] /\ got \in [Clients -> Nat]

StreamBounds(c) ==
  /\ got[c] <= sent[c] /\ sent[c] <= Len(reply[c])
  /\ sent[c] <= got[c] + Window

\* Type correctness of both programs and the connections.
HttpTypeOK == ForkTypeOK /\ StreamTypes /\ \A c \in Clients : StreamBounds(c)

\* The output is one unbroken end of what was received, it begins behind a
\* blank line, and there is none before such a line has been seen: no piece
\* of the stream is written twice or left out (http_client.c:132-145).
OutputIsTail ==
  \A c \in Clients :
    IF header_found[c]
    THEN \E i \in 2..got[c] :
           /\ reply[c][i-1] = Nl /\ reply[c][i] = Nl
           /\ output[c] = SubSeq(reply[c], i + 1, got[c])
    ELSE output[c] = <<>>

\* What a client should have when it has downloaded the file called name.
Body(name) == IF name \in DOMAIN Files THEN Files[name] ELSE <<>>

\* A download that ended normally, of a request that arrived whole, is the
\* file asked for - its own, whatever the other clients do - unless a recv
\* ended inside the blank line of the header: then it never is, not even if
\* the file has a blank line of its own.
DownloadIsFileUnlessCut ==
  \A c \in Clients :
    hpc[c] = "done" /\ request[c] = "read" =>
      (output[c] = Body(asks[c]) <=> ~cut[c] \/ Body(asks[c]) = <<>>)

\* A client that goes on reading comes to the end of its download, though
\* others stop reading in the middle of theirs (MP1.pdf: "another client
\* that comes looking for a 10KB object shouldn't have to wait").
EveryDownloadEnds ==
  \A c \in Diligent : hpc[c] = "recv" ~> hpc[c] \in {"done", "stopped"}
=============================================================================
