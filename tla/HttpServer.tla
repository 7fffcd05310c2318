----------------------------- MODULE HttpServer -----------------------------
(***************************************************************************)
(* mp1/src/http_server.c: the child that serves one connection.  It reads  *)
(* the request with one recv, answers with a status line, a blank line and *)
(* the file asked for, and exits.  Its sends block, so the borders between *)
(* them cannot be told from outside.                                       *)
(***************************************************************************)
EXTENDS ForkServer

CONSTANTS
  Bytes,
  Files,            \* the contents of the files that fopen opens
  Unreadable,       \* the names it fails on with another errno than ENOENT
  Cuttable          \* the clients whose request recv may return in part

Statuses == {"200 OK", "400 Bad Request", "404 Not Found"}

\* What a stream is made of.
Tokens == Bytes \cup {Nl} \cup Statuses

ASSUME TokensAssumption == Nl # Nul /\ {Nl, Nul} \cap Statuses = {}
ASSUME FilesAssumption ==
  /\ DOMAIN Files \subseteq Names
  /\ \A name \in DOMAIN Files : Files[name] \in Seq(Bytes)
ASSUME CuttableAssumption == Cuttable \subseteq Clients

Header(status) == <<status, Nl, Nl>>

Response(name) ==
  IF name \in DOMAIN Files THEN Header("200 OK") \o Files[name]
  ELSE IF name \in Unreadable THEN Header("400 Bad Request")
  ELSE Header("404 Not Found")

\* The answers to part of a request: 400 when even the method is cut, else
\* that for a shorter name, or for what the uninitialised filepath holds.
ResponseToPart == {Response(name) : name \in Names} \cup {Header("400 Bad Request")}

Serving(c) == process[c] = "running" /\ reply[c] # <<>>

\* recv, sscanf and fopen.
RecvRequest(c) ==
  /\ process[c] = "running" /\ reply[c] = <<>>
  /\ request[c] = "sent"
  /\ \/ /\ reply' = [reply EXCEPT ![c] = Response(asks[c])]
        /\ request' = [request EXCEPT ![c] = "read"]
     \/ /\ c \in Cuttable
        /\ \E r \in ResponseToPart : reply' = [reply EXCEPT ![c] = r]
        /\ UNCHANGED request
  /\ UNCHANGED <<forkVars, backlog, open, asks, sent, got>>

\* send, as much as there is room for; it blocks when there is none.
Send(c) ==
  LET room == Window - (sent[c] - got[c])
  IN  /\ Serving(c)
      /\ sent[c] < Len(reply[c]) /\ room > 0
      /\ sent' = [sent EXCEPT ![c] = Lesser(Len(reply[c]), @ + room)]
      /\ UNCHANGED <<forkVars, backlog, open, asks, request, reply, got>>

\* Mutant of FinishReply: the child reads the file once, without a loop.
FinishAfterOneSend(c) ==
  /\ Serving(c)
  /\ sent[c] >= Lesser(Window, Len(reply[c]))
  /\ ChildCloses(c)

\* fread returns 0, or there was no file to send.
FinishReply(c) ==
  /\ Serving(c)
  /\ sent[c] = Len(reply[c])
  /\ ChildCloses(c)

\* The client has gone: recv returns 0 or fails, what is sent is dropped, or
\* SIGPIPE kills the child.
ServeNobody(c) ==
  /\ process[c] = "running"
  /\ ChildCloses(c)
=============================================================================
