------------------------------- MODULE MCHttp -------------------------------
(***************************************************************************)
(* HttpTransfer for TLC: a file with a zero byte and a blank line in it,   *)
(* one that begins with a newline, one that is not there and one that      *)
(* cannot be read.  The idler asks for the second, the reply to which is   *)
(* longer than the connection has room for, so its child may block.        *)
(***************************************************************************)
EXTENDS HttpTransfer, TLC

CONSTANTS reader, idler, letter

MCFiles == "page" :> <<Nul, Nl, Nl>> @@ "list" :> <<Nl, letter>>

MCWishes == {reader :> name @@ idler :> "list" : name \in {"page", "lost"}}
=============================================================================
