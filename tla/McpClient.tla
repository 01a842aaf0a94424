----------------------------- MODULE McpClient -----------------------------
(***************************************************************************)
(* app/mcp_gateway.py: mcp_call and mcp_tools over _StreamableMCP.  Each   *)
(* call makes a session of its own: initialize, the notification, then one *)
(* request; each request carries what the answers to the requests before   *)
(* it have set.  The answer to the notification is not looked at.  The     *)
(* upstream server numbers its sessions, or does without; it may change    *)
(* the number or drop the session at any answer, and anything sent may be  *)
(* lost, or its answer.  The SSE transport, which is fastmcp's, is left    *)
(* out.                                                                    *)
(***************************************************************************)
EXTENDS Integers, SequencesExt

CONSTANTS
  Protocols,   \* the versions a server may settle on; the client offers one
  Offered,     \* that one
  MaxIds       \* bound on the session ids a server gives out

VARIABLES
  at,          \* the request of the call that is next or under way
  id, proto,   \* session_id, proto of the client
  server,      \* the session: id, version, ids given out, one of them unread
  strayed,     \* has a request come in outside the session?
  told

vars == <<at, id, proto, server, strayed, told>>

NoSession == 0      \* no session id

(* What a server may put into one answer.                                  *)
Streams == BoundedSeq({"notice", "result", "error"}, 2)

NewServer == [id |-> NoSession, proto |-> Offered, ids |-> 0, unread |-> FALSE]

(* What the constants stand for.                                           *)
ConstantsOK == Offered \in Protocols /\ MaxIds \in Nat

TypeOK ==
  /\ at \in {"idle", "initialize", "initialized", "request"}
  /\ id \in 0 .. MaxIds /\ proto \in Protocols
  /\ server \in [id : 0 .. MaxIds, proto : Protocols, ids : 0 .. MaxIds,
               unread : BOOLEAN]
  /\ strayed \in BOOLEAN
  /\ told \in {"nothing", "failed", "result"}

Init ==
  /\ at = "idle"
  /\ id = NoSession /\ proto = Offered
  /\ server = NewServer
  /\ strayed = FALSE
  /\ told = "nothing"

-----------------------------------------------------------------------------
Answer(what) == at' = "idle" /\ told' = what

(* An unknown server, or one the egress guard blocks, is refused like a    *)
(* request that fails.                                                     *)
Begin ==
  /\ at = "idle"
  /\ at' = "initialize"
  /\ id' = NoSession /\ proto' = Offered
  /\ server' = NewServer
  /\ strayed' = FALSE /\ told' = "nothing"

mcp_tools == Begin
mcp_call == Begin

(* The answer's session id, if it has one, replaces the client's.          *)
IdForgotten(given) == id
Id(given) == IF given = NoSession THEN id ELSE given

(* The server puts a new id on an answer, or none.                         *)
Issued(new) == IF new THEN server.ids + 1 ELSE NoSession
Renewed(new) == [server EXCEPT !.ids = IF new THEN @ + 1 ELSE @,
                               !.id = IF new THEN Issued(new) ELSE @]

(* A request after initialize outside the session, or under another        *)
(* version than the settled one.                                           *)
Stray == id # server.id \/ proto # server.proto

Initialize(new, version) ==
  /\ at = "initialize"
  /\ new => server.ids < MaxIds
  /\ server' = [Renewed(new) EXCEPT !.proto = version]
  /\ id' = Id(Issued(new)) /\ proto' = version
  /\ at' = "initialized"
  /\ UNCHANGED <<strayed, told>>

(* Its answer is not read: not its status, nor a session id it may carry.  *)
Notify(arrives, new) ==
  /\ at = "initialized"
  /\ new => arrives /\ server.ids < MaxIds
  /\ at' = "request"
  /\ strayed' = (strayed \/ (arrives /\ Stray))
  /\ server' = [Renewed(new) EXCEPT !.unread = new]
  /\ UNCHANGED <<id, proto, told>>

(* The last event of a stream that is a result or an error.                *)
Parsed(events) ==
  LET last == SelectLastInSeq(events, LAMBDA e : e # "notice")
  IN  IF last = 0 THEN "nothing" ELSE events[last]

(* tools/call or tools/list, which a stream of events answers.             *)
Request(new, events) ==
  /\ at = "request"
  /\ new => server.ids < MaxIds
  /\ strayed' = (strayed \/ Stray)
  /\ server' = Renewed(new)
  /\ id' = Id(Issued(new))
  /\ Answer(IF Parsed(events) = "result" THEN "result" ELSE "failed")
  /\ UNCHANGED proto

(* No answer, whatever the server did; a status from 400 up; an answer     *)
(* that is no JSON.                                                        *)
Fail ==
  /\ at \in {"initialize", "request"}
  /\ strayed' = (strayed \/ (at = "request" /\ Stray))
  /\ Answer("failed")
  /\ UNCHANGED <<id, proto, server>>

Next ==
  \/ mcp_tools \/ mcp_call
  \/ \E new \in BOOLEAN, version \in Protocols : Initialize(new, version)
  \/ \E arrives, new \in BOOLEAN : Notify(arrives, new)
  \/ \E new \in BOOLEAN, events \in Streams : Request(new, events)
  \/ Fail

Spec == Init /\ [][Next]_vars

-----------------------------------------------------------------------------
(* mcp_gateway.py:108 "carry the ``Mcp-Session-Id`` across requests": all  *)
(* requests after initialize are in the session and the protocol version   *)
(* its answer settled on, unless the server has put a new id on the answer *)
(* to the notification, which _notify (mcp_gateway.py:154-162) drops.      *)
StaysInSession == strayed => server.unread

(* It is inductive with this: the client has what the server gave last.    *)
InStep ==
  /\ at # "idle" /\ ~ server.unread => id = server.id
  /\ at \in {"initialized", "request"} => proto = server.proto
  /\ at \in {"initialize", "initialized"} => ~ server.unread

IInv == TypeOK /\ InStep /\ StaysInSession
=============================================================================
