-------------------------------- MODULE Mqtt --------------------------------
(***************************************************************************)
(* app/mqtt_tools.py: mqtt_publish and mqtt_get against a broker and a     *)
(* device that reports on demand.  What the client sends travels on one    *)
(* connection, in order, while the call waits and paho's loop thread       *)
(* works; the connection can break at any time (paho's reconnecting is     *)
(* left out) and time can run out before anything else happens.  mqtt_get  *)
(* is the one with a request topic.  Stopping the loop has no time limit:  *)
(* loop_stop joins paho's thread, and disconnect comes after it.           *)
(***************************************************************************)
EXTENDS Integers, Sequences

VARIABLES
  at,          \* where the call is
  qos,         \* of mqtt_publish
  loop,        \* is the client's loop thread running?
  up,          \* is the connection?
  toBroker,    \* what is under way to the broker
  toClient,    \* what is under way to the client
  broker,      \* messages the broker took, whether it has the subscription
  confirmed,   \* publications the client counts as published
  received,    \* reports the client was handed
  told         \* the answer

vars == <<at, qos, loop, up, toBroker, toClient, broker, confirmed, received, told>>

Packets == {"connect", "message", "subscribe", "request"}
Replies == {"connack", "refusal", "puback", "report"}

TypeOK ==
  /\ at \in {"idle", "connect", "publish", "confirm", "subscribe", "listen", "stop"}
  /\ qos \in {"get", "0", "1"}
  /\ loop \in BOOLEAN /\ up \in BOOLEAN
  /\ toBroker \in Seq(Packets) /\ toClient \in Seq(Replies)
  /\ broker \in [taken : 0 .. 1, subscribed : BOOLEAN, unheard : 0 .. 1]
  /\ confirmed \in BOOLEAN /\ received \in 0 .. 1
  /\ told \in {"nothing", "connect_failed", "ok", "not_confirmed", "no_message", "report"}

Init ==
  /\ at = "idle" /\ qos = "0" /\ loop = FALSE /\ up = FALSE
  /\ toBroker = <<>> /\ toClient = <<>>
  /\ broker = [taken |-> 0, subscribed |-> FALSE, unheard |-> 0]
  /\ confirmed = FALSE /\ received = 0
  /\ told = "nothing"

-----------------------------------------------------------------------------
Answer(what) == at' = "idle" /\ told' = what
Finally(what) == at' = "stop" /\ told' = what
Hangup == up' = FALSE /\ toBroker' = <<>> /\ toClient' = <<>>
LeaveRunning == loop' = loop
LoopStop == loop' = FALSE

(* _new_client: connect, start the loop, wait for the CONNACK.             *)
Connect(q) ==
  /\ at = "idle"
  /\ at' = "connect" /\ qos' = q /\ loop' = TRUE /\ up' = TRUE
  /\ toBroker' = <<"connect">> /\ toClient' = <<>>
  /\ broker' = [taken |-> 0, subscribed |-> FALSE, unheard |-> 0]
  /\ confirmed' = FALSE /\ received' = 0 /\ told' = "nothing"

(* Unknown broker, blocked, or no connection to it.                        *)
Refuse ==
  /\ at = "idle"
  /\ Answer("connect_failed")
  /\ UNCHANGED <<qos, loop, up, toBroker, toClient, broker, confirmed, received>>

Connected ==
  /\ at = "connect" /\ toClient # <<>> /\ Head(toClient) = "connack"
  /\ toClient' = Tail(toClient)
  /\ at' = IF qos = "get" THEN "subscribe" ELSE "publish"
  /\ UNCHANGED <<qos, loop, up, toBroker, broker, confirmed, received, told>>

(* Refused, or no CONNACK in time.                                         *)
NotConnected ==
  /\ at = "connect"
  /\ Finally("connect_failed")
  /\ UNCHANGED <<qos, loop, up, toBroker, toClient, broker, confirmed, received>>

Publish ==
  /\ at = "publish"
  /\ at' = "confirm"
  /\ toBroker' = Append(toBroker, "message")
  /\ UNCHANGED <<qos, loop, up, toClient, broker, confirmed, received, told>>

Sending == TRUE
IsPublished == confirmed

(* wait_for_publish has ended: published, out of time, or an exception,    *)
(* which is told much like "NOT confirmed".                                 *)
Published ==
  /\ at = "confirm"
  /\ Finally(IF IsPublished THEN "ok" ELSE "not_confirmed")
  /\ UNCHANGED <<qos, loop, up, toBroker, toClient, broker, confirmed, received>>

RequestFirst == <<"request", "subscribe">>
Requests == <<"subscribe", "request">>

Subscribe ==
  /\ at = "subscribe"
  /\ at' = "listen"
  /\ toBroker' = toBroker \o Requests
  /\ UNCHANGED <<qos, loop, up, toClient, broker, confirmed, received, told>>

(* The limit is reached or the deadline has passed.                        *)
Heard ==
  /\ at = "listen"
  /\ Finally(IF received > 0 THEN "report" ELSE "no_message")
  /\ UNCHANGED <<qos, loop, up, toBroker, toClient, broker, confirmed, received>>

(* paho's thread has been told to end.  It does so when the connection     *)
(* breaks or nothing is left to be sent or acknowledged.                   *)
ThreadEnds == ~ up \/ qos # "1" \/ confirmed \/ told = "connect_failed"

(* loop_stop has returned; then the client disconnects or is dropped.      *)
Stop ==
  /\ at = "stop" /\ ThreadEnds
  /\ at' = "idle" /\ LoopStop /\ Hangup
  /\ UNCHANGED <<qos, broker, confirmed, received, told>>

-----------------------------------------------------------------------------
(* The loop thread: a packet at QoS 0 is published once it is sent, one at *)
(* QoS 1 once it is acknowledged.                                          *)
Handed ==
  /\ loop /\ toClient # <<>> /\ Head(toClient) \in {"puback", "report"}
  /\ toClient' = Tail(toClient)
  /\ IF Head(toClient) = "puback"
       THEN confirmed' = TRUE /\ UNCHANGED received
       ELSE received' = received + 1 /\ UNCHANGED confirmed
  /\ UNCHANGED <<at, qos, loop, up, toBroker, broker, told>>

Sent ==
  /\ loop /\ at \in {"confirm", "stop"} /\ qos = "0" /\ ~ confirmed
  /\ confirmed' = TRUE
  /\ UNCHANGED <<at, qos, loop, up, toBroker, toClient, broker, received, told>>

(* The broker, and the device behind it that answers a request.            *)
Serve ==
  LET packet == Head(toBroker) IN
  /\ up /\ toBroker # <<>>
  /\ toBroker' = Tail(toBroker)
  /\ \/ packet = "connect" /\ UNCHANGED broker
        /\ \E r \in {"connack", "refusal"} : toClient' = Append(toClient, r)
     \/ packet = "message" /\ broker' = [broker EXCEPT !.taken = 1]
        /\ toClient' = IF qos = "1" THEN Append(toClient, "puback") ELSE toClient
     \/ packet = "subscribe" /\ broker' = [broker EXCEPT !.subscribed = TRUE]
        /\ UNCHANGED toClient
     \/ packet = "request" /\ IF broker.subscribed
        THEN toClient' = Append(toClient, "report") /\ UNCHANGED broker
        ELSE broker' = [broker EXCEPT !.unheard = 1] /\ UNCHANGED toClient
  /\ UNCHANGED <<at, qos, loop, up, confirmed, received, told>>

Break ==
  /\ up
  /\ Hangup
  /\ UNCHANGED <<at, qos, loop, broker, confirmed, received, told>>

Call == Connected \/ NotConnected \/ Publish \/ Published \/ Subscribe \/ Heard \/ Stop

Next ==
  \/ \E q \in {"get", "0", "1"} : Connect(q)
  \/ Refuse \/ Call \/ Handed \/ Sent \/ Serve \/ Break

(* The waits before Stop have time limits, and a thread that can end does; *)
(* nothing is asked of broker or network.                                  *)
Fairness == WF_vars(Call)

Spec == Init /\ [][Next]_vars /\ Fairness

-----------------------------------------------------------------------------
(* "ok" at QoS 1 means that the broker has the message.                    *)
OkIsTaken == told = "ok" /\ qos = "1" => broker.taken = 1

(* mqtt_tools.py:190-192 "first publish `request_payload` to trigger a     *)
(* fresh report": the device's answer never reaches a broker that has not  *)
(* yet got the subscription.                                               *)
ReportFindsListener == broker.unheard = 0

(* mqtt_tools.py:51-52: whatever becomes of a call, its loop thread is     *)
(* stopped again.  The exception: a broker that keeps the connection up    *)
(* and never acknowledges a message at QoS 1.  Then, although the wait for *)
(* the acknowledgement is over, the call does not end.                     *)
Unacknowledged == up /\ qos = "1" /\ ~ confirmed
LoopStops == []<>(~ loop) \/ <>[]Unacknowledged

(* Both invariants are inductive together with this: what can be under way *)
(* at each point of a call, and what is known by then.                     *)
Connecting ==
  \/ toBroker \in {<<>>, <<"connect">>} /\ toClient = <<>>
  \/ toBroker = <<>> /\ toClient \in {<<"connack">>, <<"refusal">>}
Confirming ==
  \/ toBroker \in {<<>>, <<"message">>} /\ toClient = <<>>
  \/ toBroker = <<>> /\ toClient = <<"puback">> /\ qos = "1" /\ broker.taken = 1
Listening ==
  \/ toBroker = <<>> /\ toClient = <<>>
  \/ toBroker = <<"subscribe", "request">> /\ toClient = <<>> /\ received = 0
  \/ toBroker = <<"request">> /\ toClient = <<>> /\ received = 0 /\ broker.subscribed
  \/ toBroker = <<>> /\ toClient = <<"report">> /\ received = 0
UnderWay ==
  /\ at \in {"idle", "publish", "subscribe"} => toBroker = <<>> /\ toClient = <<>>
  /\ at = "connect" => Connecting
  /\ at = "confirm" => Confirming
  /\ at = "listen" => Listening
  /\ at = "stop" => Connecting \/ Confirming \/ Listening
  /\ at \in {"connect", "publish", "subscribe"} => received = 0

ConfirmedIsTaken == confirmed /\ qos = "1" => broker.taken = 1

IInv == TypeOK /\ UnderWay /\ ConfirmedIsTaken /\ OkIsTaken /\ ReportFindsListener
=============================================================================
