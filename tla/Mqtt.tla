--------------------------------- MODULE Mqtt ---------------------------------
(***************************************************************************)
(* The MQTT client of the Pico W: the last part of src/pico/NetNatives.cpp. *)
(*                                                                         *)
(* As in NetSockets a native blocks the VM and is a sequence of steps, one  *)
(* per access to what lwIP's callbacks share with it; sections under the    *)
(* lwIP lock and callbacks are one step each.  The broker sends the         *)
(* messages 1, 2, 3..., each in as many data callbacks as "Messages" says;  *)
(* a cell of a payload holds the message and the place it came from.        *)
(* lwIP's own part ("lwip") is modelled from how the natives use it.        *)
(*                                                                         *)
(* (An operator whose name extends that of the one after it is a wrong      *)
(* version of it, which the properties are tested on.)                      *)
(***************************************************************************)
EXTENDS Integers, Sequences

CONSTANTS
    Clients,     \* handles, 0..MAX_MQTT_CLIENTS-1
    BufSize,     \* MQTT_MSG_BUF_SIZE
    Messages,    \* bound: the messages that arrive, as their numbers of data callbacks
    Timeouts     \* bound: arguments of receive, in milliseconds

ASSUME MqttAssumption ==
    /\ Clients \subseteq Nat
    /\ BufSize \in Nat \ {0}
    /\ Messages \in Seq(Nat \ {0})
    /\ Timeouts \subseteq Nat

VARIABLES
    ctx,        \* the table "mqtt_clients"
    handles,    \* handles that Java objects hold
    call,       \* the native in progress
    lwip,       \* lwIP's client of each handle: connection, requests, incoming message
    sent,       \* messages that have begun to arrive
    delivered   \* what receive has returned to Java (observed, not stored)

vars == <<ctx, handles, call, lwip, sent, delivered>>

\* "pub" stands for publish, "sub" for subscribe and unsubscribe
Kinds == {"pub", "sub"}

Cells == 0..(BufSize - 1)

FreeCtx == [in_use |-> FALSE, conn_done |-> FALSE, accepted |-> FALSE,
            done |-> [k \in Kinds |-> FALSE],
            msg |-> [topic |-> 0, len |-> 0, ready |-> FALSE,
                     payload |-> [i \in Cells |-> <<0, 0>>]],
            incoming |-> [topic |-> 0, pos |-> 0]]

NoClient == [state |-> "none", pending |-> {}, message |-> 0, part |-> 0]

NoCall == [op |-> "none"]
Idle == call = NoCall

Init ==
    /\ ctx = [h \in Clients |-> FreeCtx]
    /\ handles = {}
    /\ call = NoCall
    /\ lwip = [h \in Clients |-> NoClient]
    /\ sent = 0
    /\ delivered = [h \in Clients |-> <<>>]

-----------------------------------------------------------------------------
(* Steps of the natives.                                                    *)

Ctx == ctx[call.h]
InCall(op, pc) == call.op = op /\ call.pc = pc
Goto(pc) == call' = [call EXCEPT !.pc = pc]
Return == call' = NoCall
Connected(h) == lwip[h].state = "connected"

\* alloc_mqtt
Unused == {h \in Clients : ~ctx[h].in_use}
NextHandle == CHOOSE h \in Unused : \A g \in Unused : h <= g

Connect ==
    /\ Idle
    /\ Unused # {}
    /\ ctx' = [ctx EXCEPT ![NextHandle] = [FreeCtx EXCEPT !.in_use = TRUE]]
    /\ lwip' = [lwip EXCEPT ![NextHandle] = [NoClient EXCEPT !.state = "connecting"]]
    /\ delivered' = [delivered EXCEPT ![NextHandle] = <<>>]
    /\ call' = [op |-> "connect", h |-> NextHandle, pc |-> "spin"]
    /\ UNCHANGED <<handles, sent>>

ConnectSpin ==
    /\ InCall("connect", "spin")
    /\ Ctx.conn_done
    /\ Goto("status")
    /\ UNCHANGED <<ctx, handles, lwip, sent, delivered>>

\* free_mqtt
GiveUpKept(h) == UNCHANGED <<ctx, lwip>>
GiveUp(h) ==
    /\ ctx' = [ctx EXCEPT ![h] = FreeCtx]
    /\ lwip' = [lwip EXCEPT ![h] = NoClient]

ConnectStatus ==
    /\ InCall("connect", "status")
    /\ Return
    /\ UNCHANGED <<sent, delivered>>
    /\ \/ /\ Ctx.accepted
          /\ handles' = handles \union {call.h}
          /\ UNCHANGED <<ctx, lwip>>
       \/ /\ ~Ctx.accepted
          /\ GiveUp(call.h)
          /\ UNCHANGED handles

\* mqtt_publish, mqtt_subscribe, mqtt_unsubscribe: the answer of an earlier request is
\* forgotten, and lwIP takes the request if it is still connected
ForgottenNot(c, k) == c
Forgotten(c, k) == [c EXCEPT !.done[k] = FALSE]

Request(h, k) ==
    /\ Idle
    /\ h \in handles /\ Connected(h)
    /\ call' = [op |-> "request", h |-> h, pc |-> "lock", kind |-> k]
    /\ ctx' = [ctx EXCEPT ![h] = Forgotten(@, k)]
    /\ UNCHANGED <<handles, lwip, sent, delivered>>

RequestLocked ==
    /\ InCall("request", "lock")
    /\ IF Connected(call.h)
       THEN Goto("spin") /\ lwip' = [lwip EXCEPT ![call.h].pending = @ \union {call.kind}]
       ELSE Return /\ UNCHANGED lwip
    /\ UNCHANGED <<ctx, handles, sent, delivered>>

RequestDone ==
    /\ InCall("request", "spin")
    /\ Ctx.done[call.kind]
    /\ Return
    /\ UNCHANGED <<ctx, handles, lwip, sent, delivered>>

\* mqtt_receive waits for a message, the end of the connection or the timeout
Receive(h, timeout) ==
    /\ Idle
    /\ h \in handles
    /\ call' = [op |-> "receive", h |-> h, pc |-> "ready", timeout |-> timeout,
                waited |-> 0, got |-> [topic |-> 0, len |-> 0, payload |-> <<>>]]
    /\ UNCHANGED <<ctx, handles, lwip, sent, delivered>>

ReceiveReady ==
    /\ InCall("receive", "ready")
    /\ Goto(IF Ctx.msg.ready THEN "lengths" ELSE "alive")
    /\ UNCHANGED <<ctx, handles, lwip, sent, delivered>>

ReceiveAlive ==
    /\ InCall("receive", "alive")
    /\ IF Connected(call.h) THEN Goto("time") ELSE Return
    /\ UNCHANGED <<ctx, handles, lwip, sent, delivered>>

\* without a timeout the time that has passed is not looked at, and not counted here
Elapsed == call.timeout > 0 /\ call.waited >= call.timeout
WaitedNoLonger == call.waited
Waited == IF call.timeout > 0 THEN call.waited + 1 ELSE 0

ReceiveTime ==
    /\ InCall("receive", "time")
    /\ IF Elapsed
       THEN Return
       ELSE call' = [call EXCEPT !.pc = "ready", !.waited = Waited]
    /\ UNCHANGED <<ctx, handles, lwip, sent, delivered>>

\* the message is copied: lengths, topic, payload
ReceiveLengths ==
    /\ InCall("receive", "lengths")
    /\ call' = [call EXCEPT !.got.len = Ctx.msg.len, !.pc = "topic"]
    /\ UNCHANGED <<ctx, handles, lwip, sent, delivered>>

ReceiveTopic ==
    /\ InCall("receive", "topic")
    /\ call' = [call EXCEPT !.got.topic = Ctx.msg.topic, !.pc = "payload"]
    /\ UNCHANGED <<ctx, handles, lwip, sent, delivered>>

ReceivePayload ==
    /\ InCall("receive", "payload")
    /\ call' = [call EXCEPT !.got.payload = [i \in 1..call.got.len |-> Ctx.msg.payload[i - 1]],
                            !.pc = "consume"]
    /\ UNCHANGED <<ctx, handles, lwip, sent, delivered>>

ConsumedKept(m) == m
Consumed(m) == [m EXCEPT !.ready = FALSE]

ReceiveConsume ==
    /\ InCall("receive", "consume")
    /\ ctx' = [ctx EXCEPT ![call.h].msg = Consumed(@)]
    /\ delivered' = [delivered EXCEPT ![call.h] = Append(@, call.got)]
    /\ Return
    /\ UNCHANGED <<handles, lwip, sent>>

\* mqtt_disconnect closes the connection, if there is one, and frees the handle
Disconnect(h) ==
    /\ Idle
    /\ h \in handles
    /\ GiveUp(h)
    /\ handles' = handles \ {h}
    /\ UNCHANGED <<call, sent, delivered>>

-----------------------------------------------------------------------------
(* Callbacks.                                                               *)

\* mqtt_connection_cb: the broker accepts, refuses, or the connection is lost; lwIP
\* then drops the requests that wait for an answer
Answered(c, accepted) == [c EXCEPT !.conn_done = TRUE, !.accepted = accepted]

mqtt_connection_cb(h, accepted) ==
    /\ lwip[h].state \in (IF accepted THEN {"connecting"} ELSE {"connecting", "connected"})
    /\ lwip' = [lwip EXCEPT ![h] = [NoClient EXCEPT !.state =
                                      IF accepted THEN "connected" ELSE "closed"]]
    /\ ctx' = [ctx EXCEPT ![h] = Answered(@, accepted)]
    /\ UNCHANGED <<handles, call, sent, delivered>>

\* mqtt_pub_request_cb, mqtt_sub_request_cb
request_cb(h, k) ==
    /\ k \in lwip[h].pending
    /\ lwip' = [lwip EXCEPT ![h].pending = @ \ {k}]
    /\ ctx' = [ctx EXCEPT ![h].done[k] = TRUE]
    /\ UNCHANGED <<handles, call, sent, delivered>>

\* a message begins
mqtt_incoming_publish_cb(h) ==
    /\ Connected(h) /\ lwip[h].message = 0
    /\ sent < Len(Messages)
    /\ sent' = sent + 1
    /\ lwip' = [lwip EXCEPT ![h].message = sent + 1, ![h].part = 1]
    /\ ctx' = [ctx EXCEPT ![h].incoming = [topic |-> sent + 1, pos |-> 0]]
    /\ UNCHANGED <<handles, call, delivered>>

\* what fits is copied straight into the buffer that receive reads
RoomAlways(c) == TRUE
Room(c) == c.incoming.pos < BufSize

Copied(c, cell) ==
    IF Room(c)
    THEN [c EXCEPT !.msg.payload[c.incoming.pos] = cell, !.incoming.pos = @ + 1]
    ELSE c

\* after the last part the message becomes ready, unless an earlier one still is
Vacant(c) == ~c.msg.ready

Completed(c) ==
    [c EXCEPT !.msg = IF ~Vacant(c) THEN @
                      ELSE [@ EXCEPT !.topic = c.incoming.topic, !.len = c.incoming.pos,
                                     !.ready = TRUE],
              !.incoming.pos = 0]

IsLastAlways(h) == TRUE
IsLast(h) == lwip[h].part = Messages[lwip[h].message]

mqtt_incoming_data_cb(h) ==
    LET l == lwip[h]
        copied == Copied(ctx[h], <<l.message, l.part>>)
    IN  /\ l.message # 0
        /\ ctx' = [ctx EXCEPT ![h] = IF IsLast(h) THEN Completed(copied) ELSE copied]
        /\ lwip' = [lwip EXCEPT ![h] = IF l.part = Messages[l.message]
                                       THEN [l EXCEPT !.message = 0, !.part = 0]
                                       ELSE [l EXCEPT !.part = @ + 1]]
        /\ UNCHANGED <<handles, call, sent, delivered>>

-----------------------------------------------------------------------------
Natives ==
    \/ ConnectSpin \/ ConnectStatus
    \/ RequestLocked \/ RequestDone
    \/ ReceiveReady \/ ReceiveAlive \/ ReceiveTime
    \/ ReceiveLengths \/ ReceiveTopic \/ ReceivePayload \/ ReceiveConsume

Calls ==
    \/ Connect
    \/ \E h \in Clients : \/ \E k \in Kinds : Request(h, k)
                          \/ \E t \in Timeouts : Receive(h, t)
                          \/ Disconnect(h)

Callbacks ==
    \E h \in Clients : \/ \E accepted \in BOOLEAN : mqtt_connection_cb(h, accepted)
                       \/ \E k \in Kinds : request_cb(h, k)
                       \/ mqtt_incoming_publish_cb(h)
                       \/ mqtt_incoming_data_cb(h)

Next == Natives \/ Calls \/ Callbacks

Spec == Init /\ [][Next]_vars

\* A native runs on; lwIP, which has timeouts for both, answers a connect and, while
\* it is connected, a request.
ConnectAnswer(h) == lwip[h].state = "connecting" /\ \E a \in BOOLEAN : mqtt_connection_cb(h, a)

Fairness ==
    /\ WF_vars(Natives)
    /\ \A h \in Clients : /\ WF_vars(ConnectAnswer(h))
                          /\ \A k \in Kinds : WF_vars(request_cb(h, k))
FairSpec == Spec /\ Fairness

-----------------------------------------------------------------------------
(* Properties.                                                              *)

Whole(m) == IF Messages[m] < BufSize THEN Messages[m] ELSE BufSize

\* Types of the variables: a payload cell is filled with a message and a part of it.
Numbers == 0..Len(Messages)
Filling == Nat \X Nat
Payload == [Cells -> Filling]

Context ==
    [in_use : BOOLEAN, conn_done : BOOLEAN, accepted : BOOLEAN, done : [Kinds -> BOOLEAN],
     msg : [topic : Numbers, len : 0..BufSize, ready : BOOLEAN, payload : Payload],
     incoming : [topic : Numbers, pos : 0..BufSize]]

Client ==
    [state : {"none", "connecting", "connected", "closed"}, pending : SUBSET Kinds,
     message : Numbers, part : Nat]

Got == [topic : Numbers, len : 0..BufSize, payload : Seq(Filling)]

ConnectCall == [op : {"connect"}, h : Clients, pc : {"spin", "status"}]
RequestCall == [op : {"request"}, h : Clients, pc : {"lock", "spin"}, kind : Kinds]
ReceiveCall == [op : {"receive"}, h : Clients, timeout : Nat, waited : Nat, got : Got,
                pc : {"ready", "alive", "time", "lengths", "topic", "payload", "consume"}]
Call == {NoCall} \union ConnectCall \union RequestCall \union ReceiveCall

\* Every variable has its type; a message that is ready has a topic, and no payload,
\* complete or not, runs past the end of the buffer.
TypeOK ==
    /\ ctx \in [Clients -> Context]
    /\ \A h \in Clients : ctx[h].msg.ready => ctx[h].msg.topic # 0
    /\ handles \subseteq Clients
    /\ call \in Call
    /\ lwip \in [Clients -> Client]
    /\ sent \in Numbers
    /\ delivered \in [Clients -> Seq(Got)]

\* A message that is ready and after which no other has begun on its connection has
\* all of its payload in the buffer, in order: what mqtt_receive copies is what the
\* data callbacks put there.
QuietMessageWhole ==
    \A h \in Clients : ctx[h].msg.ready /\ ctx[h].incoming.topic = ctx[h].msg.topic =>
        LET m == ctx[h].msg IN
        /\ m.len = Whole(m.topic)
        /\ \A i \in 1..m.len : m.payload[i - 1] = <<m.topic, i>>

\* mqtt_receive returns no message twice and none out of order.  It reads lengths and
\* topic in separate steps; the callback that completes another message in between
\* leaves both alone, so that they are of one message.
DeliveredInOrder ==
    \A h \in Clients : \A n \in 1..Len(delivered[h]) :
        /\ delivered[h][n].len = Whole(delivered[h][n].topic)
        /\ n > 1 => delivered[h][n - 1].topic < delivered[h][n].topic

\* mqtt_publish and mqtt_subscribe return the answer to their own request, not the one
\* that an earlier request of the kind left in the context.
AnswerIsOwn ==
    InCall("request", "spin") /\ Ctx.done[call.kind] => call.kind \notin lwip[call.h].pending

\* The contexts in use are those of Java's handles and of a connect in progress: no
\* refused connect costs one of the two contexts.
ContextsAccounted ==
    {h \in Clients : ctx[h].in_use} =
        handles \union (IF call.op = "connect" THEN {call.h} ELSE {})

\* mqtt_connect, which holds up the whole VM, returns, and so does mqtt_receive with a
\* timeout, whatever the broker does.
NativesReturn ==
    /\ call.op = "connect" ~> call.op # "connect"
    /\ (call.op = "receive" /\ call.timeout > 0) ~> call.op # "receive"

\* Not so: the payload that mqtt_receive returns is the one of the topic it returns.
\* There is one buffer, and the next message is put into it while it is ready.
DeliveredWhole ==
    \A h \in Clients : \A n \in 1..Len(delivered[h]) :
        LET d == delivered[h][n] IN \A i \in 1..d.len : d.payload[i] = <<d.topic, i>>
=============================================================================
