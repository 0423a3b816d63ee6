------------------------------ MODULE MqttProofs ------------------------------
(***************************************************************************)
(* Theorems about module Mqtt, for every number of handles, every size of  *)
(* the buffer and all messages that arrive.                                *)
(***************************************************************************)
EXTENDS Mqtt, ListFacts

USE MqttAssumption

-----------------------------------------------------------------------------
(* The inductive invariant.                                                 *)

\* While a message arrives, the part of it that fits is at the front of the buffer.
Arriving(h) ==
    lwip[h].message # 0 =>
        /\ lwip[h].state = "connected"
        /\ ctx[h].incoming.topic = lwip[h].message
        /\ lwip[h].part \in 1..Messages[lwip[h].message]
        /\ ctx[h].incoming.pos =
             IF lwip[h].part - 1 < BufSize THEN lwip[h].part - 1 ELSE BufSize
        /\ \A i \in 1..ctx[h].incoming.pos :
             ctx[h].msg.payload[i - 1] = <<lwip[h].message, i>>

\* A message that is ready is complete, or another one has begun after it.
Ready(h) ==
    ctx[h].msg.ready =>
        /\ ctx[h].msg.len = Whole(ctx[h].msg.topic)
        /\ \/ ctx[h].msg.topic < ctx[h].incoming.topic
           \/ /\ ctx[h].msg.topic = ctx[h].incoming.topic
              /\ lwip[h].message = 0
              /\ \A i \in 1..ctx[h].msg.len :
                   ctx[h].msg.payload[i - 1] = <<ctx[h].msg.topic, i>>

\* What receive has returned is older than what it may still return.
Delivered(h) ==
    ctx[h].in_use => \A n \in 1..Len(delivered[h]) :
        /\ delivered[h][n].topic <= ctx[h].incoming.topic
        /\ lwip[h].message # 0 => delivered[h][n].topic < ctx[h].incoming.topic
        /\ ctx[h].msg.ready => delivered[h][n].topic < ctx[h].msg.topic

InOrder(s) ==
    \A n \in 1..Len(s) : /\ s[n].len = Whole(s[n].topic)
                         /\ n > 1 => s[n - 1].topic < s[n].topic

ClientOK(h) ==
    /\ ctx[h].incoming.topic <= sent
    /\ lwip[h].state # "none" => ctx[h].in_use
    /\ Arriving(h)
    /\ Ready(h)
    /\ Delivered(h)
    /\ InOrder(delivered[h])

\* lwIP has at most the request of the native in progress.
Requested(h) ==
    lwip[h].pending \subseteq
        (IF InCall("request", "spin") /\ call.h = h THEN {call.kind} ELSE {})

\* What the native in progress has read still holds.
Copying == {"lengths", "topic", "payload", "consume"}

CallOK ==
    /\ call.op = "connect" => call.h \notin handles
    /\ call.op \in {"request", "receive"} => call.h \in handles
    /\ InCall("request", "lock") => ~Ctx.done[call.kind]
    /\ InCall("request", "spin") /\ Ctx.done[call.kind] => lwip[call.h].pending = {}
    /\ call.op = "receive" =>
         /\ call.pc \in Copying => Ctx.msg.ready
         /\ call.pc \in Copying \ {"lengths"} => call.got.len = Ctx.msg.len
         /\ call.pc \in {"payload", "consume"} => call.got.topic = Ctx.msg.topic

Inv ==
    /\ TypeOK
    /\ ContextsAccounted
    /\ CallOK
    /\ \A h \in Clients : ClientOK(h) /\ Requested(h)

-----------------------------------------------------------------------------
(* Calls and clients.                                                       *)

LEMMA CallKinds ==
    ASSUME call \in Call
    PROVE  /\ call.op = "none" => call = NoCall
           /\ call.op = "connect" => call \in ConnectCall
           /\ call.op = "request" => call \in RequestCall
           /\ call.op = "receive" => call \in ReceiveCall
           /\ call = NoCall => call.op = "none"
           /\ call.op \in {"none", "connect", "request", "receive"}
BY DEF Call, NoCall, ConnectCall, RequestCall, ReceiveCall

LEMMA NoCallType == NoCall \in Call /\ NoCall.op = "none"
BY DEF Call, NoCall

\* The numbers of a client, as the steps below use them.
LEMMA ClientTypes ==
    ASSUME TypeOK, NEW h \in Clients
    PROVE  /\ sent \in Nat /\ Numbers \subseteq Nat
           /\ ctx[h] \in Context /\ lwip[h] \in Client /\ delivered[h] \in Seq(Got)
           /\ ctx[h].incoming.topic \in Numbers /\ ctx[h].incoming.pos \in 0..BufSize
           /\ ctx[h].msg.topic \in Numbers /\ ctx[h].msg.len \in 0..BufSize
           /\ ctx[h].msg.payload \in Payload
           /\ lwip[h].message \in Numbers /\ lwip[h].part \in Nat
<1>1. Numbers \subseteq Nat /\ sent \in Nat
    BY DEF TypeOK, Numbers
<1>2. ctx[h] \in Context /\ lwip[h] \in Client /\ delivered[h] \in Seq(Got)
    BY DEF TypeOK
<1>3. /\ ctx[h].incoming.topic \in Numbers /\ ctx[h].incoming.pos \in 0..BufSize
      /\ ctx[h].msg.topic \in Numbers /\ ctx[h].msg.len \in 0..BufSize
      /\ ctx[h].msg.payload \in Payload
    BY <1>2 DEF Context
<1>4. lwip[h].message \in Numbers /\ lwip[h].part \in Nat
    BY <1>2 DEF Client
<1>5. QED BY <1>1, <1>2, <1>3, <1>4

\* A step that leaves the messages of h alone, or lwIP's connection only closes.
LEMMA SameMessages ==
    ASSUME TypeOK, NEW h \in Clients, ClientOK(h),
           ctx'[h].in_use = ctx[h].in_use, ctx'[h].msg = ctx[h].msg,
           ctx'[h].incoming = ctx[h].incoming, delivered'[h] = delivered[h],
           \/ lwip'[h].message = 0
           \/ /\ lwip'[h].message = lwip[h].message /\ lwip'[h].part = lwip[h].part
              /\ lwip'[h].state = lwip[h].state,
           lwip'[h].state # "none" => ctx[h].in_use,
           sent' \in Nat, sent <= sent'
    PROVE  ClientOK(h)'
<1>1. ctx[h].incoming.topic \in Nat /\ sent \in Nat
    BY ClientTypes
<1>2. ctx'[h].incoming.topic <= sent'
    BY <1>1 DEF ClientOK
<1>3. Arriving(h)'
    BY DEF ClientOK, Arriving
<1>4. Ready(h)'
    BY DEF ClientOK, Ready
<1>5. Delivered(h)'
    BY DEF ClientOK, Delivered
<1>6. QED BY <1>2, <1>3, <1>4, <1>5 DEF ClientOK

\* A step that leaves h alone.
LEMMA OtherClient ==
    ASSUME TypeOK, NEW h \in Clients, ClientOK(h),
           ctx'[h] = ctx[h], lwip'[h] = lwip[h], delivered'[h] = delivered[h],
           sent' \in Nat, sent <= sent'
    PROVE  ClientOK(h)'
<1>1. lwip'[h].state # "none" => ctx[h].in_use
    BY DEF ClientOK
<1>2. QED BY <1>1, SameMessages

\* A native moves on and writes nothing that callbacks read.
LEMMA NativeMoves ==
    ASSUME Inv, UNCHANGED <<ctx, handles, lwip, sent, delivered>>,
           call' \in Call, CallOK',
           \A h \in Clients : Requested(h)',
           call'.op = "connect" <=> call.op = "connect",
           call.op = "connect" => call'.h = call.h
    PROVE  Inv'
<1>1. TypeOK'
    BY DEF Inv, TypeOK
<1>2. ContextsAccounted'
    BY DEF Inv, ContextsAccounted
<1>3. sent \in Nat
    BY DEF Inv, TypeOK, Numbers
<1>4. ASSUME NEW h \in Clients PROVE ClientOK(h)'
    BY <1>3, OtherClient DEF Inv
<1>5. QED BY <1>1, <1>2, <1>4 DEF Inv

LEMMA InitInv == Init => Inv
<1> SUFFICES ASSUME Init PROVE Inv
    OBVIOUS
<1> USE DEF Init
<1>1. 0 \in Numbers /\ Len(Messages) \in Nat
    BY DEF Numbers
<1>2. FreeCtx \in Context /\ NoClient \in Client
    BY <1>1 DEF FreeCtx, Context, Payload, Filling, NoClient, Client
<1>3. TypeOK
    BY <1>1, <1>2, NoCallType DEF TypeOK, FreeCtx
<1>4. ContextsAccounted
    BY NoCallType DEF ContextsAccounted, FreeCtx
<1>5. CallOK
    BY NoCallType DEF CallOK, InCall
<1>6. ASSUME NEW h \in Clients PROVE ClientOK(h) /\ Requested(h)
    BY <1>1 DEF ClientOK, Requested, Arriving, Ready, Delivered, InOrder, FreeCtx, NoClient
<1>7. QED BY <1>3, <1>4, <1>5, <1>6 DEF Inv

-----------------------------------------------------------------------------
(* Steps of the natives that only read.                                     *)

LEMMA ConnectSpinStep ==
    ASSUME Inv, ConnectSpin
    PROVE  Inv'
<1>1. call \in ConnectCall /\ call.op = "connect"
    BY CallKinds DEF ConnectSpin, InCall, Inv, TypeOK
<1>2. /\ call' \in ConnectCall
      /\ call'.op = "connect" /\ call'.h = call.h /\ call'.pc = "status"
    BY <1>1 DEF ConnectSpin, Goto, ConnectCall
<1>3. call' \in Call
    BY <1>2 DEF Call
<1>4. CallOK'
    BY <1>1, <1>2 DEF ConnectSpin, Inv, CallOK, InCall
<1>5. \A h \in Clients : Requested(h)'
    BY <1>1, <1>2 DEF ConnectSpin, Inv, Requested, InCall
<1>6. QED BY <1>1, <1>2, <1>3, <1>4, <1>5, NativeMoves DEF ConnectSpin

\* A native returns without having done more than read.
LEMMA ReturnStep ==
    ASSUME Inv, Return, UNCHANGED <<ctx, handles, lwip, sent, delivered>>,
           call.op \in {"request", "receive"},
           \A h \in Clients : lwip[h].pending = {}
    PROVE  Inv'
<1>1. call' \in Call /\ call'.op = "none"
    BY NoCallType DEF Return
<1>2. CallOK'
    BY <1>1 DEF CallOK, InCall
<1>3. \A h \in Clients : Requested(h)'
    BY DEF Requested
<1>4. QED BY <1>1, <1>2, <1>3, NativeMoves

LEMMA RequestDoneStep ==
    ASSUME Inv, RequestDone
    PROVE  Inv'
<1>1. /\ call.op = "request" /\ InCall("request", "spin")
      /\ call \in RequestCall
    BY CallKinds DEF RequestDone, InCall, Inv, TypeOK
<1>2. lwip[call.h].pending = {}
    BY <1>1 DEF RequestDone, Inv, CallOK
<1>3. \A h \in Clients : lwip[h].pending = {}
    BY <1>1, <1>2 DEF Inv, Requested
<1>4. QED BY <1>1, <1>3, ReturnStep DEF RequestDone

\* mqtt_receive moves on.
LEMMA ReceiveMoves ==
    ASSUME Inv, call.op = "receive", UNCHANGED <<ctx, handles, lwip, sent, delivered>>,
           call' \in ReceiveCall, call'.h = call.h,
           call'.pc \in Copying => Ctx.msg.ready,
           call'.pc \in Copying \ {"lengths"} => call'.got.len = Ctx.msg.len,
           call'.pc \in {"payload", "consume"} => call'.got.topic = Ctx.msg.topic
    PROVE  Inv'
<1>1. call'.op = "receive" /\ call' \in Call
    BY DEF ReceiveCall, Call
<1>2. Ctx' = Ctx
    BY DEF Ctx
<1>3. CallOK'
    BY <1>1, <1>2 DEF Inv, CallOK, InCall
<1>4. \A h \in Clients : Requested(h)'
    BY <1>1 DEF Inv, Requested, InCall
<1>5. QED BY <1>1, <1>3, <1>4, NativeMoves

LEMMA ReceiveReads ==
    ASSUME Inv, \/ ReceiveReady \/ ReceiveAlive \/ ReceiveTime
                \/ ReceiveLengths \/ ReceiveTopic \/ ReceivePayload
    PROVE  Inv'
<1>1. call.op = "receive" /\ call \in ReceiveCall
    BY CallKinds DEF ReceiveReady, ReceiveAlive, ReceiveTime, ReceiveLengths, ReceiveTopic,
                     ReceivePayload, InCall, Inv, TypeOK
<1>2. /\ call.h \in Clients /\ Ctx \in Context
      /\ call.got \in Got /\ call.timeout \in Nat /\ call.waited \in Nat
    BY <1>1 DEF ReceiveCall, Ctx, Inv, TypeOK
<1>3. /\ UNCHANGED <<ctx, handles, lwip, sent, delivered>>
      /\ call.pc \in {"ready", "alive", "time", "lengths", "topic", "payload"}
    BY DEF ReceiveReady, ReceiveAlive, ReceiveTime, ReceiveLengths, ReceiveTopic,
           ReceivePayload, InCall
<1>4. /\ call.pc \in Copying => Ctx.msg.ready
      /\ call.pc \in Copying \ {"lengths"} => call.got.len = Ctx.msg.len
      /\ call.pc = "payload" => call.got.topic = Ctx.msg.topic
    BY <1>1 DEF Inv, CallOK
<1>5. CASE Return
    <2>1. \A h \in Clients : lwip[h].pending = {}
        BY <1>1 DEF Inv, Requested, InCall
    <2>2. QED BY <1>1, <1>3, <1>5, <2>1, ReturnStep
<1>6. ASSUME NEW pc \in {"ready", "alive", "time"}, Goto(pc) PROVE Inv'
    <2>1. call' \in ReceiveCall /\ call'.h = call.h /\ call'.pc = pc
        BY <1>1, <1>6 DEF Goto, ReceiveCall
    <2>2. QED BY <1>1, <1>3, <1>6, <2>1, ReceiveMoves DEF Copying
<1>7. CASE ReceiveReady
    <2>1. CASE Ctx.msg.ready
        <3>1. call' \in ReceiveCall /\ call'.h = call.h /\ call'.pc = "lengths"
            BY <1>1, <1>7, <2>1 DEF ReceiveReady, Goto, ReceiveCall
        <3>2. QED BY <1>1, <1>3, <2>1, <3>1, ReceiveMoves DEF Copying
    <2>2. CASE ~Ctx.msg.ready
        BY <1>6, <1>7, <2>2 DEF ReceiveReady
    <2>3. QED BY <2>1, <2>2
<1>8. CASE ReceiveAlive
    BY <1>5, <1>6, <1>8 DEF ReceiveAlive
<1>9. CASE ReceiveTime
    <2>1. CASE Elapsed
        BY <1>5, <1>9, <2>1 DEF ReceiveTime
    <2>2. CASE ~Elapsed
        <3>1. Waited \in Nat
            BY <1>2 DEF Waited
        <3>2. call' \in ReceiveCall /\ call'.h = call.h /\ call'.pc = "ready"
            BY <1>1, <1>9, <2>2, <3>1 DEF ReceiveTime, ReceiveCall
        <3>3. QED BY <1>1, <1>3, <3>2, ReceiveMoves DEF Copying
    <2>3. QED BY <2>1, <2>2
<1>10. CASE ReceiveLengths
    <2>1. Ctx.msg.len \in 0..BufSize /\ Ctx.msg.ready
        BY <1>2, <1>4, <1>10 DEF ReceiveLengths, InCall, Copying, Context
    <2>2. /\ call' \in ReceiveCall /\ call'.h = call.h /\ call'.pc = "topic"
          /\ call'.got.len = Ctx.msg.len
        BY <1>1, <1>2, <1>10, <2>1 DEF ReceiveLengths, ReceiveCall, Got
    <2>3. QED BY <1>1, <1>3, <2>1, <2>2, ReceiveMoves
<1>11. CASE ReceiveTopic
    <2>1. /\ Ctx.msg.topic \in Numbers /\ Ctx.msg.ready
          /\ call.got.len = Ctx.msg.len
        BY <1>2, <1>4, <1>11 DEF ReceiveTopic, InCall, Copying, Context
    <2>2. /\ call' \in ReceiveCall /\ call'.h = call.h /\ call'.pc = "payload"
          /\ call'.got.len = Ctx.msg.len /\ call'.got.topic = Ctx.msg.topic
        BY <1>1, <1>2, <1>11, <2>1 DEF ReceiveTopic, ReceiveCall, Got
    <2>3. QED BY <1>1, <1>3, <2>1, <2>2, ReceiveMoves
<1>12. CASE ReceivePayload
    <2> DEFINE data == [i \in 1..call.got.len |-> Ctx.msg.payload[i - 1]]
    <2>1. /\ Ctx.msg.ready /\ call.got.len = Ctx.msg.len /\ call.got.topic = Ctx.msg.topic
        BY <1>4, <1>12 DEF ReceivePayload, InCall, Copying
    <2>2. data \in Seq(Filling)
        <3>1. Ctx.msg.payload \in Payload /\ call.got.len \in 0..BufSize
            BY <1>2 DEF Context, Got
        <3>2. call.got.len \in Nat /\ \A i \in 1..call.got.len : i - 1 \in Cells
            BY <3>1 DEF Cells
        <3>3. \A i \in 1..call.got.len : Ctx.msg.payload[i - 1] \in Filling
            BY <3>1, <3>2 DEF Payload
        <3>4. data \in [1..call.got.len -> Filling]
            BY <3>3
        <3> HIDE DEF data
        <3>5. QED BY <3>2, <3>4, SeqDef
    <2>3. call' = [call EXCEPT !.got.payload = data, !.pc = "consume"]
        BY <1>12 DEF ReceivePayload
    <2> HIDE DEF data
    <2>4. /\ call' \in ReceiveCall /\ call'.h = call.h /\ call'.pc = "consume"
          /\ call'.got.len = call.got.len /\ call'.got.topic = call.got.topic
        BY <1>1, <1>2, <2>2, <2>3 DEF ReceiveCall, Got
    <2>5. QED BY <1>1, <1>3, <2>1, <2>4, ReceiveMoves
<1>13. QED BY <1>7, <1>8, <1>9, <1>10, <1>11, <1>12

-----------------------------------------------------------------------------
(* Steps that change one client.                                            *)

\* What must be shown of a step that changes the client of h only.
LEMMA OneClient ==
    ASSUME Inv, TypeOK', ContextsAccounted', CallOK',
           NEW h \in Clients, ClientOK(h)',
           \A g \in Clients : Requested(g)',
           \A g \in Clients \ {h} : /\ ctx'[g] = ctx[g] /\ lwip'[g] = lwip[g]
                                    /\ delivered'[g] = delivered[g],
           sent <= sent'
    PROVE  Inv'
<1>1. sent' \in Nat
    BY DEF TypeOK, Numbers
<1>2. ASSUME NEW g \in Clients \ {h} PROVE ClientOK(g)'
    BY <1>1, OtherClient DEF Inv
<1>3. QED BY <1>2 DEF Inv

\* A client that has nothing yet, or no longer.
LEMMA FreshClient ==
    ASSUME NEW h \in Clients, sent' \in Nat,
           ctx'[h].incoming.topic = 0, ~ctx'[h].msg.ready, lwip'[h].message = 0,
           lwip'[h].state # "none" => ctx'[h].in_use,
           ctx'[h].in_use => delivered'[h] = <<>>,
           InOrder(delivered'[h])
    PROVE  ClientOK(h)'
BY DEF ClientOK, Arriving, Ready, Delivered

LEMMA FreshContext ==
    \A u \in BOOLEAN : LET c == [FreeCtx EXCEPT !.in_use = u] IN
        /\ c \in Context /\ c.in_use = u
        /\ c.incoming.topic = 0 /\ ~c.msg.ready
<1> SUFFICES ASSUME NEW u \in BOOLEAN
             PROVE  LET c == [FreeCtx EXCEPT !.in_use = u] IN
                    /\ c \in Context /\ c.in_use = u
                    /\ c.incoming.topic = 0 /\ ~c.msg.ready
    OBVIOUS
<1>1. 0 \in Numbers
    BY DEF Numbers
<1>2. [i \in Cells |-> <<0, 0>>] \in Payload
    BY DEF Payload, Filling
<1>3. FreeCtx \in Context /\ FreeCtx.incoming.topic = 0 /\ ~FreeCtx.msg.ready
    BY <1>1, <1>2 DEF FreeCtx, Context
<1>4. QED BY <1>3 DEF Context

LEMMA UnusedContext == FreeCtx = [FreeCtx EXCEPT !.in_use = FALSE]
<1>1. FreeCtx \in Context /\ ~FreeCtx.in_use
    <2>1. \A c : c = FreeCtx => ~c.in_use
        BY DEF FreeCtx
    <2>2. 0 \in Numbers
        BY DEF Numbers
    <2>3. [i \in Cells |-> <<0, 0>>] \in Payload
        BY DEF Payload, Filling
    <2>4. QED BY <2>1, <2>2, <2>3 DEF FreeCtx, Context
<1>2. QED BY <1>1 DEF Context

LEMMA FreshLink ==
    \A s \in {"none", "connecting", "connected", "closed"} :
        LET l == [NoClient EXCEPT !.state = s] IN
        l \in Client /\ l.state = s /\ l.pending = {} /\ l.message = 0
<1>1. 0 \in Numbers
    BY DEF Numbers
<1>2. QED BY <1>1 DEF NoClient, Client

LEMMA UnusedLink == NoClient = [NoClient EXCEPT !.state = "none"]
BY DEF NoClient

\* The handle that mqtt_connect takes is an unused one.
LEMMA NextHandleUnused ==
    ASSUME Unused # {}
    PROVE  NextHandle \in Clients /\ ~ctx[NextHandle].in_use
<1>1. Unused \subseteq Nat
    BY DEF Unused
<1>2. \E h \in Unused : \A g \in Unused : h <= g
    BY <1>1, SmallestOfNat, Zenon
<1>3. NextHandle \in Unused
    BY <1>2 DEF NextHandle
<1>4. QED BY <1>3 DEF Unused

LEMMA ConnectStep ==
    ASSUME Inv, Connect
    PROVE  Inv'
<1>1. PICK h \in Clients : h = NextHandle /\ ~ctx[h].in_use
    BY NextHandleUnused DEF Connect
<1>2. /\ ctx' = [ctx EXCEPT ![h] = [FreeCtx EXCEPT !.in_use = TRUE]]
      /\ lwip' = [lwip EXCEPT ![h] = [NoClient EXCEPT !.state = "connecting"]]
      /\ delivered' = [delivered EXCEPT ![h] = <<>>]
      /\ call' = [op |-> "connect", h |-> h, pc |-> "spin"]
      /\ handles' = handles /\ sent' = sent /\ call.op = "none"
    BY <1>1, NoCallType DEF Connect, Idle
<1>3. /\ ctx \in [Clients -> Context] /\ lwip \in [Clients -> Client]
      /\ delivered \in [Clients -> Seq(Got)] /\ handles \subseteq Clients /\ sent \in Numbers
    BY DEF Inv, TypeOK
<1>4. /\ ctx'[h] \in Context /\ ctx'[h].in_use
      /\ ctx'[h].incoming.topic = 0 /\ ~ctx'[h].msg.ready
      /\ lwip'[h] \in Client /\ lwip'[h].pending = {} /\ lwip'[h].message = 0
      /\ delivered'[h] = <<>>
      /\ \A g \in Clients \ {h} : /\ ctx'[g] = ctx[g] /\ lwip'[g] = lwip[g]
                                  /\ delivered'[g] = delivered[g]
    BY <1>1, <1>2, <1>3, FreshContext, FreshLink
<1>5. call' \in ConnectCall /\ call'.op = "connect" /\ call'.h = h
    BY <1>1, <1>2 DEF ConnectCall
<1>6. TypeOK'
    <2>1. /\ ctx' \in [Clients -> Context] /\ lwip' \in [Clients -> Client]
          /\ delivered' \in [Clients -> Seq(Got)]
        BY <1>2, <1>3, <1>4
    <2>2. \A g \in Clients : ctx'[g].msg.ready => ctx'[g].msg.topic # 0
        BY <1>4 DEF Inv, TypeOK
    <2>3. QED BY <1>2, <1>3, <1>5, <2>1, <2>2 DEF TypeOK, Call
<1>7. ContextsAccounted'
    <2>1. {g \in Clients : ctx'[g].in_use} = {g \in Clients : ctx[g].in_use} \union {h}
        BY <1>1, <1>4
    <2>2. {g \in Clients : ctx[g].in_use} = handles
        BY <1>2 DEF Inv, ContextsAccounted
    <2>3. QED BY <1>2, <1>5, <2>1, <2>2 DEF ContextsAccounted
<1>8. CallOK'
    <2>1. h \notin handles
        BY <1>1, <1>2 DEF Inv, ContextsAccounted
    <2>2. QED BY <1>2, <1>5, <2>1 DEF CallOK, InCall
<1>9. ASSUME NEW g \in Clients PROVE Requested(g)'
    <2>1. lwip'[g].pending = {}
        BY <1>2, <1>4 DEF Inv, Requested, InCall
    <2>2. QED BY <2>1 DEF Requested
<1>10. ClientOK(h)'
    <2>1. sent' \in Nat
        BY <1>2, <1>3 DEF Numbers
    <2>2. InOrder(delivered'[h])
        BY <1>4 DEF InOrder
    <2>3. QED BY <1>1, <1>4, <2>1, <2>2, FreshClient
<1>11. sent <= sent'
    BY <1>2, <1>3 DEF Numbers
<1>12. \A g \in Clients : Requested(g)'
    BY <1>9
<1>13. QED BY <1>1, <1>4, <1>6, <1>7, <1>8, <1>10, <1>11, <1>12, OneClient

\* A context and its client are given up: by a refused connect, or by disconnect.
LEMMA GiveUpStep ==
    ASSUME Inv, NEW h \in Clients, GiveUp(h), handles' = handles \ {h}, Return,
           UNCHANGED <<sent, delivered>>,
           call.op = "none" \/ (call.op = "connect" /\ call.h = h)
    PROVE  Inv'
<1>1. /\ ctx' = [ctx EXCEPT ![h] = [FreeCtx EXCEPT !.in_use = FALSE]]
      /\ lwip' = [lwip EXCEPT ![h] = [NoClient EXCEPT !.state = "none"]]
    BY UnusedContext, UnusedLink DEF GiveUp
<1>2. /\ ctx \in [Clients -> Context] /\ lwip \in [Clients -> Client]
      /\ delivered \in [Clients -> Seq(Got)] /\ handles \subseteq Clients /\ sent \in Numbers
    BY DEF Inv, TypeOK
<1>3. /\ ctx'[h] \in Context /\ ~ctx'[h].in_use
      /\ ctx'[h].incoming.topic = 0 /\ ~ctx'[h].msg.ready
      /\ lwip'[h] \in Client /\ lwip'[h].pending = {} /\ lwip'[h].message = 0
      /\ lwip'[h].state = "none"
      /\ \A g \in Clients \ {h} : /\ ctx'[g] = ctx[g] /\ lwip'[g] = lwip[g]
                                  /\ delivered'[g] = delivered[g]
    BY <1>1, <1>2, FreshContext, FreshLink
<1>4. call' \in Call /\ call'.op = "none"
    BY NoCallType DEF Return
<1>5. TypeOK'
    <2>1. ctx' \in [Clients -> Context] /\ lwip' \in [Clients -> Client]
        BY <1>1, <1>2, <1>3
    <2>2. \A g \in Clients : ctx'[g].msg.ready => ctx'[g].msg.topic # 0
        BY <1>3 DEF Inv, TypeOK
    <2>3. QED BY <1>2, <1>4, <2>1, <2>2 DEF TypeOK
<1>6. ContextsAccounted'
    <2>1. {g \in Clients : ctx'[g].in_use} = {g \in Clients : ctx[g].in_use} \ {h}
        BY <1>3
    <2>2. QED BY <1>2, <1>4, <2>1 DEF Inv, ContextsAccounted
<1>7. CallOK'
    BY <1>4 DEF CallOK, InCall
<1>8. \A g \in Clients : Requested(g)'
    <2>1. \A g \in Clients : lwip[g].pending = {}
        BY DEF Inv, Requested, InCall
    <2>2. QED BY <1>3, <2>1 DEF Requested
<1>9. ClientOK(h)'
    <2>1. sent' \in Nat /\ InOrder(delivered'[h])
        BY <1>2 DEF Inv, ClientOK, Numbers
    <2>2. QED BY <1>3, <2>1, FreshClient
<1>10. sent <= sent'
    BY <1>2 DEF Numbers
<1>11. QED BY <1>3, <1>5, <1>6, <1>7, <1>8, <1>9, <1>10, OneClient

LEMMA ConnectStatusStep ==
    ASSUME Inv, ConnectStatus
    PROVE  Inv'
<1>1. call.op = "connect" /\ call \in ConnectCall /\ call.h \in Clients /\ call.h \notin handles
    BY CallKinds DEF ConnectStatus, InCall, Inv, TypeOK, CallOK, ConnectCall
<1>2. call' \in Call /\ call'.op = "none"
    BY NoCallType DEF ConnectStatus, Return
<1>3. CASE ~Ctx.accepted
    BY <1>1, <1>3, GiveUpStep DEF ConnectStatus
<1>4. CASE Ctx.accepted
    <2>1. handles' = handles \union {call.h} /\ UNCHANGED <<ctx, lwip, sent, delivered>>
        BY <1>4 DEF ConnectStatus
    <2>2. TypeOK'
        BY <1>1, <1>2, <2>1 DEF Inv, TypeOK
    <2>3. ContextsAccounted'
        BY <1>1, <1>2, <2>1 DEF Inv, ContextsAccounted
    <2>4. CallOK'
        BY <1>2 DEF CallOK, InCall
    <2>5. \A g \in Clients : Requested(g)'
        BY <1>1, <2>1 DEF Inv, Requested, InCall
    <2>6. sent \in Nat
        BY DEF Inv, TypeOK, Numbers
    <2>7. \A g \in Clients : ClientOK(g)'
        BY <2>1, <2>6, OtherClient DEF Inv
    <2>8. QED BY <2>2, <2>3, <2>4, <2>5, <2>7 DEF Inv
<1>5. QED BY <1>3, <1>4

LEMMA DisconnectStep ==
    ASSUME Inv, NEW h \in Clients, Disconnect(h)
    PROVE  Inv'
BY GiveUpStep, NoCallType DEF Disconnect, Idle, Return

\* A step of the natives' requests: the context of h keeps its message, lwIP its own.
LEMMA RequestMoves ==
    ASSUME Inv, NEW h \in Clients,
           ctx' \in [Clients -> Context], lwip' \in [Clients -> Client],
           ctx'[h].in_use = ctx[h].in_use, ctx'[h].msg = ctx[h].msg,
           ctx'[h].incoming = ctx[h].incoming,
           \/ lwip'[h].message = 0
           \/ /\ lwip'[h].message = lwip[h].message /\ lwip'[h].part = lwip[h].part
              /\ lwip'[h].state = lwip[h].state,
           lwip'[h].state # "none" => ctx[h].in_use,
           \A g \in Clients \ {h} : ctx'[g] = ctx[g] /\ lwip'[g] = lwip[g],
           UNCHANGED <<handles, sent, delivered>>,
           call' \in Call, CallOK', \A g \in Clients : Requested(g)',
           call'.op = "connect" <=> call.op = "connect",
           call.op = "connect" => call'.h = call.h
    PROVE  Inv'
<1>1. TypeOK'
    <2>1. \A g \in Clients : ctx'[g].msg = ctx[g].msg
        OBVIOUS
    <2>2. \A g \in Clients : ctx'[g].msg.ready => ctx'[g].msg.topic # 0
        BY <2>1 DEF Inv, TypeOK
    <2>3. QED BY <2>2 DEF Inv, TypeOK
<1>2. \A g \in Clients : ctx'[g].in_use = ctx[g].in_use
    OBVIOUS
<1>3. ContextsAccounted'
    BY <1>2 DEF Inv, ContextsAccounted
<1>4. sent \in Nat /\ sent <= sent'
    BY DEF Inv, TypeOK, Numbers
<1>5. ClientOK(h)'
    BY <1>4, SameMessages DEF Inv
<1>6. QED BY <1>1, <1>3, <1>4, <1>5, OneClient

LEMMA RequestStep ==
    ASSUME Inv, NEW h \in Clients, NEW k \in Kinds, Request(h, k)
    PROVE  Inv'
<1>1. /\ h \in handles /\ call.op = "none"
      /\ ctx' = [ctx EXCEPT ![h] = Forgotten(@, k)]
      /\ call' = [op |-> "request", h |-> h, pc |-> "lock", kind |-> k]
      /\ UNCHANGED <<handles, lwip, sent, delivered>>
    BY NoCallType DEF Request, Idle
<1>2. ctx \in [Clients -> Context] /\ lwip \in [Clients -> Client]
    BY DEF Inv, TypeOK
<1>3. /\ Forgotten(ctx[h], k) \in Context /\ ~Forgotten(ctx[h], k).done[k]
      /\ Forgotten(ctx[h], k).in_use = ctx[h].in_use
      /\ Forgotten(ctx[h], k).msg = ctx[h].msg
      /\ Forgotten(ctx[h], k).incoming = ctx[h].incoming
    BY <1>2 DEF Forgotten, Context
<1>4. /\ ctx' \in [Clients -> Context] /\ ctx'[h] = Forgotten(ctx[h], k)
      /\ \A g \in Clients \ {h} : ctx'[g] = ctx[g] /\ lwip'[g] = lwip[g]
    BY <1>1, <1>2, <1>3
<1>5. call' \in RequestCall /\ call' \in Call
    BY <1>1 DEF RequestCall, Call
<1>6. CallOK'
    BY <1>1, <1>3, <1>4 DEF CallOK, InCall, Ctx
<1>7. \A g \in Clients : Requested(g)'
    BY <1>1 DEF Inv, Requested, InCall
<1>8. lwip'[h].state # "none" => ctx[h].in_use
    BY <1>1 DEF Inv, ClientOK
<1>9. /\ ctx'[h].in_use = ctx[h].in_use /\ ctx'[h].msg = ctx[h].msg
      /\ ctx'[h].incoming = ctx[h].incoming
    BY <1>3, <1>4
<1>10. call'.op = "request"
    BY <1>1
<1>11. QED BY <1>1, <1>2, <1>4, <1>5, <1>6, <1>7, <1>8, <1>9, <1>10, RequestMoves

LEMMA RequestLockedStep ==
    ASSUME Inv, RequestLocked
    PROVE  Inv'
<1>1. PICK h \in Clients : h = call.h
    BY CallKinds DEF RequestLocked, InCall, Inv, TypeOK, RequestCall
<1>2. /\ call.op = "request" /\ call \in RequestCall /\ call.kind \in Kinds /\ h \in handles
      /\ InCall("request", "lock") /\ ~Ctx.done[call.kind]
      /\ UNCHANGED <<ctx, handles, sent, delivered>>
    BY <1>1, CallKinds DEF RequestLocked, InCall, Inv, TypeOK, CallOK, RequestCall
<1>3. \A g \in Clients : lwip[g].pending = {}
    BY <1>2 DEF Inv, Requested, InCall
<1>4. CASE ~Connected(h)
    BY <1>1, <1>2, <1>3, <1>4, ReturnStep DEF RequestLocked
<1>5. CASE Connected(h)
    <2>1. /\ lwip' = [lwip EXCEPT ![h].pending = @ \union {call.kind}]
          /\ Goto("spin")
        BY <1>1, <1>5 DEF RequestLocked
    <2>2. ctx \in [Clients -> Context] /\ lwip \in [Clients -> Client]
        BY DEF Inv, TypeOK
    <2>3. /\ lwip' \in [Clients -> Client] /\ lwip'[h].pending = {call.kind}
          /\ lwip'[h].message = lwip[h].message /\ lwip'[h].part = lwip[h].part
          /\ lwip'[h].state = lwip[h].state
          /\ \A g \in Clients \ {h} : lwip'[g] = lwip[g]
        BY <1>2, <1>3, <2>1, <2>2 DEF Client
    <2>4. /\ call' \in RequestCall /\ call'.op = "request" /\ call'.pc = "spin"
          /\ call'.h = h /\ call'.kind = call.kind
        BY <1>1, <1>2, <2>1 DEF Goto, RequestCall
    <2>5. call' \in Call
        BY <2>4 DEF Call
    <2>6. CallOK'
        BY <1>1, <1>2, <2>4 DEF CallOK, InCall, Ctx
    <2>7. \A g \in Clients : Requested(g)'
        BY <1>3, <2>3, <2>4 DEF Requested, InCall
    <2>8. lwip'[h].state # "none" => ctx[h].in_use
        BY <2>3 DEF Inv, ClientOK
    <2>9. QED BY <1>2, <2>2, <2>3, <2>4, <2>5, <2>6, <2>7, <2>8, RequestMoves
<1>6. QED BY <1>4, <1>5

LEMMA ReceiveStep ==
    ASSUME Inv, NEW h \in Clients, NEW t \in Timeouts, Receive(h, t)
    PROVE  Inv'
<1>1. /\ h \in handles /\ call.op = "none"
      /\ UNCHANGED <<ctx, handles, lwip, sent, delivered>>
      /\ call' = [op |-> "receive", h |-> h, pc |-> "ready", timeout |-> t, waited |-> 0,
                  got |-> [topic |-> 0, len |-> 0, payload |-> <<>>]]
    BY NoCallType DEF Receive, Idle
<1>2. [topic |-> 0, len |-> 0, payload |-> <<>>] \in Got
    BY DEF Got, Numbers
<1>3. call' \in ReceiveCall /\ call' \in Call
    BY <1>1, <1>2 DEF ReceiveCall, Call
<1>4. CallOK'
    BY <1>1 DEF CallOK, InCall, Copying
<1>5. \A g \in Clients : Requested(g)'
    BY <1>1 DEF Inv, Requested, InCall
<1>6. call'.op = "receive"
    BY <1>1
<1>7. QED BY <1>1, <1>3, <1>4, <1>5, <1>6, NativeMoves

\* What mqtt_receive returns follows what it has returned.
LEMMA ReceiveConsumeStep ==
    ASSUME Inv, ReceiveConsume
    PROVE  Inv'
<1>1. PICK h \in Clients : h = call.h
    BY CallKinds DEF ReceiveConsume, InCall, Inv, TypeOK, ReceiveCall
<1> DEFINE got == call.got
<1>2. /\ call.op = "receive" /\ got \in Got /\ h \in handles
      /\ Ctx.msg.ready /\ got.len = Ctx.msg.len /\ got.topic = Ctx.msg.topic
    BY <1>1, CallKinds DEF ReceiveConsume, InCall, Inv, TypeOK, CallOK, ReceiveCall, Copying
<1>3. /\ ctx' = [ctx EXCEPT ![h].msg = [@ EXCEPT !.ready = FALSE]]
      /\ delivered' = [delivered EXCEPT ![h] = Append(@, got)]
      /\ Return /\ UNCHANGED <<handles, lwip, sent>>
    BY <1>1 DEF ReceiveConsume, Consumed
<1>4. Ctx = ctx[h] /\ ClientOK(h) /\ TypeOK
    BY <1>1 DEF Ctx, Inv
<1> HIDE DEF got
<1>5. /\ ctx \in [Clients -> Context] /\ lwip \in [Clients -> Client]
      /\ delivered \in [Clients -> Seq(Got)]
    BY <1>4 DEF TypeOK
<1>6. /\ ctx' \in [Clients -> Context]
      /\ ctx'[h].in_use = ctx[h].in_use /\ ctx'[h].incoming = ctx[h].incoming
      /\ ctx'[h].msg.payload = ctx[h].msg.payload /\ ~ctx'[h].msg.ready
      /\ \A g \in Clients \ {h} : ctx'[g] = ctx[g]
    <2> DEFINE c == [ctx[h] EXCEPT !.msg = [@ EXCEPT !.ready = FALSE]]
    <2>1. ctx[h] \in Context
        BY <1>5
    <2>2. [ctx[h].msg EXCEPT !.ready = FALSE] \in
              [topic : Numbers, len : 0..BufSize, ready : BOOLEAN, payload : Payload]
        BY <2>1 DEF Context
    <2>3. /\ c \in Context /\ c.in_use = ctx[h].in_use /\ c.incoming = ctx[h].incoming
          /\ c.msg = [ctx[h].msg EXCEPT !.ready = FALSE]
        BY <2>1, <2>2 DEF Context
    <2>4. c.msg.payload = ctx[h].msg.payload /\ ~c.msg.ready
        BY <2>1, <2>3 DEF Context
    <2>5. ctx' = [ctx EXCEPT ![h] = c]
        BY <1>3
    <2> HIDE DEF c
    <2>6. QED BY <1>5, <2>3, <2>4, <2>5
<1>7. /\ delivered' \in [Clients -> Seq(Got)] /\ delivered'[h] = Append(delivered[h], got)
      /\ \A g \in Clients \ {h} : delivered'[g] = delivered[g]
    BY <1>2, <1>3, <1>5
<1>8. call' \in Call /\ call'.op = "none"
    BY <1>3, NoCallType DEF Return
<1>9. TypeOK'
    BY <1>3, <1>4, <1>6, <1>7, <1>8 DEF TypeOK
<1>10. ContextsAccounted'
    <2>1. \A g \in Clients : ctx'[g].in_use = ctx[g].in_use
        BY <1>6
    <2>2. QED BY <1>2, <1>3, <1>8, <2>1 DEF Inv, ContextsAccounted
<1>11. CallOK'
    BY <1>8 DEF CallOK, InCall
<1>12. \A g \in Clients : Requested(g)'
    <2>1. \A g \in Clients : lwip[g].pending = {}
        BY <1>2 DEF Inv, Requested, InCall
    <2>2. QED BY <1>3, <2>1 DEF Requested
<1>13. ClientOK(h)'
    <2>1. /\ ctx[h].in_use /\ ctx[h].incoming.topic \in Nat /\ ctx[h].msg.topic \in Nat
        BY <1>2, <1>4, ClientTypes DEF Inv, ContextsAccounted
    <2>2. /\ ctx[h].msg.len = Whole(ctx[h].msg.topic)
          /\ ctx[h].msg.topic <= ctx[h].incoming.topic
          /\ lwip[h].message # 0 => ctx[h].msg.topic < ctx[h].incoming.topic
        BY <1>2, <1>4, <2>1 DEF ClientOK, Ready
    <2>3. /\ Len(delivered'[h]) = Len(delivered[h]) + 1 /\ Len(delivered[h]) \in Nat
          /\ delivered'[h][Len(delivered[h]) + 1] = got
          /\ \A n \in 1..Len(delivered[h]) : delivered'[h][n] = delivered[h][n]
        BY <1>5, <1>7
    <2>4. Arriving(h)'
        BY <1>3, <1>4, <1>6 DEF ClientOK, Arriving
    <2>5. Ready(h)'
        BY <1>6 DEF Ready
    <2>6. Delivered(h)'
        <3> SUFFICES ASSUME NEW n \in 1..Len(delivered'[h])
                     PROVE  /\ delivered'[h][n].topic <= ctx[h].incoming.topic
                            /\ lwip[h].message # 0 =>
                                 delivered'[h][n].topic < ctx[h].incoming.topic
            BY <1>3, <1>6 DEF Delivered
        <3>1. CASE n = Len(delivered[h]) + 1
            BY <1>2, <1>4, <2>2, <2>3, <3>1
        <3>2. CASE n \in 1..Len(delivered[h])
            BY <1>4, <2>1, <2>3, <3>2 DEF ClientOK, Delivered
        <3>3. QED BY <2>3, <3>1, <3>2
    <2>7. InOrder(delivered'[h])
        <3> SUFFICES ASSUME NEW n \in 1..Len(delivered'[h])
                     PROVE  /\ delivered'[h][n].len = Whole(delivered'[h][n].topic)
                            /\ n > 1 => delivered'[h][n - 1].topic < delivered'[h][n].topic
            BY DEF InOrder
        <3>1. \A i \in 1..Len(delivered[h]) : delivered[h][i].topic < ctx[h].msg.topic
            BY <1>2, <1>4, <2>1 DEF ClientOK, Delivered
        <3>2. CASE n = Len(delivered[h]) + 1
            <4>1. n > 1 => n - 1 \in 1..Len(delivered[h])
                BY <2>3, <3>2
            <4>2. QED BY <1>2, <1>4, <2>2, <2>3, <3>1, <3>2, <4>1
        <3>3. CASE n \in 1..Len(delivered[h])
            <4>1. n > 1 => n - 1 \in 1..Len(delivered[h])
                BY <2>3, <3>3
            <4>2. QED BY <1>4, <2>3, <3>3, <4>1 DEF ClientOK, InOrder
        <3>4. QED BY <2>3, <3>2, <3>3
    <2>8. QED BY <1>3, <1>4, <1>6, <2>4, <2>5, <2>6, <2>7 DEF ClientOK
<1>14. sent <= sent'
    BY <1>3, <1>4, ClientTypes
<1>15. QED BY <1>3, <1>6, <1>7, <1>9, <1>10, <1>11, <1>12, <1>13, <1>14, OneClient

-----------------------------------------------------------------------------
(* Steps of the callbacks.                                                  *)

\* A callback that keeps a ready message, and answers and forgets no request.
LEMMA CallKept ==
    ASSUME call \in Call, CallOK, UNCHANGED <<call, handles>>,
           \A g \in Clients :
             /\ ctx'[g].done = ctx[g].done
             /\ lwip'[g].pending \subseteq lwip[g].pending
             /\ ctx[g].msg.ready => /\ ctx'[g].msg.ready
                                    /\ ctx'[g].msg.topic = ctx[g].msg.topic
                                    /\ ctx'[g].msg.len = ctx[g].msg.len
    PROVE  CallOK'
<1>1. call.op \in {"request", "receive"} => call.h \in Clients
    BY CallKinds DEF RequestCall, ReceiveCall
<1>2. /\ call.op = "connect" => call.h \notin handles
      /\ call.op \in {"request", "receive"} => call.h \in handles
    BY DEF CallOK
<1>3. /\ InCall("request", "lock") => ~ctx'[call.h].done[call.kind]
      /\ InCall("request", "spin") /\ ctx'[call.h].done[call.kind] =>
           lwip'[call.h].pending = {}
    BY <1>1 DEF CallOK, InCall, Ctx
<1>4. CASE call.op = "receive"
    <2>1. /\ call.pc \in Copying => ctx[call.h].msg.ready
          /\ call.pc \in Copying \ {"lengths"} => call.got.len = ctx[call.h].msg.len
          /\ call.pc \in {"payload", "consume"} => call.got.topic = ctx[call.h].msg.topic
        BY <1>4 DEF CallOK, Ctx
    <2>2. call.pc \in Copying \ {"lengths"} => call.pc \in Copying
        OBVIOUS
    <2>3. call.pc \in {"payload", "consume"} => call.pc \in Copying
        BY DEF Copying
    <2>4. /\ call.pc \in Copying => ctx'[call.h].msg.ready
          /\ call.pc \in Copying \ {"lengths"} => call.got.len = ctx'[call.h].msg.len
          /\ call.pc \in {"payload", "consume"} => call.got.topic = ctx'[call.h].msg.topic
        BY <1>1, <1>4, <2>1, <2>2, <2>3
    <2>5. QED BY <1>2, <1>3, <1>4, <2>4 DEF CallOK, InCall, Ctx
<1>5. CASE call.op # "receive"
    BY <1>2, <1>3, <1>5 DEF CallOK, InCall, Ctx
<1>6. QED BY <1>4, <1>5

LEMMA ConnectionStep ==
    ASSUME Inv, NEW h \in Clients, NEW a \in BOOLEAN, mqtt_connection_cb(h, a)
    PROVE  Inv'
<1> DEFINE s == IF a THEN "connected" ELSE "closed"
<1>1. /\ lwip[h].state # "none"
      /\ lwip' = [lwip EXCEPT ![h] = [NoClient EXCEPT !.state = s]]
      /\ ctx' = [ctx EXCEPT ![h] = Answered(@, a)]
      /\ UNCHANGED <<handles, call, sent, delivered>>
    BY DEF mqtt_connection_cb
<1>2. /\ ctx \in [Clients -> Context] /\ lwip \in [Clients -> Client] /\ call \in Call
    BY DEF Inv, TypeOK
<1>3. s \in {"none", "connecting", "connected", "closed"}
    OBVIOUS
<1> HIDE DEF s
<1>4. /\ Answered(ctx[h], a) \in Context
      /\ Answered(ctx[h], a).in_use = ctx[h].in_use
      /\ Answered(ctx[h], a).msg = ctx[h].msg
      /\ Answered(ctx[h], a).incoming = ctx[h].incoming
      /\ Answered(ctx[h], a).done = ctx[h].done
    BY <1>2 DEF Answered, Context
<1>5. /\ ctx' \in [Clients -> Context] /\ ctx'[h] = Answered(ctx[h], a)
      /\ lwip' \in [Clients -> Client] /\ lwip'[h].pending = {} /\ lwip'[h].message = 0
      /\ \A g \in Clients \ {h} : ctx'[g] = ctx[g] /\ lwip'[g] = lwip[g]
    BY <1>1, <1>2, <1>3, <1>4, FreshLink
<1>6. CallOK'
    <2>1. \A g \in Clients : /\ ctx'[g].done = ctx[g].done /\ ctx'[g].msg = ctx[g].msg
                             /\ lwip'[g].pending \subseteq lwip[g].pending
        BY <1>4, <1>5
    <2>2. QED BY <1>1, <1>2, <2>1, CallKept DEF Inv
<1>7. \A g \in Clients : Requested(g)'
    BY <1>1, <1>5 DEF Inv, Requested, InCall
<1>8. ctx[h].in_use
    BY <1>1 DEF Inv, ClientOK
<1>9. /\ ctx'[h].in_use = ctx[h].in_use /\ ctx'[h].msg = ctx[h].msg
      /\ ctx'[h].incoming = ctx[h].incoming
    BY <1>4, <1>5
<1>10. QED BY <1>1, <1>2, <1>5, <1>6, <1>7, <1>8, <1>9, RequestMoves

LEMMA RequestAnswerStep ==
    ASSUME Inv, NEW h \in Clients, NEW k \in Kinds, request_cb(h, k)
    PROVE  Inv'
<1>1. /\ k \in lwip[h].pending
      /\ lwip' = [lwip EXCEPT ![h].pending = @ \ {k}]
      /\ ctx' = [ctx EXCEPT ![h].done[k] = TRUE]
      /\ UNCHANGED <<handles, call, sent, delivered>>
    BY DEF request_cb
<1>2. /\ ctx \in [Clients -> Context] /\ lwip \in [Clients -> Client] /\ call \in Call
    BY DEF Inv, TypeOK
<1>3. /\ InCall("request", "spin") /\ call.op = "request" /\ call.h = h /\ call.kind = k
      /\ lwip[h].pending = {k}
    BY <1>1 DEF Inv, Requested, InCall
<1>4. /\ ctx' \in [Clients -> Context]
      /\ ctx'[h].in_use = ctx[h].in_use /\ ctx'[h].msg = ctx[h].msg
      /\ ctx'[h].incoming = ctx[h].incoming
      /\ \A g \in Clients \ {h} : ctx'[g] = ctx[g]
    BY <1>1, <1>2 DEF Context
<1>5. /\ lwip' \in [Clients -> Client] /\ lwip'[h].pending = {}
      /\ lwip'[h].message = lwip[h].message /\ lwip'[h].part = lwip[h].part
      /\ lwip'[h].state = lwip[h].state
      /\ \A g \in Clients \ {h} : lwip'[g] = lwip[g]
    <2>1. lwip[h] \in Client
        BY <1>2
    <2>2. LET l == [lwip[h] EXCEPT !.pending = {}] IN
          /\ l \in Client /\ l.pending = {} /\ l.message = lwip[h].message
          /\ l.part = lwip[h].part /\ l.state = lwip[h].state
        BY <2>1 DEF Client
    <2>3. lwip' = [lwip EXCEPT ![h] = [lwip[h] EXCEPT !.pending = {}]]
        BY <1>1, <1>3
    <2>4. QED BY <1>2, <2>2, <2>3
<1>6. CallOK'
    BY <1>1, <1>3, <1>5 DEF Inv, CallOK, InCall
<1>7. \A g \in Clients : Requested(g)'
    BY <1>1, <1>5 DEF Inv, Requested, InCall
<1>8. lwip'[h].state # "none" => ctx[h].in_use
    BY <1>5 DEF Inv, ClientOK
<1>9. QED BY <1>1, <1>2, <1>4, <1>5, <1>6, <1>7, <1>8, RequestMoves

LEMMA PublishStep ==
    ASSUME Inv, NEW h \in Clients, mqtt_incoming_publish_cb(h)
    PROVE  Inv'
<1>1. /\ lwip[h].state = "connected" /\ sent < Len(Messages)
      /\ sent' = sent + 1
      /\ lwip' = [lwip EXCEPT ![h].message = sent + 1, ![h].part = 1]
      /\ ctx' = [ctx EXCEPT ![h].incoming = [topic |-> sent + 1, pos |-> 0]]
      /\ UNCHANGED <<handles, call, delivered>>
    BY DEF mqtt_incoming_publish_cb, Connected
<1>2. /\ ctx \in [Clients -> Context] /\ lwip \in [Clients -> Client] /\ call \in Call
      /\ sent \in Nat /\ Len(Messages) \in Nat /\ sent + 1 \in Numbers
      /\ Messages[sent + 1] \in Nat \ {0}
    <2>1. sent \in 0..Len(Messages) /\ Len(Messages) \in Nat
        BY DEF Inv, TypeOK, Numbers
    <2>2. sent + 1 \in 1..Len(Messages)
        BY <1>1, <2>1
    <2>3. QED BY <2>1, <2>2 DEF Inv, TypeOK, Numbers
<1>3. /\ ctx' \in [Clients -> Context]
      /\ ctx'[h].in_use = ctx[h].in_use /\ ctx'[h].msg = ctx[h].msg
      /\ ctx'[h].done = ctx[h].done
      /\ ctx'[h].incoming.topic = sent + 1 /\ ctx'[h].incoming.pos = 0
      /\ \A g \in Clients \ {h} : ctx'[g] = ctx[g]
    <2> DEFINE begun == [topic |-> sent + 1, pos |-> 0]
               c == [ctx[h] EXCEPT !.incoming = begun]
    <2>1. /\ begun \in [topic : Numbers, pos : 0..BufSize]
          /\ begun.topic = sent + 1 /\ begun.pos = 0
        BY <1>2
    <2>2. ctx[h] \in Context
        BY <1>2
    <2>3. ctx' = [ctx EXCEPT ![h] = c]
        BY <1>1
    <2> HIDE DEF begun
    <2>4. /\ c \in Context /\ c.in_use = ctx[h].in_use /\ c.msg = ctx[h].msg
          /\ c.done = ctx[h].done /\ c.incoming = begun
        BY <2>1, <2>2 DEF Context
    <2> HIDE DEF c
    <2>5. QED BY <1>2, <2>1, <2>3, <2>4
<1>4. /\ lwip' \in [Clients -> Client] /\ lwip'[h].pending = lwip[h].pending
      /\ lwip'[h].message = sent + 1 /\ lwip'[h].part = 1
      /\ lwip'[h].state = lwip[h].state
      /\ \A g \in Clients \ {h} : lwip'[g] = lwip[g]
    BY <1>1, <1>2 DEF Client
<1>5. TypeOK'
    BY <1>1, <1>2, <1>3, <1>4 DEF Inv, TypeOK
<1>6. ContextsAccounted'
    <2>1. \A g \in Clients : ctx'[g].in_use = ctx[g].in_use
        BY <1>3
    <2>2. QED BY <1>1, <2>1 DEF Inv, ContextsAccounted
<1>7. CallOK'
    <2>1. \A g \in Clients : /\ ctx'[g].done = ctx[g].done /\ ctx'[g].msg = ctx[g].msg
                             /\ lwip'[g].pending = lwip[g].pending
        BY <1>3, <1>4
    <2>2. QED BY <1>1, <1>2, <2>1, CallKept DEF Inv
<1>8. \A g \in Clients : Requested(g)'
    BY <1>1, <1>4 DEF Inv, Requested, InCall
<1>9. ClientOK(h)'
    <2>1. ClientOK(h) /\ ctx[h].in_use
        BY <1>1 DEF Inv, ClientOK
    <2>2. /\ ctx[h].incoming.topic \in Nat /\ ctx[h].incoming.topic <= sent
          /\ ctx[h].msg.topic \in Nat
        BY <2>1, ClientTypes DEF Inv, ClientOK
    <2>3. Arriving(h)'
        BY <1>1, <1>2, <1>3, <1>4 DEF Arriving
    <2>4. Ready(h)'
        <3>1. ctx[h].msg.topic < sent + 1 \/ ~ctx[h].msg.ready
            BY <1>2, <2>1, <2>2 DEF ClientOK, Ready
        <3>2. ctx[h].msg.ready => ctx[h].msg.len = Whole(ctx[h].msg.topic)
            BY <2>1 DEF ClientOK, Ready
        <3>3. QED BY <1>3, <3>1, <3>2 DEF Ready
    <2>5. Delivered(h)'
        <3>1. \A n \in 1..Len(delivered[h]) : delivered[h][n].topic \in Nat
            <4>1. delivered[h] \in Seq(Got)
                BY ClientTypes DEF Inv
            <4>2. \A n \in 1..Len(delivered[h]) : delivered[h][n] \in Got
                BY <4>1
            <4>3. QED BY <1>2, <4>2 DEF Got, Numbers
        <3>2. \A n \in 1..Len(delivered[h]) :
                 /\ delivered[h][n].topic <= ctx[h].incoming.topic
                 /\ ctx[h].msg.ready => delivered[h][n].topic < ctx[h].msg.topic
            BY <2>1 DEF ClientOK, Delivered
        <3>3. \A n \in 1..Len(delivered[h]) : delivered[h][n].topic < sent + 1
            <4>1. ASSUME NEW n \in 1..Len(delivered[h]), NEW t \in Nat,
                         t = delivered[h][n].topic
                  PROVE  t < sent + 1
                BY <1>2, <2>2, <3>2, <4>1
            <4>2. QED BY <3>1, <4>1
        <3>4. QED BY <1>1, <1>3, <3>1, <3>2, <3>3, <1>2 DEF Delivered
    <2>6. QED BY <1>1, <1>2, <1>3, <1>4, <2>1, <2>3, <2>4, <2>5 DEF ClientOK
<1>10. sent <= sent'
    BY <1>1, <1>2
<1>11. QED BY <1>1, <1>3, <1>4, <1>5, <1>6, <1>7, <1>8, <1>9, <1>10, OneClient

\* The types of a context's message and of the incoming one.
Message == [topic : Numbers, len : 0..BufSize, ready : BOOLEAN, payload : Payload]
Incoming == [topic : Numbers, pos : 0..BufSize]

\* What Copied does to a context.
LEMMA CopiedFacts ==
    ASSUME NEW c \in Context, NEW cell \in Filling
    PROVE  LET d == Copied(c, cell) IN
           /\ d \in Context
           /\ d.in_use = c.in_use /\ d.done = c.done /\ d.incoming.topic = c.incoming.topic
           /\ d.incoming.pos = IF Room(c) THEN c.incoming.pos + 1 ELSE c.incoming.pos
           /\ d.msg.ready = c.msg.ready /\ d.msg.topic = c.msg.topic
           /\ d.msg.len = c.msg.len
           /\ \A i \in Cells : d.msg.payload[i] =
                IF Room(c) /\ i = c.incoming.pos THEN cell ELSE c.msg.payload[i]
<1>1. c.incoming.pos \in 0..BufSize /\ c.msg.payload \in Payload
    BY DEF Context
<1>2. CASE ~Room(c)
    BY <1>2 DEF Copied
<1>3. CASE Room(c)
    <2> DEFINE pos == c.incoming.pos
               payload == [c.msg.payload EXCEPT ![pos] = cell]
               d == [c EXCEPT !.msg.payload = payload, !.incoming.pos = pos + 1]
    <2>1. Copied(c, cell) = d
        BY <1>3 DEF Copied
    <2>2. payload \in Payload /\ pos \in Cells /\ pos + 1 \in 0..BufSize
        BY <1>1, <1>3 DEF Payload, Cells, Room
    <2>3. \A i \in Cells : payload[i] = IF i = pos THEN cell ELSE c.msg.payload[i]
        BY <1>1, <2>2 DEF Payload
    <2> HIDE DEF payload
    <2>4. /\ d.msg.payload = payload /\ d.incoming.pos = pos + 1
          /\ d.in_use = c.in_use /\ d.done = c.done /\ d.incoming.topic = c.incoming.topic
          /\ d.msg.ready = c.msg.ready /\ d.msg.topic = c.msg.topic
          /\ d.msg.len = c.msg.len
        BY <2>2 DEF Context
    <2>5. d \in Context
        BY <2>2 DEF Context
    <2> HIDE DEF d
    <2>6. QED BY <1>3, <2>1, <2>3, <2>4, <2>5
<1>4. QED BY <1>2, <1>3

\* What Completed does to a context.
LEMMA CompletedFacts ==
    ASSUME NEW c \in Context
    PROVE  LET d == Completed(c) IN
           /\ d \in Context
           /\ d.in_use = c.in_use /\ d.done = c.done /\ d.incoming.topic = c.incoming.topic
           /\ d.incoming.pos = 0
           /\ d.msg.ready /\ d.msg.payload = c.msg.payload
           /\ c.msg.ready => d.msg.topic = c.msg.topic /\ d.msg.len = c.msg.len
           /\ ~c.msg.ready => d.msg.topic = c.incoming.topic /\ d.msg.len = c.incoming.pos
<1> DEFINE new == [c.msg EXCEPT !.topic = c.incoming.topic, !.len = c.incoming.pos,
                                !.ready = TRUE]
           msg == IF ~Vacant(c) THEN c.msg ELSE new
           incoming == [c.incoming EXCEPT !.pos = 0]
<1>1. Completed(c) = [c EXCEPT !.msg = msg, !.incoming = incoming]
    BY DEF Completed
<1>2. incoming.topic = c.incoming.topic /\ incoming.pos = 0 /\ incoming \in Incoming
    BY DEF Context, Incoming
<1>3. /\ new \in Message /\ new.ready /\ new.payload = c.msg.payload
      /\ new.topic = c.incoming.topic /\ new.len = c.incoming.pos
    BY DEF Context, Message
<1>4. c.msg \in Message
    BY DEF Context, Message
<1> HIDE DEF new
<1>5. /\ msg \in Message /\ msg.ready /\ msg.payload = c.msg.payload
      /\ c.msg.ready => msg.topic = c.msg.topic /\ msg.len = c.msg.len
      /\ ~c.msg.ready => msg.topic = c.incoming.topic /\ msg.len = c.incoming.pos
    BY <1>3, <1>4 DEF Vacant
<1> HIDE DEF msg, incoming
<1>6. /\ Completed(c) \in Context
      /\ Completed(c).in_use = c.in_use /\ Completed(c).done = c.done
      /\ Completed(c).msg = msg /\ Completed(c).incoming = incoming
    BY <1>1, <1>2, <1>5 DEF Context, Message, Incoming
<1>7. QED BY <1>2, <1>5, <1>6

\* What fits of a part goes to the front of the buffer, and the last part completes
\* the message.
LEMMA DataStep ==
    ASSUME Inv, NEW h \in Clients, mqtt_incoming_data_cb(h)
    PROVE  Inv'
<1> DEFINE m == lwip[h].message
           p == lwip[h].part
           c == ctx[h]
           d == Copied(c, <<m, p>>)
<1>1. /\ m # 0
      /\ ctx' = [ctx EXCEPT ![h] = IF IsLast(h) THEN Completed(d) ELSE d]
      /\ lwip' = [lwip EXCEPT ![h] =
                    IF p = Messages[m] THEN [lwip[h] EXCEPT !.message = 0, !.part = 0]
                                       ELSE [lwip[h] EXCEPT !.part = p + 1]]
      /\ UNCHANGED <<handles, call, sent, delivered>>
    BY DEF mqtt_incoming_data_cb
<1>2. /\ ctx \in [Clients -> Context] /\ lwip \in [Clients -> Client] /\ call \in Call
      /\ c \in Context /\ m \in Numbers /\ p \in Nat /\ m \in Nat /\ <<m, p>> \in Filling
      /\ c.incoming.pos \in 0..BufSize /\ c.msg.topic \in Nat
    BY ClientTypes DEF Inv, TypeOK, Filling
<1>3. /\ ClientOK(h) /\ lwip[h].state = "connected" /\ c.in_use
      /\ c.incoming.topic = m /\ p \in 1..Messages[m] /\ Messages[m] \in Nat
      /\ c.incoming.pos = IF p - 1 < BufSize THEN p - 1 ELSE BufSize
      /\ \A i \in 1..c.incoming.pos : c.msg.payload[i - 1] = <<m, i>>
    <2>1. m \in 1..Len(Messages)
        BY <1>1, <1>2 DEF Numbers
    <2>2. ClientOK(h) /\ Messages[m] \in Nat
        BY <2>1 DEF Inv
    <2>3. Arriving(h) /\ (lwip[h].state # "none" => c.in_use)
        BY <2>2 DEF ClientOK
    <2>4. QED BY <1>1, <2>2, <2>3 DEF Arriving
<1>4. /\ d \in Context
      /\ d.in_use = c.in_use /\ d.done = c.done /\ d.incoming.topic = m
      /\ d.msg.ready = c.msg.ready /\ d.msg.topic = c.msg.topic /\ d.msg.len = c.msg.len
      /\ d.incoming.pos = IF p < BufSize THEN p ELSE BufSize
      /\ \A i \in 1..d.incoming.pos : d.msg.payload[i - 1] = <<m, i>>
    <2>1. /\ d \in Context
          /\ d.in_use = c.in_use /\ d.done = c.done /\ d.incoming.topic = m
          /\ d.msg.ready = c.msg.ready /\ d.msg.topic = c.msg.topic /\ d.msg.len = c.msg.len
          /\ d.incoming.pos = IF Room(c) THEN c.incoming.pos + 1 ELSE c.incoming.pos
          /\ \A i \in Cells : d.msg.payload[i] =
               IF Room(c) /\ i = c.incoming.pos THEN <<m, p>> ELSE c.msg.payload[i]
        <3>1. LET e == Copied(c, <<m, p>>) IN
              /\ e \in Context
              /\ e.in_use = c.in_use /\ e.done = c.done
              /\ e.incoming.topic = c.incoming.topic
              /\ e.incoming.pos = IF Room(c) THEN c.incoming.pos + 1 ELSE c.incoming.pos
              /\ e.msg.ready = c.msg.ready /\ e.msg.topic = c.msg.topic
              /\ e.msg.len = c.msg.len
              /\ \A i \in Cells : e.msg.payload[i] =
                   IF Room(c) /\ i = c.incoming.pos THEN <<m, p>> ELSE c.msg.payload[i]
            <4>1. c \in Context /\ <<m, p>> \in Filling
                BY <1>2
            <4> HIDE DEF c, m, p
            <4>2. QED BY <4>1, CopiedFacts
        <3>2. QED BY <1>3, <3>1
    <2> HIDE DEF d
    <2>2. Room(c) <=> p - 1 < BufSize
        BY <1>2, <1>3 DEF Room
    <2>3. d.incoming.pos = IF p < BufSize THEN p ELSE BufSize
        BY <1>2, <1>3, <2>1, <2>2
    <2>4. ASSUME NEW i \in 1..d.incoming.pos PROVE d.msg.payload[i - 1] = <<m, i>>
        <3>1. i \in Nat /\ i - 1 \in Cells /\ i <= p
            BY <1>2, <2>3 DEF Cells
        <3>2. CASE Room(c) /\ i - 1 = c.incoming.pos
            BY <1>2, <1>3, <2>1, <2>2, <3>1, <3>2
        <3>3. CASE ~(Room(c) /\ i - 1 = c.incoming.pos)
            <4>1. i \in 1..c.incoming.pos
                BY <1>2, <1>3, <2>2, <2>3, <3>1, <3>3
            <4>2. QED BY <1>3, <2>1, <3>1, <3>3, <4>1
        <3>4. QED BY <3>2, <3>3
    <2>5. QED BY <2>1, <2>3, <2>4
<1> HIDE DEF d
<1>5. /\ ctx' \in [Clients -> Context]
      /\ ctx'[h] = IF IsLast(h) THEN Completed(d) ELSE d
      /\ \A g \in Clients \ {h} : ctx'[g] = ctx[g]
    BY <1>1, <1>2, <1>4, CompletedFacts
<1>6. /\ lwip' \in [Clients -> Client] /\ lwip'[h].pending = lwip[h].pending
      /\ lwip'[h].state = lwip[h].state
      /\ p = Messages[m] => lwip'[h].message = 0
      /\ p # Messages[m] => lwip'[h].message = m /\ lwip'[h].part = p + 1
      /\ \A g \in Clients \ {h} : lwip'[g] = lwip[g]
    <2>1. lwip[h] \in Client /\ 0 \in Numbers /\ p + 1 \in Nat
        <3>1. lwip[h] \in Client /\ p + 1 \in Nat
            BY <1>2
        <3>2. 0 \in Numbers
            BY DEF Numbers
        <3>3. QED BY <3>1, <3>2
    <2>2. CASE p = Messages[m]
        <3>1. lwip' = [lwip EXCEPT ![h] = [lwip[h] EXCEPT !.message = 0, !.part = 0]]
            BY <1>1, <2>2
        <3>2. QED BY <1>2, <2>1, <2>2, <3>1 DEF Client
    <2>3. CASE p # Messages[m]
        <3>1. lwip' = [lwip EXCEPT ![h] = [lwip[h] EXCEPT !.part = p + 1]]
            BY <1>1, <2>3
        <3>2. QED BY <1>2, <2>1, <2>3, <3>1 DEF Client
    <2>4. QED BY <2>2, <2>3
<1>7. /\ ctx'[h].in_use = c.in_use /\ ctx'[h].done = c.done /\ ctx'[h].incoming.topic = m
      /\ c.msg.ready => /\ ctx'[h].msg.ready
                        /\ ctx'[h].msg.topic = c.msg.topic /\ ctx'[h].msg.len = c.msg.len
      /\ IsLast(h) /\ ~c.msg.ready =>
           /\ ctx'[h].msg.topic = m /\ ctx'[h].msg.len = d.incoming.pos
           /\ ctx'[h].msg.payload = d.msg.payload
      /\ ~IsLast(h) => ctx'[h] = d
    BY <1>4, <1>5, CompletedFacts
<1>8. ctx'[h].msg.ready => IsLast(h) \/ c.msg.ready
    BY <1>4, <1>7
<1>9. TypeOK'
    <2>1. \A g \in Clients : ctx'[g].msg.ready => ctx'[g].msg.topic # 0
        BY <1>1, <1>5, <1>7, <1>8 DEF Inv, TypeOK
    <2>2. QED BY <1>1, <1>5, <1>6, <2>1 DEF Inv, TypeOK
<1>10. ContextsAccounted'
    <2>1. \A g \in Clients : ctx'[g].in_use = ctx[g].in_use
        BY <1>5, <1>7
    <2>2. QED BY <1>1, <2>1 DEF Inv, ContextsAccounted
<1>11. CallOK'
    <2>1. \A g \in Clients :
             /\ ctx'[g].done = ctx[g].done /\ lwip'[g].pending = lwip[g].pending
             /\ ctx[g].msg.ready => /\ ctx'[g].msg.ready
                                    /\ ctx'[g].msg.topic = ctx[g].msg.topic
                                    /\ ctx'[g].msg.len = ctx[g].msg.len
        BY <1>5, <1>6, <1>7
    <2>2. QED BY <1>1, <1>2, <2>1, CallKept DEF Inv
<1>12. \A g \in Clients : Requested(g)'
    BY <1>1, <1>6 DEF Inv, Requested, InCall
<1>13. ClientOK(h)'
    <2>1. IsLast(h) <=> p = Messages[m]
        BY DEF IsLast
    <2>2. c.msg.ready => /\ c.msg.len = Whole(c.msg.topic) /\ c.msg.topic < m
        BY <1>1, <1>2, <1>3 DEF ClientOK, Ready
    <2>3. Arriving(h)'
        <3>1. CASE IsLast(h)
            BY <1>6, <2>1, <3>1 DEF Arriving
        <3>2. CASE ~IsLast(h)
            <4>1. lwip'[h].message = m /\ lwip'[h].part = p + 1 /\ p # Messages[m]
                BY <1>6, <2>1, <3>2
            <4>2. lwip'[h].part \in 1..Messages[m] /\ lwip'[h].part - 1 = p
                <5>1. p \in 1..Messages[m] /\ Messages[m] \in Nat /\ p \in Nat
                    BY <1>2, <1>3
                <5>2. \A i, j, n \in Nat : i \in 1..n /\ i # n /\ j = i + 1 =>
                        j \in 1..n /\ j - 1 = i
                    OBVIOUS
                <5>3. lwip'[h].part \in Nat
                    BY <4>1, <5>1
                <5> HIDE DEF p, m
                <5>4. QED BY <4>1, <5>1, <5>2, <5>3
            <4>3. ctx'[h] = d
                BY <1>7, <3>2
            <4>4. QED BY <1>3, <1>4, <1>6, <4>1, <4>2, <4>3 DEF Arriving
        <3>3. QED BY <3>1, <3>2
    <2>4. Ready(h)'
        <3>1. CASE c.msg.ready
            BY <1>7, <2>2, <3>1 DEF Ready
        <3>2. CASE ~c.msg.ready /\ IsLast(h)
            <4>1. d.incoming.pos = Whole(m)
                BY <1>2, <1>3, <1>4, <2>1, <3>2 DEF Whole
            <4>2. QED BY <1>4, <1>6, <1>7, <2>1, <3>2, <4>1 DEF Ready
        <3>3. CASE ~c.msg.ready /\ ~IsLast(h)
            BY <1>8, <3>3 DEF Ready
        <3>4. QED BY <3>1, <3>2, <3>3
    <2>5. Delivered(h)'
        <3>1. \A n \in 1..Len(delivered[h]) :
                 /\ delivered[h][n].topic <= m /\ delivered[h][n].topic < m
                 /\ c.msg.ready => delivered[h][n].topic < c.msg.topic
            BY <1>1, <1>3 DEF ClientOK, Delivered
        <3>2. ctx'[h].msg.ready => ctx'[h].msg.topic = IF c.msg.ready THEN c.msg.topic ELSE m
            BY <1>7, <1>8
        <3>3. QED BY <1>1, <1>7, <3>1, <3>2 DEF Delivered
    <2>6. QED BY <1>1, <1>3, <1>6, <1>7, <2>3, <2>4, <2>5 DEF ClientOK
<1>14. sent <= sent'
    BY <1>1, ClientTypes DEF Inv
<1>15. QED BY <1>1, <1>5, <1>6, <1>9, <1>10, <1>11, <1>12, <1>13, <1>14, OneClient

-----------------------------------------------------------------------------
(* The theorems.                                                            *)

LEMMA NextInv == Inv /\ [Next]_vars => Inv'
<1> SUFFICES ASSUME Inv, [Next]_vars PROVE Inv'
    OBVIOUS
<1>1. CASE UNCHANGED vars
    <2>1. UNCHANGED <<ctx, handles, call, lwip, sent, delivered>>
        BY <1>1 DEF vars
    <2>2. call' \in Call /\ CallOK' /\ \A h \in Clients : Requested(h)'
        BY <2>1 DEF Inv, TypeOK, CallOK, Requested, InCall, Ctx
    <2>3. QED BY <2>1, <2>2, NativeMoves
<1>2. CASE Natives
    BY <1>2, ConnectSpinStep, ConnectStatusStep, RequestLockedStep, RequestDoneStep,
       ReceiveReads, ReceiveConsumeStep DEF Natives
<1>3. CASE Calls
    BY <1>3, ConnectStep, RequestStep, ReceiveStep, DisconnectStep DEF Calls
<1>4. CASE Callbacks
    BY <1>4, ConnectionStep, RequestAnswerStep, PublishStep, DataStep DEF Callbacks
<1>5. QED BY <1>1, <1>2, <1>3, <1>4 DEF Next

\* Every step of the natives and of lwIP's callbacks keeps the invariant.
THEOREM AlwaysInv == Spec => []Inv
BY InitInv, NextInv, PTL DEF Spec

\* Every variable keeps its type, and no payload runs past the end of the buffer,
\* whatever the sizes of the buffer and of the messages.
THEOREM AlwaysTypeOK == Spec => []TypeOK
<1>1. Inv => TypeOK
    BY DEF Inv
<1>2. QED BY <1>1, AlwaysInv, PTL

\* The buffer of a ready message that no other has followed holds all of it, in order.
THEOREM MessageAlwaysWhole == Spec => []QuietMessageWhole
<1>1. Inv => QuietMessageWhole
    <2> SUFFICES ASSUME Inv, NEW h \in Clients, ctx[h].msg.ready,
                        ctx[h].incoming.topic = ctx[h].msg.topic
                 PROVE  /\ ctx[h].msg.len = Whole(ctx[h].msg.topic)
                        /\ \A i \in 1..ctx[h].msg.len :
                             ctx[h].msg.payload[i - 1] = <<ctx[h].msg.topic, i>>
        BY DEF QuietMessageWhole
    <2>1. Ready(h) /\ ctx[h].msg.topic \in Nat
        BY ClientTypes DEF Inv, ClientOK
    <2>2. QED BY <2>1 DEF Ready
<1>2. QED BY <1>1, AlwaysInv, PTL

\* mqtt_receive returns the messages of a connection in order, none of them twice,
\* each with the length of the message whose topic it returns.
THEOREM AlwaysDeliveredInOrder == Spec => []DeliveredInOrder
<1>1. Inv => DeliveredInOrder
    BY DEF Inv, ClientOK, InOrder, DeliveredInOrder
<1>2. QED BY <1>1, AlwaysInv, PTL

\* mqtt_publish, mqtt_subscribe and mqtt_unsubscribe return on their own answer.
THEOREM AnswerAlwaysOwn == Spec => []AnswerIsOwn
<1>1. Inv => AnswerIsOwn
    BY DEF Inv, CallOK, AnswerIsOwn
<1>2. QED BY <1>1, AlwaysInv, PTL

\* No context is lost, whatever the broker answers and whenever.
THEOREM ContextsAlwaysAccounted == Spec => []ContextsAccounted
<1>1. Inv => ContextsAccounted
    BY DEF Inv
<1>2. QED BY <1>1, AlwaysInv, PTL

=============================================================================
