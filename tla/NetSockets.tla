------------------------------ MODULE NetSockets ------------------------------
(***************************************************************************)
(* TCP and UDP sockets of the Pico W: src/pico/NetNatives.cpp.              *)
(*                                                                         *)
(* A native method of TCPSocket or UDPSocket runs on the VM's only thread   *)
(* and blocks the whole VM until it returns; lwIP's callbacks interrupt it  *)
(* anywhere except between cyw43_arch_lwip_begin and cyw43_arch_lwip_end.   *)
(* A native is therefore a sequence of steps, one per access to what it     *)
(* shares with the callbacks, a section under the lwIP lock is one step,    *)
(* and a callback is one step.  "call" is the native in progress.           *)
(*                                                                         *)
(* The bytes that the peer of a connection sends are numbered 1, 2, 3...    *)
(* Calls that fail before a slot is kept (no slot, no pcb, no address) and  *)
(* sending, which leave the sockets as they were, are not distinguished.    *)
(*                                                                         *)
(* (An operator whose name extends that of the one after it, as FreedLeaky  *)
(* does that of Freed, is a wrong version of it, which the properties are   *)
(* tested on; the specification does not use it.)                           *)
(***************************************************************************)
EXTENDS Integers, Sequences, FiniteSets

CONSTANTS
    Fds,         \* slots of the socket table, 0..MAX_SOCKETS-1
    Pcbs,        \* bound: the protocol control blocks lwIP hands out, numbered
    Size,        \* TCP_RECV_BUF_SIZE
    Window,      \* TCP_WND, the bytes a peer may have in flight
    MaxSent,     \* bound: bytes that a peer sends
    MaxLen,      \* bound: length of the array passed to receive
    Datagrams,   \* bound: the UDP datagrams that arrive
    Errs,        \* what lwIP passes as err with a connection or with bytes; ERR_OK is "ok"
    None         \* a null pointer

ASSUME SocketAssumption ==
    /\ Fds \subseteq Nat /\ Pcbs \subseteq Nat
    /\ Size \in Nat \ {0, 1} /\ Window \in Nat /\ MaxSent \in Nat /\ MaxLen \in Nat
    /\ None \notin Fds \union Pcbs \union Datagrams

VARIABLES
    slots,     \* the table "sockets"
    handles,   \* descriptors that Java objects hold
    call,      \* the native in progress
    pcbs,      \* lwIP: pcbs, their callback argument, and what their peer did
    pbufs,     \* lwIP: where the datagrams are
    stream     \* what went through each connection so far (observed, not stored)

vars == <<slots, handles, call, pcbs, pbufs, stream>>

FreeSlot == [type |-> "unused", state |-> "none", pcb |-> None, head |-> 0, tail |-> 0,
             eof |-> FALSE, buf |-> [i \in 0..(Size - 1) |-> 0], dgram |-> None]

NoCall == [op |-> "none"]
Idle   == call = NoCall

\* kept: the bytes the receive callback took over; got: those that receive has
\* returned to Java; over: receive has returned 0, the end of the stream
NewStream == [kept |-> <<>>, got |-> <<>>, over |-> FALSE]

NewPcb == [phase |-> "new", arg |-> None, wnd |-> Window, sent |-> 0, fin |-> FALSE]

Init ==
    /\ slots = [fd \in Fds |-> FreeSlot]
    /\ handles = {}
    /\ call = NoCall
    /\ pcbs = [p \in Pcbs |-> NewPcb]
    /\ pbufs = [d \in Datagrams |-> "coming"]
    /\ stream = [fd \in Fds |-> NewStream]

-----------------------------------------------------------------------------
(* The ring buffer of a slot.                                               *)

recv_buf_used(s) == (s.head - s.tail + Size) % Size

\* one byte stays unused to tell a full buffer from an empty one
recv_buf_freeToTheLast(s) == Size - recv_buf_used(s)
recv_buf_free(s) == Size - 1 - recv_buf_used(s)

Smaller(a, b) == IF a < b THEN a ELSE b

\* the n oldest bytes of the ring
Bytes(s, n) == [i \in 1..n |-> s.buf[(s.tail + i - 1) % Size]]

\* the ring after the bytes first+1 .. first+n of a stream were copied into it
FilledUnwrapped(s, first, n) == [s EXCEPT !.head = @ + n]
Filled(s, first, n) ==
    [s EXCEPT !.head = (@ + n) % Size,
              !.buf = [i \in 0..(Size - 1) |->
                         LET k == (i - s.head + Size) % Size
                         IN  IF k < n THEN first + k + 1 ELSE @[i]]]

-----------------------------------------------------------------------------
(* Steps of the natives.                                                    *)

Slot == slots[call.fd]
InCall(op, pc) == call.op = op /\ call.pc = pc
Goto(pc) == call' = [call EXCEPT !.pc = pc]
Return == call' = NoCall

\* lwIP is given a null pcb: what the native does then is not followed
PassNull == call' = [op |-> "null pcb", fd |-> call.fd]

\* alloc_socket
Unused == {fd \in Fds : slots[fd].type = "unused"}
NextFd == CHOOSE fd \in Unused : \A g \in Unused : fd <= g
FreshPcbs == {p \in Pcbs : pcbs[p].phase = "new"}
NextPcb   == CHOOSE p \in FreshPcbs : \A q \in FreshPcbs : p <= q
CanOpen == Idle /\ Unused # {} /\ FreshPcbs # {}

\* free_socket
FreedLeaky(fd) == pbufs
Freed(fd) == [d \in Datagrams |-> IF slots[fd].dgram = d THEN "freed" ELSE pbufs[d]]

free_socket(fd) ==
    /\ slots' = [slots EXCEPT ![fd] = FreeSlot]
    /\ pbufs' = Freed(fd)

\* the callbacks of a pcb are cleared, or the pcb is gone
ReleasedWithCallbacks(p) == pcbs
Released(p) == [pcbs EXCEPT ![p].phase = "gone", ![p].arg = None]

\* on_tcp_err: lwIP has freed the pcb
FailedUnstated(s) == [s EXCEPT !.pcb = None]
Failed(s) == [s EXCEPT !.state = "error", !.pcb = None]

\* tcp_connect: slot, pcb and callbacks are set up and the connection is begun
Connect ==
    /\ CanOpen
    /\ slots' = [slots EXCEPT ![NextFd] = [FreeSlot EXCEPT !.type = "tcp",
                                              !.state = "connecting", !.pcb = NextPcb]]
    /\ pcbs' = [pcbs EXCEPT ![NextPcb].phase = "syn", ![NextPcb].arg = NextFd]
    /\ call' = [op |-> "connect", fd |-> NextFd, pc |-> "spin"]
    /\ stream' = [stream EXCEPT ![NextFd] = NewStream]
    /\ UNCHANGED <<handles, pbufs>>

ConnectSpin ==
    /\ InCall("connect", "spin")
    /\ Slot.state # "connecting"
    /\ Goto("test")
    /\ UNCHANGED <<slots, handles, pcbs, pbufs, stream>>

ConnectSucceeds ==
    /\ InCall("connect", "test")
    /\ Slot.state = "connected"
    /\ handles' = handles \union {call.fd}
    /\ Return
    /\ UNCHANGED <<slots, pcbs, pbufs, stream>>

\* a failed connect tests whether it still has its pcb (the state stays "error"),
\* aborts it under the lock, and frees the slot
ConnectFails ==
    /\ InCall("connect", "test")
    /\ Slot.state # "connected"
    /\ Goto(IF Slot.pcb = None THEN "free" ELSE "abort")
    /\ UNCHANGED <<slots, handles, pcbs, pbufs, stream>>

\* tcp_abort calls on_tcp_err
ConnectAbort ==
    /\ InCall("connect", "abort")
    /\ IF Slot.pcb = None
       THEN PassNull /\ UNCHANGED <<slots, pcbs>>
       ELSE /\ Goto("free")
            /\ slots' = [slots EXCEPT ![call.fd] = Failed(@)]
            /\ pcbs' = Released(Slot.pcb)
    /\ UNCHANGED <<handles, pbufs, stream>>

ConnectFree ==
    /\ InCall("connect", "free")
    /\ free_socket(call.fd)
    /\ Return
    /\ UNCHANGED <<handles, pcbs, stream>>

\* tcp_send tests the pcb, and uses it under the lock
Send(fd) ==
    /\ Idle
    /\ fd \in handles /\ slots[fd].type = "tcp"
    /\ slots[fd].state = "connected" /\ slots[fd].pcb # None
    /\ call' = [op |-> "send", fd |-> fd, pc |-> "lock"]
    /\ UNCHANGED <<slots, handles, pcbs, pbufs, stream>>

SendLocked ==
    /\ InCall("send", "lock")
    /\ IF Slot.pcb = None THEN PassNull ELSE Return
    /\ UNCHANGED <<slots, handles, pcbs, pbufs, stream>>

\* tcp_receive: the condition of its loop reads the ring, then eof, then state
Receive(fd, len) ==
    /\ Idle
    /\ fd \in handles /\ slots[fd].type = "tcp"
    /\ call' = [op |-> "receive", fd |-> fd, pc |-> "used", len |-> len, data |-> <<>>]
    /\ UNCHANGED <<slots, handles, pcbs, pbufs, stream>>

ReceiveUsed ==
    /\ InCall("receive", "used")
    /\ Goto(IF recv_buf_used(Slot) = 0 THEN "eof" ELSE "error")
    /\ UNCHANGED <<slots, handles, pcbs, pbufs, stream>>

ReceiveEof ==
    /\ InCall("receive", "eof")
    /\ Goto(IF Slot.eof THEN "error" ELSE "state")
    /\ UNCHANGED <<slots, handles, pcbs, pbufs, stream>>

SpinsOn == Slot.state # "error"

ReceiveState ==
    /\ InCall("receive", "state")
    /\ Goto(IF SpinsOn THEN "used" ELSE "error")
    /\ UNCHANGED <<slots, handles, pcbs, pbufs, stream>>

\* after the loop: the error is reported before buffered data
ReceiveError ==
    /\ InCall("receive", "error")
    /\ IF Slot.state = "error" THEN Return ELSE Goto("copy")
    /\ UNCHANGED <<slots, handles, pcbs, pbufs, stream>>

\* avail: the ring is read again
AvailUnlessEof == IF Slot.eof THEN 0 ELSE recv_buf_used(Slot)
Avail == recv_buf_used(Slot)

\* nothing is available: 0 is returned, which says that the stream has ended
ReceiveEnd ==
    /\ InCall("receive", "copy")
    /\ Avail = 0
    /\ stream' = [stream EXCEPT ![call.fd].over = TRUE]
    /\ Return
    /\ UNCHANGED <<slots, handles, pcbs, pbufs>>

ReceiveCopy ==
    /\ InCall("receive", "copy")
    /\ Avail # 0
    /\ call' = [call EXCEPT !.data = Bytes(Slot, Smaller(call.len, Avail)),
                            !.pc = "advance"]
    /\ UNCHANGED <<slots, handles, pcbs, pbufs, stream>>

\* recv_tail moves past the bytes that were copied
ReceiveAdvance ==
    /\ InCall("receive", "advance")
    /\ slots' = [slots EXCEPT ![call.fd].tail = (@ + Len(call.data)) % Size]
    /\ stream' = [stream EXCEPT ![call.fd].got = @ \o call.data]
    /\ Return
    /\ UNCHANGED <<handles, pcbs, pbufs>>

\* tcp_close and udp_close: a pcb is let go under the lock, then the slot is freed
Close(fd) ==
    /\ Idle
    /\ fd \in handles
    /\ call' = [op |-> "close", fd |-> fd,
                pc |-> IF slots[fd].pcb = None THEN "free" ELSE "lock"]
    /\ UNCHANGED <<slots, handles, pcbs, pbufs, stream>>

CloseLocked ==
    /\ InCall("close", "lock")
    /\ IF Slot.pcb = None
       THEN PassNull /\ UNCHANGED pcbs
       ELSE Goto("free") /\ pcbs' = Released(Slot.pcb)
    /\ UNCHANGED <<slots, handles, pbufs, stream>>

CloseFree ==
    /\ InCall("close", "free")
    /\ free_socket(call.fd)
    /\ handles' = handles \ {call.fd}
    /\ Return
    /\ UNCHANGED <<pcbs, stream>>

\* udp_bind
Bind ==
    /\ CanOpen
    /\ slots' = [slots EXCEPT ![NextFd] = [FreeSlot EXCEPT !.type = "udp",
                                              !.state = "connected", !.pcb = NextPcb]]
    /\ pcbs' = [pcbs EXCEPT ![NextPcb].phase = "bound", ![NextPcb].arg = NextFd]
    /\ handles' = handles \union {NextFd}
    /\ UNCHANGED <<call, pbufs, stream>>

\* udp_receive waits for a datagram, then copies and frees it under the lock
ReceiveFrom(fd) ==
    /\ Idle
    /\ fd \in handles /\ slots[fd].type = "udp"
    /\ call' = [op |-> "receiveFrom", fd |-> fd, pc |-> "spin"]
    /\ UNCHANGED <<slots, handles, pcbs, pbufs, stream>>

ReceiveFromSpin ==
    /\ InCall("receiveFrom", "spin")
    /\ Slot.dgram # None
    /\ Goto("lock")
    /\ UNCHANGED <<slots, handles, pcbs, pbufs, stream>>

ReceiveFromLocked ==
    /\ InCall("receiveFrom", "lock")
    /\ pbufs' = [pbufs EXCEPT ![Slot.dgram] = "freed"]
    /\ slots' = [slots EXCEPT ![call.fd].dgram = None]
    /\ Return
    /\ UNCHANGED <<handles, pcbs, stream>>

-----------------------------------------------------------------------------
(* Callbacks, in interrupt context.                                         *)

SlotOf(p) == pcbs[p].arg

on_tcp_connected(p, err) ==
    /\ pcbs[p].phase = "syn"
    /\ pcbs' = [pcbs EXCEPT ![p].phase = "open"]
    /\ slots' = [slots EXCEPT ![SlotOf(p)].state = IF err = "ok" THEN "connected" ELSE "error"]
    /\ UNCHANGED <<handles, call, pbufs, stream>>

\* n bytes arrive: what fits is copied and acknowledged, the rest is freed
on_tcp_recv(p, n) ==
    LET s == slots[SlotOf(p)]
        copied == Smaller(n, recv_buf_free(s))
    IN  /\ pcbs[p].phase = "open" /\ ~pcbs[p].fin
        /\ n <= pcbs[p].wnd
        /\ pcbs[p].sent + n <= MaxSent
        /\ slots' = [slots EXCEPT ![SlotOf(p)] = Filled(s, pcbs[p].sent, copied)]
        /\ pcbs' = [pcbs EXCEPT ![p].sent = @ + n, ![p].wnd = @ - n + copied]
        /\ stream' = [stream EXCEPT ![SlotOf(p)].kept =
                                       @ \o [i \in 1..copied |-> pcbs[p].sent + i]]
        /\ UNCHANGED <<handles, call, pbufs>>

\* bytes arrive with an error: they are freed, and get no number
on_tcp_recv_error(p, err) ==
    /\ err # "ok"
    /\ pcbs[p].phase = "open" /\ ~pcbs[p].fin
    /\ slots' = [slots EXCEPT ![SlotOf(p)].state = "error"]
    /\ UNCHANGED <<handles, call, pcbs, pbufs, stream>>

\* the peer has closed the connection
on_tcp_recv_eof(p) ==
    /\ pcbs[p].phase = "open" /\ ~pcbs[p].fin
    /\ pcbs' = [pcbs EXCEPT ![p].fin = TRUE]
    /\ slots' = [slots EXCEPT ![SlotOf(p)].eof = TRUE]
    /\ UNCHANGED <<handles, call, pbufs, stream>>

on_tcp_err(p) ==
    /\ pcbs[p].phase \in {"syn", "open"}
    /\ pcbs' = [pcbs EXCEPT ![p].phase = "gone", ![p].arg = None]
    /\ slots' = [slots EXCEPT ![SlotOf(p)] = Failed(@)]
    /\ UNCHANGED <<handles, call, pbufs, stream>>

\* a datagram is held when none is, and dropped otherwise
Held(s, d) == IF s.dgram = None THEN d ELSE s.dgram

on_udp_recv(p, d) ==
    LET s == slots[SlotOf(p)] IN
    /\ pcbs[p].phase = "bound"
    /\ pbufs[d] = "coming"
    /\ slots' = [slots EXCEPT ![SlotOf(p)].dgram = Held(s, d)]
    /\ pbufs' = [pbufs EXCEPT ![d] = IF Held(s, d) = d THEN "held" ELSE "freed"]
    /\ UNCHANGED <<handles, call, pcbs, stream>>

-----------------------------------------------------------------------------
Natives ==
    \/ ConnectSpin \/ ConnectSucceeds \/ ConnectFails \/ ConnectAbort \/ ConnectFree
    \/ SendLocked
    \/ ReceiveUsed \/ ReceiveEof \/ ReceiveState \/ ReceiveError
    \/ ReceiveEnd \/ ReceiveCopy \/ ReceiveAdvance
    \/ CloseLocked \/ CloseFree
    \/ ReceiveFromSpin \/ ReceiveFromLocked

Calls ==
    \/ Connect
    \/ Bind
    \/ \E fd \in Fds : \/ Send(fd)
                      \/ Close(fd)
                      \/ ReceiveFrom(fd)
                      \/ \E len \in 1..MaxLen : Receive(fd, len)

Answers(p) == (\E err \in Errs : on_tcp_connected(p, err)) \/ on_tcp_err(p)

Callbacks ==
    \E p \in Pcbs :
        \/ Answers(p)
        \/ \E n \in 1..MaxSent : on_tcp_recv(p, n)
        \/ \E err \in Errs : on_tcp_recv_error(p, err)
        \/ on_tcp_recv_eof(p)
        \/ \E d \in Datagrams : on_udp_recv(p, d)

Next == Natives \/ Calls \/ Callbacks

Spec == Init /\ [][Next]_vars

\* A native runs on, and lwIP, which retransmits and gives up after a while, answers
\* a connect.
Fairness == WF_vars(Natives) /\ \A p \in Pcbs : WF_vars(Answers(p) /\ pcbs[p].phase = "syn")
FairSpec == Spec /\ Fairness

-----------------------------------------------------------------------------
(* Properties.                                                              *)

Open(fd) == slots[fd].type # "unused"
Tcp(fd)  == slots[fd].type = "tcp"

\* Types of the variables.
Indexes == 0..(Size - 1)

Socket ==
    [type : {"unused", "tcp", "udp"}, state : {"none", "connecting", "connected", "error"},
     pcb : Pcbs \union {None}, head : Indexes, tail : Indexes, eof : BOOLEAN,
     buf : [Indexes -> Nat], dgram : Datagrams \union {None}]

Pcb ==
    [phase : {"new", "syn", "open", "bound", "gone"}, arg : Fds \union {None},
     wnd : 0..Window, sent : 0..MaxSent, fin : BOOLEAN]

Stream == [kept : Seq(Nat), got : Seq(Nat), over : BOOLEAN]

ConnectCall == [op : {"connect"}, fd : Fds, pc : {"spin", "test", "abort", "free"}]
SendCall    == [op : {"send"}, fd : Fds, pc : {"lock"}]
ReceiveCall == [op : {"receive"}, fd : Fds, len : Nat, data : Seq(Nat),
                pc : {"used", "eof", "state", "error", "copy", "advance"}]
CloseCall   == [op : {"close"}, fd : Fds, pc : {"lock", "free"}]
FromCall    == [op : {"receiveFrom"}, fd : Fds, pc : {"spin", "lock"}]
NullCall    == [op : {"null pcb"}, fd : Fds]
Call == {NoCall} \union NullCall
          \union ConnectCall \union SendCall \union ReceiveCall \union CloseCall \union FromCall

\* Every variable has its type; in particular the indexes of a ring stay inside it.
TypeOK ==
    /\ slots \in [Fds -> Socket]
    /\ handles \subseteq Fds
    /\ call \in Call
    /\ pcbs \in [Pcbs -> Pcb]
    /\ pbufs \in [Datagrams -> {"coming", "held", "freed"}]
    /\ stream \in [Fds -> Stream]

\* The bytes that the receive callback took over are those that receive has returned
\* followed by those in the ring, in order, each once: however callbacks interrupt
\* tcp_receive, wrap-around and a full ring neither lose, repeat nor reorder a byte.
RingFaithful ==
    \A fd \in Fds : Tcp(fd) =>
        stream[fd].kept = stream[fd].got \o Bytes(slots[fd], recv_buf_used(slots[fd]))

\* When tcp_receive has returned 0 the peer has closed the connection and every byte
\* in the ring was returned before, also when bytes and the end of the stream arrive
\* between the reads of its loop.
EofIsTheEnd ==
    \A fd \in Fds : Tcp(fd) /\ stream[fd].over =>
        slots[fd].eof /\ stream[fd].got = stream[fd].kept

\* A callback finds its own connection in the slot that lwIP passes it, never the
\* next one that reuses the slot, and a pcb in a slot calls back to this slot; only
\* tcp_close and udp_close, on their way to free_socket, hold a pcb that does not.
CallbackOwnsSlot ==
    /\ \A p \in Pcbs : pcbs[p].arg # None => Open(pcbs[p].arg) /\ slots[pcbs[p].arg].pcb = p
    /\ \A fd \in Fds : slots[fd].pcb # None =>
         pcbs[slots[fd].pcb].arg = fd \/ (InCall("close", "free") /\ call.fd = fd)

\* The slots in use are those of the open sockets of Java and the one of a connect in
\* progress (or stopped by a null pcb, see LivePcb): no failed connect, close or error
\* leaks one of the eight slots.  A datagram that lwIP handed over and that is not freed
\* is held by exactly one slot, and a slot holds no datagram that was freed.
NothingLeaks ==
    /\ {fd \in Fds : Open(fd)} =
           handles \union (IF call.op \in {"connect", "null pcb"} THEN {call.fd} ELSE {})
    /\ {d \in Datagrams : pbufs[d] = "held"} = {slots[fd].dgram : fd \in Fds} \ {None}
    /\ \A f, g \in Fds : f # g /\ slots[f].dgram # None => slots[f].dgram # slots[g].dgram

\* tcp_connect, which holds up the whole VM, returns (unless it has passed lwIP a null
\* pcb, see LivePcb), and tcp_receive does when its connection has failed or ended.
NativesReturn ==
    /\ call.op = "connect" ~> call.op # "connect"
    /\ (call.op = "receive" /\ (Slot.eof \/ Slot.state = "error")) ~> call.op # "receive"

\* Not so: no native passes lwIP a null pcb.  tcp_send, tcp_close and the abort of
\* tcp_connect test the pcb before they take the lock, and on_tcp_err may clear it in
\* between.
LivePcb == call.op # "null pcb"

\* Not so: what the peer of a connection sent was taken over without gaps.  The window
\* is larger than the ring, and what does not fit the ring is freed.
NothingLost ==
    \A fd \in Fds : Tcp(fd) /\ slots[fd].pcb \in Pcbs =>
        stream[fd].kept = [i \in 1..pcbs[slots[fd].pcb].sent |-> i]
=============================================================================
