--------------------------- MODULE NetSocketsProofs ---------------------------
(***************************************************************************)
(* Theorems about module NetSockets, for every number of slots, every size  *)
(* of the ring and of the window, and whatever the peers send.             *)
(***************************************************************************)
EXTENDS NetSockets, ListFacts

-----------------------------------------------------------------------------
(* The inductive invariant.                                                 *)

Used(fd) == recv_buf_used(slots[fd])

\* lwIP's pcb and the slot it calls back to.
PcbOK(p) ==
    /\ pcbs[p].arg # None <=> pcbs[p].phase \in {"syn", "open", "bound"}
    /\ pcbs[p].arg # None =>
         /\ Open(pcbs[p].arg)
         /\ slots[pcbs[p].arg].pcb = p
         /\ slots[pcbs[p].arg].eof => pcbs[p].fin
         /\ pcbs[p].phase = "syn" => slots[pcbs[p].arg].state # "error"

\* A pcb in a slot is the slot's own, or tcp_close has let it go just now.
Owned(fd) ==
    slots[fd].pcb # None =>
        \/ pcbs[slots[fd].pcb].arg = fd
        \/ InCall("close", "free") /\ call.fd = fd /\ pcbs[slots[fd].pcb].arg = None

Ring(fd) ==
    Tcp(fd) => /\ stream[fd].kept = stream[fd].got \o Bytes(slots[fd], Used(fd))
               /\ stream[fd].over => slots[fd].eof /\ Used(fd) = 0

SlotOK(fd) ==
    /\ ~Open(fd) => slots[fd].pcb = None /\ slots[fd].dgram = None
    /\ Owned(fd)
    /\ Ring(fd)

\* What the native in progress has found still holds.
CallOK ==
    /\ call.op = "connect" => call.fd \notin handles
    /\ call.op \in {"send", "receive", "close", "receiveFrom"} => call.fd \in handles
    /\ call.op \in {"connect", "receive"} => Tcp(call.fd)
    /\ InCall("receive", "error") => Used(call.fd) # 0 \/ Slot.eof \/ Slot.state = "error"
    /\ InCall("receive", "copy") => Used(call.fd) # 0 \/ Slot.eof
    /\ InCall("receive", "advance") =>
         /\ Len(call.data) <= Used(call.fd)
         /\ call.data = Bytes(Slot, Len(call.data))
    /\ InCall("connect", "free") => Slot.pcb = None
    /\ InCall("close", "free") => Slot.pcb = None \/ pcbs[Slot.pcb].arg = None
    /\ InCall("receiveFrom", "lock") => Slot.dgram # None

Inv ==
    /\ TypeOK
    /\ NothingLeaks
    /\ CallOK
    /\ \A p \in Pcbs : PcbOK(p)
    /\ \A fd \in Fds : SlotOK(fd)
-----------------------------------------------------------------------------
(* The ring.                                                                *)

\* The position j places after t, without a remainder.
Place(t, j) == IF t + j < Size THEN t + j ELSE t + j - Size

LEMMA Positions ==
    ASSUME NEW t \in Indexes, NEW j \in 0..Size
    PROVE  (t + j) % Size = Place(t, j) /\ Place(t, j) \in Indexes
<1>1. Size \in Nat \ {0, 1} /\ t \in 0..(Size - 1)
    BY SocketAssumption DEF Indexes
<1>2. (t + j) % Size = Place(t, j)
    BY <1>1 DEF Place
<1>3. Place(t, j) \in Indexes
    BY <1>1 DEF Place, Indexes
<1>4. QED BY <1>2, <1>3

LEMMA UsedBytes ==
    ASSUME NEW s \in Socket
    PROVE  /\ recv_buf_used(s) \in Indexes
           /\ recv_buf_used(s) =
                IF s.tail <= s.head THEN s.head - s.tail ELSE s.head - s.tail + Size
           /\ recv_buf_free(s) = Size - 1 - recv_buf_used(s)
<1>1. Size \in Nat \ {0, 1} /\ s.head \in 0..(Size - 1) /\ s.tail \in 0..(Size - 1)
    BY SocketAssumption DEF Socket, Indexes
<1> DEFINE x == s.head - s.tail + Size
<1>2. x \in 1..(2 * Size - 1) /\ (s.tail <= s.head <=> Size <= x)
    BY <1>1
<1>3. \A y \in 0..(Size - 1) : y % Size = y
    BY <1>1
<1>4. \A y \in Size..(2 * Size - 1) : y % Size = y - Size
    BY <1>1
<1>5. x - Size = s.head - s.tail
    BY <1>1
<1> HIDE DEF x
<1>6. x % Size = IF Size <= x THEN x - Size ELSE x
    BY <1>1, <1>2, <1>3, <1>4
<1>7. recv_buf_used(s) = x % Size
    BY DEF recv_buf_used, x
<1>8. recv_buf_used(s) = IF s.tail <= s.head THEN s.head - s.tail ELSE x
    BY <1>2, <1>5, <1>6, <1>7
<1>9. QED BY <1>1, <1>8 DEF recv_buf_free, Indexes, x

LEMMA BytesType ==
    ASSUME NEW s \in Socket, NEW n \in 0..Size
    PROVE  /\ Bytes(s, n) \in Seq(Nat)
           /\ Len(Bytes(s, n)) = n
           /\ \A i \in 1..n : Bytes(s, n)[i] = s.buf[Place(s.tail, i - 1)]
<1>1. s.tail \in Indexes /\ s.buf \in [Indexes -> Nat]
    BY DEF Socket
<1>2. n \in Nat /\ Size \in Nat
    BY SocketAssumption
<1>3. ASSUME NEW i \in 1..n
      PROVE  /\ (s.tail + i - 1) % Size = Place(s.tail, i - 1)
             /\ Place(s.tail, i - 1) \in Indexes
    <2>1. i - 1 \in 0..Size /\ s.tail + (i - 1) = s.tail + i - 1
        BY <1>1, <1>2 DEF Indexes
    <2>2. QED BY <1>1, <2>1, Positions
<1>4. Bytes(s, n) \in [1..n -> Nat]
    BY <1>1, <1>3 DEF Bytes
<1>5. Bytes(s, n) \in Seq(Nat) /\ Len(Bytes(s, n)) = n
    BY <1>2, <1>4, SeqDef
<1>6. \A i \in 1..n : Bytes(s, n)[i] = s.buf[(s.tail + i - 1) % Size]
    BY DEF Bytes
<1>7. QED BY <1>3, <1>5, <1>6

\* The bytes of two rings that agree on them.
LEMMA SameBytes ==
    ASSUME NEW s \in Socket, NEW t \in Socket, NEW n \in 0..Size, s.tail = t.tail,
           \A j \in 0..(n - 1) : s.buf[Place(s.tail, j)] = t.buf[Place(s.tail, j)]
    PROVE  Bytes(s, n) = Bytes(t, n)
<1>1. /\ Bytes(s, n) \in Seq(Nat) /\ Len(Bytes(s, n)) = n
      /\ Bytes(t, n) \in Seq(Nat) /\ Len(Bytes(t, n)) = n
    BY BytesType
<1>2. ASSUME NEW i \in 1..n PROVE Bytes(s, n)[i] = Bytes(t, n)[i]
    <2>1. i - 1 \in 0..(n - 1)
        BY SocketAssumption
    <2>2. QED BY <2>1, BytesType
<1>3. QED BY <1>1, <1>2, SeqEqual

\* on_tcp_recv: what is copied follows what is in the ring, which stays as it is.
LEMMA FilledRing ==
    ASSUME NEW s \in Socket, NEW first \in Nat, NEW n \in Nat, n <= recv_buf_free(s)
    PROVE  LET t == Filled(s, first, n) IN
           /\ t \in Socket
           /\ t.type = s.type /\ t.state = s.state /\ t.pcb = s.pcb
           /\ t.eof = s.eof /\ t.dgram = s.dgram
           /\ recv_buf_used(t) = recv_buf_used(s) + n
           /\ \A k \in 0..recv_buf_used(s) : Bytes(t, k) = Bytes(s, k)
           /\ Bytes(t, recv_buf_used(t)) =
                Bytes(s, recv_buf_used(s)) \o [i \in 1..n |-> first + i]
<1> DEFINE t == Filled(s, first, n)
           used == recv_buf_used(s)
           new(i) == LET k == (i - s.head + Size) % Size
                     IN  IF k < n THEN first + k + 1 ELSE s.buf[i]
           buf == [i \in 0..(Size - 1) |-> new(i)]
<1>1. /\ Size \in Nat \ {0, 1} /\ s.head \in 0..(Size - 1) /\ s.tail \in 0..(Size - 1)
      /\ s.head \in Indexes /\ s.tail \in Indexes /\ s.buf \in [Indexes -> Nat]
    BY SocketAssumption DEF Socket, Indexes
<1>2. /\ used \in Nat /\ used + n <= Size - 1
      /\ used = IF s.tail <= s.head THEN s.head - s.tail ELSE s.head - s.tail + Size
    <2>1. /\ used \in Indexes
          /\ used = IF s.tail <= s.head THEN s.head - s.tail ELSE s.head - s.tail + Size
          /\ recv_buf_free(s) = Size - 1 - used
        BY UsedBytes
    <2>2. used \in Nat
        BY <2>1 DEF Indexes
    <2> HIDE DEF used
    <2>3. QED BY <1>1, <2>1, <2>2
<1>3. n \in 0..Size
    BY <1>1, <1>2
<1>4. (s.head + n) % Size = Place(s.head, n) /\ Place(s.head, n) \in Indexes
    BY <1>1, <1>3, Positions
<1>5. \A i \in Indexes : /\ (i - s.head + Size) % Size \in Nat
                         /\ (i - s.head + Size) % Size =
                              IF s.head <= i THEN i - s.head ELSE i - s.head + Size
    <2> SUFFICES ASSUME NEW i \in Indexes
                 PROVE  /\ (i - s.head + Size) % Size \in Nat
                        /\ (i - s.head + Size) % Size =
                             IF s.head <= i THEN i - s.head ELSE i - s.head + Size
        OBVIOUS
    <2> DEFINE r == [s EXCEPT !.head = i, !.tail = s.head]
    <2>1. r \in Socket /\ r.head = i /\ r.tail = s.head
        BY <1>1 DEF Socket
    <2> HIDE DEF r
    <2>2. recv_buf_used(r) = (i - s.head + Size) % Size
        BY <2>1 DEF recv_buf_used
    <2>3. recv_buf_used(r) \in Nat
        BY <2>1, UsedBytes DEF Indexes
    <2>4. QED BY <2>1, <2>2, <2>3, UsedBytes
<1>6. /\ buf \in [Indexes -> Nat]
      /\ \A i \in Indexes : buf[i] = LET k == (i - s.head + Size) % Size
                                     IN  IF k < n THEN first + k + 1 ELSE s.buf[i]
    <2>1. \A i \in Indexes : new(i) \in Nat
        <3> SUFFICES ASSUME NEW i \in Indexes PROVE new(i) \in Nat
            OBVIOUS
        <3> DEFINE k == (i - s.head + Size) % Size
        <3>1. k \in Nat /\ s.buf[i] \in Nat
            BY <1>1, <1>5
        <3> HIDE DEF k
        <3>2. (IF k < n THEN first + k + 1 ELSE s.buf[i]) \in Nat
            BY <3>1
        <3>3. QED BY <3>2 DEF k
    <2>2. \A i \in Indexes : new(i) = LET k == (i - s.head + Size) % Size
                                      IN  IF k < n THEN first + k + 1 ELSE s.buf[i]
        OBVIOUS
    <2> HIDE DEF new
    <2>3. QED BY <2>1, <2>2 DEF Indexes
<1> HIDE DEF buf
<1>7. t = [s EXCEPT !.head = Place(s.head, n), !.buf = buf]
    BY <1>4 DEF Filled, buf
<1> HIDE DEF t, used
<1>8. /\ t \in Socket /\ t.head = Place(s.head, n) /\ t.tail = s.tail /\ t.buf = buf
      /\ t.type = s.type /\ t.state = s.state /\ t.pcb = s.pcb
      /\ t.eof = s.eof /\ t.dgram = s.dgram
    BY <1>4, <1>6, <1>7 DEF Socket
<1>9. recv_buf_used(t) = used + n
    <2>1. recv_buf_used(t) =
             IF s.tail <= Place(s.head, n) THEN Place(s.head, n) - s.tail
                                           ELSE Place(s.head, n) - s.tail + Size
        BY <1>8, UsedBytes
    <2>2. QED BY <1>1, <1>2, <2>1 DEF Place
\* the places that were filled
<1>10. ASSUME NEW j \in 0..(used - 1)
       PROVE  buf[Place(s.tail, j)] = s.buf[Place(s.tail, j)]
    <2>1. j \in 0..Size /\ j \in Nat /\ j < used
        BY <1>1, <1>2
    <2>2. Place(s.tail, j) \in Indexes
        BY <1>1, <2>1, Positions
    <2> DEFINE i == Place(s.tail, j)
    <2>3. ~((IF s.head <= i THEN i - s.head ELSE i - s.head + Size) < n)
        BY <1>1, <1>2, <2>1 DEF Place
    <2> HIDE DEF i
    <2>4. QED BY <1>5, <1>6, <2>2, <2>3 DEF i
<1>11. ASSUME NEW j \in 0..(n - 1)
       PROVE  buf[Place(s.tail, used + j)] = first + j + 1
    <2>1. j \in Nat /\ j < n /\ used + j \in 0..Size
        BY <1>1, <1>2
    <2>2. Place(s.tail, used + j) \in Indexes
        BY <1>1, <2>1, Positions
    <2> DEFINE i == Place(s.tail, used + j)
    <2>3. (IF s.head <= i THEN i - s.head ELSE i - s.head + Size) = j
        BY <1>1, <1>2, <2>1 DEF Place
    <2> HIDE DEF i
    <2>4. QED BY <1>5, <1>6, <2>1, <2>2, <2>3 DEF i
<1>12. ASSUME NEW k \in 0..used PROVE Bytes(t, k) = Bytes(s, k)
    <2>1. /\ k \in 0..Size
          /\ \A j \in 0..(k - 1) : j \in 0..(used - 1)
        BY <1>1, <1>2
    <2>2. \A j \in 0..(k - 1) : t.buf[Place(t.tail, j)] = s.buf[Place(t.tail, j)]
        BY <1>8, <1>10, <2>1
    <2>3. QED BY <1>8, <2>1, <2>2, SameBytes
<1>13. Bytes(t, used + n) = Bytes(s, used) \o [i \in 1..n |-> first + i]
    <2> DEFINE a == Bytes(s, used)
               b == [i \in 1..n |-> first + i]
               c == Bytes(t, used + n)
    <2>1. used \in 0..Size /\ used + n \in 0..Size
        BY <1>1, <1>2
    <2>2. /\ a \in Seq(Nat) /\ Len(a) = used
          /\ \A i \in 1..used : a[i] = s.buf[Place(s.tail, i - 1)]
        BY <2>1, BytesType
    <2>3. /\ c \in Seq(Nat) /\ Len(c) = used + n
          /\ \A i \in 1..(used + n) : c[i] = buf[Place(s.tail, i - 1)]
        BY <1>8, <2>1, BytesType
    <2>4. b \in Seq(Nat) /\ Len(b) = n /\ \A i \in 1..n : b[i] = first + i
        <3>1. b \in [1..n -> Nat]
            OBVIOUS
        <3>2. QED BY <3>1, SeqDef
    <2> HIDE DEF a, b, c
    <2>5. /\ a \o b \in Seq(Nat) /\ Len(a \o b) = used + n
          /\ \A i \in 1..(used + n) : (a \o b)[i] = IF i <= used THEN a[i] ELSE b[i - used]
        BY <2>2, <2>4, ConcatProperties
    <2>6. ASSUME NEW i \in 1..(used + n) PROVE c[i] = (a \o b)[i]
        <3>1. CASE i <= used
            <4>1. i \in 1..used /\ i - 1 \in 0..(used - 1)
                BY <1>2, <3>1
            <4>2. QED BY <1>10, <2>2, <2>3, <2>5, <3>1, <4>1
        <3>2. CASE ~(i <= used)
            <4>1. /\ i - used \in 1..n /\ i - used - 1 \in 0..(n - 1)
                  /\ i - 1 = used + (i - used - 1)
                  /\ first + (i - used - 1) + 1 = first + (i - used)
                BY <1>2, <3>2
            <4>2. c[i] = first + (i - used)
                BY <1>11, <2>3, <4>1
            <4>3. QED BY <2>4, <2>5, <3>2, <4>1, <4>2
        <3>3. QED BY <3>1, <3>2
    <2>7. c = a \o b
        BY <2>3, <2>5, <2>6, SeqEqual
    <2>8. QED BY <2>7 DEF a, b, c
<1>14. QED BY <1>8, <1>9, <1>12, <1>13 DEF t, used

LEMMA BytesJoin ==
    ASSUME NEW a \in Seq(Nat), NEW b \in Seq(Nat), NEW c \in Seq(Nat)
    PROVE  (a \o b) \o c = a \o (b \o c)
<1>1. /\ a \o b \in Seq(Nat) /\ Len(a \o b) = Len(a) + Len(b)
      /\ \A i \in 1..(Len(a) + Len(b)) :
           (a \o b)[i] = IF i <= Len(a) THEN a[i] ELSE b[i - Len(a)]
    BY ConcatProperties
<1>2. /\ b \o c \in Seq(Nat) /\ Len(b \o c) = Len(b) + Len(c)
      /\ \A i \in 1..(Len(b) + Len(c)) :
           (b \o c)[i] = IF i <= Len(b) THEN b[i] ELSE c[i - Len(b)]
    BY ConcatProperties
<1>3. /\ (a \o b) \o c \in Seq(Nat)
      /\ Len((a \o b) \o c) = Len(a) + Len(b) + Len(c)
      /\ \A i \in 1..(Len(a) + Len(b) + Len(c)) :
           ((a \o b) \o c)[i] = IF i <= Len(a) + Len(b) THEN (a \o b)[i]
                                                      ELSE c[i - (Len(a) + Len(b))]
    BY <1>1, ConcatProperties
<1>4. Len(a) \in Nat /\ Len(b) \in Nat /\ Len(c) \in Nat
    OBVIOUS
<1>5. /\ a \o (b \o c) \in Seq(Nat)
      /\ Len(a \o (b \o c)) = Len(a) + Len(b) + Len(c)
      /\ \A i \in 1..(Len(a) + Len(b) + Len(c)) :
           (a \o (b \o c))[i] = IF i <= Len(a) THEN a[i] ELSE (b \o c)[i - Len(a)]
    BY <1>2, <1>4, ConcatProperties
<1>6. ASSUME NEW i \in 1..(Len(a) + Len(b) + Len(c))
      PROVE  ((a \o b) \o c)[i] = (a \o (b \o c))[i]
    <2>1. CASE i <= Len(a)
        <3>1. i \in 1..(Len(a) + Len(b)) /\ i <= Len(a) + Len(b)
            BY <1>4, <2>1
        <3>2. QED BY <1>1, <1>3, <1>5, <2>1, <3>1
    <2>2. CASE ~(i <= Len(a)) /\ i <= Len(a) + Len(b)
        <3>1. /\ i \in 1..(Len(a) + Len(b))
              /\ i - Len(a) \in 1..(Len(b) + Len(c)) /\ i - Len(a) <= Len(b)
            BY <1>4, <2>2
        <3>2. QED BY <1>1, <1>2, <1>3, <1>5, <2>2, <3>1
    <2>3. CASE ~(i <= Len(a) + Len(b))
        <3>1. /\ i - Len(a) \in 1..(Len(b) + Len(c)) /\ ~(i - Len(a) <= Len(b))
              /\ i - Len(a) - Len(b) = i - (Len(a) + Len(b)) /\ ~(i <= Len(a))
            BY <1>4, <2>3
        <3>2. QED BY <1>2, <1>3, <1>5, <2>3, <3>1
    <2>4. QED BY <2>1, <2>2, <2>3
<1>7. QED BY <1>3, <1>5, <1>6, SeqEqual

\* tcp_receive: the n oldest bytes leave the ring.
LEMMA AdvancedRing ==
    ASSUME NEW s \in Socket, NEW n \in 0..recv_buf_used(s)
    PROVE  LET t == [s EXCEPT !.tail = (@ + n) % Size] IN
           /\ t \in Socket
           /\ t.type = s.type /\ t.state = s.state /\ t.pcb = s.pcb
           /\ t.eof = s.eof /\ t.dgram = s.dgram
           /\ recv_buf_used(t) = recv_buf_used(s) - n
           /\ Bytes(s, recv_buf_used(s)) = Bytes(s, n) \o Bytes(t, recv_buf_used(t))
<1> DEFINE t == [s EXCEPT !.tail = (@ + n) % Size]
           used == recv_buf_used(s)
<1>1. /\ Size \in Nat \ {0, 1} /\ s.head \in 0..(Size - 1) /\ s.tail \in 0..(Size - 1)
      /\ s.tail \in Indexes
    BY SocketAssumption DEF Socket, Indexes
<1>2. /\ used \in 0..(Size - 1)
      /\ used = IF s.tail <= s.head THEN s.head - s.tail ELSE s.head - s.tail + Size
    BY UsedBytes DEF Indexes
<1> HIDE DEF used
<1>3. n \in Nat /\ n <= used /\ n \in 0..Size /\ used - n \in 0..Size /\ used \in 0..Size
    BY <1>1, <1>2 DEF used
<1>4. (s.tail + n) % Size = Place(s.tail, n) /\ Place(s.tail, n) \in Indexes
    BY <1>1, <1>3, Positions
<1>5. t = [s EXCEPT !.tail = Place(s.tail, n)]
    BY <1>4
<1> HIDE DEF t
<1>6. /\ t \in Socket /\ t.head = s.head /\ t.tail = Place(s.tail, n) /\ t.buf = s.buf
      /\ t.type = s.type /\ t.state = s.state /\ t.pcb = s.pcb
      /\ t.eof = s.eof /\ t.dgram = s.dgram
    BY <1>4, <1>5 DEF Socket
<1>7. recv_buf_used(t) = used - n
    <2>1. recv_buf_used(t) =
             IF Place(s.tail, n) <= s.head THEN s.head - Place(s.tail, n)
                                           ELSE s.head - Place(s.tail, n) + Size
        BY <1>6, UsedBytes
    <2>2. QED BY <1>1, <1>2, <1>3, <2>1 DEF Place
<1>8. Bytes(s, used) = Bytes(s, n) \o Bytes(t, used - n)
    <2> DEFINE a == Bytes(s, n)
               b == Bytes(t, used - n)
               c == Bytes(s, used)
    <2>1. /\ a \in Seq(Nat) /\ Len(a) = n
          /\ \A i \in 1..n : a[i] = s.buf[Place(s.tail, i - 1)]
        BY <1>3, BytesType
    <2>2. /\ b \in Seq(Nat) /\ Len(b) = used - n
          /\ \A i \in 1..(used - n) : b[i] = s.buf[Place(Place(s.tail, n), i - 1)]
        BY <1>3, <1>6, BytesType
    <2>3. /\ c \in Seq(Nat) /\ Len(c) = used
          /\ \A i \in 1..used : c[i] = s.buf[Place(s.tail, i - 1)]
        BY <1>3, BytesType
    <2> HIDE DEF a, b, c
    <2>4. /\ a \o b \in Seq(Nat) /\ Len(a \o b) = used
          /\ \A i \in 1..used : (a \o b)[i] = IF i <= n THEN a[i] ELSE b[i - n]
        <3>1. n + (used - n) = used
            BY <1>2, <1>3
        <3>2. /\ a \o b \in Seq(Nat) /\ Len(a \o b) = Len(a) + Len(b)
              /\ \A i \in 1..(Len(a) + Len(b)) :
                   (a \o b)[i] = IF i <= Len(a) THEN a[i] ELSE b[i - Len(a)]
            BY <2>1, <2>2, ConcatProperties
        <3>3. Len(a) + Len(b) = used
            BY <2>1, <2>2, <3>1
        <3>4. QED BY <2>1, <3>2, <3>3
    <2>5. ASSUME NEW i \in 1..used PROVE c[i] = (a \o b)[i]
        <3>1. CASE i <= n
            <4>1. i \in 1..n
                BY <1>3, <3>1
            <4>2. QED BY <2>1, <2>3, <2>4, <3>1, <4>1
        <3>2. CASE ~(i <= n)
            <4>1. i - n \in 1..(used - n)
                BY <1>2, <1>3, <3>2
            <4>2. Place(Place(s.tail, n), i - n - 1) = Place(s.tail, i - 1)
                BY <1>1, <1>2, <1>3, <3>2 DEF Place
            <4>3. QED BY <2>2, <2>3, <2>4, <3>2, <4>1, <4>2
        <3>3. QED BY <3>1, <3>2
    <2>6. c = a \o b
        BY <2>3, <2>4, <2>5, SeqEqual
    <2>7. QED BY <2>6 DEF a, b, c
<1>9. QED BY <1>6, <1>7, <1>8 DEF t, used

\* A slot as it is before any byte has arrived.
LEMMA FreshSlot ==
    /\ FreeSlot \in Socket
    /\ FreeSlot.type = "unused" /\ FreeSlot.state = "none"
    /\ FreeSlot.pcb = None /\ FreeSlot.dgram = None /\ ~FreeSlot.eof
    /\ FreeSlot.head = 0 /\ FreeSlot.tail = 0
<1>1. 0 \in Indexes /\ [i \in 0..(Size - 1) |-> 0] \in [Indexes -> Nat]
    BY SocketAssumption DEF Indexes
<1>2. QED BY <1>1 DEF FreeSlot, Socket

LEMMA FreshStream ==
    /\ NewStream \in Stream
    /\ NewStream.kept = <<>> /\ NewStream.got = <<>> /\ ~NewStream.over
BY DEF NewStream, Stream

\* An empty ring.
LEMMA EmptyRing ==
    ASSUME NEW s \in Socket, s.head = 0, s.tail = 0
    PROVE  recv_buf_used(s) = 0 /\ Bytes(s, 0) = <<>>
<1>1. recv_buf_used(s) = 0
    BY UsedBytes
<1>2. Bytes(s, 0) \in Seq(Nat) /\ Len(Bytes(s, 0)) = 0
    BY SocketAssumption, BytesType
<1>3. QED BY <1>1, <1>2, EmptySeq

-----------------------------------------------------------------------------
(* Calls, slots and pcbs.                                                   *)

LEMMA CallKinds ==
    ASSUME call \in Call
    PROVE  /\ call.op = "none" => call = NoCall
           /\ call.op = "connect" => call \in ConnectCall
           /\ call.op = "send" => call \in SendCall
           /\ call.op = "receive" => call \in ReceiveCall
           /\ call.op = "close" => call \in CloseCall
           /\ call.op = "receiveFrom" => call \in FromCall
           /\ call.op = "null pcb" => call \in NullCall
           /\ call = NoCall => call.op = "none"
<1>1. NoCall.op = "none"
    BY DEF NoCall
<1>2. /\ \A c \in ConnectCall : c.op = "connect"
      /\ \A c \in SendCall : c.op = "send"
      /\ \A c \in ReceiveCall : c.op = "receive"
      /\ \A c \in CloseCall : c.op = "close"
      /\ \A c \in FromCall : c.op = "receiveFrom"
      /\ \A c \in NullCall : c.op = "null pcb"
    BY DEF ConnectCall, SendCall, ReceiveCall, CloseCall, FromCall, NullCall
<1>3. QED BY <1>1, <1>2 DEF Call

LEMMA CallTypes ==
    NoCall \in Call /\ NoCall.op = "none"
BY DEF Call, NoCall

\* A native that passes a null pcb keeps its descriptor.
LEMMA NullType ==
    ASSUME call.fd \in Fds, PassNull
    PROVE  call' \in Call /\ call'.op = "null pcb" /\ call'.fd = call.fd
<1>1. call' \in NullCall /\ call'.op = "null pcb" /\ call'.fd = call.fd
    BY DEF PassNull, NullCall
<1>2. QED BY <1>1 DEF Call

LEMMA CallSlot ==
    ASSUME call \in Call, call.op \in {"connect", "send", "receive", "close", "receiveFrom"}
    PROVE  call.fd \in Fds
BY CallKinds DEF ConnectCall, SendCall, ReceiveCall, CloseCall, FromCall

\* The slot and the pcb that alloc_socket and lwIP hand out.
LEMMA NextOnes ==
    ASSUME CanOpen
    PROVE  /\ NextFd \in Fds /\ slots[NextFd].type = "unused"
           /\ NextPcb \in Pcbs /\ pcbs[NextPcb].phase = "new"
           /\ call.op = "none"
<1>1. Unused \subseteq Nat /\ FreshPcbs \subseteq Nat /\ Unused # {} /\ FreshPcbs # {}
    BY SocketAssumption DEF Unused, FreshPcbs, CanOpen
<1>2. NextFd \in Unused
    <2>1. \E fd \in Unused : \A g \in Unused : fd <= g
        BY <1>1, SmallestOfNat, Zenon
    <2>2. QED BY <2>1 DEF NextFd
<1>3. NextPcb \in FreshPcbs
    <2>1. \E p \in FreshPcbs : \A q \in FreshPcbs : p <= q
        BY <1>1, SmallestOfNat, Zenon
    <2>2. QED BY <2>1 DEF NextPcb
<1>4. QED BY <1>2, <1>3, CallTypes DEF Unused, FreshPcbs, CanOpen, Idle

\* The slots are accounted for, and so are the datagrams.
InUse == handles \union (IF call.op \in {"connect", "null pcb"} THEN {call.fd} ELSE {})

SlotsAccounted == {fd \in Fds : Open(fd)} = InUse

DatagramsHeld ==
    /\ {d \in Datagrams : pbufs[d] = "held"} = {slots[fd].dgram : fd \in Fds} \ {None}
    /\ \A f, g \in Fds : f # g /\ slots[f].dgram # None => slots[f].dgram # slots[g].dgram

LEMMA Leaks == NothingLeaks <=> SlotsAccounted /\ DatagramsHeld
BY DEF NothingLeaks, SlotsAccounted, InUse, DatagramsHeld

LEMMA SlotsKept ==
    ASSUME SlotsAccounted, \A fd \in Fds : slots'[fd].type = slots[fd].type,
           InUse' = InUse
    PROVE  SlotsAccounted'
BY DEF SlotsAccounted, Open

LEMMA DatagramsKept ==
    ASSUME DatagramsHeld, \A fd \in Fds : slots'[fd].dgram = slots[fd].dgram, pbufs' = pbufs
    PROVE  DatagramsHeld'
<1>1. {slots'[fd].dgram : fd \in Fds} = {slots[fd].dgram : fd \in Fds}
    OBVIOUS
<1>2. QED BY <1>1 DEF DatagramsHeld

\* free_socket frees the datagram that the slot holds.
LEMMA DatagramFreed ==
    ASSUME TypeOK, DatagramsHeld, NEW fd \in Fds, free_socket(fd)
    PROVE  DatagramsHeld' /\ pbufs' \in [Datagrams -> {"coming", "held", "freed"}]
<1>1. slots \in [Fds -> Socket] /\ pbufs \in [Datagrams -> {"coming", "held", "freed"}]
    BY DEF TypeOK
<1>2. /\ slots'[fd].dgram = None
      /\ \A g \in Fds \ {fd} : slots'[g].dgram = slots[g].dgram
    BY <1>1, FreshSlot DEF free_socket
<1>3. /\ pbufs' \in [Datagrams -> {"coming", "held", "freed"}]
      /\ \A d \in Datagrams : pbufs'[d] = "held" <=> pbufs[d] = "held" /\ slots[fd].dgram # d
    BY <1>1 DEF free_socket, Freed
<1>4. \A f, g \in Fds : f # g /\ slots'[f].dgram # None => slots'[f].dgram # slots'[g].dgram
    BY <1>2 DEF DatagramsHeld
<1>5. ASSUME NEW d
      PROVE  d \in {e \in Datagrams : pbufs'[e] = "held"} <=>
             d \in {slots'[g].dgram : g \in Fds} \ {None}
    <2>1. d \in {e \in Datagrams : pbufs'[e] = "held"} <=>
             d \in {slots[g].dgram : g \in Fds} \ {None} /\ slots[fd].dgram # d
        BY <1>3 DEF DatagramsHeld
    <2>2. d \in {slots[g].dgram : g \in Fds} \ {None} /\ slots[fd].dgram # d <=>
             \E g \in Fds \ {fd} : d = slots[g].dgram /\ d # None
        BY DEF DatagramsHeld
    <2>3. QED BY <1>2, <2>1, <2>2
<1>6. QED BY <1>3, <1>4, <1>5 DEF DatagramsHeld

\* The pcb of a slot, and the slot of a pcb.
LEMMA OwnPcb ==
    ASSUME Inv, NEW fd \in Fds
    PROVE  /\ \A q \in Pcbs : pcbs[q].arg = fd => slots[fd].pcb = q
           /\ slots[fd].pcb # None =>
                /\ slots[fd].pcb \in Pcbs
                /\ pcbs[slots[fd].pcb].arg = fd \/ InCall("close", "free")
<1>1. fd # None /\ slots[fd] \in Socket
    BY SocketAssumption DEF Inv, TypeOK
<1>2. slots[fd].pcb \in Pcbs \union {None}
    BY <1>1 DEF Socket
<1>3. QED BY <1>1, <1>2 DEF Inv, PcbOK, SlotOK, Owned

LEMMA OtherPcbs ==
    ASSUME Inv, NEW fd \in Fds, NEW p \in Pcbs,
           \/ pcbs[p].arg = fd
           \/ call.op = "none" /\ pcbs[p].phase = "new"
    PROVE  \A g \in Fds \ {fd} : slots[g].pcb # p
<1>1. fd # None /\ p # None
    BY SocketAssumption
<1>2. \A g \in Fds : slots[g].pcb = p =>
         pcbs[p].arg = g \/ (InCall("close", "free") /\ pcbs[p].arg = None)
    <2>1. \A g \in Fds : Owned(g)
        BY DEF Inv, SlotOK
    <2>2. QED BY <1>1, <2>1 DEF Owned
<1>3. pcbs[p].phase = "new" => pcbs[p].arg = None
    BY DEF Inv, PcbOK
<1>4. \A g \in Fds : g # None
    BY SocketAssumption
<1>5. QED BY <1>1, <1>2, <1>3, <1>4 DEF InCall

\* What must be shown of a step that changes the slot fd and the pcb p only.
LEMMA OneSlotStep ==
    ASSUME Inv, TypeOK', SlotsAccounted', DatagramsHeld', CallOK',
           NEW fd \in Fds, SlotOK(fd)',
           \A g \in Fds \ {fd} : slots'[g] = slots[g] /\ stream'[g] = stream[g],
           NEW p,
           p \in Pcbs => PcbOK(p)' /\ \A g \in Fds \ {fd} : slots[g].pcb # p,
           \A q \in Pcbs \ {p} : pcbs'[q] = pcbs[q] /\ pcbs[q].arg # fd,
           call' = call \/ ~InCall("close", "free") \/ call.fd = fd
    PROVE  Inv'
<1>1. ASSUME NEW g \in Fds \ {fd} PROVE SlotOK(g)'
    <2>1. SlotOK(g) /\ slots'[g] = slots[g] /\ stream'[g] = stream[g]
        BY DEF Inv
    <2>2. Owned(g)'
        <3>1. slots[g].pcb # None => slots[g].pcb \in Pcbs \ {p}
            BY OwnPcb
        <3>2. slots[g].pcb # None => pcbs'[slots[g].pcb] = pcbs[slots[g].pcb]
            BY <3>1
        <3>3. QED BY <2>1, <3>2 DEF SlotOK, Owned, InCall
    <2>3. Ring(g)'
        BY <2>1 DEF SlotOK, Ring, Tcp, Used
    <2>4. QED BY <2>1, <2>2, <2>3 DEF SlotOK, Open
<1>2. ASSUME NEW q \in Pcbs \ {p} PROVE PcbOK(q)'
    <2>1. PcbOK(q) /\ pcbs'[q] = pcbs[q] /\ pcbs[q].arg # fd /\ pcbs[q] \in Pcb
        BY DEF Inv, TypeOK
    <2>2. pcbs[q].arg # None => slots'[pcbs[q].arg] = slots[pcbs[q].arg]
        BY <2>1 DEF Pcb
    <2>3. QED BY <2>1, <2>2 DEF PcbOK, Open
<1>3. \A q \in Pcbs : PcbOK(q)'
    BY <1>2
<1>4. QED BY <1>1, <1>3 DEF Inv, NothingLeaks, SlotsAccounted, InUse, DatagramsHeld

\* A native moves on and writes nothing that callbacks read.
LEMMA NativeMoves ==
    ASSUME Inv, UNCHANGED <<slots, handles, pcbs, pbufs, stream>>,
           call' \in Call, CallOK',
           call' = call \/ ~InCall("close", "free"),
           InUse' = InUse
    PROVE  Inv'
<1>1. TypeOK'
    BY DEF Inv, TypeOK
<1>2. NothingLeaks'
    <2>1. SlotsAccounted' /\ DatagramsHeld'
        BY Leaks, SlotsKept, DatagramsKept DEF Inv
    <2>2. QED BY <2>1 DEF NothingLeaks, SlotsAccounted, InUse, DatagramsHeld
<1>3. \A p \in Pcbs : PcbOK(p)'
    BY DEF Inv, PcbOK, Open
<1>4. ASSUME NEW fd \in Fds PROVE SlotOK(fd)'
    <2>1. SlotOK(fd)
        BY DEF Inv
    <2>2. Owned(fd)'
        BY <2>1 DEF SlotOK, Owned, InCall
    <2>3. Ring(fd)'
        BY <2>1 DEF SlotOK, Ring, Tcp, Used
    <2>4. QED BY <2>1, <2>2, <2>3 DEF SlotOK, Open
<1>5. QED BY <1>1, <1>2, <1>3, <1>4 DEF Inv

LEMMA InitInv == Init => Inv
<1> SUFFICES ASSUME Init PROVE Inv
    OBVIOUS
<1> USE DEF Init
<1>1. \A p \in Pcbs : pcbs[p] \in Pcb /\ pcbs[p].arg = None /\ pcbs[p].phase = "new"
    BY SocketAssumption DEF NewPcb, Pcb
<1>2. \A fd \in Fds : slots[fd] = FreeSlot /\ stream[fd] = NewStream
    OBVIOUS
<1>3. TypeOK
    BY <1>1, FreshSlot, FreshStream, CallTypes DEF TypeOK
<1>4. NothingLeaks
    <2>1. \A d \in Datagrams : pbufs[d] # "held"
        OBVIOUS
    <2>2. \A fd \in Fds : slots[fd].dgram = None /\ ~Open(fd)
        BY <1>2, FreshSlot DEF Open
    <2>3. QED BY <2>1, <2>2, CallTypes DEF NothingLeaks
<1>5. CallOK
    BY CallTypes DEF CallOK, InCall
<1>6. \A p \in Pcbs : PcbOK(p)
    BY <1>1 DEF PcbOK
<1>7. \A fd \in Fds : SlotOK(fd)
    BY <1>2, FreshSlot DEF SlotOK, Owned, Ring, Open, Tcp
<1>8. QED BY <1>3, <1>4, <1>5, <1>6, <1>7 DEF Inv

-----------------------------------------------------------------------------
(* Steps of the natives that only read.                                     *)

\* A native returns, or passes a null pcb, without having done more than read.
LEMMA EndStep ==
    ASSUME Inv, Return \/ PassNull, UNCHANGED <<slots, handles, pcbs, pbufs, stream>>,
           call.op \in {"send", "receive", "close"}, ~InCall("close", "free")
    PROVE  Inv'
<1>1. call.fd \in handles /\ call.fd \in Fds
    BY CallSlot DEF Inv, TypeOK, CallOK
<1>2. /\ call' \in Call /\ call'.op \in {"none", "null pcb"}
      /\ call'.op = "null pcb" => call'.fd = call.fd
    BY <1>1, CallTypes, NullType DEF Return
<1>3. CallOK'
    BY <1>2 DEF CallOK, InCall
<1>4. InUse' = InUse
    BY <1>1, <1>2 DEF InUse
<1>5. QED BY <1>2, <1>3, <1>4, NativeMoves

\* A call of Java's begins and does not change anything.
LEMMA CallStep ==
    ASSUME Inv, Idle, call' \in Call, call'.op \in {"send", "receive", "close", "receiveFrom"},
           call'.fd \in handles, call'.op = "receive" => call'.pc = "used" /\ Tcp(call'.fd),
           call'.op = "close" => call'.pc = "lock" \/ slots[call'.fd].pcb = None,
           call'.op = "receiveFrom" => call'.pc = "spin",
           UNCHANGED <<slots, handles, pcbs, pbufs, stream>>
    PROVE  Inv'
<1>1. call.op = "none"
    BY CallTypes DEF Idle
<1>2. CallOK'
    BY DEF CallOK, InCall, Tcp, Slot
<1>3. InUse' = InUse
    BY <1>1 DEF InUse
<1>4. QED BY <1>1, <1>2, <1>3, NativeMoves DEF InCall

LEMMA CallSteps ==
    ASSUME Inv, NEW fd \in Fds,
           \/ Send(fd) \/ Close(fd) \/ ReceiveFrom(fd)
           \/ \E len \in 1..MaxLen : Receive(fd, len)
    PROVE  Inv'
<1>1. CASE Send(fd)
    <2>1. call' \in SendCall /\ call'.op = "send" /\ call'.fd = fd
        BY <1>1 DEF Send, SendCall
    <2>2. call' \in Call
        BY <2>1 DEF Call
    <2>3. QED BY <1>1, <2>1, <2>2, CallStep DEF Send
<1>2. CASE Close(fd)
    <2>1. /\ call' \in CloseCall /\ call'.op = "close" /\ call'.fd = fd
          /\ call'.pc = "lock" \/ slots[fd].pcb = None
        BY <1>2 DEF Close, CloseCall
    <2>2. call' \in Call
        BY <2>1 DEF Call
    <2>3. QED BY <1>2, <2>1, <2>2, CallStep DEF Close
<1>3. CASE ReceiveFrom(fd)
    <2>1. call' \in FromCall /\ call'.op = "receiveFrom" /\ call'.fd = fd /\ call'.pc = "spin"
        BY <1>3 DEF ReceiveFrom, FromCall
    <2>2. call' \in Call
        BY <2>1 DEF Call
    <2>3. QED BY <1>3, <2>1, <2>2, CallStep DEF ReceiveFrom
<1>4. ASSUME NEW len \in 1..MaxLen, Receive(fd, len) PROVE Inv'
    <2>1. <<>> \in Seq(Nat) /\ len \in Nat
        BY SocketAssumption
    <2>2. /\ call' \in ReceiveCall /\ call'.op = "receive" /\ call'.fd = fd
          /\ call'.pc = "used"
        BY <1>4, <2>1 DEF Receive, ReceiveCall
    <2>3. call' \in Call
        BY <2>2 DEF Call
    <2>4. QED BY <1>4, <2>2, <2>3, CallStep DEF Receive, Tcp
<1>5. QED BY <1>1, <1>2, <1>3, <1>4

\* tcp_receive moves on.
LEMMA ReceiveMoves ==
    ASSUME Inv, call.op = "receive", UNCHANGED <<slots, handles, pcbs, pbufs, stream>>,
           call' \in ReceiveCall, call'.fd = call.fd,
           call'.pc = "error" => Used(call.fd) # 0 \/ Slot.eof \/ Slot.state = "error",
           call'.pc = "copy" => Used(call.fd) # 0 \/ Slot.eof,
           call'.pc = "advance" =>
             /\ Len(call'.data) <= Used(call.fd)
             /\ call'.data = Bytes(Slot, Len(call'.data))
    PROVE  Inv'
<1>1. call'.op = "receive" /\ call' \in Call
    BY DEF ReceiveCall, Call
<1>2. Used(call.fd)' = Used(call.fd) /\ Slot' = Slot
    BY DEF Used, Slot
<1>3. call.fd \in handles /\ Tcp(call.fd)
    BY DEF Inv, CallOK
<1>4. CallOK'
    BY <1>1, <1>2, <1>3 DEF CallOK, InCall, Tcp, Used
<1>5. InUse' = InUse
    BY <1>1 DEF InUse
<1>6. QED BY <1>1, <1>4, <1>5, NativeMoves DEF InCall

LEMMA ReceiveReads ==
    ASSUME Inv, ReceiveUsed \/ ReceiveEof \/ ReceiveState \/ ReceiveError \/ ReceiveCopy
    PROVE  Inv'
<1>1. call.op = "receive" /\ call \in ReceiveCall /\ call.fd \in Fds
    BY CallKinds, CallSlot DEF Inv, TypeOK, ReceiveUsed, ReceiveEof, ReceiveState,
                               ReceiveError, ReceiveCopy, InCall
<1>2. UNCHANGED <<slots, handles, pcbs, pbufs, stream>>
    BY DEF ReceiveUsed, ReceiveEof, ReceiveState, ReceiveError, ReceiveCopy
<1>3. Used(call.fd) = recv_buf_used(Slot) /\ Slot \in Socket
    BY <1>1 DEF Used, Slot, Inv, TypeOK
<1>4. ASSUME NEW pc \in {"used", "eof", "state"}, Goto(pc) PROVE Inv'
    <2>1. call' \in ReceiveCall /\ call'.fd = call.fd /\ call'.pc = pc
        BY <1>1, <1>4 DEF Goto, ReceiveCall
    <2>2. QED BY <1>1, <1>2, <2>1, ReceiveMoves
<1>5. ASSUME Goto("error"), Used(call.fd) # 0 \/ Slot.eof \/ Slot.state = "error" PROVE Inv'
    <2>1. call' \in ReceiveCall /\ call'.fd = call.fd /\ call'.pc = "error"
        BY <1>1, <1>5 DEF Goto, ReceiveCall
    <2>2. QED BY <1>1, <1>2, <1>5, <2>1, ReceiveMoves
<1>6. CASE ReceiveUsed
    BY <1>3, <1>4, <1>5, <1>6 DEF ReceiveUsed
<1>7. CASE ReceiveEof
    BY <1>4, <1>5, <1>7 DEF ReceiveEof
<1>8. CASE ReceiveState
    BY <1>4, <1>5, <1>8 DEF ReceiveState, SpinsOn
<1>9. CASE ReceiveError
    <2>1. CASE Slot.state = "error"
        BY <1>1, <1>2, <1>9, <2>1, EndStep DEF ReceiveError, InCall
    <2>2. CASE Slot.state # "error"
        <3>1. call' \in ReceiveCall /\ call'.fd = call.fd /\ call'.pc = "copy"
            BY <1>1, <1>9, <2>2 DEF ReceiveError, Goto, ReceiveCall
        <3>2. Used(call.fd) # 0 \/ Slot.eof
            BY <1>9, <2>2 DEF ReceiveError, Inv, CallOK
        <3>3. QED BY <1>1, <1>2, <3>1, <3>2, ReceiveMoves
    <2>3. QED BY <2>1, <2>2
<1>10. CASE ReceiveCopy
    <2> DEFINE n == Smaller(call.len, Avail)
               data == Bytes(Slot, n)
    <2>1. call.len \in Nat /\ Avail = Used(call.fd) /\ Used(call.fd) \in 0..(Size - 1)
        BY <1>1, <1>3, UsedBytes DEF ReceiveCall, Avail, Indexes
    <2>2. n \in 0..Size /\ n <= Used(call.fd)
        BY <2>1, SocketAssumption DEF Smaller
    <2> HIDE DEF n
    <2>3. data \in Seq(Nat) /\ Len(data) = n
        BY <1>3, <2>2, BytesType
    <2>4. call' = [call EXCEPT !.data = data, !.pc = "advance"]
        BY <1>10 DEF ReceiveCopy, n
    <2>5. data = Bytes(Slot, Len(data))
        BY <2>3
    <2> HIDE DEF data
    <2>6. /\ call' \in ReceiveCall /\ call'.fd = call.fd /\ call'.pc = "advance"
          /\ call'.data = data
        BY <1>1, <2>3, <2>4 DEF ReceiveCall
    <2>7. QED BY <1>1, <1>2, <2>2, <2>3, <2>5, <2>6, ReceiveMoves
<1>11. QED BY <1>6, <1>7, <1>8, <1>9, <1>10

\* tcp_connect moves on.
LEMMA ConnectMoves ==
    ASSUME Inv, call.op = "connect", UNCHANGED <<slots, handles, pcbs, pbufs, stream>>,
           NEW pc \in {"test", "abort", "free"}, Goto(pc),
           pc = "free" => Slot.pcb = None
    PROVE  Inv'
<1>1. call \in ConnectCall
    BY CallKinds DEF Inv, TypeOK
<1>2. call' \in ConnectCall /\ call'.op = "connect" /\ call'.fd = call.fd /\ call'.pc = pc
    BY <1>1 DEF Goto, ConnectCall
<1>3. call' \in Call
    BY <1>2 DEF Call
<1>4. CallOK'
    BY <1>2 DEF Inv, CallOK, InCall, Tcp, Slot
<1>5. InUse' = InUse
    BY <1>2 DEF InUse
<1>6. QED BY <1>3, <1>4, <1>5, NativeMoves DEF InCall

\* The steps of the other natives that only read.
LEMMA OtherReads ==
    ASSUME Inv, ConnectSpin \/ ConnectFails \/ SendLocked \/ ReceiveFromSpin
    PROVE  Inv'
<1>1. UNCHANGED <<slots, handles, pcbs, pbufs, stream>>
    BY DEF ConnectSpin, ConnectFails, SendLocked, ReceiveFromSpin
<1>2. CASE ConnectSpin
    BY <1>1, <1>2, ConnectMoves DEF ConnectSpin, InCall
<1>3. CASE ConnectFails
    <2>1. CASE Slot.pcb = None
        BY <1>1, <1>3, <2>1, ConnectMoves DEF ConnectFails, InCall
    <2>2. CASE Slot.pcb # None
        BY <1>1, <1>3, <2>2, ConnectMoves DEF ConnectFails, InCall
    <2>3. QED BY <2>1, <2>2
<1>4. CASE SendLocked
    BY <1>1, <1>4, EndStep DEF SendLocked, InCall
<1>5. CASE ReceiveFromSpin
    <2>1. call.op = "receiveFrom" /\ call \in FromCall /\ Slot.dgram # None
        BY <1>5, CallKinds DEF ReceiveFromSpin, InCall, Inv, TypeOK
    <2>2. /\ call' \in FromCall
          /\ call'.op = "receiveFrom" /\ call'.fd = call.fd /\ call'.pc = "lock"
        BY <1>5, <2>1 DEF ReceiveFromSpin, Goto, FromCall
    <2>3. call' \in Call
        BY <2>2 DEF Call
    <2>4. Slot' = Slot
        BY <1>1, <2>2 DEF Slot
    <2>5. CallOK'
        BY <1>1, <2>1, <2>2, <2>4 DEF Inv, CallOK, InCall
    <2>6. InUse' = InUse
        BY <1>1, <2>1, <2>2 DEF InUse
    <2>7. QED BY <1>1, <2>1, <2>3, <2>5, <2>6, NativeMoves DEF InCall
<1>6. QED BY <1>2, <1>3, <1>4, <1>5

-----------------------------------------------------------------------------
(* Steps that open and close sockets.                                       *)

\* What alloc_socket and the set-up leave in a slot.
SetUp(s, p) ==
    /\ s.type # "unused" /\ s.state # "error" /\ s.pcb = p
    /\ s.dgram = None /\ ~s.eof /\ s.head = 0 /\ s.tail = 0

LEMMA SetUpSlot ==
    ASSUME NEW type \in {"tcp", "udp"}, NEW state \in {"connecting", "connected"},
           NEW p \in Pcbs
    PROVE  \E s \in Socket :
             /\ s = [FreeSlot EXCEPT !.type = type, !.state = state, !.pcb = p]
             /\ s.type = type /\ SetUp(s, p)
<1> DEFINE s == [FreeSlot EXCEPT !.type = type, !.state = state, !.pcb = p]
<1>1. s.type = type /\ s.state = state /\ s.pcb = p
    BY FreshSlot DEF Socket
<1>2. s.dgram = None /\ ~s.eof /\ s.head = 0 /\ s.tail = 0
    BY FreshSlot DEF Socket
<1>3. s \in Socket
    BY FreshSlot DEF Socket
<1> HIDE DEF s
<1>4. \E t \in Socket : t = s
    BY <1>3
<1>5. SetUp(s, p)
    BY <1>1, <1>2 DEF SetUp
<1>6. QED BY <1>1, <1>4, <1>5 DEF s

LEMMA OpenSlot ==
    ASSUME Inv, call.op = "none",
           NEW fd \in Fds, slots[fd].type = "unused",
           NEW p \in Pcbs, pcbs[p].phase = "new",
           slots' \in [Fds -> Socket], SetUp(slots'[fd], p),
           \A g \in Fds \ {fd} : slots'[g] = slots[g],
           pcbs' \in [Pcbs -> Pcb], pcbs'[p].phase \in {"syn", "bound"}, pcbs'[p].arg = fd,
           \A q \in Pcbs \ {p} : pcbs'[q] = pcbs[q],
           pbufs' = pbufs,
           stream' \in [Fds -> Stream],
           \A g \in Fds \ {fd} : stream'[g] = stream[g],
           Tcp(fd)' => stream'[fd] = NewStream,
           handles' \subseteq Fds, call' \in Call, CallOK', SlotsAccounted'
    PROVE  Inv'
<1>1. slots \in [Fds -> Socket] /\ pcbs \in [Pcbs -> Pcb] /\ fd # None /\ p # None
    BY SocketAssumption DEF Inv, TypeOK
<1>2. PICK s \in Socket : s = slots'[fd]
    OBVIOUS
<1>3. /\ s.type # "unused" /\ s.state # "error" /\ s.pcb = p
      /\ s.dgram = None /\ ~s.eof /\ s.head = 0 /\ s.tail = 0
    BY <1>2 DEF SetUp
<1>4. TypeOK'
    BY DEF Inv, TypeOK
<1>5. DatagramsHeld'
    <2>1. slots[fd].dgram = None
        BY DEF Inv, SlotOK, Open
    <2>2. \A g \in Fds : slots'[g].dgram = slots[g].dgram
        BY <1>2, <1>3, <2>1
    <2>3. QED BY <2>2, Leaks, DatagramsKept DEF Inv
<1>6. SlotOK(fd)'
    <2>1. Owned(fd)'
        BY <1>2, <1>3 DEF Owned
    <2>2. Ring(fd)'
        <3> SUFFICES ASSUME Tcp(fd)'
                     PROVE  Ring(fd)'
            BY DEF Ring
        <3>1. recv_buf_used(slots'[fd]) = 0 /\ Bytes(slots'[fd], 0) = <<>>
            BY <1>2, <1>3, EmptyRing
        <3>2. /\ stream'[fd].kept = <<>> /\ stream'[fd].got = <<>> /\ ~stream'[fd].over
            BY FreshStream
        <3>3. <<>> = <<>> \o <<>>
            OBVIOUS
        <3>4. QED BY <3>1, <3>2, <3>3 DEF Ring, Used
    <2>3. slots'[fd].type # "unused"
        BY <1>2, <1>3
    <2>4. QED BY <2>1, <2>2, <2>3 DEF SlotOK, Open
<1>7. PcbOK(p)'
    BY <1>1, <1>2, <1>3 DEF PcbOK, Open
<1>8. \A q \in Pcbs : pcbs[q].arg # fd
    BY <1>1 DEF Inv, PcbOK, Open
<1>9. \A g \in Fds \ {fd} : slots[g].pcb # p
    BY OtherPcbs
<1>10. ~InCall("close", "free")
    BY DEF InCall
<1>11. QED BY <1>4, <1>5, <1>6, <1>7, <1>8, <1>9, <1>10, OneSlotStep

LEMMA ConnectStep ==
    ASSUME Inv, Connect
    PROVE  Inv'
<1>1. PICK fd \in Fds : fd = NextFd
    BY NextOnes DEF Connect
<1>2. PICK p \in Pcbs : p = NextPcb
    BY NextOnes DEF Connect
<1>3. /\ slots[fd].type = "unused" /\ pcbs[p].phase = "new" /\ call.op = "none"
      /\ slots' = [slots EXCEPT ![fd] = [FreeSlot EXCEPT !.type = "tcp",
                                            !.state = "connecting", !.pcb = p]]
      /\ pcbs' = [pcbs EXCEPT ![p].phase = "syn", ![p].arg = fd]
      /\ call' = [op |-> "connect", fd |-> fd, pc |-> "spin"]
      /\ stream' = [stream EXCEPT ![fd] = NewStream]
      /\ UNCHANGED <<handles, pbufs>>
    BY <1>1, <1>2, NextOnes DEF Connect
<1>4. slots \in [Fds -> Socket] /\ stream \in [Fds -> Stream] /\ handles \subseteq Fds
    BY DEF Inv, TypeOK
<1>5. /\ stream' \in [Fds -> Stream] /\ stream'[fd] = NewStream
      /\ \A g \in Fds \ {fd} : stream'[g] = stream[g]
    BY <1>3, <1>4, FreshStream
<1>6. call' \in ConnectCall /\ call'.op = "connect" /\ call'.fd = fd
    BY <1>3 DEF ConnectCall
<1>7. call' \in Call
    BY <1>6 DEF Call
<1>8. PICK s \in Socket :
          /\ s = [FreeSlot EXCEPT !.type = "tcp", !.state = "connecting", !.pcb = p]
          /\ s.type = "tcp" /\ SetUp(s, p)
    BY SetUpSlot
<1>9. slots' = [slots EXCEPT ![fd] = s]
    BY <1>3, <1>8
<1>10. /\ pcbs' \in [Pcbs -> Pcb] /\ pcbs'[p].phase = "syn" /\ pcbs'[p].arg = fd
       /\ \A q \in Pcbs \ {p} : pcbs'[q] = pcbs[q]
    <2>1. pcbs \in [Pcbs -> Pcb]
        BY DEF Inv, TypeOK
    <2>2. PICK a \in Pcb : a = pcbs[p]
        BY <2>1
    <2> DEFINE c == [a EXCEPT !.phase = "syn", !.arg = fd]
    <2>3. c \in Pcb /\ c.phase = "syn" /\ c.arg = fd
        BY DEF Pcb
    <2>4. pcbs' = [pcbs EXCEPT ![p] = c]
        BY <1>3, <2>1, <2>2
    <2> HIDE DEF c
    <2>5. QED BY <2>1, <2>3, <2>4
<1>11. /\ slots' \in [Fds -> Socket]
       /\ slots'[fd].type = "tcp" /\ SetUp(slots'[fd], p)
       /\ \A g \in Fds \ {fd} : slots'[g] = slots[g]
    BY <1>4, <1>8, <1>9
<1>12. SlotsAccounted
    BY Leaks DEF Inv
<1>13. fd \notin handles
    BY <1>3, <1>12 DEF SlotsAccounted, InUse, Open
<1>14. CallOK'
    BY <1>3, <1>6, <1>11, <1>13 DEF CallOK, InCall, Tcp
<1>15. SlotsAccounted'
    <2>1. {g \in Fds : slots'[g].type # "unused"} =
             {g \in Fds : slots[g].type # "unused"} \union {fd}
        BY <1>11
    <2>2. {g \in Fds : slots[g].type # "unused"} = handles
        BY <1>3, <1>12 DEF SlotsAccounted, InUse, Open
    <2>3. QED BY <1>3, <1>6, <2>1, <2>2 DEF SlotsAccounted, InUse, Open
<1>16. QED BY <1>3, <1>4, <1>5, <1>7, <1>10, <1>11, <1>14, <1>15, OpenSlot

LEMMA BindStep ==
    ASSUME Inv, Bind
    PROVE  Inv'
<1>1. PICK fd \in Fds : fd = NextFd
    BY NextOnes DEF Bind
<1>2. PICK p \in Pcbs : p = NextPcb
    BY NextOnes DEF Bind
<1>3. /\ slots[fd].type = "unused" /\ pcbs[p].phase = "new" /\ call.op = "none"
      /\ slots' = [slots EXCEPT ![fd] = [FreeSlot EXCEPT !.type = "udp",
                                            !.state = "connected", !.pcb = p]]
      /\ pcbs' = [pcbs EXCEPT ![p].phase = "bound", ![p].arg = fd]
      /\ handles' = handles \union {fd}
      /\ UNCHANGED <<call, pbufs, stream>>
    BY <1>1, <1>2, NextOnes DEF Bind
<1>4. /\ slots \in [Fds -> Socket] /\ stream \in [Fds -> Stream]
      /\ handles \subseteq Fds /\ call \in Call
    BY DEF Inv, TypeOK
<1>5. PICK s \in Socket :
          /\ s = [FreeSlot EXCEPT !.type = "udp", !.state = "connected", !.pcb = p]
          /\ s.type = "udp" /\ SetUp(s, p)
    BY SetUpSlot
<1>6. slots' = [slots EXCEPT ![fd] = s]
    BY <1>3, <1>5
<1>7. /\ pcbs' \in [Pcbs -> Pcb] /\ pcbs'[p].phase = "bound" /\ pcbs'[p].arg = fd
       /\ \A q \in Pcbs \ {p} : pcbs'[q] = pcbs[q]
    <2>1. pcbs \in [Pcbs -> Pcb]
        BY DEF Inv, TypeOK
    <2>2. PICK a \in Pcb : a = pcbs[p]
        BY <2>1
    <2> DEFINE c == [a EXCEPT !.phase = "bound", !.arg = fd]
    <2>3. c \in Pcb /\ c.phase = "bound" /\ c.arg = fd
        BY DEF Pcb
    <2>4. pcbs' = [pcbs EXCEPT ![p] = c]
        BY <1>3, <2>1, <2>2
    <2> HIDE DEF c
    <2>5. QED BY <2>1, <2>3, <2>4
<1>8. /\ slots' \in [Fds -> Socket]
       /\ slots'[fd].type = "udp" /\ SetUp(slots'[fd], p)
       /\ \A g \in Fds \ {fd} : slots'[g] = slots[g]
    BY <1>4, <1>5, <1>6
<1>9. SlotsAccounted
    BY Leaks DEF Inv
<1>10. CallOK'
    BY <1>3 DEF CallOK, InCall
<1>11. SlotsAccounted'
    <2>1. {g \in Fds : slots'[g].type # "unused"} =
             {g \in Fds : slots[g].type # "unused"} \union {fd}
        BY <1>8
    <2>2. {g \in Fds : slots[g].type # "unused"} = handles
        BY <1>3, <1>9 DEF SlotsAccounted, InUse, Open
    <2>3. QED BY <1>3, <2>1, <2>2 DEF SlotsAccounted, InUse, Open
<1>12. ~Tcp(fd)'
    BY <1>8 DEF Tcp
<1>13. /\ stream' \in [Fds -> Stream] /\ \A g \in Fds \ {fd} : stream'[g] = stream[g]
       /\ handles' \subseteq Fds /\ call' \in Call
    BY <1>3, <1>4
<1>14. QED BY <1>3, <1>7, <1>8, <1>10, <1>11, <1>12, <1>13, OpenSlot

LEMMA ConnectSucceedsStep ==
    ASSUME Inv, ConnectSucceeds
    PROVE  Inv'
<1>1. /\ call.op = "connect" /\ call.fd \in Fds
      /\ handles' = handles \union {call.fd} /\ Return
      /\ UNCHANGED <<slots, pcbs, pbufs, stream>>
    BY CallSlot DEF ConnectSucceeds, InCall, Inv, TypeOK
<1>2. call' \in Call /\ call'.op = "none"
    BY <1>1, CallTypes DEF Return
<1>3. TypeOK'
    BY <1>1, <1>2 DEF Inv, TypeOK
<1>4. NothingLeaks'
    BY <1>1, <1>2 DEF Inv, NothingLeaks, Open
<1>5. CallOK'
    BY <1>2 DEF CallOK, InCall
<1>6. \A p \in Pcbs : PcbOK(p)'
    BY <1>1 DEF Inv, PcbOK, Open
<1>7. ASSUME NEW fd \in Fds PROVE SlotOK(fd)'
    <2>1. SlotOK(fd)
        BY DEF Inv
    <2>2. Owned(fd)'
        BY <1>1, <2>1 DEF SlotOK, Owned, InCall
    <2>3. Ring(fd)'
        BY <1>1, <2>1 DEF SlotOK, Ring, Tcp, Used
    <2>4. QED BY <1>1, <2>1, <2>2, <2>3 DEF SlotOK, Open
<1>8. QED BY <1>3, <1>4, <1>5, <1>6, <1>7 DEF Inv

\* A pcb that was let go calls back to no slot.
LEMMA ReleasedPcb ==
    ASSUME TypeOK, NEW p \in Pcbs, pcbs' = Released(p)
    PROVE  /\ pcbs' \in [Pcbs -> Pcb] /\ PcbOK(p)' /\ pcbs'[p].arg = None
           /\ \A q \in Pcbs \ {p} : pcbs'[q] = pcbs[q]
<1>1. pcbs \in [Pcbs -> Pcb]
    BY DEF TypeOK
<1>2. /\ pcbs' \in [Pcbs -> Pcb] /\ pcbs'[p].phase = "gone" /\ pcbs'[p].arg = None
      /\ \A q \in Pcbs \ {p} : pcbs'[q] = pcbs[q]
    BY <1>1 DEF Released, Pcb
<1>3. QED BY <1>2 DEF PcbOK

\* free_socket, after the pcb of the slot, if any, was let go.
LEMMA FreeStep ==
    ASSUME Inv, NEW fd \in Fds, free_socket(fd), handles' = handles \ {fd}, Return,
           stream' = stream, pcbs' \in [Pcbs -> Pcb],
           (call.op = "connect" /\ call.fd = fd) \/ (InCall("close", "free") /\ call.fd = fd),
           NEW p, p = slots[fd].pcb, p # None => PcbOK(p)',
           \A q \in Pcbs \ {p} : pcbs'[q] = pcbs[q]
    PROVE  Inv'
<1>1. slots \in [Fds -> Socket]
    BY DEF Inv, TypeOK
<1>2. /\ slots' \in [Fds -> Socket] /\ slots'[fd] = FreeSlot
      /\ \A g \in Fds \ {fd} : slots'[g] = slots[g]
    BY <1>1, FreshSlot DEF free_socket
<1>3. call' \in Call /\ call'.op = "none"
    BY CallTypes DEF Return
<1>4. DatagramsHeld' /\ pbufs' \in [Datagrams -> {"coming", "held", "freed"}]
    BY Leaks, DatagramFreed DEF Inv
<1>5. TypeOK'
    BY <1>2, <1>3, <1>4 DEF Inv, TypeOK
<1>6. SlotsAccounted'
    <2>1. {g \in Fds : slots'[g].type # "unused"} =
             {g \in Fds : slots[g].type # "unused"} \ {fd}
        BY <1>2, FreshSlot
    <2>2. {g \in Fds : slots[g].type # "unused"} = handles \union {fd}
        <3>1. SlotsAccounted /\ (call.op = "close" => fd \in handles)
            BY Leaks DEF Inv, CallOK
        <3>2. QED BY <3>1 DEF SlotsAccounted, InUse, Open, InCall
    <2>3. QED BY <1>3, <2>1, <2>2 DEF SlotsAccounted, InUse, Open
<1>7. CallOK'
    BY <1>3 DEF CallOK, InCall
<1>8. SlotOK(fd)'
    BY <1>2, FreshSlot DEF SlotOK, Owned, Ring, Open, Tcp
<1>9. p # None => p \in Pcbs
    BY OwnPcb
<1>10. \A q \in Pcbs \ {p} : pcbs[q].arg # fd
    BY OwnPcb
<1>11. p \in Pcbs => \A g \in Fds \ {fd} : slots[g].pcb # p
    <2>1. p \in Pcbs => p # None
        BY SocketAssumption
    <2>2. SUFFICES ASSUME p \in Pcbs, NEW g \in Fds \ {fd}, slots[g].pcb = p
                   PROVE  FALSE
        OBVIOUS
    <2>3. Owned(fd) /\ Owned(g)
        BY DEF Inv, SlotOK
    <2>4. g # None /\ fd # None
        BY SocketAssumption
    <2>5. QED BY <2>1, <2>2, <2>3, <2>4 DEF Owned, InCall
<1>12. p \in Pcbs => PcbOK(p)'
    BY SocketAssumption
<1>13. stream'[fd] = stream[fd] /\ \A g \in Fds \ {fd} : stream'[g] = stream[g]
    OBVIOUS
<1>14. call.fd = fd
    OBVIOUS
<1>15. QED BY <1>2, <1>5, <1>4, <1>6, <1>7, <1>8, <1>10, <1>11, <1>12, <1>13, <1>14,
              OneSlotStep

\* A failed connect frees its slot, which has no pcb any more.
LEMMA ConnectFreeStep ==
    ASSUME Inv, ConnectFree
    PROVE  Inv'
<1>1. /\ InCall("connect", "free") /\ call.op = "connect" /\ call.fd \in Fds /\ Return
      /\ free_socket(call.fd)
      /\ UNCHANGED <<handles, pcbs, stream>>
    BY CallSlot DEF ConnectFree, InCall, Inv, TypeOK
<1>2. PICK fd \in Fds : fd = call.fd
    BY <1>1
<1>3. PICK p : p = slots[fd].pcb
    OBVIOUS
<1>4. p = None /\ handles' = handles \ {fd}
    BY <1>1, <1>2, <1>3 DEF Inv, CallOK, Slot
<1>5. pcbs' \in [Pcbs -> Pcb]
    BY <1>1 DEF Inv, TypeOK
<1>6. QED BY <1>1, <1>2, <1>3, <1>4, <1>5, FreeStep

\* A failed connect aborts the pcb that it still has, or finds it gone.
LEMMA ConnectAbortStep ==
    ASSUME Inv, ConnectAbort
    PROVE  Inv'
<1>1. /\ InCall("connect", "abort") /\ call.op = "connect" /\ call.fd \in Fds
      /\ call \in ConnectCall
      /\ UNCHANGED <<handles, pbufs, stream>>
    BY CallSlot, CallKinds DEF ConnectAbort, InCall, Inv, TypeOK
<1>2. PICK fd \in Fds : fd = call.fd
    BY <1>1
<1>3. PICK p : p = slots[fd].pcb
    OBVIOUS
<1>4. CASE p = None
    <2>1. PassNull /\ UNCHANGED <<slots, handles, pcbs, pbufs, stream>>
        BY <1>1, <1>2, <1>3, <1>4 DEF ConnectAbort, Slot
    <2>2. call' \in Call /\ call'.op = "null pcb" /\ call'.fd = call.fd
        BY <1>1, <2>1, NullType
    <2>3. CallOK'
        BY <2>2 DEF CallOK, InCall
    <2>4. InUse' = InUse
        BY <1>1, <2>2 DEF InUse
    <2>5. QED BY <1>1, <2>1, <2>2, <2>3, <2>4, NativeMoves DEF InCall
<1>5. CASE p # None
    <2>1. /\ p \in Pcbs /\ pcbs[p].arg = fd
          /\ Goto("free") /\ pcbs' = Released(p)
          /\ slots' = [slots EXCEPT ![fd] = Failed(slots[fd])]
        BY <1>1, <1>2, <1>3, <1>5, OwnPcb DEF ConnectAbort, Slot, InCall
    <2>2. /\ pcbs' \in [Pcbs -> Pcb] /\ PcbOK(p)' /\ pcbs'[p].arg = None
          /\ \A q \in Pcbs \ {p} : pcbs'[q] = pcbs[q]
        BY <2>1, ReleasedPcb DEF Inv
    <2>3. /\ call' \in ConnectCall /\ call'.op = "connect" /\ call'.fd = fd
          /\ call'.pc = "free"
        BY <1>1, <1>2, <2>1 DEF Goto, ConnectCall
    <2>4. call' \in Call
        BY <2>3 DEF Call
    <2>5. PICK u \in Socket : u = slots[fd]
        BY DEF Inv, TypeOK
    <2> DEFINE s == Failed(u)
    <2>6. /\ s \in Socket
          /\ s.type = u.type /\ s.pcb = None /\ s.eof = u.eof /\ s.dgram = u.dgram
          /\ s.head = u.head /\ s.tail = u.tail /\ s.buf = u.buf
        BY DEF Failed, Socket
    <2>7. slots' = [slots EXCEPT ![fd] = s]
        BY <2>1, <2>5
    <2> HIDE DEF s
    <2>8. slots \in [Fds -> Socket]
        BY DEF Inv, TypeOK
    <2>9. /\ slots' \in [Fds -> Socket] /\ slots'[fd] = s
          /\ \A g \in Fds \ {fd} : slots'[g] = slots[g]
        BY <2>6, <2>7, <2>8
    <2>10. TypeOK'
        BY <1>1, <2>2, <2>4, <2>9 DEF Inv, TypeOK
    <2>11. /\ \A g \in Fds : slots'[g].type = slots[g].type
           /\ \A g \in Fds : slots'[g].dgram = slots[g].dgram
        BY <2>5, <2>6, <2>9
    <2>12. InUse' = InUse
        BY <1>1, <1>2, <2>3 DEF InUse
    <2>13. SlotsAccounted' /\ DatagramsHeld'
        BY <1>1, <2>11, <2>12, Leaks, SlotsKept, DatagramsKept DEF Inv
    <2>14. CallOK'
        <3>1. fd \notin handles /\ Tcp(fd)
            BY <1>1, <1>2 DEF Inv, CallOK
        <3>2. slots'[call'.fd].pcb = None /\ slots'[call'.fd].type = "tcp"
            BY <2>3, <2>5, <2>6, <2>9, <3>1 DEF Tcp
        <3>3. QED BY <1>1, <2>3, <3>1, <3>2 DEF CallOK, InCall, Slot, Tcp
    <2>15. SlotOK(fd)'
        <3>1. SlotOK(fd)
            BY DEF Inv
        <3>2. recv_buf_used(s) = recv_buf_used(u) /\ \A n : Bytes(s, n) = Bytes(u, n)
            BY <2>6 DEF recv_buf_used, Bytes
        <3>3. Used(fd)' = Used(fd) /\ Bytes(s, Used(fd)) = Bytes(u, Used(fd))
            BY <2>5, <2>9, <3>2 DEF Used
        <3>4. Tcp(fd)' = Tcp(fd) /\ stream' = stream
            BY <1>1, <2>5, <2>6, <2>9 DEF Tcp
        <3>5. Ring(fd)'
            BY <2>5, <2>6, <2>9, <3>1, <3>3, <3>4 DEF SlotOK, Ring
        <3>6. QED BY <2>5, <2>6, <2>9, <3>1, <3>5 DEF SlotOK, Owned, Open
    <2>16. /\ \A g \in Fds \ {fd} : slots[g].pcb # p
           /\ \A q \in Pcbs \ {p} : pcbs[q].arg # fd
        BY <1>3, <2>1, OtherPcbs, OwnPcb
    <2>17. ~InCall("close", "free") /\ \A g \in Fds \ {fd} : stream'[g] = stream[g]
        BY <1>1 DEF InCall
    <2>18. QED BY <2>2, <2>9, <2>10, <2>13, <2>14, <2>15, <2>16, <2>17, OneSlotStep
<1>6. QED BY <1>4, <1>5

LEMMA CloseFreeStep ==
    ASSUME Inv, CloseFree
    PROVE  Inv'
<1>1. /\ InCall("close", "free") /\ call.fd \in Fds /\ Return
      /\ free_socket(call.fd) /\ handles' = handles \ {call.fd}
      /\ UNCHANGED <<pcbs, stream>>
    BY CallSlot DEF CloseFree, InCall, Inv, TypeOK
<1>2. PICK fd \in Fds : fd = call.fd
    BY <1>1
<1>3. PICK p : p = slots[fd].pcb
    OBVIOUS
<1>4. p # None => p \in Pcbs /\ pcbs[p].arg = None
    BY <1>1, <1>2, <1>3, OwnPcb DEF Inv, CallOK, Slot
<1>5. p # None => PcbOK(p)'
    BY <1>1, <1>4 DEF Inv, PcbOK
<1>6. pcbs' \in [Pcbs -> Pcb]
    BY <1>1 DEF Inv, TypeOK
<1>7. QED BY <1>1, <1>2, <1>3, <1>5, <1>6, FreeStep

\* tcp_close lets the pcb go under the lock, or finds it gone.
LEMMA CloseLockedStep ==
    ASSUME Inv, CloseLocked
    PROVE  Inv'
<1>1. /\ InCall("close", "lock") /\ call.op = "close" /\ call.fd \in Fds
      /\ call \in CloseCall
      /\ UNCHANGED <<slots, handles, pbufs, stream>>
    BY CallSlot, CallKinds DEF CloseLocked, InCall, Inv, TypeOK
<1>2. PICK fd \in Fds : fd = call.fd
    BY <1>1
<1>3. PICK p : p = slots[fd].pcb
    OBVIOUS
<1>4. CASE p = None
    BY <1>1, <1>2, <1>3, <1>4, EndStep DEF CloseLocked, Slot, InCall
<1>5. CASE p # None
    <2>1. /\ p \in Pcbs /\ pcbs[p].arg = fd
          /\ Goto("free") /\ pcbs' = Released(p)
        BY <1>1, <1>2, <1>3, <1>5, OwnPcb DEF CloseLocked, Slot, InCall
    <2>2. /\ pcbs' \in [Pcbs -> Pcb] /\ PcbOK(p)' /\ pcbs'[p].arg = None
          /\ \A q \in Pcbs \ {p} : pcbs'[q] = pcbs[q]
        BY <2>1, ReleasedPcb DEF Inv
    <2>3. /\ call' \in CloseCall /\ call'.op = "close" /\ call'.fd = fd /\ call'.pc = "free"
        BY <1>1, <1>2, <2>1 DEF Goto, CloseCall
    <2>4. call' \in Call
        BY <2>3 DEF Call
    <2>5. TypeOK'
        BY <1>1, <2>2, <2>4 DEF Inv, TypeOK
    <2>6. SlotsAccounted' /\ DatagramsHeld'
        <3>1. InUse' = InUse
            BY <1>1, <2>3 DEF InUse
        <3>2. QED BY <1>1, <3>1, Leaks, SlotsKept, DatagramsKept DEF Inv
    <2>7. CallOK'
        BY <1>1, <1>2, <1>3, <2>2, <2>3 DEF CallOK, Inv, InCall, Slot
    <2>8. SlotOK(fd)'
        <3>1. SlotOK(fd)
            BY DEF Inv
        <3>2. Owned(fd)'
            BY <1>1, <1>3, <2>2, <2>3 DEF Owned, InCall
        <3>3. Ring(fd)'
            BY <1>1, <3>1 DEF SlotOK, Ring, Tcp, Used
        <3>4. QED BY <1>1, <3>1, <3>2, <3>3 DEF SlotOK, Open
    <2>9. /\ \A g \in Fds \ {fd} : slots[g].pcb # p
          /\ \A q \in Pcbs \ {p} : pcbs[q].arg # fd
        BY <1>3, <2>1, OtherPcbs, OwnPcb
    <2>10. \A g \in Fds \ {fd} : slots'[g] = slots[g] /\ stream'[g] = stream[g]
        BY <1>1
    <2>11. QED BY <1>2, <2>2, <2>5, <2>6, <2>7, <2>8, <2>9, <2>10, OneSlotStep
<1>6. QED BY <1>4, <1>5
-----------------------------------------------------------------------------
(* Steps of the natives that write to a slot.                               *)

\* A native that returns has written to the ring or the datagram of its slot.
LEMMA SlotWritten ==
    ASSUME Inv, NEW fd \in Fds, Open(fd), Return,
           call.op \in {"receive", "receiveFrom"}, UNCHANGED <<handles, pcbs>>,
           slots' \in [Fds -> Socket], stream' \in [Fds -> Stream],
           pbufs' \in [Datagrams -> {"coming", "held", "freed"}],
           slots'[fd].type = slots[fd].type, slots'[fd].state = slots[fd].state,
           slots'[fd].pcb = slots[fd].pcb, slots'[fd].eof = slots[fd].eof,
           \A g \in Fds \ {fd} : slots'[g] = slots[g] /\ stream'[g] = stream[g],
           DatagramsHeld', Ring(fd)'
    PROVE  Inv'
<1>1. call' \in Call /\ call'.op = "none"
    BY CallTypes DEF Return
<1>2. TypeOK'
    BY <1>1 DEF Inv, TypeOK
<1>3. SlotsAccounted'
    <2>1. SlotsAccounted
        BY Leaks DEF Inv
    <2>2. \A g \in Fds : slots'[g].type = slots[g].type
        OBVIOUS
    <2>3. InUse' = InUse
        BY <1>1 DEF InUse
    <2>4. QED BY <2>1, <2>2, <2>3, SlotsKept
<1>4. CallOK'
    BY <1>1 DEF CallOK, InCall
<1>5. PICK p : p = slots[fd].pcb
    OBVIOUS
<1>6. p \in Pcbs => pcbs[p].arg = fd
    <2>1. p \in Pcbs => p # None
        BY SocketAssumption
    <2>2. QED BY <1>5, <2>1, OwnPcb DEF InCall
<1>7. SlotOK(fd)'
    <2>1. SlotOK(fd) /\ fd # None
        BY SocketAssumption DEF Inv
    <2>2. Owned(fd)'
        BY <1>5, <1>6, OwnPcb DEF Owned, InCall
    <2>3. QED BY <2>1, <2>2 DEF SlotOK, Open
<1>8. p \in Pcbs => PcbOK(p)'
    <2>1. p \in Pcbs => PcbOK(p)
        BY DEF Inv
    <2>2. QED BY <1>6, <2>1 DEF PcbOK, Open
<1>9. /\ p \in Pcbs => \A g \in Fds \ {fd} : slots[g].pcb # p
      /\ \A q \in Pcbs \ {p} : pcbs'[q] = pcbs[q] /\ pcbs[q].arg # fd
    BY <1>5, <1>6, OtherPcbs, OwnPcb
<1>10. ~InCall("close", "free")
    BY DEF InCall
<1>11. QED BY <1>2, <1>3, <1>4, <1>7, <1>8, <1>9, <1>10, OneSlotStep

\* tcp_receive returns 0.
LEMMA ReceiveEndStep ==
    ASSUME Inv, ReceiveEnd
    PROVE  Inv'
<1>1. /\ call.op = "receive" /\ InCall("receive", "copy") /\ call.fd \in Fds /\ Return
      /\ Avail = 0 /\ stream' = [stream EXCEPT ![call.fd].over = TRUE]
      /\ UNCHANGED <<slots, handles, pcbs, pbufs>>
    BY CallSlot DEF ReceiveEnd, InCall, Inv, TypeOK
<1>2. PICK fd \in Fds : fd = call.fd
    BY <1>1
<1>3. Tcp(fd) /\ Open(fd) /\ Used(fd) = 0 /\ slots[fd].eof
    BY <1>1, <1>2 DEF Inv, CallOK, Avail, Slot, Used, Tcp, Open
<1>4. stream \in [Fds -> Stream]
    BY DEF Inv, TypeOK
<1>5. /\ stream' \in [Fds -> Stream]
      /\ stream'[fd].kept = stream[fd].kept /\ stream'[fd].got = stream[fd].got
      /\ \A g \in Fds \ {fd} : stream'[g] = stream[g]
    BY <1>1, <1>2, <1>4 DEF Stream
<1>6. Ring(fd)'
    <2>1. Ring(fd)
        BY DEF Inv, SlotOK
    <2>2. QED BY <1>1, <1>3, <1>5, <2>1 DEF Ring, Used, Tcp
<1>7. /\ slots' \in [Fds -> Socket]
      /\ pbufs' \in [Datagrams -> {"coming", "held", "freed"}]
    BY <1>1 DEF Inv, TypeOK
<1>8. DatagramsHeld'
    BY <1>1, Leaks, DatagramsKept DEF Inv
<1>9. QED BY <1>1, <1>3, <1>5, <1>6, <1>7, <1>8, SlotWritten

\* tcp_receive moves the tail and returns the bytes to Java.
LEMMA ReceiveAdvanceStep ==
    ASSUME Inv, ReceiveAdvance
    PROVE  Inv'
<1>1. /\ call.op = "receive" /\ InCall("receive", "advance") /\ call.fd \in Fds /\ Return
      /\ call \in ReceiveCall
      /\ slots' = [slots EXCEPT ![call.fd].tail = (@ + Len(call.data)) % Size]
      /\ stream' = [stream EXCEPT ![call.fd].got = @ \o call.data]
      /\ UNCHANGED <<handles, pcbs, pbufs>>
    BY CallSlot, CallKinds DEF ReceiveAdvance, InCall, Inv, TypeOK
<1>2. PICK fd \in Fds : fd = call.fd
    BY <1>1
<1>3. PICK data \in Seq(Nat) : data = call.data
    BY <1>1 DEF ReceiveCall
<1>4. PICK n \in Nat : n = Len(data)
    OBVIOUS
<1>5. PICK s \in Socket : s = slots[fd]
    BY DEF Inv, TypeOK
<1>6. slots \in [Fds -> Socket] /\ stream \in [Fds -> Stream]
    BY DEF Inv, TypeOK
<1>7. /\ Tcp(fd) /\ Open(fd)
      /\ n <= recv_buf_used(s) /\ data = Bytes(s, n) /\ recv_buf_used(s) \in Nat
    <2>1. Used(fd) = recv_buf_used(s) /\ Slot = s
        BY <1>2, <1>5 DEF Used, Slot
    <2>2. QED BY <1>1, <1>2, <1>3, <1>4, <2>1, UsedBytes
                 DEF Inv, CallOK, Tcp, Open, Indexes
<1> DEFINE t == [s EXCEPT !.tail = (@ + n) % Size]
<1>8. /\ t \in Socket
      /\ t.type = s.type /\ t.state = s.state /\ t.pcb = s.pcb
      /\ t.eof = s.eof /\ t.dgram = s.dgram
      /\ recv_buf_used(t) = recv_buf_used(s) - n
      /\ Bytes(s, recv_buf_used(s)) = Bytes(s, n) \o Bytes(t, recv_buf_used(t))
    <2>1. n \in 0..recv_buf_used(s)
        BY <1>7
    <2>2. QED BY <2>1, AdvancedRing
<1>9. slots' = [slots EXCEPT ![fd] = t]
    BY <1>1, <1>2, <1>3, <1>4, <1>5
<1> HIDE DEF t
<1>10. /\ slots' \in [Fds -> Socket] /\ slots'[fd] = t
       /\ \A g \in Fds \ {fd} : slots'[g] = slots[g]
    BY <1>6, <1>8, <1>9
<1>11. stream[fd] \in Stream /\ stream[fd].got \o data \in Seq(Nat)
    <2>1. stream[fd] \in Stream
        BY <1>6
    <2>2. stream[fd].got \in Seq(Nat)
        BY <2>1 DEF Stream
    <2>3. QED BY <2>1, <2>2, ConcatProperties
<1>12. /\ stream' \in [Fds -> Stream]
       /\ stream'[fd].kept = stream[fd].kept /\ stream'[fd].over = stream[fd].over
       /\ stream'[fd].got = stream[fd].got \o data
       /\ \A g \in Fds \ {fd} : stream'[g] = stream[g]
    BY <1>1, <1>2, <1>3, <1>6, <1>11 DEF Stream
<1>13. Ring(fd)'
    <2>1. /\ stream[fd].kept = stream[fd].got \o Bytes(s, recv_buf_used(s))
          /\ stream[fd].over => s.eof /\ recv_buf_used(s) = 0
        BY <1>5, <1>7 DEF Inv, SlotOK, Ring, Used
    <2>2. recv_buf_used(t) \in 0..Size
        BY <1>8, UsedBytes, SocketAssumption DEF Indexes
    <2>3. /\ stream[fd].got \in Seq(Nat)
          /\ Bytes(t, recv_buf_used(t)) \in Seq(Nat)
        BY <1>8, <1>11, <2>2, BytesType DEF Stream
    <2>4. stream[fd].kept = (stream[fd].got \o data) \o Bytes(t, recv_buf_used(t))
        <3>1. /\ stream[fd].kept = stream[fd].got \o (Bytes(s, n) \o Bytes(t, recv_buf_used(t)))
              /\ data = Bytes(s, n)
            BY <1>7, <1>8, <2>1
        <3>2. QED BY <2>3, <3>1, BytesJoin
    <2>5. stream[fd].over => t.eof /\ recv_buf_used(t) = 0
        BY <1>7, <1>8, <2>1
    <2>6. QED BY <1>10, <1>12, <2>4, <2>5 DEF Ring, Used
<1>14. pbufs' \in [Datagrams -> {"coming", "held", "freed"}]
    BY <1>1 DEF Inv, TypeOK
<1>15. DatagramsHeld'
    <2>1. \A g \in Fds : slots'[g].dgram = slots[g].dgram
        BY <1>5, <1>8, <1>10
    <2>2. QED BY <1>1, <2>1, Leaks, DatagramsKept DEF Inv
<1>16. QED BY <1>1, <1>5, <1>7, <1>8, <1>10, <1>12, <1>13, <1>14, <1>15, SlotWritten

\* udp_receive copies the datagram out, frees it and clears the slot.
LEMMA ReceiveFromLockedStep ==
    ASSUME Inv, ReceiveFromLocked
    PROVE  Inv'
<1>1. /\ call.op = "receiveFrom" /\ InCall("receiveFrom", "lock") /\ call.fd \in Fds /\ Return
      /\ slots' = [slots EXCEPT ![call.fd].dgram = None]
      /\ pbufs' = [pbufs EXCEPT ![Slot.dgram] = "freed"]
      /\ UNCHANGED <<handles, pcbs, stream>>
    BY CallSlot DEF ReceiveFromLocked, InCall, Inv, TypeOK
<1>2. PICK fd \in Fds : fd = call.fd
    BY <1>1
<1>3. PICK d : d = slots[fd].dgram
    OBVIOUS
<1>4. /\ slots \in [Fds -> Socket] /\ stream \in [Fds -> Stream]
      /\ pbufs \in [Datagrams -> {"coming", "held", "freed"}]
    BY DEF Inv, TypeOK
<1>5. d # None /\ d \in Datagrams /\ pbufs' = [pbufs EXCEPT ![d] = "freed"]
    BY <1>1, <1>2, <1>3, <1>4 DEF Inv, CallOK, Slot, Socket
<1>6. /\ slots' \in [Fds -> Socket]
      /\ slots'[fd].dgram = None /\ slots'[fd].type = slots[fd].type
      /\ slots'[fd].state = slots[fd].state /\ slots'[fd].pcb = slots[fd].pcb
      /\ slots'[fd].eof = slots[fd].eof /\ slots'[fd].buf = slots[fd].buf
      /\ slots'[fd].head = slots[fd].head /\ slots'[fd].tail = slots[fd].tail
      /\ \A g \in Fds \ {fd} : slots'[g] = slots[g]
    <2>1. PICK u \in Socket : u = slots[fd]
        BY <1>4
    <2> DEFINE s == [u EXCEPT !.dgram = None]
    <2>2. /\ s \in Socket /\ s.dgram = None /\ s.type = u.type /\ s.state = u.state
          /\ s.pcb = u.pcb /\ s.eof = u.eof /\ s.buf = u.buf
          /\ s.head = u.head /\ s.tail = u.tail
        BY DEF Socket
    <2>3. slots' = [slots EXCEPT ![fd] = s]
        BY <1>1, <1>2, <1>4, <2>1
    <2> HIDE DEF s
    <2>4. QED BY <1>4, <2>1, <2>2, <2>3
<1>7. /\ pbufs' \in [Datagrams -> {"coming", "held", "freed"}]
      /\ \A e \in Datagrams : pbufs'[e] = "held" <=> pbufs[e] = "held" /\ d # e
    BY <1>4, <1>5
<1>8. DatagramsHeld'
    <2>1. DatagramsHeld
        BY Leaks DEF Inv
    <2>2. \A f, g \in Fds : f # g /\ slots'[f].dgram # None => slots'[f].dgram # slots'[g].dgram
        BY <1>6, <2>1 DEF DatagramsHeld
    <2>3. ASSUME NEW e
          PROVE  e \in {h \in Datagrams : pbufs'[h] = "held"} <=>
                 e \in {slots'[g].dgram : g \in Fds} \ {None}
        <3>1. e \in {h \in Datagrams : pbufs'[h] = "held"} <=>
                 e \in {slots[g].dgram : g \in Fds} \ {None} /\ d # e
            BY <1>7, <2>1 DEF DatagramsHeld
        <3>2. e \in {slots[g].dgram : g \in Fds} \ {None} /\ d # e <=>
                 \E g \in Fds \ {fd} : e = slots[g].dgram /\ e # None
            BY <1>3, <1>5, <2>1 DEF DatagramsHeld
        <3>3. QED BY <1>6, <3>1, <3>2
    <2>4. QED BY <2>2, <2>3 DEF DatagramsHeld
<1>9. Open(fd)
    <2>1. ~Open(fd) => slots[fd].dgram = None
        BY DEF Inv, SlotOK
    <2>2. QED BY <1>3, <1>5, <2>1
<1>10. Ring(fd)'
    <2>1. Ring(fd)
        BY DEF Inv, SlotOK
    <2>2. recv_buf_used(slots'[fd]) = recv_buf_used(slots[fd])
        BY <1>6 DEF recv_buf_used
    <2>3. \A n : Bytes(slots'[fd], n) = Bytes(slots[fd], n)
        BY <1>6 DEF Bytes
    <2>4. Used(fd)' = Used(fd) /\ Bytes(slots'[fd], Used(fd)) = Bytes(slots[fd], Used(fd))
        BY <2>2, <2>3 DEF Used
    <2>5. Tcp(fd)' = Tcp(fd) /\ stream' = stream
        BY <1>1, <1>6 DEF Tcp
    <2>6. QED BY <1>6, <2>1, <2>4, <2>5 DEF Ring
<1>11. stream' \in [Fds -> Stream] /\ \A g \in Fds \ {fd} : stream'[g] = stream[g]
    BY <1>1, <1>4
<1>12. QED BY <1>1, <1>6, <1>7, <1>8, <1>9, <1>10, <1>11, SlotWritten

-----------------------------------------------------------------------------
(* Steps of the callbacks.                                                  *)

\* What a callback may do to a slot in which a native has found something.
AddsTo(u, s) ==
    /\ s.type = u.type
    /\ u.eof => s.eof
    /\ u.state = "error" => s.state = "error"
    /\ u.dgram # None => s.dgram # None
    /\ recv_buf_used(u) <= recv_buf_used(s)
    /\ \A k \in 0..recv_buf_used(u) : Bytes(s, k) = Bytes(u, k)

\* A callback changes its pcb p and the slot fd that p calls back to: it may only add
\* to what a native has found there, and what it does to a pcb in use is lwIP's.
LEMMA CallbackStep ==
    ASSUME Inv, NEW p \in Pcbs, NEW fd \in Fds, pcbs[p].arg = fd,
           UNCHANGED <<handles, call>>,
           NEW s \in Socket, slots' = [slots EXCEPT ![fd] = s],
           NEW u, u = slots[fd], AddsTo(u, s),
           (s.pcb = p /\ pcbs'[p].arg = fd) \/ s.pcb = None,
           pcbs' \in [Pcbs -> Pcb], \A q \in Pcbs \ {p} : pcbs'[q] = pcbs[q], PcbOK(p)',
           stream' \in [Fds -> Stream], \A g \in Fds \ {fd} : stream'[g] = stream[g],
           Ring(fd)',
           pbufs' \in [Datagrams -> {"coming", "held", "freed"}], DatagramsHeld'
    PROVE  Inv'
<1> USE DEF AddsTo
<1>1. slots \in [Fds -> Socket] /\ fd # None
    BY SocketAssumption DEF Inv, TypeOK
<1>2. /\ slots' \in [Fds -> Socket] /\ slots'[fd] = s
      /\ \A g \in Fds \ {fd} : slots'[g] = slots[g]
    BY <1>1
<1>3. slots[fd].pcb = p /\ Open(fd)
    BY <1>1 DEF Inv, PcbOK
<1>4. TypeOK'
    BY <1>2 DEF Inv, TypeOK
<1>5. SlotsAccounted'
    <2>1. SlotsAccounted
        BY Leaks DEF Inv
    <2>2. \A g \in Fds : slots'[g].type = slots[g].type
        BY <1>2
    <2>3. InUse' = InUse
        BY DEF InUse
    <2>4. QED BY <2>1, <2>2, <2>3, SlotsKept
<1>6. /\ \A g \in Fds \ {fd} : slots[g].pcb # p
      /\ \A q \in Pcbs \ {p} : pcbs[q].arg # fd
    BY <1>1, <1>3, OtherPcbs, OwnPcb
<1>7. CallOK'
    <2>1. CASE call.op \in {"connect", "send", "receive", "close", "receiveFrom"} /\ call.fd = fd
        <3>1. Slot = slots[fd] /\ Slot' = s /\ Used(call.fd) = recv_buf_used(slots[fd])
              /\ Used(call.fd)' = recv_buf_used(s)
            BY <1>2, <2>1 DEF Slot, Used
        <3>2. recv_buf_used(slots[fd]) \in Nat /\ recv_buf_used(s) \in Nat
            BY <1>1, UsedBytes DEF Indexes
        <3>3. ~InCall("close", "free") /\ ~InCall("connect", "free")
            <4>1. p # None
                BY SocketAssumption
            <4>2. QED BY <1>1, <1>3, <2>1, <4>1 DEF Inv, CallOK, Slot
        <3>4. InCall("receive", "error") =>
                 recv_buf_used(s) # 0 \/ s.eof \/ s.state = "error"
            BY <3>1, <3>2 DEF Inv, CallOK
        <3>5. InCall("receive", "copy") => recv_buf_used(s) # 0 \/ s.eof
            BY <3>1, <3>2 DEF Inv, CallOK
        <3>6. InCall("receive", "advance") =>
                 Len(call.data) <= recv_buf_used(s) /\ call.data = Bytes(s, Len(call.data))
            <4> SUFFICES ASSUME InCall("receive", "advance")
                         PROVE  /\ Len(call.data) <= recv_buf_used(s)
                                /\ call.data = Bytes(s, Len(call.data))
                OBVIOUS
            <4>1. PICK n : n = Len(call.data)
                OBVIOUS
            <4>2. call \in ReceiveCall
                BY CallKinds DEF Inv, TypeOK, InCall
            <4>3. n \in Nat /\ n <= recv_buf_used(slots[fd]) /\ call.data = Bytes(slots[fd], n)
                BY <3>1, <4>1, <4>2 DEF Inv, CallOK, ReceiveCall
            <4>4. n \in 0..recv_buf_used(slots[fd]) /\ n <= recv_buf_used(s)
                BY <3>2, <4>3
            <4>5. QED BY <4>1, <4>3, <4>4
        <3>7. QED BY <1>2, <2>1, <3>1, <3>3, <3>4, <3>5, <3>6 DEF Inv, CallOK, InCall, Tcp
    <2>2. CASE call.op \in {"connect", "send", "receive", "close", "receiveFrom"} /\ call.fd # fd
        <3>1. call.fd \in Fds \ {fd}
            BY <2>2, CallSlot DEF Inv, TypeOK
        <3>2. Slot' = Slot /\ Used(call.fd)' = Used(call.fd)
            BY <1>2, <3>1 DEF Slot, Used
        <3>3. Slot.pcb # None => pcbs'[Slot.pcb] = pcbs[Slot.pcb]
            BY <1>6, <3>1, OwnPcb DEF Slot
        <3>4. Tcp(call.fd)' = Tcp(call.fd)
            BY <1>2, <3>1 DEF Tcp
        <3>5. QED BY <3>2, <3>3, <3>4 DEF Inv, CallOK, InCall
    <2>3. CASE call.op \notin {"connect", "send", "receive", "close", "receiveFrom"}
        BY <2>3 DEF CallOK, InCall
    <2>4. QED BY <2>1, <2>2, <2>3
<1>8. SlotOK(fd)'
    <2>1. Owned(fd)'
        BY <1>2 DEF Owned
    <2>2. Open(fd)'
        BY <1>2, <1>3 DEF Open
    <2>3. QED BY <1>2, <2>1, <2>2 DEF SlotOK
<1>9. QED BY <1>2, <1>4, <1>5, <1>6, <1>7, <1>8, OneSlotStep

\* The pcb of a callback is in use, and so is the slot it calls back to.
LEMMA SlotOfPcb ==
    ASSUME Inv, NEW p \in Pcbs, pcbs[p].phase \in {"syn", "open", "bound"}
    PROVE  /\ SlotOf(p) \in Fds /\ SlotOf(p) = pcbs[p].arg /\ SlotOf(p) # None
           /\ slots[SlotOf(p)] \in Socket /\ slots[SlotOf(p)].pcb = p
           /\ Open(SlotOf(p))
           /\ slots[SlotOf(p)].eof => pcbs[p].fin
           /\ pcbs[p].phase = "syn" => slots[SlotOf(p)].state # "error"
<1>1. pcbs[p] \in Pcb /\ pcbs[p].arg # None /\ p # None
    BY SocketAssumption DEF Inv, TypeOK, PcbOK
<1>2. pcbs[p].arg \in Fds
    BY <1>1 DEF Pcb
<1>3. /\ slots[pcbs[p].arg].pcb = p /\ Open(pcbs[p].arg)
      /\ slots[pcbs[p].arg].eof => pcbs[p].fin
      /\ pcbs[p].phase = "syn" => slots[pcbs[p].arg].state # "error"
    BY <1>1 DEF Inv, PcbOK
<1>4. QED BY <1>1, <1>2, <1>3 DEF Inv, TypeOK, SlotOf

\* The connection is open, or has failed with an error.
LEMMA ConnectedStep ==
    ASSUME Inv, NEW p \in Pcbs, NEW err \in Errs, on_tcp_connected(p, err)
    PROVE  Inv'
<1> DEFINE state == IF err = "ok" THEN "connected" ELSE "error"
<1>1. /\ pcbs[p].phase = "syn"
      /\ pcbs' = [pcbs EXCEPT ![p].phase = "open"]
      /\ slots' = [slots EXCEPT ![SlotOf(p)].state = state]
      /\ UNCHANGED <<handles, call, pbufs, stream>>
    BY DEF on_tcp_connected
<1>2. PICK fd \in Fds : fd = SlotOf(p)
    BY <1>1, SlotOfPcb
<1>3. PICK u \in Socket : u = slots[fd]
    BY DEF Inv, TypeOK
<1>4. /\ pcbs[p].arg = fd /\ fd # None /\ u.pcb = p /\ u.type # "unused"
      /\ u.state # "error"
      /\ u.eof => pcbs[p].fin
    BY <1>1, <1>2, <1>3, SlotOfPcb DEF Open
<1> DEFINE s == [u EXCEPT !.state = state]
<1>5. /\ s \in Socket
      /\ s.type = u.type /\ s.pcb = p /\ s.eof = u.eof
      /\ s.dgram = u.dgram /\ s.head = u.head /\ s.tail = u.tail /\ s.buf = u.buf
    BY <1>4 DEF Socket
<1>6. slots' = [slots EXCEPT ![fd] = s]
    BY <1>1, <1>2, <1>3
<1> HIDE DEF s
<1>7. recv_buf_used(s) = recv_buf_used(u) /\ \A n : Bytes(s, n) = Bytes(u, n)
    BY <1>5 DEF recv_buf_used, Bytes
<1>8. /\ slots \in [Fds -> Socket] /\ pcbs \in [Pcbs -> Pcb] /\ stream \in [Fds -> Stream]
      /\ pbufs \in [Datagrams -> {"coming", "held", "freed"}]
    BY DEF Inv, TypeOK
<1>9. slots'[fd] = s /\ \A g \in Fds \ {fd} : slots'[g] = slots[g]
    BY <1>6, <1>8
<1>10. /\ pcbs' \in [Pcbs -> Pcb]
       /\ pcbs'[p].phase = "open" /\ pcbs'[p].arg = fd /\ pcbs'[p].fin = pcbs[p].fin
       /\ \A q \in Pcbs \ {p} : pcbs'[q] = pcbs[q]
    BY <1>1, <1>4, <1>8 DEF Pcb
<1>11. PcbOK(p)'
    BY <1>4, <1>5, <1>9, <1>10 DEF PcbOK, Open
<1>12. Ring(fd)'
    <2>1. Ring(fd)
        BY DEF Inv, SlotOK
    <2>2. Used(fd)' = Used(fd) /\ Bytes(s, Used(fd)) = Bytes(u, Used(fd))
        BY <1>3, <1>7, <1>9 DEF Used
    <2>3. Tcp(fd)' = Tcp(fd) /\ stream' = stream
        BY <1>1, <1>3, <1>5, <1>9 DEF Tcp
    <2>4. QED BY <1>3, <1>5, <1>9, <2>1, <2>2, <2>3 DEF Ring
<1>13. DatagramsHeld'
    <2>1. \A g \in Fds : slots'[g].dgram = slots[g].dgram
        BY <1>3, <1>5, <1>9
    <2>2. QED BY <1>1, <2>1, Leaks, DatagramsKept DEF Inv
<1>14. AddsTo(u, s)
    <2>1. recv_buf_used(u) \in Nat
        BY UsedBytes DEF Indexes
    <2>2. QED BY <1>4, <1>5, <1>7, <2>1 DEF AddsTo
<1>15. stream' \in [Fds -> Stream] /\ pbufs' \in [Datagrams -> {"coming", "held", "freed"}]
    BY <1>1, <1>8
<1>16. UNCHANGED <<handles, call>> /\ \A g \in Fds \ {fd} : stream'[g] = stream[g]
    BY <1>1
<1>17. QED BY <1>3, <1>4, <1>5, <1>6, <1>7, <1>10, <1>11, <1>12, <1>13, <1>14, <1>15, <1>16,
              CallbackStep

\* Bytes arrive: what fits is added to the ring.
LEMMA RecvStep ==
    ASSUME Inv, NEW p \in Pcbs, NEW n \in 1..MaxSent, on_tcp_recv(p, n)
    PROVE  Inv'
<1>1. PICK fd \in Fds : fd = SlotOf(p)
    BY SlotOfPcb DEF on_tcp_recv
<1>2. PICK u \in Socket : u = slots[fd]
    BY DEF Inv, TypeOK
<1>3. PICK copied : copied = Smaller(n, recv_buf_free(u))
    OBVIOUS
<1>4. PICK first : first = pcbs[p].sent
    OBVIOUS
<1>5. /\ pcbs[p].phase = "open" /\ ~pcbs[p].fin
      /\ n <= pcbs[p].wnd /\ first + n <= MaxSent
      /\ slots' = [slots EXCEPT ![fd] = Filled(u, first, copied)]
      /\ pcbs' = [pcbs EXCEPT ![p].sent = @ + n, ![p].wnd = @ - n + copied]
      /\ stream' = [stream EXCEPT ![fd].kept = @ \o [i \in 1..copied |-> first + i]]
      /\ UNCHANGED <<handles, call, pbufs>>
    BY <1>1, <1>2, <1>3, <1>4 DEF on_tcp_recv
<1>6. /\ pcbs[p].arg = fd /\ fd # None /\ u.pcb = p /\ u.type # "unused"
      /\ ~u.eof
    BY <1>1, <1>2, <1>5, SlotOfPcb DEF Open
<1>7. /\ slots \in [Fds -> Socket] /\ pcbs \in [Pcbs -> Pcb] /\ stream \in [Fds -> Stream]
      /\ pbufs \in [Datagrams -> {"coming", "held", "freed"}]
    BY DEF Inv, TypeOK
<1>8. pcbs[p] \in Pcb /\ first \in Nat /\ n \in Nat
    <2>1. pcbs[p] \in Pcb
        BY <1>7
    <2>2. QED BY <1>4, <2>1, SocketAssumption DEF Pcb
<1>9. /\ copied \in Nat /\ copied <= n /\ copied <= recv_buf_free(u)
      /\ recv_buf_used(u) \in Nat
    <2>1. /\ recv_buf_used(u) \in 0..(Size - 1)
          /\ recv_buf_free(u) = Size - 1 - recv_buf_used(u)
        BY UsedBytes DEF Indexes
    <2>2. recv_buf_free(u) \in Nat
        BY <2>1, SocketAssumption
    <2>3. QED BY <1>3, <1>8, <2>1, <2>2 DEF Smaller
<1> DEFINE s == Filled(u, first, copied)
           new == [i \in 1..copied |-> first + i]
<1>10. /\ s \in Socket
       /\ s.type = u.type /\ s.state = u.state /\ s.pcb = u.pcb
       /\ s.eof = u.eof /\ s.dgram = u.dgram
       /\ recv_buf_used(s) = recv_buf_used(u) + copied
       /\ \A k \in 0..recv_buf_used(u) : Bytes(s, k) = Bytes(u, k)
       /\ Bytes(s, recv_buf_used(s)) = Bytes(u, recv_buf_used(u)) \o new
    BY <1>8, <1>9, FilledRing
<1>11. slots' = [slots EXCEPT ![fd] = s]
    BY <1>5
<1>12. stream' = [stream EXCEPT ![fd].kept = @ \o new]
    BY <1>5
<1>13. new \in Seq(Nat)
    <2>1. new \in [1..copied -> Nat]
        BY <1>8, <1>9
    <2>2. QED BY <1>9, <2>1, SeqDef
<1> HIDE DEF s, new
<1>14. slots'[fd] = s /\ \A g \in Fds \ {fd} : slots'[g] = slots[g]
    BY <1>7, <1>11
<1>15. /\ pcbs' \in [Pcbs -> Pcb]
       /\ pcbs'[p].phase = "open" /\ pcbs'[p].arg = fd
       /\ \A q \in Pcbs \ {p} : pcbs'[q] = pcbs[q]
    <2>1. PICK wnd : wnd = pcbs[p].wnd - n + copied
        OBVIOUS
    <2>2. pcbs' = [pcbs EXCEPT ![p].sent = first + n, ![p].wnd = wnd]
        BY <1>4, <1>5, <2>1
    <2>3. wnd \in 0..Window
        <3>1. pcbs[p].wnd \in 0..Window /\ n <= pcbs[p].wnd
            BY <1>5, <1>8 DEF Pcb
        <3>2. QED BY <1>8, <1>9, <2>1, <3>1, SocketAssumption
    <2>4. first + n \in 0..MaxSent
        <3>1. first + n <= MaxSent
            BY <1>5
        <3>2. QED BY <1>8, <3>1, SocketAssumption
    <2>5. pcbs[p].phase = "open" /\ pcbs[p].arg = fd
        BY <1>5, <1>6
    <2>6. PICK c \in Pcb : c = pcbs[p]
        BY <1>8
    <2> DEFINE r == [c EXCEPT !.sent = first + n, !.wnd = wnd]
    <2>7. r \in Pcb /\ r.phase = "open" /\ r.arg = fd
        BY <2>3, <2>4, <2>5, <2>6 DEF Pcb
    <2>8. pcbs' = [pcbs EXCEPT ![p] = r]
        BY <1>7, <2>2, <2>6
    <2> HIDE DEF r
    <2>9. QED BY <1>7, <2>7, <2>8
<1>16. PcbOK(p)'
    BY <1>6, <1>10, <1>14, <1>15 DEF PcbOK, Open
<1>17. /\ stream[fd].kept \in Seq(Nat) /\ stream[fd].got \in Seq(Nat)
       /\ stream[fd].kept \o new \in Seq(Nat)
    <2>1. stream[fd] \in Stream
        BY <1>7
    <2>2. stream[fd].kept \in Seq(Nat) /\ stream[fd].got \in Seq(Nat)
        BY <2>1 DEF Stream
    <2>3. QED BY <1>13, <2>2, ConcatProperties
<1>18. /\ stream' \in [Fds -> Stream]
       /\ stream'[fd].kept = stream[fd].kept \o new
       /\ stream'[fd].got = stream[fd].got /\ stream'[fd].over = stream[fd].over
       /\ \A g \in Fds \ {fd} : stream'[g] = stream[g]
    BY <1>7, <1>12, <1>17 DEF Stream
<1>19. Ring(fd)'
    <2> SUFFICES ASSUME s.type = "tcp"
                 PROVE  Ring(fd)'
        BY <1>14 DEF Ring, Tcp
    <2>1. /\ stream[fd].kept = stream[fd].got \o Bytes(u, recv_buf_used(u))
          /\ ~stream[fd].over
        BY <1>2, <1>6, <1>10 DEF Inv, SlotOK, Ring, Tcp, Used
    <2>2. recv_buf_used(u) \in 0..Size
        BY UsedBytes, SocketAssumption DEF Indexes
    <2>3. Bytes(u, recv_buf_used(u)) \in Seq(Nat)
        BY <2>2, BytesType
    <2>4. stream'[fd].kept = stream'[fd].got \o Bytes(s, recv_buf_used(s))
        <3>1. (stream[fd].got \o Bytes(u, recv_buf_used(u))) \o new =
                 stream[fd].got \o (Bytes(u, recv_buf_used(u)) \o new)
            <4>1. PICK a \in Seq(Nat) : a = stream[fd].got
                BY <1>17
            <4>2. PICK b \in Seq(Nat) : b = Bytes(u, recv_buf_used(u))
                BY <2>3
            <4>3. PICK c \in Seq(Nat) : c = new
                BY <1>13
            <4>4. (a \o b) \o c = a \o (b \o c)
                BY BytesJoin
            <4>5. QED BY <4>1, <4>2, <4>3, <4>4
        <3>2. stream'[fd].kept = (stream[fd].got \o Bytes(u, recv_buf_used(u))) \o new
            BY <1>18, <2>1
        <3>3. Bytes(u, recv_buf_used(u)) \o new = Bytes(s, recv_buf_used(s))
            BY <1>10
        <3>4. QED BY <1>18, <3>1, <3>2, <3>3
    <2>5. QED BY <1>14, <1>18, <2>1, <2>4 DEF Ring, Used
<1>20. DatagramsHeld'
    <2>1. \A g \in Fds : slots'[g].dgram = slots[g].dgram
        BY <1>2, <1>10, <1>14
    <2>2. QED BY <1>5, <2>1, Leaks, DatagramsKept DEF Inv
<1>21. AddsTo(u, s)
    <2>1. recv_buf_used(u) <= recv_buf_used(s)
        BY <1>9, <1>10
    <2>2. QED BY <1>10, <2>1 DEF AddsTo
<1>22. pbufs' \in [Datagrams -> {"coming", "held", "freed"}] /\ UNCHANGED <<handles, call>>
    BY <1>5, <1>7
<1>23. QED BY <1>2, <1>6, <1>10, <1>11, <1>15, <1>16, <1>18, <1>19, <1>20, <1>21, <1>22,
              CallbackStep

\* Bytes arrive with an error, and only the state of the slot changes.
LEMMA RecvErrorStep ==
    ASSUME Inv, NEW p \in Pcbs, NEW err \in Errs, on_tcp_recv_error(p, err)
    PROVE  Inv'
<1>1. /\ pcbs[p].phase = "open"
      /\ slots' = [slots EXCEPT ![SlotOf(p)].state = "error"]
      /\ UNCHANGED <<handles, call, pcbs, pbufs, stream>>
    BY DEF on_tcp_recv_error
<1>2. PICK fd \in Fds : fd = SlotOf(p)
    BY <1>1, SlotOfPcb
<1>3. PICK u \in Socket : u = slots[fd]
    BY DEF Inv, TypeOK
<1>4. pcbs[p].arg = fd /\ fd # None /\ u.pcb = p /\ u.type # "unused"
    BY <1>1, <1>2, <1>3, SlotOfPcb DEF Open
<1> DEFINE s == [u EXCEPT !.state = "error"]
<1>5. /\ s \in Socket
      /\ s.type = u.type /\ s.state = "error" /\ s.pcb = p /\ s.eof = u.eof
      /\ s.dgram = u.dgram /\ s.head = u.head /\ s.tail = u.tail /\ s.buf = u.buf
    BY <1>4 DEF Socket
<1>6. slots' = [slots EXCEPT ![fd] = s]
    BY <1>1, <1>2, <1>3
<1> HIDE DEF s
<1>7. recv_buf_used(s) = recv_buf_used(u) /\ \A n : Bytes(s, n) = Bytes(u, n)
    BY <1>5 DEF recv_buf_used, Bytes
<1>8. slots \in [Fds -> Socket]
    BY DEF Inv, TypeOK
<1>9. slots'[fd] = s /\ \A g \in Fds \ {fd} : slots'[g] = slots[g]
    BY <1>6, <1>8
<1>10. PcbOK(p)'
    <2>1. PcbOK(p)
        BY DEF Inv
    <2>2. QED BY <1>1, <1>3, <1>4, <1>5, <1>9, <2>1 DEF PcbOK, Open
<1>11. Ring(fd)'
    <2>1. Ring(fd)
        BY DEF Inv, SlotOK
    <2>2. Used(fd)' = Used(fd) /\ Bytes(s, Used(fd)) = Bytes(u, Used(fd))
        BY <1>3, <1>7, <1>9 DEF Used
    <2>3. Tcp(fd)' = Tcp(fd) /\ stream' = stream
        BY <1>1, <1>3, <1>5, <1>9 DEF Tcp
    <2>4. QED BY <1>3, <1>5, <1>9, <2>1, <2>2, <2>3 DEF Ring
<1>12. DatagramsHeld'
    <2>1. \A g \in Fds : slots'[g].dgram = slots[g].dgram
        BY <1>3, <1>5, <1>9
    <2>2. QED BY <1>1, <2>1, Leaks, DatagramsKept DEF Inv
<1>13. AddsTo(u, s)
    <2>1. recv_buf_used(u) \in Nat
        BY UsedBytes DEF Indexes
    <2>2. QED BY <1>5, <1>7, <2>1 DEF AddsTo
<1>14. /\ pcbs' \in [Pcbs -> Pcb] /\ pcbs'[p].arg = fd
       /\ \A q \in Pcbs \ {p} : pcbs'[q] = pcbs[q]
       /\ stream' \in [Fds -> Stream] /\ \A g \in Fds \ {fd} : stream'[g] = stream[g]
       /\ pbufs' \in [Datagrams -> {"coming", "held", "freed"}]
       /\ UNCHANGED <<handles, call>>
    BY <1>1, <1>4 DEF Inv, TypeOK
<1>15. QED BY <1>3, <1>4, <1>5, <1>6, <1>10, <1>11, <1>12, <1>13, <1>14, CallbackStep

\* The peer has closed the connection.
LEMMA RecvEofStep ==
    ASSUME Inv, NEW p \in Pcbs, on_tcp_recv_eof(p)
    PROVE  Inv'
<1>1. /\ pcbs[p].phase = "open"
      /\ pcbs' = [pcbs EXCEPT ![p].fin = TRUE]
      /\ slots' = [slots EXCEPT ![SlotOf(p)].eof = TRUE]
      /\ UNCHANGED <<handles, call, pbufs, stream>>
    BY DEF on_tcp_recv_eof
<1>2. PICK fd \in Fds : fd = SlotOf(p)
    BY <1>1, SlotOfPcb
<1>3. PICK u \in Socket : u = slots[fd]
    BY DEF Inv, TypeOK
<1>4. pcbs[p].arg = fd /\ fd # None /\ u.pcb = p /\ u.type # "unused"
    BY <1>1, <1>2, <1>3, SlotOfPcb DEF Open
<1> DEFINE s == [u EXCEPT !.eof = TRUE]
<1>5. /\ s \in Socket
      /\ s.type = u.type /\ s.state = u.state /\ s.pcb = p /\ s.eof = TRUE
      /\ s.dgram = u.dgram /\ s.head = u.head /\ s.tail = u.tail /\ s.buf = u.buf
    BY <1>4 DEF Socket
<1>6. slots' = [slots EXCEPT ![fd] = s]
    BY <1>1, <1>2, <1>3
<1> HIDE DEF s
<1>7. recv_buf_used(s) = recv_buf_used(u) /\ \A n : Bytes(s, n) = Bytes(u, n)
    BY <1>5 DEF recv_buf_used, Bytes
<1>8. /\ slots \in [Fds -> Socket] /\ pcbs \in [Pcbs -> Pcb] /\ stream \in [Fds -> Stream]
      /\ pbufs \in [Datagrams -> {"coming", "held", "freed"}]
    BY DEF Inv, TypeOK
<1>9. slots'[fd] = s /\ \A g \in Fds \ {fd} : slots'[g] = slots[g]
    BY <1>6, <1>8
<1>10. /\ pcbs' \in [Pcbs -> Pcb]
       /\ pcbs'[p].phase = "open" /\ pcbs'[p].arg = fd /\ pcbs'[p].fin
       /\ \A q \in Pcbs \ {p} : pcbs'[q] = pcbs[q]
    <2>1. PICK c \in Pcb : c = pcbs[p]
        BY <1>8
    <2> DEFINE r == [c EXCEPT !.fin = TRUE]
    <2>2. r \in Pcb /\ r.phase = "open" /\ r.arg = fd /\ r.fin
        BY <1>1, <1>4, <2>1 DEF Pcb
    <2>3. pcbs' = [pcbs EXCEPT ![p] = r]
        BY <1>1, <1>8, <2>1
    <2> HIDE DEF r
    <2>4. QED BY <1>8, <2>2, <2>3
<1>11. PcbOK(p)'
    BY <1>4, <1>5, <1>9, <1>10 DEF PcbOK, Open
<1>12. Ring(fd)'
    <2>1. Ring(fd)
        BY DEF Inv, SlotOK
    <2>2. Used(fd)' = Used(fd) /\ Bytes(s, Used(fd)) = Bytes(u, Used(fd))
        BY <1>3, <1>7, <1>9 DEF Used
    <2>3. Tcp(fd)' = Tcp(fd) /\ stream' = stream
        BY <1>1, <1>3, <1>5, <1>9 DEF Tcp
    <2>4. QED BY <1>3, <1>5, <1>9, <2>1, <2>2, <2>3 DEF Ring
<1>13. DatagramsHeld'
    <2>1. \A g \in Fds : slots'[g].dgram = slots[g].dgram
        BY <1>3, <1>5, <1>9
    <2>2. QED BY <1>1, <2>1, Leaks, DatagramsKept DEF Inv
<1>14. AddsTo(u, s)
    <2>1. recv_buf_used(u) \in Nat
        BY UsedBytes DEF Indexes
    <2>2. QED BY <1>5, <1>7, <2>1 DEF AddsTo
<1>15. stream' \in [Fds -> Stream] /\ pbufs' \in [Datagrams -> {"coming", "held", "freed"}]
    BY <1>1, <1>8
<1>16. UNCHANGED <<handles, call>> /\ \A g \in Fds \ {fd} : stream'[g] = stream[g]
    BY <1>1
<1>17. QED BY <1>3, <1>4, <1>5, <1>6, <1>7, <1>10, <1>11, <1>12, <1>13, <1>14, <1>15, <1>16,
              CallbackStep

\* lwIP has freed the pcb, which the slot forgets.
LEMMA ErrStep ==
    ASSUME Inv, NEW p \in Pcbs, on_tcp_err(p)
    PROVE  Inv'
<1>1. /\ pcbs[p].phase \in {"syn", "open", "bound"}
      /\ pcbs' = [pcbs EXCEPT ![p].phase = "gone", ![p].arg = None]
      /\ slots' = [slots EXCEPT ![SlotOf(p)] = Failed(slots[SlotOf(p)])]
      /\ UNCHANGED <<handles, call, pbufs, stream>>
    BY DEF on_tcp_err
<1>2. PICK fd \in Fds : fd = SlotOf(p)
    BY <1>1, SlotOfPcb
<1>3. PICK u \in Socket : u = slots[fd]
    BY DEF Inv, TypeOK
<1>4. pcbs[p].arg = fd
    BY <1>1, <1>2, SlotOfPcb
<1> DEFINE s == Failed(u)
<1>5. /\ s \in Socket
      /\ s.type = u.type /\ s.state = "error" /\ s.pcb = None /\ s.eof = u.eof
      /\ s.dgram = u.dgram /\ s.head = u.head /\ s.tail = u.tail /\ s.buf = u.buf
    BY DEF Failed, Socket
<1>6. slots' = [slots EXCEPT ![fd] = s]
    BY <1>1, <1>2, <1>3
<1> HIDE DEF s
<1>7. recv_buf_used(s) = recv_buf_used(u) /\ \A n : Bytes(s, n) = Bytes(u, n)
    BY <1>5 DEF recv_buf_used, Bytes
<1>8. /\ slots \in [Fds -> Socket] /\ pcbs \in [Pcbs -> Pcb] /\ stream \in [Fds -> Stream]
      /\ pbufs \in [Datagrams -> {"coming", "held", "freed"}]
    BY DEF Inv, TypeOK
<1>9. slots'[fd] = s /\ \A g \in Fds \ {fd} : slots'[g] = slots[g]
    BY <1>6, <1>8
<1>10. /\ pcbs' \in [Pcbs -> Pcb] /\ PcbOK(p)'
       /\ \A q \in Pcbs \ {p} : pcbs'[q] = pcbs[q]
    <2>1. pcbs' = Released(p)
        BY <1>1 DEF Released
    <2>2. QED BY <2>1, ReleasedPcb DEF Inv
<1>11. Ring(fd)'
    <2>1. Ring(fd)
        BY DEF Inv, SlotOK
    <2>2. Used(fd)' = Used(fd) /\ Bytes(s, Used(fd)) = Bytes(u, Used(fd))
        BY <1>3, <1>7, <1>9 DEF Used
    <2>3. Tcp(fd)' = Tcp(fd) /\ stream' = stream
        BY <1>1, <1>3, <1>5, <1>9 DEF Tcp
    <2>4. QED BY <1>3, <1>5, <1>9, <2>1, <2>2, <2>3 DEF Ring
<1>12. DatagramsHeld'
    <2>1. \A g \in Fds : slots'[g].dgram = slots[g].dgram
        BY <1>3, <1>5, <1>9
    <2>2. QED BY <1>1, <2>1, Leaks, DatagramsKept DEF Inv
<1>13. AddsTo(u, s)
    <2>1. recv_buf_used(u) \in Nat
        BY UsedBytes DEF Indexes
    <2>2. QED BY <1>5, <1>7, <2>1 DEF AddsTo
<1>14. stream' \in [Fds -> Stream] /\ pbufs' \in [Datagrams -> {"coming", "held", "freed"}]
    BY <1>1, <1>8
<1>15. UNCHANGED <<handles, call>> /\ \A g \in Fds \ {fd} : stream'[g] = stream[g]
    BY <1>1
<1>16. QED BY <1>3, <1>4, <1>5, <1>6, <1>10, <1>11, <1>12, <1>13, <1>14, <1>15, CallbackStep

\* A datagram arrives and is held when none is.
LEMMA UdpStep ==
    ASSUME Inv, NEW p \in Pcbs, NEW d \in Datagrams, on_udp_recv(p, d)
    PROVE  Inv'
<1>1. PICK fd \in Fds : fd = SlotOf(p)
    BY SlotOfPcb DEF on_udp_recv
<1>2. PICK u \in Socket : u = slots[fd]
    BY DEF Inv, TypeOK
<1>3. PICK held : held = Held(u, d)
    OBVIOUS
<1>4. /\ pcbs[p].phase = "bound" /\ pbufs[d] = "coming"
      /\ slots' = [slots EXCEPT ![fd].dgram = held]
      /\ pbufs' = [pbufs EXCEPT ![d] = IF held = d THEN "held" ELSE "freed"]
      /\ UNCHANGED <<handles, call, pcbs, stream>>
    BY <1>1, <1>2, <1>3 DEF on_udp_recv
<1>5. pcbs[p].arg = fd /\ fd # None /\ u.pcb = p /\ u.type # "unused"
    BY <1>1, <1>2, <1>4, SlotOfPcb DEF Open
<1>6. /\ slots \in [Fds -> Socket] /\ pcbs \in [Pcbs -> Pcb] /\ stream \in [Fds -> Stream]
      /\ pbufs \in [Datagrams -> {"coming", "held", "freed"}]
    BY DEF Inv, TypeOK
<1>7. /\ d # None /\ held # None /\ held \in Datagrams
      /\ held = IF u.dgram = None THEN d ELSE u.dgram
    BY <1>3, SocketAssumption DEF Held, Socket
<1> DEFINE s == [u EXCEPT !.dgram = held]
<1>8. /\ s \in Socket
      /\ s.type = u.type /\ s.state = u.state /\ s.pcb = u.pcb /\ s.eof = u.eof
      /\ s.dgram = held /\ s.head = u.head /\ s.tail = u.tail /\ s.buf = u.buf
    BY <1>7 DEF Socket
<1>9. slots' = [slots EXCEPT ![fd] = s]
    BY <1>2, <1>4
<1> HIDE DEF s
<1>10. recv_buf_used(s) = recv_buf_used(u) /\ \A n : Bytes(s, n) = Bytes(u, n)
    BY <1>8 DEF recv_buf_used, Bytes
<1>11. slots'[fd] = s /\ \A g \in Fds \ {fd} : slots'[g] = slots[g]
    BY <1>6, <1>9
<1>12. PcbOK(p)'
    <2>1. PcbOK(p)
        BY DEF Inv
    <2>2. QED BY <1>2, <1>4, <1>5, <1>8, <1>11, <2>1 DEF PcbOK, Open
<1>13. Ring(fd)'
    <2>1. Ring(fd)
        BY DEF Inv, SlotOK
    <2>2. Used(fd)' = Used(fd) /\ Bytes(s, Used(fd)) = Bytes(u, Used(fd))
        BY <1>2, <1>10, <1>11 DEF Used
    <2>3. Tcp(fd)' = Tcp(fd) /\ stream' = stream
        BY <1>2, <1>4, <1>8, <1>11 DEF Tcp
    <2>4. QED BY <1>2, <1>8, <1>11, <2>1, <2>2, <2>3 DEF Ring
<1>14. DatagramsHeld'
    <2>1. DatagramsHeld
        BY Leaks DEF Inv
    <2>2. \A g \in Fds : slots[g].dgram # d
        <3>1. d \notin {slots[g].dgram : g \in Fds} \ {None}
            BY <1>4, <2>1 DEF DatagramsHeld
        <3>2. QED BY <1>7, <3>1
    <2>3. /\ slots'[fd].dgram = held
          /\ \A g \in Fds \ {fd} : slots'[g].dgram = slots[g].dgram
        BY <1>8, <1>11
    <2>4. \A f, g \in Fds : f # g /\ slots'[f].dgram # None => slots'[f].dgram # slots'[g].dgram
        BY <1>2, <1>7, <2>1, <2>2, <2>3 DEF DatagramsHeld
    <2>5. /\ held = d => pbufs'[d] = "held"
          /\ held # d => pbufs'[d] # "held"
          /\ \A e \in Datagrams \ {d} : pbufs'[e] = pbufs[e]
        BY <1>4, <1>6
    <2>6. ASSUME NEW e
          PROVE  e \in {h \in Datagrams : pbufs'[h] = "held"} <=>
                 e \in {slots'[g].dgram : g \in Fds} \ {None}
        <3>1. CASE e = d
            <4>1. e \in {h \in Datagrams : pbufs'[h] = "held"} <=> held = d
                BY <2>5, <3>1
            <4>2. e \in {slots'[g].dgram : g \in Fds} \ {None} <=> held = d
                BY <1>7, <2>2, <2>3, <3>1
            <4>3. QED BY <4>1, <4>2
        <3>2. CASE e # d
            <4>1. e \in {h \in Datagrams : pbufs'[h] = "held"} <=>
                     e \in {slots[g].dgram : g \in Fds} \ {None}
                BY <2>1, <2>5, <3>2 DEF DatagramsHeld
            <4>2. e = held <=> e = u.dgram /\ e # None
                BY <1>7, <3>2
            <4>3. e \in {slots'[g].dgram : g \in Fds} \ {None} <=>
                     e \in {slots[g].dgram : g \in Fds} \ {None}
                BY <1>2, <2>3, <4>2
            <4>4. QED BY <4>1, <4>3
        <3>3. QED BY <3>1, <3>2
    <2>7. QED BY <2>4, <2>6 DEF DatagramsHeld
<1>15. AddsTo(u, s)
    <2>1. recv_buf_used(u) \in Nat
        BY UsedBytes DEF Indexes
    <2>2. QED BY <1>7, <1>8, <1>10, <2>1 DEF AddsTo
<1>16. /\ pcbs' \in [Pcbs -> Pcb] /\ pcbs'[p].arg = fd
       /\ \A q \in Pcbs \ {p} : pcbs'[q] = pcbs[q]
       /\ stream' \in [Fds -> Stream] /\ \A g \in Fds \ {fd} : stream'[g] = stream[g]
       /\ UNCHANGED <<handles, call>>
    BY <1>4, <1>5, <1>6
<1>17. pbufs' \in [Datagrams -> {"coming", "held", "freed"}]
    BY <1>4, <1>6
<1>18. QED BY <1>2, <1>5, <1>8, <1>9, <1>12, <1>13, <1>14, <1>15, <1>16, <1>17, CallbackStep

-----------------------------------------------------------------------------
(* The theorems.                                                            *)

LEMMA StutterInv ==
    ASSUME Inv, UNCHANGED vars
    PROVE  Inv'
<1>1. UNCHANGED <<slots, handles, call, pcbs, pbufs, stream>>
    BY DEF vars
<1>2. call \in Call /\ CallOK'
    BY <1>1 DEF Inv, TypeOK, CallOK, InCall, Slot, Used, Tcp
<1>3. InUse' = InUse
    BY <1>1 DEF InUse
<1>4. QED BY <1>1, <1>2, <1>3, NativeMoves

LEMMA NextInv ==
    ASSUME Inv, [Next]_vars
    PROVE  Inv'
<1>1. CASE Natives
    BY <1>1, OtherReads, ReceiveReads, ConnectSucceedsStep, ConnectAbortStep, ConnectFreeStep,
       ReceiveEndStep, ReceiveAdvanceStep, CloseLockedStep, CloseFreeStep,
       ReceiveFromLockedStep DEF Natives
<1>2. CASE Calls
    BY <1>2, ConnectStep, BindStep, CallSteps DEF Calls
<1>3. CASE Callbacks
    BY <1>3, ConnectedStep, ErrStep, RecvStep, RecvErrorStep, RecvEofStep, UdpStep
       DEF Callbacks, Answers
<1>4. QED BY <1>1, <1>2, <1>3, StutterInv DEF Next

\* The invariant: every slot, pcb and datagram, and the ring of every connection, are
\* as the native in progress, which a callback interrupts anywhere, left them.
THEOREM AlwaysInv == Spec => []Inv
BY InitInv, NextInv, PTL DEF Spec

\* Every variable keeps its type: the indexes that on_tcp_recv and tcp_receive move
\* stay inside the ring, and the slot that a callback is given is one of the table.
THEOREM AlwaysTypeOK == Spec => []TypeOK
<1>1. Inv => TypeOK
    BY DEF Inv
<1>2. QED BY <1>1, AlwaysInv, PTL

\* The ring of tcp_receive and on_tcp_recv neither loses, repeats nor reorders a byte.
THEOREM RingAlwaysFaithful == Spec => []RingFaithful
<1>1. Inv => RingFaithful
    BY DEF Inv, SlotOK, Ring, RingFaithful, Used
<1>2. QED BY <1>1, AlwaysInv, PTL

\* When tcp_receive has said that the stream is over, every byte was returned.
THEOREM EofAlwaysTheEnd == Spec => []EofIsTheEnd
<1>1. ASSUME Inv, NEW fd \in Fds, Tcp(fd), stream[fd].over
      PROVE  slots[fd].eof /\ stream[fd].got = stream[fd].kept
    <2>1. /\ slots[fd] \in Socket /\ stream[fd] \in Stream
          /\ stream[fd].kept = stream[fd].got \o Bytes(slots[fd], Used(fd))
          /\ slots[fd].eof /\ Used(fd) = 0
        BY <1>1 DEF Inv, TypeOK, SlotOK, Ring
    <2>2. Bytes(slots[fd], 0) \in Seq(Nat) /\ Len(Bytes(slots[fd], 0)) = 0
        BY <2>1, SocketAssumption, BytesType
    <2>3. stream[fd].got \in Seq(Nat)
        BY <2>1 DEF Stream
    <2>4. Bytes(slots[fd], 0) = <<>>
        BY <2>2, EmptySeq
    <2>5. stream[fd].got \o <<>> = stream[fd].got
        BY <2>3
    <2>6. QED BY <2>1, <2>4, <2>5
<1>2. Inv => EofIsTheEnd
    BY <1>1 DEF EofIsTheEnd
<1>3. QED BY <1>2, AlwaysInv, PTL

\* free_socket, tcp_close and on_tcp_err never leave a callback with a slot that is
\* free or that another connection uses.
THEOREM CallbackAlwaysOwnsSlot == Spec => []CallbackOwnsSlot
<1>1. Inv => CallbackOwnsSlot
    BY DEF Inv, PcbOK, SlotOK, Owned, CallbackOwnsSlot
<1>2. QED BY <1>1, AlwaysInv, PTL

\* Every slot in use is one that Java holds or that tcp_connect is filling, and every
\* datagram taken from lwIP is held by one slot until it is freed.
THEOREM NothingEverLeaks == Spec => []NothingLeaks
<1>1. Inv => NothingLeaks
    BY DEF Inv
<1>2. QED BY <1>1, AlwaysInv, PTL

=============================================================================
