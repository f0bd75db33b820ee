----------------------------- MODULE UartProofs -----------------------------
(***************************************************************************)
(* Proofs about Uart for every size of the ring and every number of bytes: *)
(* the ring is a FIFO whatever the interrupt does in between, and what     *)
(* uart_available promised is there to be read.                            *)
(***************************************************************************)
EXTENDS Uart, TLAPS

\* A byte that is pending and not being served is newer than any offered one.
WireInv ==
    /\ rxd = wire
    /\ offered <= rxd
    /\ pnd /\ isr = "idle" => offered < rxd

\* What the queue holds are bytes of the wire, never what RAM held at first.
ContentInv == Stored \in Seq(Bytes)

\* What uart_read_byte knows of the ring between its steps: the interrupt
\* writes neither rx_tail nor the slot it points at.
ReaderInv ==
    /\ pc \in {"wait", "fetch", "advance"} => i = rx_tail
    /\ pc \in {"fetch", "advance"} => rx_head # rx_tail
    /\ pc = "advance" => ret = rx_buffer[rx_tail]

\* The head that uart_available has read is not ahead of the ring's.
BudgetInv ==
    /\ budget <= Held
    /\ pc = "avail" => Distance(head, rx_tail) <= Held

IInv == TypeOK /\ WireInv /\ ContentInv /\ ReaderInv /\ BudgetInv

-----------------------------------------------------------------------------
(* Arithmetic of the indices. *)

\* The remainder of a number below twice the ring's size.
LEMMA ModOnce ==
    ASSUME NEW x \in Nat, x < 2 * RxBufferSize
    PROVE  x % RxBufferSize = IF x < RxBufferSize THEN x ELSE x - RxBufferSize
BY UartAssumption, SMT

\* The index after s, without the remainder.
LEMMA AfterIs ==
    ASSUME NEW s \in Slots
    PROVE  /\ After(s) = IF s + 1 = RxBufferSize THEN 0 ELSE s + 1
           /\ After(s) \in Slots
<1>1. s + 1 \in Nat /\ s + 1 < 2 * RxBufferSize
  BY UartAssumption, SMT DEF Slots
<1>2. (s + 1) % RxBufferSize
        = IF s + 1 < RxBufferSize THEN s + 1 ELSE s + 1 - RxBufferSize
  BY <1>1, ModOnce, UartAssumption, SMT DEF Slots
<1> QED BY <1>2, UartAssumption, SMT DEF After, Slots

\* The distance between two indices, computed as Held does and as
\* uart_available does.
LEMMA DistanceIs ==
    ASSUME NEW h \in Slots, NEW t \in Slots
    PROVE  /\ (h + RxBufferSize - t) % RxBufferSize = Distance(h, t)
           /\ Distance(h, t) \in Slots
<1> DEFINE x == h + RxBufferSize - t
<1>1. x \in Nat /\ x < 2 * RxBufferSize
  BY UartAssumption, SMT DEF Slots
<1>2. x % RxBufferSize = IF x < RxBufferSize THEN x ELSE x - RxBufferSize
  BY <1>1, ModOnce
<1> QED BY <1>2, UartAssumption, SMT DEF Distance, Slots

\* The k-th slot from t on, without the remainder.
Kth(t, k) == IF t + k <= RxBufferSize THEN t + k - 1 ELSE t + k - 1 - RxBufferSize

\* It is the slot that Stored looks at.
LEMMA KthIs ==
    ASSUME NEW t \in Slots, NEW k \in 1..RxBufferSize
    PROVE  /\ (t + k - 1) % RxBufferSize = Kth(t, k)
           /\ Kth(t, k) \in Slots
<1> DEFINE x == t + k - 1
<1>1. x \in Nat /\ x < 2 * RxBufferSize
  BY UartAssumption, SMT DEF Slots
<1>2. x % RxBufferSize = IF x < RxBufferSize THEN x ELSE x - RxBufferSize
  BY <1>1, ModOnce
<1> QED BY <1>2, UartAssumption, SMT DEF Kth, Slots

\* What the queue is, without remainders.
LEMMA QueueIs ==
    ASSUME TypeOK
    PROVE  /\ Held = Distance(rx_head, rx_tail)
           /\ Held \in Slots
           /\ Stored = [k \in 1..Held |-> rx_buffer[Kth(rx_tail, k)]]
<1>1. rx_head \in Slots /\ rx_tail \in Slots
  BY DEF TypeOK
<1>2. Held = Distance(rx_head, rx_tail) /\ Held \in Slots
  BY <1>1, DistanceIs DEF Held
<1>3. \A k \in 1..Held : k \in 1..RxBufferSize
  BY <1>2, UartAssumption, SMT DEF Slots
<1>4. \A k \in 1..Held : (rx_tail + k - 1) % RxBufferSize = Kth(rx_tail, k)
  BY <1>1, <1>3, KthIs
<1>5. Stored = [k \in 1..Held |-> rx_buffer[Kth(rx_tail, k)]]
  BY <1>4 DEF Stored
<1> QED BY <1>2, <1>4, <1>5

\* The same of the state after a step.
LEMMA QueueIsPrime ==
    ASSUME TypeOK'
    PROVE  /\ Held' = Distance(rx_head', rx_tail')
           /\ Held' \in Slots
           /\ Stored' = [k \in 1..Held' |-> rx_buffer'[Kth(rx_tail', k)]]
<1>1. rx_head' \in Slots /\ rx_tail' \in Slots
  BY DEF TypeOK
<1>2. Held' = Distance(rx_head', rx_tail') /\ Held' \in Slots
  BY <1>1, DistanceIs DEF Held
<1>3. \A k \in 1..Held' : k \in 1..RxBufferSize
  BY <1>2, UartAssumption, SMT DEF Slots
<1>4. \A k \in 1..Held' : (rx_tail' + k - 1) % RxBufferSize = Kth(rx_tail', k)
  BY <1>1, <1>3, KthIs
<1>5. Stored' = [k \in 1..Held' |-> rx_buffer'[Kth(rx_tail', k)]]
  BY <1>4 DEF Stored
<1> QED BY <1>2, <1>4, <1>5
-----------------------------------------------------------------------------
(* How the two index updates move the queue. *)

\* Moving the head past a ring that is not full adds one byte at the end; the
\* slot it is written to was no byte's.
LEMMA HeadMoves ==
    ASSUME NEW h \in Slots, NEW t \in Slots
    PROVE  /\ After(h) = t <=> Distance(h, t) = RxBufferSize - 1
           /\ After(h) # t =>
                 /\ Distance(After(h), t) = Distance(h, t) + 1
                 /\ Kth(t, Distance(h, t) + 1) = h
           /\ \A k \in 1..Distance(h, t) : Kth(t, k) # h
<1>1. After(h) = IF h + 1 = RxBufferSize THEN 0 ELSE h + 1
  BY AfterIs
<1>2. After(h) = t <=> Distance(h, t) = RxBufferSize - 1
  BY <1>1, UartAssumption, SMT DEF Distance, Slots
<1>3. After(h) # t => Distance(After(h), t) = Distance(h, t) + 1
  BY <1>1, UartAssumption, SMT DEF Distance, Slots
<1>4. After(h) # t => Kth(t, Distance(h, t) + 1) = h
  BY <1>1, UartAssumption, SMT DEF Distance, Slots, Kth
<1>5. \A k \in 1..Distance(h, t) : Kth(t, k) # h
  BY UartAssumption, SMT DEF Distance, Slots, Kth
<1> QED BY <1>2, <1>3, <1>4, <1>5

\* Moving the tail of a ring that is not empty removes the first byte.
LEMMA TailMoves ==
    ASSUME NEW h \in Slots, NEW t \in Slots
    PROVE  /\ Distance(h, t) = 0 <=> h = t
           /\ Kth(t, 1) = t
           /\ h # t =>
                 /\ Distance(h, After(t)) = Distance(h, t) - 1
                 /\ \A k \in 1..(Distance(h, t) - 1) : Kth(After(t), k) = Kth(t, k + 1)
<1>1. After(t) = IF t + 1 = RxBufferSize THEN 0 ELSE t + 1
  BY AfterIs
<1>2. Distance(h, t) = 0 <=> h = t
  BY UartAssumption, SMT DEF Distance, Slots
<1>3. Kth(t, 1) = t
  BY UartAssumption, SMT DEF Slots, Kth
<1>4. h # t => Distance(h, After(t)) = Distance(h, t) - 1
  BY <1>1, UartAssumption, SMT DEF Distance, Slots
<1>5. h # t => \A k \in 1..(Distance(h, t) - 1) : Kth(After(t), k) = Kth(t, k + 1)
  BY <1>1, UartAssumption, SMT DEF Distance, Slots, Kth
<1> QED BY <1>2, <1>3, <1>4, <1>5

\* Until the tail moves, the head only gets further away from it: what
\* uart_available saw is still there.
LEMMA HeadOnlyAdds ==
    ASSUME TypeOK, NEW b, uart_append_byte(b), rx_tail' = rx_tail
    PROVE  /\ rx_head' \in Slots
           /\ Distance(rx_head', rx_tail') >= Distance(rx_head, rx_tail)
<1>1. rx_head \in Slots /\ rx_tail \in Slots
  BY DEF TypeOK
<1>2. Distance(rx_head, rx_tail) \in Nat
  BY <1>1, DistanceIs, UartAssumption, SMT DEF Slots
<1>3. CASE After(rx_head) # rx_tail
  <2>1. rx_head' = After(rx_head)
    BY <1>3 DEF uart_append_byte
  <2>2. Distance(After(rx_head), rx_tail) = Distance(rx_head, rx_tail) + 1
    BY <1>1, <1>3, HeadMoves
  <2>3. After(rx_head) \in Slots
    BY <1>1, AfterIs
  <2> QED BY <1>2, <2>1, <2>2, <2>3, SMT
<1>4. CASE After(rx_head) = rx_tail
  <2>1. rx_head' = rx_head
    BY <1>4 DEF uart_append_byte
  <2> QED BY <1>1, <1>2, <2>1, SMT
<1> QED BY <1>3, <1>4

-----------------------------------------------------------------------------
(* What the steps do to the queue, seen as a sequence. *)

\* uart_append_byte adds the byte at the end unless the queue is full, in
\* which case the byte is dropped and the queue stays as it is.
LEMMA AppendStored ==
    ASSUME TypeOK, TypeOK', NEW b, uart_append_byte(b), rx_tail' = rx_tail
    PROVE  Stored' = IF Len(Stored) < RxBufferSize - 1 THEN Append(Stored, b) ELSE Stored
<1>1. /\ rx_head \in Slots /\ rx_tail \in Slots
      /\ rx_buffer \in [Slots -> 0..MaxBytes]
  BY DEF TypeOK
<1>2. /\ Held = Distance(rx_head, rx_tail) /\ Held \in Slots
      /\ Stored = [k \in 1..Held |-> rx_buffer[Kth(rx_tail, k)]]
  BY QueueIs
<1>3. /\ Held' = Distance(rx_head', rx_tail')
      /\ Stored' = [k \in 1..Held' |-> rx_buffer'[Kth(rx_tail', k)]]
  BY QueueIsPrime
<1>4. Held \in Nat /\ Held + 1 \in Nat
  BY <1>2, UartAssumption, SMT DEF Slots
<1>5. Len(Stored) = Held
  BY <1>2, <1>4, SMT
<1>6. CASE After(rx_head) # rx_tail
  <2>1. /\ rx_buffer' = [rx_buffer EXCEPT ![rx_head] = b]
        /\ rx_head' = After(rx_head)
    BY <1>6 DEF uart_append_byte
  <2>2. /\ Held' = Held + 1
        /\ Held # RxBufferSize - 1
        /\ Kth(rx_tail, Held + 1) = rx_head
        /\ \A k \in 1..Held : Kth(rx_tail, k) # rx_head
    BY <1>1, <1>2, <1>3, <1>6, <2>1, HeadMoves
  <2>3. Held < RxBufferSize - 1
    BY <1>2, <2>2, UartAssumption, SMT DEF Slots
  <2>4. \A k \in 1..Held : k \in 1..RxBufferSize
    BY <1>2, UartAssumption, SMT DEF Slots
  <2>5. \A k \in 1..Held : rx_buffer'[Kth(rx_tail, k)] = rx_buffer[Kth(rx_tail, k)]
    BY <1>1, <2>1, <2>2, <2>4, KthIs
  <2>6. rx_buffer'[Kth(rx_tail, Held + 1)] = b
    BY <1>1, <2>1, <2>2
  <2>7. Append(Stored, b)
          = [k \in 1..(Held + 1) |-> IF k = Held + 1 THEN b ELSE rx_buffer[Kth(rx_tail, k)]]
    BY <1>2, <1>4, <1>5, SMT
  <2>8. \A k \in 1..(Held + 1) :
           rx_buffer'[Kth(rx_tail, k)]
             = IF k = Held + 1 THEN b ELSE rx_buffer[Kth(rx_tail, k)]
    <3>1. \A k \in 1..(Held + 1) : k # Held + 1 => k \in 1..Held
      BY <1>4, SMT
    <3> QED BY <3>1, <2>5, <2>6
  <2>9. Stored' = Append(Stored, b)
    BY <1>3, <2>2, <2>7, <2>8
  <2> QED BY <1>5, <2>3, <2>9
<1>7. CASE After(rx_head) = rx_tail
  <2>1. rx_buffer' = rx_buffer /\ rx_head' = rx_head
    BY <1>7 DEF uart_append_byte
  <2>2. Held = RxBufferSize - 1
    BY <1>1, <1>2, <1>7, HeadMoves
  <2>3. Stored' = Stored
    BY <1>2, <1>3, <2>1
  <2>4. ~(Len(Stored) < RxBufferSize - 1)
    BY <1>5, <2>2, <1>4, SMT
  <2> QED BY <2>3, <2>4
<1> QED BY <1>6, <1>7

\* uart_read_byte takes the first byte.
LEMMA AdvanceStored ==
    ASSUME TypeOK, TypeOK', rx_head # rx_tail,
           rx_buffer' = rx_buffer, rx_head' = rx_head, rx_tail' = After(rx_tail)
    PROVE  /\ Stored # << >>
           /\ Head(Stored) = rx_buffer[rx_tail]
           /\ Stored' = Tail(Stored)
<1>1. rx_head \in Slots /\ rx_tail \in Slots
  BY DEF TypeOK
<1>2. /\ Held = Distance(rx_head, rx_tail) /\ Held \in Slots
      /\ Stored = [k \in 1..Held |-> rx_buffer[Kth(rx_tail, k)]]
  BY QueueIs
<1>3. /\ Held' = Distance(rx_head', rx_tail')
      /\ Stored' = [k \in 1..Held' |-> rx_buffer'[Kth(rx_tail', k)]]
  BY QueueIsPrime
<1>4. /\ Held # 0
      /\ Kth(rx_tail, 1) = rx_tail
      /\ Held' = Held - 1
      /\ \A k \in 1..(Held - 1) : Kth(After(rx_tail), k) = Kth(rx_tail, k + 1)
  BY <1>1, <1>2, <1>3, TailMoves
<1>5. Held \in Nat /\ Held >= 1 /\ Held - 1 \in Nat
  BY <1>2, <1>4, UartAssumption, SMT DEF Slots
<1>6. Len(Stored) = Held
  BY <1>2, <1>5, SMT
<1>7. Stored # << >> /\ Head(Stored) = rx_buffer[rx_tail]
  <2>1. 1 \in 1..Held
    BY <1>5, SMT
  <2>2. Stored[1] = rx_buffer[rx_tail]
    BY <1>2, <1>4, <2>1
  <2> QED BY <1>5, <1>6, <2>2, SMT
<1>8. Tail(Stored) = [k \in 1..(Held - 1) |-> rx_buffer[Kth(rx_tail, k + 1)]]
  BY <1>2, <1>5, <1>6, SMT
<1>9. Stored' = Tail(Stored)
  BY <1>3, <1>4, <1>8
<1> QED BY <1>7, <1>9
-----------------------------------------------------------------------------
(* The inductive invariant, action by action. *)

\* A reader of a ring that is not empty finds a byte of the wire at rx_tail.
LEMMA Oldest ==
    ASSUME TypeOK, ContentInv, rx_head # rx_tail
    PROVE  rx_buffer[rx_tail] \in Bytes /\ Held >= 1
<1>1. rx_head \in Slots /\ rx_tail \in Slots
  BY DEF TypeOK
<1>2. /\ Held = Distance(rx_head, rx_tail) /\ Held \in Slots
      /\ Stored = [k \in 1..Held |-> rx_buffer[Kth(rx_tail, k)]]
  BY QueueIs
<1>3. Held # 0 /\ Kth(rx_tail, 1) = rx_tail
  BY <1>1, <1>2, TailMoves
<1>4. Held \in Nat /\ Held >= 1 /\ 1 \in 1..Held
  BY <1>2, <1>3, UartAssumption, SMT DEF Slots
<1>5. Stored[1] = rx_buffer[rx_tail]
  BY <1>2, <1>3, <1>4
<1>6. Len(Stored) = Held
  BY <1>2, <1>4, SMT
<1>7. Stored[1] \in Bytes
  BY <1>4, <1>6, SMT DEF ContentInv
<1> QED BY <1>4, <1>5, <1>7

\* A step that leaves the ring alone leaves the queue alone.
LEMMA SameRing ==
    ASSUME UNCHANGED ringVars
    PROVE  Held' = Held /\ Stored' = Stored
BY DEF ringVars, Held, Stored

\* The invariant holds at first: the queue is empty.
LEMMA InitInv == Init => IInv
<1> SUFFICES ASSUME Init PROVE IInv
  OBVIOUS
<1>1. 0 \in Slots /\ 0 \in 0..MaxBytes
  BY UartAssumption, SMT DEF Slots
<1>2. << >> \in Seq(Bytes)
  BY SMT
<1>3. TypeOK
  BY <1>1, <1>2 DEF Init, TypeOK
<1>4. Held = 0
  <2>1. Distance(0, 0) = 0
    BY <1>1, TailMoves
  <2> QED BY <2>1, <1>3, QueueIs DEF Init
<1>5. ContentInv
  <2>1. Stored = [k \in 1..0 |-> rx_buffer[Kth(rx_tail, k)]]
    BY <1>3, <1>4, QueueIs
  <2> QED BY <2>1, SMT DEF ContentInv
<1>6. WireInv /\ ReaderInv /\ BudgetInv
  BY <1>4, SMT DEF Init, WireInv, ReaderInv, BudgetInv
<1> QED BY <1>3, <1>5, <1>6 DEF IInv

\* A byte that arrives is newer than all that were offered.
LEMMA ArriveInv ==
    ASSUME IInv, Arrive
    PROVE  IInv'
<1> USE DEF Arrive, mainVars
<1>1. TypeOK'
  BY UartAssumption, SMT DEF IInv, TypeOK, ringVars
<1>2. Held' = Held /\ Stored' = Stored
  BY SameRing
<1>3. WireInv'
  BY SMT DEF IInv, WireInv, TypeOK
<1>4. ContentInv' /\ ReaderInv' /\ BudgetInv'
  BY <1>2 DEF IInv, ContentInv, ReaderInv, BudgetInv, ringVars, Distance
<1> QED BY <1>1, <1>3, <1>4 DEF IInv

\* The interrupt moves rx_head and writes a slot that no byte is in.
LEMMA ReceiveInv ==
    ASSUME IInv, Receive
    PROVE  IInv'
<1> USE DEF hwVars, mainVars
<1>1. /\ TypeOK /\ WireInv /\ ContentInv /\ ReaderInv /\ BudgetInv
      /\ pnd /\ isr = "idle" /\ isr' = "clear"
      /\ UNCHANGED <<hwVars, receive_cb, rx_tail, mainVars, taken>>
  BY DEF IInv, Receive
<1>2. rxd \in Bytes
  BY <1>1, SMT DEF WireInv, TypeOK, Bytes
<1>3. CASE receive_cb = "append"
  <2>1. uart_append_byte(rxd) /\ offered' = rxd
    BY <1>3, SMT DEF Receive
  <2>2. /\ rx_head' \in Slots
        /\ Distance(rx_head', rx_tail') >= Distance(rx_head, rx_tail)
    BY <1>1, <2>1, HeadOnlyAdds
  <2>3. rx_buffer' \in [Slots -> 0..MaxBytes]
    BY <1>1, <2>1, SMT DEF uart_append_byte, TypeOK
  <2>4. TypeOK'
    BY <1>1, <2>1, <2>2, <2>3 DEF TypeOK
  <2>5. WireInv'
    BY <1>1, <2>1, SMT DEF WireInv, TypeOK
  <2>6. Stored' = IF Len(Stored) < RxBufferSize - 1 THEN Append(Stored, rxd) ELSE Stored
    BY <1>1, <2>1, <2>4, AppendStored
  <2>7. ContentInv'
    BY <1>1, <1>2, <2>6, SMT DEF ContentInv
  <2>8. Held' >= Held /\ Held \in Nat /\ Held' \in Nat
    BY <1>1, <2>2, <2>4, QueueIs, QueueIsPrime, UartAssumption, SMT DEF Slots
  <2>9. BudgetInv'
    <3>1. budget' = budget /\ budget \in Nat
      BY <1>1, UartAssumption, SMT DEF TypeOK, Slots
    <3>2. budget' <= Held'
      BY <1>1, <2>8, <3>1, SMT DEF BudgetInv
    <3>3. pc' = "avail" => Distance(head', rx_tail') <= Held'
      <4>1. Distance(head, rx_tail) \in Slots
        BY <1>1, DistanceIs DEF TypeOK
      <4>2. Distance(head, rx_tail) \in Nat
        BY <4>1, UartAssumption, SMT DEF Slots
      <4>3. pc' = pc /\ Distance(head', rx_tail') = Distance(head, rx_tail)
        BY <1>1
      <4> QED BY <1>1, <2>8, <4>2, <4>3, SMT DEF BudgetInv
    <3> QED BY <3>2, <3>3 DEF BudgetInv
  <2>10. ReaderInv'
    <3>1. rx_head # rx_tail => rx_head' # rx_tail
      <4>1. Held = 0 <=> rx_head = rx_tail
        BY <1>1, QueueIs, TailMoves DEF TypeOK
      <4>2. Held' = 0 <=> rx_head' = rx_tail'
        BY <2>4, QueueIsPrime, TailMoves DEF TypeOK
      <4> QED BY <1>1, <2>8, <4>1, <4>2, SMT
    <3>2. rx_head # rx_tail => rx_buffer'[rx_tail] = rx_buffer[rx_tail]
      BY <1>1, <2>1, SMT DEF uart_append_byte, TypeOK
    <3> QED BY <1>1, <3>1, <3>2 DEF ReaderInv
  <2> QED BY <2>4, <2>5, <2>7, <2>9, <2>10 DEF IInv
<1>4. CASE receive_cb # "append"
  <2>1. UNCHANGED <<rx_buffer, rx_head, offered>>
    BY <1>4 DEF Receive
  <2>2. Held' = Held /\ Stored' = Stored
    BY <1>1, <2>1, SameRing DEF ringVars
  <2>3. TypeOK'
    BY <1>1, <2>1 DEF TypeOK
  <2>4. WireInv'
    BY <1>1, <2>1, SMT DEF WireInv, TypeOK
  <2>5. ContentInv' /\ ReaderInv' /\ BudgetInv'
    BY <1>1, <2>1, <2>2 DEF ContentInv, ReaderInv, BudgetInv, Distance
  <2> QED BY <2>3, <2>4, <2>5 DEF IInv
<1> QED BY <1>3, <1>4

\* What the other steps that leave the ring alone do to the rest.
LEMMA QuietInv ==
    ASSUME IInv,
           \/ ClearPending
           \/ \E cb \in {"append", "other"} : SetReceiveCb(cb)
           \/ AvailableCall \/ AvailableReturn \/ ReadCall \/ Ready \/ Fetch
    PROVE  IInv'
<1> USE DEF hwVars, mainVars, ringVars
<1>1. TypeOK /\ WireInv /\ ContentInv /\ ReaderInv /\ BudgetInv
  BY DEF IInv
<1>2. UNCHANGED <<wire, rxd, rx_buffer, rx_head, rx_tail, offered, taken>>
  BY DEF ClearPending, SetReceiveCb, AvailableCall, AvailableReturn, ReadCall, Ready, Fetch
<1>3. Held' = Held /\ Stored' = Stored
  BY <1>2, SameRing
<1>4. ContentInv'
  BY <1>1, <1>3 DEF ContentInv
<1>5. /\ Held \in Slots
      /\ Held = Distance(rx_head, rx_tail)
  BY <1>1, QueueIs
<1>6. CASE ClearPending
  BY <1>1, <1>2, <1>3, <1>4, <1>6
     DEF ClearPending, IInv, TypeOK, WireInv, ReaderInv, BudgetInv, Distance
<1>7. ASSUME NEW cb \in {"append", "other"}, SetReceiveCb(cb)
      PROVE  IInv'
  BY <1>1, <1>2, <1>3, <1>4, <1>7
     DEF SetReceiveCb, IInv, TypeOK, WireInv, ReaderInv, BudgetInv, Distance
<1>8. CASE AvailableCall
  <2>1. TypeOK' /\ WireInv' /\ ReaderInv'
    BY <1>1, <1>2, <1>8 DEF AvailableCall, TypeOK, WireInv, ReaderInv
  <2>2. BudgetInv'
    <3>1. Held' = Distance(head', rx_tail') /\ Held' \in Nat
      BY <1>2, <1>3, <1>5, <1>8, UartAssumption, SMT DEF AvailableCall, Slots, Distance
    <3> QED BY <1>1, <1>3, <1>8, <3>1, SMT DEF AvailableCall, BudgetInv
  <2> QED BY <1>4, <2>1, <2>2 DEF IInv
<1>9. CASE AvailableReturn
  <2>1. Distance(head, rx_tail) \in Slots
    BY <1>1, DistanceIs DEF TypeOK
  <2>2. 0 \in Slots
    BY UartAssumption, SMT DEF Slots
  <2>3. TypeOK' /\ WireInv' /\ ReaderInv'
    BY <1>1, <1>2, <1>9, <2>1, <2>2 DEF AvailableReturn, TypeOK, WireInv, ReaderInv
  <2>4. BudgetInv'
    BY <1>1, <1>3, <1>9 DEF AvailableReturn, BudgetInv
  <2> QED BY <1>4, <2>3, <2>4 DEF IInv
<1>10. CASE ReadCall
  BY <1>1, <1>2, <1>3, <1>4, <1>10
     DEF ReadCall, IInv, TypeOK, WireInv, ReaderInv, BudgetInv
<1>11. CASE Ready
  BY <1>1, <1>2, <1>3, <1>4, <1>11
     DEF Ready, IInv, TypeOK, WireInv, ReaderInv, BudgetInv
<1>12. CASE Fetch
  BY <1>1, <1>2, <1>3, <1>4, <1>12
     DEF Fetch, IInv, TypeOK, WireInv, ReaderInv, BudgetInv
<1> QED BY <1>6, <1>7, <1>8, <1>9, <1>10, <1>11, <1>12

\* Giving the slot back takes the byte out of the queue and off the promise.
LEMMA AdvanceInv ==
    ASSUME IInv, Advance
    PROVE  IInv'
<1> USE DEF hwVars, mainVars
<1>1. /\ TypeOK /\ WireInv /\ ContentInv /\ ReaderInv /\ BudgetInv
      /\ pc = "advance" /\ i = rx_tail /\ rx_head # rx_tail
      /\ ret = rx_buffer[rx_tail]
      /\ rx_tail' = After(rx_tail) /\ rx_buffer' = rx_buffer /\ rx_head' = rx_head
      /\ pc' = "idle"
  BY DEF IInv, Advance, ReaderInv
<1>2. ret \in Bytes /\ Held >= 1
  BY <1>1, Oldest
<1>3. After(rx_tail) \in Slots
  BY <1>1, AfterIs DEF TypeOK
<1>4. 0 \in Slots /\ 0 \in 0..MaxBytes
  BY UartAssumption, SMT DEF Slots
<1>5. budget' \in Slots /\ budget' = IF budget > 0 THEN budget - 1 ELSE 0
  BY <1>1, UartAssumption, SMT DEF Advance, TypeOK, Slots
<1>6. taken' \in Seq(Bytes)
  BY <1>1, <1>2, SMT DEF Advance, TypeOK
<1>7. TypeOK'
  BY <1>1, <1>3, <1>4, <1>5, <1>6 DEF Advance, TypeOK
<1>8. Stored # << >> /\ Stored' = Tail(Stored)
  BY <1>1, <1>7, AdvanceStored
<1>9. ContentInv'
  BY <1>1, <1>8, SMT DEF ContentInv
<1>10. Held' = Held - 1 /\ Held \in Nat
  <2>1. rx_head \in Slots /\ rx_tail \in Slots
    BY <1>1 DEF TypeOK
  <2>2. Held = Distance(rx_head, rx_tail) /\ Held \in Slots
    BY <1>1, QueueIs
  <2>3. Held' = Distance(rx_head', rx_tail')
    BY <1>7, QueueIsPrime
  <2>4. Distance(rx_head, After(rx_tail)) = Distance(rx_head, rx_tail) - 1
    BY <1>1, <2>1, TailMoves
  <2>5. Held \in Nat
    BY <2>2, UartAssumption, SMT DEF Slots
  <2> QED BY <1>1, <2>2, <2>3, <2>4, <2>5
<1>11. BudgetInv'
  BY <1>1, <1>2, <1>5, <1>10, UartAssumption, SMT DEF BudgetInv, TypeOK, Slots
<1>12. WireInv' /\ ReaderInv'
  BY <1>1 DEF Advance, WireInv, ReaderInv
<1> QED BY <1>7, <1>9, <1>11, <1>12 DEF IInv

\* Every step keeps the invariant.
LEMMA NextInv == IInv /\ [Next]_vars => IInv'
<1> SUFFICES ASSUME IInv, [Next]_vars PROVE IInv'
  OBVIOUS
<1>1. CASE Arrive
  BY <1>1, ArriveInv
<1>2. CASE Receive
  BY <1>2, ReceiveInv
<1>3. CASE ClearPending
  BY <1>3, QuietInv
<1>4. CASE \E cb \in {"append", "other"} : SetReceiveCb(cb)
  BY <1>4, QuietInv
<1>5. CASE AvailableCall \/ AvailableReturn \/ ReadCall \/ Ready \/ Fetch
  BY <1>5, QuietInv
<1>6. CASE Advance
  BY <1>6, AdvanceInv
<1>7. CASE UNCHANGED vars
  BY <1>7 DEF vars, IInv, TypeOK, WireInv, ContentInv, ReaderInv, BudgetInv,
     Stored, Held, Distance
<1> QED BY <1>1, <1>2, <1>3, <1>4, <1>5, <1>6, <1>7 DEF Next, Handler, Running

\* The invariant is one of the specification.
THEOREM Invariant == Spec => []IInv
BY InitInv, NextInv, PTL DEF Spec

\* The indices stay in the ring, uart_available promises at most a full ring,
\* and uart_read_byte returns only bytes that came over the wire: never what
\* RAM held at first.
THEOREM TypeCorrect == Spec => []TypeOK
<1>1. IInv => TypeOK
  BY DEF IInv
<1> QED BY <1>1, Invariant, PTL

\* What uart_available returned can be read without waiting, although the
\* interrupt moves rx_head between its two reads and after it.
THEOREM PromiseKept == Spec => []AvailableIsPromise
<1>1. ASSUME IInv
      PROVE  AvailableIsPromise
  <2>1. Held = 0 <=> rx_head = rx_tail
    BY <1>1, QueueIs, TailMoves DEF IInv, TypeOK
  <2>2. budget \in Nat
    BY <1>1, UartAssumption, SMT DEF IInv, TypeOK, Slots
  <2> QED BY <1>1, <2>1, <2>2, SMT DEF IInv, BudgetInv, ReaderInv, AvailableIsPromise
<1> QED BY <1>1, Invariant, PTL

-----------------------------------------------------------------------------
(* The refinement. *)

\* The driver starts with an empty queue.
LEMMA InitRefines == Init => F!Init
<1> SUFFICES ASSUME Init PROVE F!Init
  OBVIOUS
<1>1. TypeOK /\ Held = 0
  <2>1. IInv
    BY InitInv
  <2>2. Held = 0 <=> rx_head = rx_tail
    BY <2>1, QueueIs, TailMoves DEF IInv, TypeOK
  <2> QED BY <2>1, <2>2 DEF IInv, Init
<1>2. Stored = << >>
  <2>1. Stored = [k \in 1..0 |-> rx_buffer[Kth(rx_tail, k)]]
    BY <1>1, QueueIs
  <2> QED BY <2>1, SMT
<1> QED BY <1>2 DEF Init, F!Init

\* Receive offers a byte to the queue, Advance takes one, every other step of
\* the interrupt, the hardware or the main program leaves the queue alone.
LEMMA StepRefines ==
    ASSUME IInv, IInv', [Next]_vars
    PROVE  [F!Next]_F!fifoVars
<1> USE DEF hwVars, mainVars, ringVars
<1>1. TypeOK /\ TypeOK' /\ WireInv /\ ReaderInv
  BY DEF IInv
<1>2. CASE Receive /\ receive_cb = "append"
  <2>1. uart_append_byte(rxd) /\ offered' = rxd /\ rx_tail' = rx_tail /\ taken' = taken
    BY <1>2 DEF Receive
  <2>2. rxd \in Bytes /\ rxd > offered
    BY <1>1, <1>2, SMT DEF Receive, WireInv, TypeOK, Bytes
  <2>3. Stored' = IF Len(Stored) < RxBufferSize - 1 THEN Append(Stored, rxd) ELSE Stored
    BY <1>1, <2>1, AppendStored
  <2>4. F!Offer(rxd)
    BY <2>1, <2>2, <2>3 DEF F!Offer
  <2> QED BY <2>2, <2>4 DEF F!Next
<1>3. CASE Advance
  <2>1. /\ i = rx_tail /\ rx_head # rx_tail /\ ret = rx_buffer[rx_tail]
        /\ rx_tail' = After(rx_tail) /\ rx_buffer' = rx_buffer /\ rx_head' = rx_head
        /\ taken' = Append(taken, ret) /\ offered' = offered
    BY <1>1, <1>3 DEF Advance, ReaderInv
  <2>2. Stored # << >> /\ Head(Stored) = ret /\ Stored' = Tail(Stored)
    BY <1>1, <2>1, AdvanceStored
  <2>3. F!Take
    BY <2>1, <2>2 DEF F!Take
  <2> QED BY <2>3 DEF F!Next
<1>4. ASSUME UNCHANGED <<ringVars, offered, taken>>
      PROVE  [F!Next]_F!fifoVars
  BY <1>4, SameRing DEF F!fifoVars
<1>5. CASE Receive /\ receive_cb # "append"
  BY <1>4, <1>5 DEF Receive
<1>6. CASE Arrive \/ ClearPending
  BY <1>4, <1>6 DEF Arrive, ClearPending
<1>7. CASE \E cb \in {"append", "other"} : SetReceiveCb(cb)
  BY <1>4, <1>7 DEF SetReceiveCb
<1>8. CASE AvailableCall \/ AvailableReturn \/ ReadCall \/ Ready \/ Fetch
  BY <1>4, <1>8 DEF AvailableCall, AvailableReturn, ReadCall, Ready, Fetch
<1>9. CASE UNCHANGED vars
  BY <1>4, <1>9 DEF vars
<1> QED BY <1>2, <1>3, <1>5, <1>6, <1>7, <1>8, <1>9 DEF Next, Handler, Running

\* The ring is a FIFO of RX_BUFFER_SIZE - 1 bytes that drops only when it is
\* full, whatever the interrupt does between the reader's look at rx_head, its
\* read of the slot and its update of rx_tail.
THEOREM RingIsFifo == Spec => FifoSpec
<1>1. IInv /\ IInv' /\ [Next]_vars => [F!Next]_F!fifoVars
  BY StepRefines
<1> QED BY <1>1, InitRefines, Invariant, PTL DEF Spec, FifoSpec, F!Spec
=============================================================================
