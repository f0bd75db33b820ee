-------------------------------- MODULE Uart --------------------------------
(***************************************************************************)
(* The receive path of src/dev/uart.c: the UART's data register and        *)
(* pending flag, the receive interrupt, the ring buffer it fills, and the  *)
(* main program's uart_available and uart_read_byte, split where the       *)
(* interrupt or the hardware can act in between.                           *)
(*                                                                         *)
(* The interrupt handler runs to its end before the main program goes on,  *)
(* but the wire does not wait: a byte can arrive between the handler's     *)
(* read of UART_RXD and its clearing of the pending flag.  Bytes are told  *)
(* apart by their position on the wire.                                    *)
(***************************************************************************)
EXTENDS Naturals, Sequences

CONSTANTS
    RxBufferSize,  \* RX_BUFFER_SIZE
    MaxBytes       \* bound: bytes that arrive on the wire

ASSUME UartAssumption ==
    RxBufferSize \in Nat /\ RxBufferSize > 1 /\ MaxBytes \in Nat

Slots == 0..(RxBufferSize - 1)
Bytes == 1..MaxBytes

VARIABLES
    wire,        \* bytes that arrived so far
    rxd, pnd,    \* UART_RXD, and UART_RX_PND of UART_STAT
    isr,         \* "idle", or "clear": the handler is about to clear pnd
    receive_cb,  \* "append" is uart_append_byte, "other" a caller's function
    rx_buffer, rx_head, rx_tail,
    pc,          \* main program: "idle", "avail", "wait", "fetch", "advance"
    head,        \* local of uart_available
    i, ret,      \* locals of uart_read_byte
    budget,      \* auxiliary: bytes that uart_available promised, not yet read
    offered,     \* auxiliary: the last byte given to uart_append_byte
    taken        \* auxiliary: the bytes uart_read_byte returned

hwVars == <<wire, rxd, pnd>>
ringVars == <<rx_buffer, rx_head, rx_tail>>
mainVars == <<pc, head, i, ret, budget>>
vars == <<wire, rxd, pnd, isr, receive_cb, rx_buffer, rx_head, rx_tail,
          pc, head, i, ret, budget, offered, taken>>

\* uart_init.  The slots hold whatever RAM held; 0 is no byte of the wire.
Init ==
    /\ wire = 0 /\ rxd = 0 /\ pnd = FALSE
    /\ isr = "idle"
    /\ receive_cb = "append"
    /\ rx_buffer = [s \in Slots |-> 0]
    /\ rx_head = 0 /\ rx_tail = 0
    /\ pc = "idle"
    /\ head = 0 /\ i = 0 /\ ret = 0
    /\ budget = 0 /\ offered = 0
    /\ taken = << >>

-----------------------------------------------------------------------------
(* The wire and the interrupt. *)

\* The UART receives a byte.  One that was not picked up is overwritten.
Arrive ==
    /\ wire < MaxBytes
    /\ wire' = wire + 1
    /\ rxd' = wire + 1
    /\ pnd' = TRUE
    /\ UNCHANGED <<isr, receive_cb, ringVars, mainVars, offered, taken>>

After(s) == (s + 1) % RxBufferSize

\* Fault: a full ring is overwritten.
AppendAlways(b) ==
    /\ rx_buffer' = [rx_buffer EXCEPT ![rx_head] = b]
    /\ rx_head' = After(rx_head)

\* Fault: the index runs past the end of the ring.
AppendNoWrap(b) ==
    IF After(rx_head) # rx_tail
    THEN /\ rx_buffer' = [rx_buffer EXCEPT ![rx_head] = b]
         /\ rx_head' = rx_head + 1
    ELSE UNCHANGED <<rx_buffer, rx_head>>

\* The byte is dropped if the ring is full.
uart_append_byte(b) ==
    IF After(rx_head) # rx_tail
    THEN /\ rx_buffer' = [rx_buffer EXCEPT ![rx_head] = b]
         /\ rx_head' = After(rx_head)
    ELSE UNCHANGED <<rx_buffer, rx_head>>

\* The interrupt is taken: UART_RXD is read and handed to the callback.
Receive ==
    /\ pnd
    /\ isr = "idle"
    /\ isr' = "clear"
    /\ \/ /\ receive_cb = "append"
          /\ uart_append_byte(rxd)
          /\ offered' = rxd
       \/ /\ receive_cb = "other"
          /\ UNCHANGED <<rx_buffer, rx_head, offered>>
    /\ UNCHANGED <<hwVars, receive_cb, rx_tail, mainVars, taken>>

\* The handler clears the pending flag, whichever byte set it, and returns.
ClearPending ==
    /\ isr = "clear"
    /\ pnd' = FALSE
    /\ isr' = "idle"
    /\ UNCHANGED <<wire, rxd, receive_cb, ringVars, mainVars, offered, taken>>

-----------------------------------------------------------------------------
(* The main program, which runs when no interrupt is being served. *)

SetReceiveCb(cb) ==
    /\ isr = "idle" /\ pc = "idle"
    /\ receive_cb' = cb
    /\ UNCHANGED <<hwVars, isr, ringVars, mainVars, offered, taken>>

\* uart_available reads rx_head ...
AvailableCall ==
    /\ isr = "idle" /\ pc = "idle"
    /\ head' = rx_head
    /\ pc' = "avail"
    /\ UNCHANGED <<hwVars, isr, receive_cb, ringVars, i, ret, budget, offered, taken>>

\* Fault: the ring's size is forgotten when the bytes wrap.
DistanceOneWay(h, t) == IF h >= t THEN h - t ELSE t - h

\* The bytes from t up to h.
Distance(h, t) == IF h >= t THEN h - t ELSE RxBufferSize + h - t

\* ... and then rx_tail.
AvailableReturn ==
    /\ isr = "idle" /\ pc = "avail"
    /\ budget' = Distance(head, rx_tail)
    /\ pc' = "idle"
    /\ head' = 0
    /\ UNCHANGED <<hwVars, isr, receive_cb, ringVars, i, ret, offered, taken>>

ReadCall ==
    /\ isr = "idle" /\ pc = "idle"
    /\ i' = rx_tail
    /\ pc' = "wait"
    /\ UNCHANGED <<hwVars, isr, receive_cb, ringVars, head, ret, budget, offered, taken>>

\* Fault: the loop waits for a second byte.
ReadyAtTwo ==
    /\ isr = "idle" /\ pc = "wait"
    /\ i # rx_head /\ After(i) # rx_head
    /\ pc' = "fetch"
    /\ UNCHANGED <<hwVars, isr, receive_cb, ringVars, head, i, ret, budget, offered, taken>>

\* The loop of uart_read_byte ends when there is a byte; while there is none
\* it changes nothing.
Ready ==
    /\ isr = "idle" /\ pc = "wait"
    /\ i # rx_head
    /\ pc' = "fetch"
    /\ UNCHANGED <<hwVars, isr, receive_cb, ringVars, head, i, ret, budget, offered, taken>>

Fetch ==
    /\ isr = "idle" /\ pc = "fetch"
    /\ ret' = rx_buffer[i]
    /\ pc' = "advance"
    /\ UNCHANGED <<hwVars, isr, receive_cb, ringVars, head, i, budget, offered, taken>>

\* The slot is given back and the byte returned.
Advance ==
    /\ isr = "idle" /\ pc = "advance"
    /\ rx_tail' = After(i)
    /\ taken' = Append(taken, ret)
    /\ budget' = IF budget > 0 THEN budget - 1 ELSE 0
    /\ pc' = "idle"
    /\ i' = 0 /\ ret' = 0
    /\ UNCHANGED <<hwVars, isr, receive_cb, rx_buffer, rx_head, head, offered>>

Handler == Receive \/ ClearPending
Running == AvailableReturn \/ Ready \/ Fetch \/ Advance

Next ==
    \/ Arrive
    \/ Handler
    \/ \E cb \in {"append", "other"} : SetReceiveCb(cb)
    \/ AvailableCall
    \/ ReadCall
    \/ Running

\* Interrupts are served, and a call that was entered goes on: after RETI the
\* MSP430 runs at least one instruction of the interrupted program before it
\* takes the next interrupt.  No caller need ever call, and no byte need come.
Spec == Init /\ [][Next]_vars /\ WF_vars(Handler) /\ SF_vars(Running)

-----------------------------------------------------------------------------
(* Properties. *)

TypeOK ==
    /\ wire \in 0..MaxBytes /\ rxd \in 0..MaxBytes /\ pnd \in BOOLEAN
    /\ isr \in {"idle", "clear"}
    /\ receive_cb \in {"append", "other"}
    /\ rx_buffer \in [Slots -> 0..MaxBytes]
    /\ rx_head \in Slots /\ rx_tail \in Slots
    /\ pc \in {"idle", "avail", "wait", "fetch", "advance"}
    /\ head \in Slots /\ i \in Slots /\ ret \in 0..MaxBytes
    /\ budget \in Slots
    /\ offered \in 0..MaxBytes
    /\ taken \in Seq(Bytes)

\* How many bytes the ring holds, and which, from rx_tail up to rx_head.
Held == (rx_head + RxBufferSize - rx_tail) % RxBufferSize
Stored == [k \in 1..Held |-> rx_buffer[(rx_tail + k - 1) % RxBufferSize]]

F == INSTANCE Fifo WITH Capacity <- RxBufferSize - 1, stored <- Stored

\* The ring is a FIFO of RX_BUFFER_SIZE - 1 bytes that drops only when it is
\* full (uart.c:13-22, 105), whatever the interrupt does between the reader's
\* look at rx_head, its read of the slot and its update of rx_tail.
FifoSpec == F!Spec

\* What uart_available returned can be read without waiting (uart.c:41-50,
\* 67-71), although the interrupt moves rx_head between its two reads and
\* after it: until that many bytes are read, a reader finds the ring not empty.
AvailableIsPromise ==
    /\ budget <= Held
    /\ pc = "wait" /\ budget > 0 => i # rx_head

\* A reader that waits while the ring holds a byte returns (uart.c:71), even
\* if the interrupt keeps adding bytes.
ReadReturns == (pc = "wait" /\ rx_head # rx_tail) ~> pc = "idle"
=============================================================================
