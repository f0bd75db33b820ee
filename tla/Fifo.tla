-------------------------------- MODULE Fifo --------------------------------
(***************************************************************************)
(* What the receive side of the UART driver (src/dev/uart.c) promises: a   *)
(* first-in first-out queue of at most Capacity bytes.  A byte offered to  *)
(* a full queue is dropped; nothing else is lost, duplicated or reordered. *)
(* Bytes are told apart by the order in which they came: a later byte is a *)
(* greater number.                                                         *)
(***************************************************************************)
EXTENDS Naturals, Sequences

CONSTANTS Capacity, Bytes

VARIABLES
    offered,  \* the last byte offered, 0 before the first
    stored,   \* the bytes in the queue
    taken     \* all the bytes that left it, in order

fifoVars == <<offered, stored, taken>>

Init == offered = 0 /\ stored = << >> /\ taken = << >>

Offer(b) ==
    /\ b > offered
    /\ offered' = b
    /\ stored' = IF Len(stored) < Capacity THEN Append(stored, b) ELSE stored
    /\ UNCHANGED taken

Take ==
    /\ stored # << >>
    /\ taken' = Append(taken, Head(stored))
    /\ stored' = Tail(stored)
    /\ UNCHANGED offered

Next == Take \/ \E b \in Bytes : Offer(b)

Spec == Init /\ [][Next]_fifoVars
=============================================================================
