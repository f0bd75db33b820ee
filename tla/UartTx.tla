------------------------------- MODULE UartTx -------------------------------
(***************************************************************************)
(* The transmit path of src/dev/uart.c: uart_write_byte waits until the    *)
(* UART's TX buffer is not full and then writes UART_TXD.  These are two   *)
(* steps, between which an interrupt may write too; the UART empties its   *)
(* buffer at its own pace.  UART 2 is written in the same way.             *)
(***************************************************************************)
EXTENDS Naturals, Sequences

CONSTANT TxSize  \* bytes that the UART's TX buffer holds

ASSUME UartTxAssumption == TxSize \in Nat \ {0}

VARIABLES
    txd,   \* history: the bytes written to UART_TXD, and whether it had room
    level  \* bytes in the TX buffer

txVars == <<txd, level>>

TxInit == txd = << >> /\ level = 0

\* The hardware: a byte leaves on the line.
Transmit ==
    /\ level > 0
    /\ level' = level - 1
    /\ UNCHANGED txd

\* UART_TXD = b, which is lost if the buffer is full.
WriteTXD(b) ==
    /\ txd' = Append(txd, [byte |-> b, lost |-> level = TxSize])
    /\ level' = IF level = TxSize THEN level ELSE level + 1

\* Fault: room for one byte more than there is.
NotFullByOne == level <= TxSize

\* Where the loop of uart_write_byte ends.
NotFull == level < TxSize

\* Where the loop of uart_flush ends.
NotBusy == level = 0
=============================================================================
