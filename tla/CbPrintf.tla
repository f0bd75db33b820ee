------------------------------ MODULE CbPrintf ------------------------------
(***************************************************************************)
(* The buffered output of src/tools/tools.c: cb_printf puts characters in  *)
(* a buffer that goes to a callback when it is full, when another callback *)
(* is installed and in the end.                                            *)
(*                                                                         *)
(* The callback runs between two steps of these functions: what they do    *)
(* before and after it are operators of their own, and module Console has  *)
(* the callback.                                                           *)
(***************************************************************************)
EXTENDS Naturals, Sequences

CONSTANTS
    PRINTF_BUF_LEN,  \* 64 in the code
    Callbacks,       \* functions that cb_printf_init is given
    NoCallback       \* NULL

ASSUME CbPrintfAssumption ==
    PRINTF_BUF_LEN \in Nat \ {0} /\ NoCallback \notin Callbacks

VARIABLES
    callback,
    printf_buf,  \* its first printf_buf_idx characters
    printed      \* history: the characters printed, and for which callback

printfVars == <<callback, printf_buf, printed>>

PrintfInit == callback = NoCallback /\ printf_buf = << >> /\ printed = << >>

For(cb, chars) == [k \in DOMAIN chars |-> [char |-> chars[k], cb |-> cb]]

\* A character is stored.
buf_putchar(c) ==
    /\ printf_buf' = Append(printf_buf, c)
    /\ printed' = printed \o For(callback, <<c>>)
    /\ UNCHANGED callback

\* Fault: the buffer is given to the callback one character late.
FullLate(buf) == Len(buf) = PRINTF_BUF_LEN + 1

\* buf_putchar gives a full buffer to the callback ...
Full(buf) == Len(buf) = PRINTF_BUF_LEN

\* ... and empties it when the callback has returned.
Flushed ==
    /\ printf_buf' = << >>
    /\ UNCHANGED <<callback, printed>>

\* The end of cb_printf_finish.
Finished ==
    /\ callback' = NoCallback /\ printf_buf' = << >>
    /\ UNCHANGED printed

\* The end of cb_printf_init, which calls cb_printf_finish first.
Installed ==
    /\ callback' \in Callbacks /\ printf_buf' = << >>
    /\ UNCHANGED printed
=============================================================================
