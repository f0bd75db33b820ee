------------------------------ MODULE Console ------------------------------
(***************************************************************************)
(* One UART with two writers: the main program, which polls the keypad and *)
(* prints what it reports, and the PS/2 interrupt of src/dev/ps2.c with    *)
(* the callbacks keypress and keyrelease of src/main/main.c.               *)
(*                                                                         *)
(* The interrupt handler runs to its end before the main program goes on,  *)
(* also while it waits for the UART.  What the main program does with the  *)
(* libraries is a client's: in each round it installs a callback with      *)
(* cb_printf_init, polls the keypad with two key callbacks that cb_printf  *)
(* two characters, and may call cb_printf_finish and uart_flush.  Its      *)
(* printf callbacks hand the buffer to uart_write.                         *)
(***************************************************************************)
EXTENDS UartTx, CbPrintf, Keypad, Subsequence, SequencesExt

CONSTANT MaxInputs  \* bound: moves of the keys and scan codes, in all

VARIABLES
    pc,       \* main program: "init", "scan", "report", "print", "wait",
              \* "write", "return", "finish", "flush"
    key,      \* local of pmodkypd_poll: the column or key it has come to
    index,    \* local of uart_write: the byte it has come to
    resume,   \* the call that gave the buffer to the callback
    text,     \* characters that a key callback has still to print
    isr,      \* bytes that the interrupt handler has still to write
    ready,    \* the scan code in PS2_DATA, or 0 if it was read
    codes,    \* history: the codes the keyboard sent
    moves     \* number of moves of the keys

mainVars == <<pc, key, index, resume, text>>
ps2Vars == <<isr, ready, codes>>
vars == <<txVars, printfVars, keypadVars, mainVars, ps2Vars, moves>>

\* After pmodkypd_init and ps2_init.
Init ==
    /\ TxInit /\ PrintfInit /\ KeypadInit
    /\ pc = "init" /\ key = 0 /\ index = 0 /\ resume = "init" /\ text = << >>
    /\ isr = << >> /\ ready = 0 /\ codes = << >>
    /\ moves = 0

-----------------------------------------------------------------------------
(* The keyboard and the interrupt. *)

\* PS2_STAT says whether the key was released.  A code that was not read in
\* time is overwritten.
KeyboardSends(released) ==
    /\ moves + Len(codes) < MaxInputs
    /\ codes' = Append(codes, released)
    /\ ready' = Len(codes')
    /\ UNCHANGED <<txVars, printfVars, keypadVars, mainVars, isr, moves>>

Code(n, byte) == [from |-> "key", code |-> n, byte |-> byte]

\* The two bytes of keypress and keyrelease; the code stands for itself.
KeyEvent(n) == <<Code(n, IF codes[n] THEN 1 ELSE 0), Code(n, n)>>

\* ps2_receive reads the registers, in less time than the keyboard needs for
\* another code, and calls cb_press or cb_release.
ps2_receive ==
    /\ isr = << >> /\ ready # 0
    /\ isr' = KeyEvent(ready)
    /\ ready' = 0
    /\ UNCHANGED <<txVars, printfVars, keypadVars, mainVars, codes, moves>>

\* Fault: the handler does not wait for the UART.
KeyWriteAtOnce ==
    /\ isr # << >>
    /\ WriteTXD(Head(isr))
    /\ isr' = Tail(isr)
    /\ UNCHANGED <<printfVars, keypadVars, mainVars, ready, codes, moves>>

\* uart_write_byte in the handler: nothing but the hardware, which only makes
\* room, acts between its two steps.
KeyWrite ==
    /\ isr # << >> /\ NotFull
    /\ WriteTXD(Head(isr))
    /\ isr' = Tail(isr)
    /\ UNCHANGED <<printfVars, keypadVars, mainVars, ready, codes, moves>>

-----------------------------------------------------------------------------
(* The main program: cb_printf and the callback. *)

Runs(at) == isr = << >> /\ pc = at
MainOnly == UNCHANGED <<ps2Vars, moves>>

\* The buffer goes to the callback, and call goes on when that has returned.
CallBack(call) ==
    /\ pc' = "wait" /\ index' = 1 /\ resume' = call

\* Fault: the new callback is installed first.
InitInstallsFirst ==
    /\ Runs("init")
    /\ \/ printf_buf = << >> /\ Installed /\ pc' = "scan" /\ UNCHANGED <<index, resume>>
       \/ /\ printf_buf # << >> /\ CallBack("init")
          /\ callback' \in Callbacks /\ UNCHANGED <<printf_buf, printed>>
    /\ UNCHANGED <<txVars, keypadVars, key, text>> /\ MainOnly

\* cb_printf_init: what is in the buffer goes to the callback it was for.
cb_printf_init ==
    /\ Runs("init")
    /\ \/ printf_buf = << >> /\ Installed /\ pc' = "scan" /\ UNCHANGED <<index, resume>>
       \/ printf_buf # << >> /\ CallBack("init") /\ UNCHANGED printfVars
    /\ UNCHANGED <<txVars, keypadVars, key, text>> /\ MainOnly

\* The program may wait until everything has been sent.
AfterFinish == pc' \in {"flush", "init"}

cb_printf_finish ==
    /\ Runs("finish")
    /\ \/ printf_buf = << >> /\ Finished /\ AfterFinish /\ UNCHANGED <<index, resume>>
       \/ printf_buf # << >> /\ CallBack("finish") /\ UNCHANGED printfVars
    /\ UNCHANGED <<txVars, keypadVars, key, text>> /\ MainOnly

\* The next character of a key callback.
Putchar ==
    /\ Runs("print")
    /\ buf_putchar(Head(text))
    /\ text' = Tail(text)
    /\ IF Full(printf_buf') THEN CallBack("print")
       ELSE /\ pc' = IF text' = << >> THEN "report" ELSE "print"
            /\ UNCHANGED <<index, resume>>
    /\ UNCHANGED <<txVars, keypadVars, key>> /\ MainOnly

Char(n) == [from |-> "text", char |-> printf_buf[n], cb |-> callback]

\* uart_write in the callback, byte by byte: uart_write_byte sees room ...
SeesRoom ==
    /\ Runs("wait") /\ NotFull
    /\ pc' = "write"
    /\ UNCHANGED <<txVars, printfVars, keypadVars, key, index, resume, text>> /\ MainOnly

\* ... and writes the byte.
Write ==
    /\ Runs("write")
    /\ WriteTXD(Char(index))
    /\ index' = index + 1
    /\ pc' = IF index = Len(printf_buf) THEN "return" ELSE "wait"
    /\ UNCHANGED <<printfVars, keypadVars, key, resume, text>> /\ MainOnly

\* The callback returns.
Return ==
    /\ Runs("return")
    /\ \/ resume = "print" /\ Flushed /\ pc' = IF text = << >> THEN "report" ELSE "print"
       \/ resume = "finish" /\ Finished /\ AfterFinish
       \/ resume = "init" /\ Installed /\ pc' = "scan"
    /\ index' = 0
    /\ UNCHANGED <<txVars, keypadVars, key, resume, text>> /\ MainOnly

uart_flush ==
    /\ Runs("flush") /\ NotBusy
    /\ pc' = "init"
    /\ UNCHANGED <<txVars, printfVars, keypadVars, key, index, resume, text>> /\ MainOnly

-----------------------------------------------------------------------------
(* The main program: pmodkypd_poll. *)

\* The loop of read_key_state.
Scan ==
    /\ Runs("scan")
    /\ ReadColumn(key)
    /\ IF key + 1 < Columns THEN key' = key + 1 /\ UNCHANGED pc
       ELSE key' = 0 /\ pc' = "report"
    /\ UNCHANGED <<txVars, printfVars, index, resume, text>> /\ MainOnly

\* What the client's key callbacks print: the key, and what happened to it.
Message(k) == <<[key |-> k, part |-> 1], [key |-> k, part |-> IF k \in new_key_state THEN 3 ELSE 2]>>

\* The loop of pmodkypd_poll calls on_press or on_release for the next key ...
Report ==
    /\ Runs("report") /\ Changed(key) # {}
    /\ LET k == Min(Changed(key)) IN text' = Message(k) /\ key' = k + 1
    /\ pc' = "print"
    /\ UNCHANGED <<txVars, printfVars, keypadVars, index, resume>> /\ MainOnly

\* ... and ends.
EndPoll ==
    /\ Runs("report") /\ Changed(key) = {}
    /\ Polled
    /\ key' = 0
    /\ pc' \in {"finish", "init"}
    /\ UNCHANGED <<txVars, printfVars, index, resume, text>> /\ MainOnly

MoveKey(k) ==
    /\ moves + Len(codes) < MaxInputs
    /\ moves' = moves + 1
    /\ Move(k)
    /\ UNCHANGED <<txVars, printfVars, mainVars, ps2Vars>>

TransmitByte ==
    /\ Transmit
    /\ UNCHANGED <<printfVars, keypadVars, mainVars, ps2Vars, moves>>

-----------------------------------------------------------------------------
Interrupt == ps2_receive \/ KeyWrite

Main ==
    \/ cb_printf_init \/ Scan \/ Report \/ Putchar \/ SeesRoom \/ Write \/ Return
    \/ EndPoll \/ cb_printf_finish \/ uart_flush

Next ==
    \/ Interrupt
    \/ Main
    \/ TransmitByte
    \/ \E released \in BOOLEAN : KeyboardSends(released)
    \/ \E k \in Keys : MoveKey(k)

\* The UART sends what it holds, interrupts are served, and the processor
\* runs.  No key need ever move.
Spec == Init /\ [][Next]_vars /\ WF_vars(TransmitByte) /\ WF_vars(Interrupt) /\ WF_vars(Main)

-----------------------------------------------------------------------------
(* Properties. *)

Chars == [key : Keys, part : 1..3]

\* Types; the buffer of cb_printf never holds more than it has room for, and is
\* passed to a function (tools.c:199-206).
TypeOK ==
    /\ level \in 0..TxSize
    /\ \A k \in DOMAIN txd : txd[k].lost \in BOOLEAN /\ txd[k].byte.from \in {"key", "text"}
    /\ callback \in Callbacks \cup {NoCallback}
    /\ printf_buf \in Seq(Chars) /\ Len(printf_buf) <= PRINTF_BUF_LEN
    /\ {down, current_key_state, new_key_state} \subseteq SUBSET Keys
    /\ pc \in {"init", "scan", "report", "print", "wait", "write", "return",
               "finish", "flush"}
    /\ pc \in {"print", "wait", "write", "return"} => callback # NoCallback
    /\ pc \in {"wait", "write"} => index \in DOMAIN printf_buf
    /\ text \in Seq(Chars) /\ key \in 0..NUM_KEYS
    /\ ready \in 0..Len(codes) /\ Len(isr) <= 2

\* A key event is on the line whole: its two bytes, one after the other, right
\* for the code that came, wherever the interrupt found the main program
\* (main.c:37-47, uart.c:52-65).
KeyEventsWhole ==
    \A k \in DOMAIN txd :
        LET b == txd[k].byte IN
        b.from = "key" =>
            /\ ~txd[k].lost
            /\ \E first \in {k - 1, k} :
                  /\ first \in DOMAIN txd /\ txd[first].byte = KeyEvent(b.code)[1]
                  /\ IF first < Len(txd) THEN txd[first + 1].byte = KeyEvent(b.code)[2]
                     ELSE isr = <<KeyEvent(b.code)[2]>>

\* Of the text a byte is lost only when a key event filled the UART's buffer
\* between the look at UART_STAT and the write (uart.c:55-58): never without
\* an interrupt, and at most one byte for each.
TextDelivered ==
    \A k \in DOMAIN txd :
        txd[k].lost => /\ txd[k].byte.from = "text" /\ k > 2
                       /\ txd[k - 1].byte = KeyEvent(txd[k - 1].byte.code)[2]

\* Every character that was printed is given to uart_write once and in order,
\* by the callback that was installed when it was printed, or still in the
\* buffer: when the buffer fills in the middle of a message, when another
\* callback is installed over a buffer that is not empty, and when the output
\* is finished (tools.c:177-212).
Given ==
    LET texts == Keep(txd, {k \in DOMAIN txd : txd[k].byte.from = "text"}) IN
    [k \in DOMAIN texts |-> [char |-> texts[k].byte.char, cb |-> texts[k].byte.cb]]
NotGiven ==
    IF pc \in {"wait", "write", "return"} THEN SubSeq(printf_buf, index, Len(printf_buf))
    ELSE printf_buf
TextWhole == printed = Given \o For(callback, NotGiven)

\* The events of each key alternate, a press first, and between two polls they
\* agree with what pmodkypd_key_is_pressed says (pmodkypd.c:66-99), although
\* the keys move between the columns of a sample.
EventsOf(k, chars) ==
    Keep(chars, {n \in DOMAIN chars : chars[n].char.key = k /\ chars[n].char.part # 1})
Alternate ==
    \A k \in Keys :
        LET events == EventsOf(k, printed) IN
        /\ \A n \in DOMAIN events : events[n].char.part = 3 <=> n % 2 = 1
        /\ pc \in {"init", "scan"} => (k \in current_key_state <=> Len(events) % 2 = 1)

\* A key that is held, or left alone, for long enough is seen: the last event
\* given to the UART says so for ever.  The polling loop stops nowhere, not in
\* the waits for the UART that it shares with the interrupt.
LastGiven(k) == LET given == EventsOf(k, Given)
                IN given # << >> /\ Last(given).char.part = 3
CatchesUp ==
    \A k \in Keys :
        /\ <>[](k \in down) => <>[]LastGiven(k)
        /\ <>[](k \notin down) => <>[]~LastGiven(k)
=============================================================================
