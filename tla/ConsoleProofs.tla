---------------------------- MODULE ConsoleProofs ----------------------------
(***************************************************************************)
(* Proofs about Console for every number of keys, size of the UART's       *)
(* buffer, size of the buffer of cb_printf and set of callbacks: what the  *)
(* two writers of one UART do to each other's bytes, what becomes of the   *)
(* text, and which events a key reports.                                   *)
(***************************************************************************)
EXTENDS Console, SubsequenceProofs, SequenceTheorems

\* What is in the histories.
Given1 == [char : Chars, cb : Callbacks \cup {NoCallback}]
KeyByte == [from : {"key"}, code : Nat, byte : Nat]
TextByte == [from : {"text"}, char : Chars, cb : Callbacks \cup {NoCallback}]
Entry == [byte : KeyByte \cup TextByte, lost : BOOLEAN]

HistoryInv ==
    /\ txd \in Seq(Entry)
    /\ printed \in Seq(Given1)
    /\ codes \in Seq(BOOLEAN)

\* What the control state says of the output: the buffer is full only while
\* the callback has it, and has a callback while the program is between
\* cb_printf_init and cb_printf_finish, or the buffer is not empty.
Calling == pc \in {"wait", "write", "return"}
OutputInv ==
    /\ resume \in {"init", "print", "finish"}
    /\ pc \in {"scan", "report", "print"} \/ Calling \/ printf_buf # << >>
           => callback # NoCallback
    /\ ~Calling => Len(printf_buf) < PRINTF_BUF_LEN
    /\ index \in Nat
    /\ pc = "return" => index = Len(printf_buf) + 1
    /\ pc = "print" => text # << >>
    /\ pc = "scan" => key < Columns
    /\ pc \notin {"scan", "report", "print"} /\ ~(Calling /\ resume = "print") => key = 0
    /\ pc # "print" /\ ~(Calling /\ resume = "print") => text = << >>

\* What the handler has still to write are bytes of a key event; if it is the
\* second one, the first was the last to go to the UART.
First(n) == Code(n, IF codes[n] THEN 1 ELSE 0)
Second(n) == Code(n, n)
IsrInv ==
    \/ isr = << >>
    \/ \E n \in DOMAIN codes :
          \/ isr = <<First(n), Second(n)>>
          \/ /\ isr = <<Second(n)>>
             /\ txd # << >>
             /\ txd[Len(txd)] = [byte |-> First(n), lost |-> FALSE]

TypeInv == TypeOK /\ HistoryInv /\ OutputInv /\ IsrInv

-----------------------------------------------------------------------------
(* The parts of a state. *)

\* There is a key, and a column is no more than all the keys.
LEMMA KeysNat ==
    /\ NUM_KEYS \in Nat
    /\ Columns \in Nat /\ 0 < Columns /\ Columns <= NUM_KEYS
<1>1. \A r, c \in Nat \ {0} : r * c \in Nat /\ c <= r * c
  BY SMT
<1> QED BY <1>1, KeypadAssumption, SMT DEF NUM_KEYS

\* The two bytes of a key event.
LEMMA KeyEventIs ==
    ASSUME NEW n
    PROVE  /\ KeyEvent(n) = <<First(n), Second(n)>>
           /\ KeyEvent(n)[1] = First(n) /\ KeyEvent(n)[2] = Second(n)
BY DEF KeyEvent, First, Second

\* They are bytes of the keyboard.
LEMMA KeyBytes ==
    ASSUME NEW n \in Nat
    PROVE  /\ First(n) \in KeyByte /\ Second(n) \in KeyByte
           /\ First(n).code = n /\ Second(n).code = n
           /\ First(n).from = "key" /\ Second(n).from = "key"
BY SMT DEF First, Second, Code, KeyByte

\* Head and tail of one and of two elements.
LEMMA PairIs ==
    \A a, b : /\ Head(<<a, b>>) = a /\ Tail(<<a, b>>) = <<b>>
              /\ Head(<<b>>) = b /\ Tail(<<b>>) = << >>
BY SMT

\* A message is of two characters about one key.
LEMMA MessageIs ==
    ASSUME NEW k \in Keys
    PROVE  /\ Message(k) \in Seq(Chars) /\ Len(Message(k)) = 2
           /\ Message(k) # << >>
           /\ Head(Message(k)) = [key |-> k, part |-> 1]
           /\ Tail(Message(k)) = <<[key |-> k, part |-> IF k \in new_key_state THEN 3 ELSE 2]>>
<1>1. /\ [key |-> k, part |-> 1] \in Chars
      /\ [key |-> k, part |-> IF k \in new_key_state THEN 3 ELSE 2] \in Chars
  BY SMT DEF Chars
<1> QED BY <1>1, SMT DEF Message

\* The next key to report is the first of those that differ.
LEMMA NextKey ==
    ASSUME key \in Nat, Changed(key) # {}
    PROVE  /\ Min(Changed(key)) \in Changed(key)
           /\ \A x \in Changed(key) : Min(Changed(key)) <= x
<1>1. Changed(key) \subseteq Nat
  <2>1. \A x \in key..(NUM_KEYS - 1) : x \in Nat
    BY KeysNat, SMT
  <2> QED BY <2>1 DEF Changed
<1>2. \E m \in Changed(key) : \A x \in Changed(key) : m <= x
  BY <1>1, Least
<1> QED BY <1>2 DEF Min

\* A write to UART_TXD leaves one entry more, and at most a full buffer.
LEMMA WriteIs ==
    ASSUME TypeOK, HistoryInv, NEW b \in KeyByte \cup TextByte, WriteTXD(b)
    PROVE  /\ level' \in 0..TxSize
           /\ txd' \in Seq(Entry)
           /\ \A k \in DOMAIN txd' : txd'[k].lost \in BOOLEAN /\ txd'[k].byte.from \in {"key", "text"}
           /\ Len(txd') = Len(txd) + 1 /\ Len(txd) \in Nat
           /\ txd'[Len(txd) + 1] = [byte |-> b, lost |-> level = TxSize]
           /\ \A k \in 1..Len(txd) : txd'[k] = txd[k]
<1> DEFINE e == [byte |-> b, lost |-> level = TxSize]
<1>1. e \in Entry
  BY DEF Entry
<1>2. \A x \in Entry : x.lost \in BOOLEAN /\ x.byte.from \in {"key", "text"}
  BY SMT DEF Entry, KeyByte, TextByte
<1>3. level' \in 0..TxSize
  BY UartTxAssumption, SMT DEF TypeOK, WriteTXD
<1>4. txd' = Append(txd, e) /\ txd \in Seq(Entry)
  BY DEF WriteTXD, HistoryInv
<1> HIDE DEF e
<1>5. /\ txd' \in Seq(Entry)
      /\ Len(txd') = Len(txd) + 1 /\ Len(txd) \in Nat
      /\ txd'[Len(txd) + 1] = e
      /\ \A k \in 1..Len(txd) : txd'[k] = txd[k]
  BY <1>1, <1>4, SMT
<1>6. \A k \in DOMAIN txd' : txd'[k] \in Entry
  BY <1>5, SMT
<1> QED BY <1>2, <1>3, <1>5, <1>6 DEF e
-----------------------------------------------------------------------------
(* Types and control state, action by action. *)

\* Everything is empty at first.
LEMMA InitType == Init => TypeInv
<1> SUFFICES ASSUME Init PROVE TypeInv
  OBVIOUS
<1> USE DEF Init, TxInit, PrintfInit, KeypadInit
<1>1. TypeOK
  <2>1. /\ << >> \in Seq(Chars) /\ Len(<< >>) = 0
        /\ DOMAIN << >> = {}
    BY SMT
  <2>2. 0 \in 0..TxSize /\ 0 <= PRINTF_BUF_LEN /\ 0 \in 0..NUM_KEYS /\ 0 \in 0..0 /\ 0 <= 2
    BY KeysNat, UartTxAssumption, CbPrintfAssumption, SMT
  <2> QED BY <2>1, <2>2 DEF TypeOK
<1>2. HistoryInv
  <2>1. << >> \in Seq(Entry) /\ << >> \in Seq(Given1) /\ << >> \in Seq(BOOLEAN)
    BY SMT
  <2> QED BY <2>1 DEF HistoryInv
<1>3. OutputInv
  BY CbPrintfAssumption, SMT DEF OutputInv, Calling
<1>4. IsrInv
  BY DEF IsrInv
<1> QED BY <1>1, <1>2, <1>3, <1>4 DEF TypeInv

\* A step that leaves the UART, the codes and the handler's bytes alone.
LEMMA SameIsr ==
    ASSUME IsrInv, txd' = txd, codes' = codes, isr' = isr
    PROVE  IsrInv'
BY DEF IsrInv, First, Second, Code

\* A code arrives: no earlier one changes.
LEMMA KeyboardType ==
    ASSUME TypeInv, NEW released \in BOOLEAN, KeyboardSends(released)
    PROVE  TypeInv'
<1> USE DEF KeyboardSends, txVars, printfVars, keypadVars, mainVars
<1>1. TypeOK /\ HistoryInv /\ OutputInv /\ IsrInv
  BY DEF TypeInv
<1>2. /\ codes' \in Seq(BOOLEAN) /\ Len(codes') = Len(codes) + 1 /\ Len(codes) \in Nat
      /\ \A n \in DOMAIN codes : n \in DOMAIN codes' /\ codes'[n] = codes[n]
  BY <1>1, SMT DEF HistoryInv
<1>3. ready' \in 0..Len(codes')
  BY <1>2, SMT
<1>4. TypeOK'
  BY <1>1, <1>3 DEF TypeOK
<1>5. HistoryInv'
  BY <1>1, <1>2 DEF HistoryInv
<1>6. OutputInv'
  BY <1>1 DEF OutputInv, Calling
<1>7. IsrInv'
  <2>1. ASSUME NEW n \in DOMAIN codes
        PROVE  First(n)' = First(n) /\ Second(n)' = Second(n)
    BY <1>2, <2>1 DEF First, Second, Code
  <2>2. isr' = isr /\ txd' = txd
    OBVIOUS
  <2> QED BY <1>1, <1>2, <2>1, <2>2 DEF IsrInv
<1> QED BY <1>4, <1>5, <1>6, <1>7 DEF TypeInv

\* The handler starts with the two bytes of the code.
LEMMA ReceiveType ==
    ASSUME TypeInv, ps2_receive
    PROVE  TypeInv'
<1> USE DEF ps2_receive, txVars, printfVars, keypadVars, mainVars
<1>1. TypeOK /\ HistoryInv /\ OutputInv /\ IsrInv
  BY DEF TypeInv
<1>2. ready \in DOMAIN codes /\ 0 \in 0..Len(codes)
  BY <1>1, SMT DEF TypeOK, HistoryInv
<1>3. isr' = <<First(ready), Second(ready)>>
  BY KeyEventIs
<1>4. Len(isr') <= 2
  BY <1>3, SMT
<1>5. TypeOK'
  BY <1>1, <1>2, <1>4 DEF TypeOK
<1>6. HistoryInv' /\ OutputInv'
  BY <1>1 DEF HistoryInv, OutputInv, Calling
<1>7. IsrInv'
  BY <1>2, <1>3 DEF IsrInv, First, Second, Code
<1> QED BY <1>5, <1>6, <1>7 DEF TypeInv

\* The handler writes a byte.
LEMMA KeyWriteType ==
    ASSUME TypeInv, KeyWrite
    PROVE  TypeInv'
<1> USE DEF KeyWrite, printfVars, keypadVars, mainVars
<1>1. TypeOK /\ HistoryInv /\ OutputInv /\ IsrInv
  BY DEF TypeInv
<1>2. PICK n \in DOMAIN codes :
          \/ isr = <<First(n), Second(n)>>
          \/ isr = <<Second(n)>>
  BY <1>1 DEF IsrInv
<1>3. n \in Nat
  BY <1>1, SMT DEF HistoryInv
<1>4. /\ Head(isr) \in KeyByte
      /\ \/ isr = <<First(n), Second(n)>> /\ Head(isr) = First(n) /\ isr' = <<Second(n)>>
         \/ isr = <<Second(n)>> /\ Head(isr) = Second(n) /\ isr' = << >>
  <2>1. First(n) \in KeyByte /\ Second(n) \in KeyByte
    BY <1>3, KeyBytes
  <2> QED BY <1>2, <2>1, PairIs
<1>5. Head(isr) \in KeyByte \cup TextByte /\ WriteTXD(Head(isr))
  BY <1>4
<1>6. /\ level' \in 0..TxSize
      /\ txd' \in Seq(Entry)
      /\ \A k \in DOMAIN txd' : txd'[k].lost \in BOOLEAN /\ txd'[k].byte.from \in {"key", "text"}
      /\ Len(txd') = Len(txd) + 1 /\ Len(txd) \in Nat
      /\ txd'[Len(txd) + 1] = [byte |-> Head(isr), lost |-> level = TxSize]
  BY <1>1, <1>5, WriteIs
<1>7. Len(isr') <= 2
  BY <1>4, SMT
<1>8. TypeOK'
  BY <1>1, <1>6, <1>7 DEF TypeOK
<1>9. HistoryInv' /\ OutputInv'
  BY <1>1, <1>6 DEF HistoryInv, OutputInv, Calling
<1>10. (level = TxSize) = FALSE
  BY <1>1, UartTxAssumption, SMT DEF NotFull, TypeOK
<1>11. txd' # << >>
  BY <1>6, SMT
<1>12. IsrInv'
  <2>1. First(n)' = First(n) /\ Second(n)' = Second(n) /\ n \in DOMAIN codes'
    BY DEF First, Second, Code
  <2> QED BY <1>4, <1>6, <1>10, <1>11, <2>1 DEF IsrInv
<1> QED BY <1>8, <1>9, <1>12 DEF TypeInv

\* The UART sends a byte.
LEMMA TransmitType ==
    ASSUME TypeInv, TransmitByte
    PROVE  TypeInv'
<1> USE DEF TransmitByte, Transmit, printfVars, keypadVars, mainVars, ps2Vars
<1>1. TypeOK /\ HistoryInv /\ OutputInv /\ IsrInv
  BY DEF TypeInv
<1>2. level' \in 0..TxSize
  BY <1>1, UartTxAssumption, SMT DEF TypeOK
<1>3. TypeOK'
  BY <1>1, <1>2 DEF TypeOK
<1>4. HistoryInv' /\ OutputInv'
  BY <1>1 DEF HistoryInv, OutputInv, Calling
<1>5. IsrInv'
  BY <1>1, SameIsr
<1> QED BY <1>3, <1>4, <1>5 DEF TypeInv

\* A key moves.
LEMMA MoveType ==
    ASSUME TypeInv, NEW k \in Keys, MoveKey(k)
    PROVE  TypeInv'
<1> USE DEF MoveKey, Move, txVars, printfVars, mainVars, ps2Vars
<1>1. TypeOK /\ HistoryInv /\ OutputInv /\ IsrInv
  BY DEF TypeInv
<1>2. down' \in SUBSET Keys
  BY <1>1 DEF TypeOK
<1>3. TypeOK'
  BY <1>1, <1>2 DEF TypeOK
<1>4. HistoryInv' /\ OutputInv'
  BY <1>1 DEF HistoryInv, OutputInv, Calling
<1>5. IsrInv'
  BY <1>1, SameIsr
<1> QED BY <1>3, <1>4, <1>5 DEF TypeInv

\* cb_printf_init installs a callback, or gives the buffer to the old one.
LEMMA InitCallType ==
    ASSUME TypeInv, cb_printf_init
    PROVE  TypeInv'
<1> USE DEF cb_printf_init, Runs, MainOnly, ps2Vars, txVars, keypadVars
<1>1. TypeOK /\ HistoryInv /\ OutputInv /\ IsrInv
  BY DEF TypeInv
<1>2. IsrInv'
  BY <1>1, SameIsr
<1>3. CASE printf_buf = << >> /\ Installed /\ pc' = "scan" /\ UNCHANGED <<index, resume>>
  <2>1. /\ callback' \in Callbacks /\ callback' # NoCallback
        /\ printf_buf' = << >> /\ printed' = printed
    BY <1>3, CbPrintfAssumption DEF Installed
  <2>2. Len(<< >>) = 0 /\ << >> \in Seq(Chars)
    BY SMT
  <2>3. 0 <= PRINTF_BUF_LEN /\ 0 < PRINTF_BUF_LEN
    BY CbPrintfAssumption, SMT
  <2>4. TypeOK'
    BY <1>1, <1>3, <2>1, <2>2, <2>3 DEF TypeOK
  <2>5. HistoryInv'
    BY <1>1, <2>1 DEF HistoryInv
  <2>6. OutputInv'
    <3>1. key = 0
      BY <1>1 DEF OutputInv, Calling
    <3> QED BY <1>1, <1>3, <2>1, <2>2, <2>3, <3>1, KeysNat DEF OutputInv, Calling
  <2> QED BY <1>2, <2>4, <2>5, <2>6 DEF TypeInv
<1>4. CASE printf_buf # << >> /\ CallBack("init") /\ UNCHANGED printfVars
  <2> USE DEF CallBack, printfVars
  <2>1. 1 \in DOMAIN printf_buf
    BY <1>1, <1>4, SMT DEF TypeOK
  <2>2. callback # NoCallback
    BY <1>1, <1>4 DEF OutputInv
  <2>3. TypeOK'
    BY <1>1, <1>4, <2>1, <2>2 DEF TypeOK
  <2>4. HistoryInv' /\ OutputInv'
    BY <1>1, <1>4, <2>2 DEF HistoryInv, OutputInv, Calling
  <2> QED BY <1>2, <2>3, <2>4 DEF TypeInv
<1> QED BY <1>3, <1>4


\* cb_printf_finish forgets the callback, or gives it the buffer.
LEMMA FinishCallType ==
    ASSUME TypeInv, cb_printf_finish
    PROVE  TypeInv'
<1> USE DEF cb_printf_finish, Runs, MainOnly, ps2Vars, txVars, keypadVars
<1>1. TypeOK /\ HistoryInv /\ OutputInv /\ IsrInv
  BY DEF TypeInv
<1>2. IsrInv'
  BY <1>1, SameIsr
<1>3. CASE printf_buf = << >> /\ Finished /\ AfterFinish /\ UNCHANGED <<index, resume>>
  <2>1. /\ callback' = NoCallback /\ printf_buf' = << >> /\ printed' = printed
        /\ pc' \in {"flush", "init"}
    BY <1>3 DEF Finished, AfterFinish
  <2>2. Len(<< >>) = 0 /\ << >> \in Seq(Chars)
    BY SMT
  <2>3. 0 <= PRINTF_BUF_LEN /\ 0 < PRINTF_BUF_LEN
    BY CbPrintfAssumption, SMT
  <2>4. TypeOK'
    BY <1>1, <1>3, <2>1, <2>2, <2>3 DEF TypeOK
  <2>5. HistoryInv' /\ OutputInv'
    BY <1>1, <1>3, <2>1, <2>2, <2>3 DEF HistoryInv, OutputInv, Calling
  <2> QED BY <1>2, <2>4, <2>5 DEF TypeInv
<1>4. CASE printf_buf # << >> /\ CallBack("finish") /\ UNCHANGED printfVars
  <2> USE DEF CallBack, printfVars
  <2>1. 1 \in DOMAIN printf_buf
    BY <1>1, <1>4, SMT DEF TypeOK
  <2>2. callback # NoCallback
    BY <1>1, <1>4 DEF OutputInv
  <2>3. TypeOK'
    BY <1>1, <1>4, <2>1, <2>2 DEF TypeOK
  <2>4. HistoryInv' /\ OutputInv'
    BY <1>1, <1>4, <2>2 DEF HistoryInv, OutputInv, Calling
  <2> QED BY <1>2, <2>3, <2>4 DEF TypeInv
<1> QED BY <1>3, <1>4

\* The history of what is printed grows by the character and its callback.
LEMMA ForOne ==
    ASSUME NEW S, NEW s \in Seq(S), NEW cb, NEW c
    PROVE  s \o For(cb, <<c>>) = Append(s, [char |-> c, cb |-> cb])
<1>1. For(cb, <<c>>) = <<[char |-> c, cb |-> cb]>>
  BY SMT DEF For
<1>2. \A e : s \o <<e>> = Append(s, e)
  BY SMT
<1> QED BY <1>1, <1>2

\* A character is stored: there is room for it.
LEMMA PutcharType ==
    ASSUME TypeInv, Putchar
    PROVE  TypeInv'
<1> USE DEF Putchar, Runs, MainOnly, ps2Vars, txVars, keypadVars
<1>1. TypeOK /\ HistoryInv /\ OutputInv /\ IsrInv
  BY DEF TypeInv
<1>2. IsrInv'
  BY <1>1, SameIsr
<1>3. /\ text # << >> /\ text \in Seq(Chars)
      /\ printf_buf \in Seq(Chars) /\ Len(printf_buf) < PRINTF_BUF_LEN
      /\ callback # NoCallback /\ callback \in Callbacks \cup {NoCallback}
      /\ printed \in Seq(Given1)
  BY <1>1 DEF OutputInv, TypeOK, HistoryInv, Calling
<1>4. Head(text) \in Chars /\ text' \in Seq(Chars)
  BY <1>3, SMT
<1>5. /\ printf_buf' = Append(printf_buf, Head(text)) /\ callback' = callback
      /\ printed' = printed \o For(callback, <<Head(text)>>)
  BY DEF buf_putchar
<1>6. /\ printf_buf' \in Seq(Chars) /\ Len(printf_buf') <= PRINTF_BUF_LEN
      /\ 1 \in DOMAIN printf_buf' /\ printf_buf' # << >>
      /\ Len(printf_buf') # PRINTF_BUF_LEN => Len(printf_buf') < PRINTF_BUF_LEN
  BY <1>3, <1>4, <1>5, CbPrintfAssumption, SMT
<1>7. printed' \in Seq(Given1)
  <2>1. printed' = Append(printed, [char |-> Head(text), cb |-> callback])
    BY <1>3, <1>5, ForOne
  <2>2. [char |-> Head(text), cb |-> callback] \in Given1
    BY <1>3, <1>4 DEF Given1
  <2> QED BY <1>3, <2>1, <2>2, SMT
<1>8. HistoryInv'
  BY <1>1, <1>7 DEF HistoryInv
<1>9. CASE Full(printf_buf')
  <2> USE DEF CallBack
  <2>1. TypeOK'
    BY <1>1, <1>3, <1>4, <1>5, <1>6, <1>9 DEF TypeOK
  <2>2. OutputInv'
    BY <1>1, <1>3, <1>5, <1>6, <1>9 DEF OutputInv, Calling
  <2> QED BY <1>2, <1>8, <2>1, <2>2 DEF TypeInv
<1>10. CASE ~Full(printf_buf')
  <2>1. /\ pc' = IF text' = << >> THEN "report" ELSE "print"
        /\ UNCHANGED <<index, resume>>
    BY <1>10
  <2>2. TypeOK'
    BY <1>1, <1>3, <1>4, <1>5, <1>6, <2>1 DEF TypeOK
  <2>3. Len(printf_buf') < PRINTF_BUF_LEN
    BY <1>6, <1>10 DEF Full
  <2>4. OutputInv'
    BY <1>1, <1>3, <1>5, <2>3, <2>1 DEF OutputInv, Calling
  <2> QED BY <1>2, <1>8, <2>2, <2>4 DEF TypeInv
<1> QED BY <1>9, <1>10

\* The loop of uart_write_byte ends.
LEMMA SeesRoomType ==
    ASSUME TypeInv, SeesRoom
    PROVE  TypeInv'
<1> USE DEF SeesRoom, Runs, MainOnly, ps2Vars, txVars, printfVars, keypadVars
<1>1. TypeOK /\ HistoryInv /\ OutputInv /\ IsrInv
  BY DEF TypeInv
<1>2. IsrInv'
  BY <1>1, SameIsr
<1>3. TypeOK'
  BY <1>1 DEF TypeOK
<1>4. HistoryInv' /\ OutputInv'
  BY <1>1 DEF HistoryInv, OutputInv, Calling
<1> QED BY <1>2, <1>3, <1>4 DEF TypeInv

\* What uart_write writes is a character of the buffer.
LEMMA CharIs ==
    ASSUME TypeInv, pc = "write"
    PROVE  Char(index) \in TextByte
<1>1. printf_buf[index] \in Chars /\ callback \in Callbacks \cup {NoCallback}
  BY SMT DEF TypeInv, TypeOK
<1> QED BY <1>1 DEF Char, TextByte

\* The main program writes a byte.
LEMMA WriteType ==
    ASSUME TypeInv, Write
    PROVE  TypeInv'
<1> USE DEF Write, Runs, MainOnly, ps2Vars, printfVars, keypadVars
<1>1. TypeOK /\ HistoryInv /\ OutputInv /\ IsrInv
  BY DEF TypeInv
<1>2. Char(index) \in KeyByte \cup TextByte /\ WriteTXD(Char(index))
  BY CharIs
<1>3. /\ level' \in 0..TxSize
      /\ txd' \in Seq(Entry)
      /\ \A k \in DOMAIN txd' : txd'[k].lost \in BOOLEAN /\ txd'[k].byte.from \in {"key", "text"}
  BY <1>1, <1>2, WriteIs
<1>4. /\ index \in Nat /\ index \in 1..Len(printf_buf) /\ Len(printf_buf) \in Nat
      /\ DOMAIN printf_buf = 1..Len(printf_buf)
  BY <1>1, SMT DEF TypeOK
<1>5. /\ index' \in Nat
      /\ pc' = "wait" => index' \in DOMAIN printf_buf
      /\ pc' = "return" => index' = Len(printf_buf) + 1
      /\ pc' \in {"wait", "return"}
  <2>1. index = Len(printf_buf) => index + 1 = Len(printf_buf) + 1 /\ index + 1 \in Nat
    BY <1>4
  <2>2. index # Len(printf_buf) => index + 1 \in 1..Len(printf_buf) /\ index + 1 \in Nat
    <3>1. \A x, n \in Nat : x \in 1..n /\ x # n => x + 1 \in 1..n /\ x + 1 \in Nat
      BY SMT
    <3> QED BY <1>4, <3>1
  <2> QED BY <1>4, <2>1, <2>2
<1>6. TypeOK'
  BY <1>1, <1>3, <1>5 DEF TypeOK
<1>7. HistoryInv'
  BY <1>1, <1>3 DEF HistoryInv
<1>8. OutputInv'
  BY <1>1, <1>5 DEF OutputInv, Calling
<1>9. IsrInv'
  BY DEF IsrInv
<1> QED BY <1>6, <1>7, <1>8, <1>9 DEF TypeInv

\* The callback returns and the buffer is empty.
LEMMA ReturnType ==
    ASSUME TypeInv, Return
    PROVE  TypeInv'
<1> USE DEF Return, Runs, MainOnly, ps2Vars, txVars, keypadVars
<1>1. TypeOK /\ HistoryInv /\ OutputInv /\ IsrInv
  BY DEF TypeInv
<1>2. IsrInv'
  BY <1>1, SameIsr
<1>3. Len(<< >>) = 0 /\ << >> \in Seq(Chars)
  BY SMT
<1>4. 0 <= PRINTF_BUF_LEN /\ 0 < PRINTF_BUF_LEN
  BY CbPrintfAssumption, SMT
<1>5. printf_buf' = << >> /\ printed' = printed
  BY DEF Flushed, Finished, Installed
<1>6. HistoryInv'
  BY <1>1, <1>5 DEF HistoryInv
<1>7. CASE resume = "print" /\ Flushed /\ pc' = IF text = << >> THEN "report" ELSE "print"
  <2>1. callback' = callback /\ callback # NoCallback
    BY <1>1, <1>7 DEF Flushed, OutputInv, Calling
  <2>2. TypeOK'
    BY <1>1, <1>3, <1>4, <1>5, <1>7, <2>1 DEF TypeOK
  <2>3. OutputInv'
    BY <1>1, <1>3, <1>4, <1>5, <1>7, <2>1 DEF OutputInv, Calling
  <2> QED BY <1>2, <1>6, <2>2, <2>3 DEF TypeInv
<1>8. CASE resume = "finish" /\ Finished /\ AfterFinish
  <2>1. callback' = NoCallback /\ pc' \in {"flush", "init"}
    BY <1>8 DEF Finished, AfterFinish
  <2>2. TypeOK'
    BY <1>1, <1>3, <1>4, <1>5, <1>8, <2>1 DEF TypeOK
  <2>3. OutputInv'
    BY <1>1, <1>3, <1>4, <1>5, <1>8, <2>1 DEF OutputInv, Calling
  <2> QED BY <1>2, <1>6, <2>2, <2>3 DEF TypeInv
<1>9. CASE resume = "init" /\ Installed /\ pc' = "scan"
  <2>1. callback' \in Callbacks /\ callback' # NoCallback
    BY <1>9, CbPrintfAssumption DEF Installed
  <2>2. TypeOK'
    BY <1>1, <1>3, <1>4, <1>5, <1>9, <2>1 DEF TypeOK
  <2>3. key = 0 /\ text = << >>
    BY <1>1, <1>9 DEF OutputInv, Calling
  <2>4. OutputInv'
    BY <1>1, <1>3, <1>4, <1>5, <1>9, <2>1, <2>3, KeysNat DEF OutputInv, Calling
  <2> QED BY <1>2, <1>6, <2>2, <2>4 DEF TypeInv
<1> QED BY <1>7, <1>8, <1>9

\* All bytes have left the UART.
LEMMA FlushType ==
    ASSUME TypeInv, uart_flush
    PROVE  TypeInv'
<1> USE DEF uart_flush, Runs, MainOnly, ps2Vars, txVars, printfVars, keypadVars
<1>1. TypeOK /\ HistoryInv /\ OutputInv /\ IsrInv
  BY DEF TypeInv
<1>2. IsrInv'
  BY <1>1, SameIsr
<1>3. TypeOK'
  BY <1>1 DEF TypeOK
<1>4. HistoryInv' /\ OutputInv'
  BY <1>1 DEF HistoryInv, OutputInv, Calling
<1> QED BY <1>2, <1>3, <1>4 DEF TypeInv

\* A column of the keypad is read.
LEMMA ScanType ==
    ASSUME TypeInv, Scan
    PROVE  TypeInv'
<1> USE DEF Scan, Runs, MainOnly, ps2Vars, txVars, printfVars, ReadColumn
<1>1. TypeOK /\ HistoryInv /\ OutputInv /\ IsrInv
  BY DEF TypeInv
<1>2. IsrInv'
  BY <1>1, SameIsr
<1>3. new_key_state' \in SUBSET Keys
  <2>1. Column(key) \subseteq Keys
    BY Zenon DEF Column
  <2> QED BY <1>1, <2>1 DEF TypeOK
<1>4. key' \in 0..NUM_KEYS
  BY <1>1, KeysNat, SMT DEF TypeOK
<1>5. TypeOK'
  BY <1>1, <1>3, <1>4 DEF TypeOK
<1>6. HistoryInv'
  BY <1>1 DEF HistoryInv
<1>7. OutputInv'
  BY <1>1, SMT DEF OutputInv, Calling
<1> QED BY <1>2, <1>5, <1>6, <1>7 DEF TypeInv

\* The next key that differs is reported.
LEMMA ReportType ==
    ASSUME TypeInv, Report
    PROVE  TypeInv'
<1> USE DEF Report, Runs, MainOnly, ps2Vars, txVars, printfVars, keypadVars
<1>1. TypeOK /\ HistoryInv /\ OutputInv /\ IsrInv
  BY DEF TypeInv
<1>2. IsrInv'
  BY <1>1, SameIsr
<1> DEFINE k == Min(Changed(key))
<1>3. key \in Nat /\ Changed(key) # {}
  BY <1>1, KeysNat, SMT DEF TypeOK
<1>4. k \in Changed(key)
  BY <1>3, NextKey
<1>5. k \in key..(NUM_KEYS - 1)
  BY <1>4 DEF Changed
<1>6. text' = Message(k) /\ key' = k + 1 /\ pc' = "print"
  OBVIOUS
<1> HIDE DEF k
<1>7. k \in Keys /\ k + 1 \in 0..NUM_KEYS
  BY <1>3, <1>5, KeysNat, SMT DEF Keys
<1>8. text' \in Seq(Chars) /\ text' # << >>
  BY <1>6, <1>7, MessageIs
<1>9. TypeOK'
  <2>1. callback # NoCallback
    BY <1>1 DEF OutputInv
  <2> QED BY <1>1, <1>6, <1>7, <1>8, <2>1 DEF TypeOK
<1>10. HistoryInv' /\ OutputInv'
  BY <1>1, <1>6, <1>8 DEF HistoryInv, OutputInv, Calling
<1> QED BY <1>2, <1>9, <1>10 DEF TypeInv

\* The poll ends.
LEMMA EndPollType ==
    ASSUME TypeInv, EndPoll
    PROVE  TypeInv'
<1> USE DEF EndPoll, Runs, MainOnly, ps2Vars, txVars, printfVars, Polled
<1>1. TypeOK /\ HistoryInv /\ OutputInv /\ IsrInv
  BY DEF TypeInv
<1>2. IsrInv'
  BY <1>1, SameIsr
<1>3. 0 \in 0..NUM_KEYS
  BY KeysNat, SMT
<1>4. TypeOK'
  BY <1>1, <1>3 DEF TypeOK
<1>5. HistoryInv' /\ OutputInv'
  BY <1>1 DEF HistoryInv, OutputInv, Calling
<1> QED BY <1>2, <1>4, <1>5 DEF TypeInv

\* Every step keeps the types and the control state.
LEMMA NextType == TypeInv /\ [Next]_vars => TypeInv'
<1> SUFFICES ASSUME TypeInv, [Next]_vars PROVE TypeInv'
  OBVIOUS
<1>1. CASE Interrupt
  BY <1>1, ReceiveType, KeyWriteType DEF Interrupt
<1>2. CASE Main
  BY <1>2, InitCallType, ScanType, ReportType, PutcharType, SeesRoomType, WriteType,
     ReturnType, EndPollType, FinishCallType, FlushType DEF Main
<1>3. CASE TransmitByte
  BY <1>3, TransmitType
<1>4. CASE \E released \in BOOLEAN : KeyboardSends(released)
  BY <1>4, KeyboardType
<1>5. CASE \E k \in Keys : MoveKey(k)
  BY <1>5, MoveType
<1>6. CASE UNCHANGED vars
  <2> USE <1>6 DEF vars, txVars, printfVars, keypadVars, mainVars, ps2Vars
  <2>1. TypeOK' /\ HistoryInv' /\ OutputInv'
    BY DEF TypeInv, TypeOK, HistoryInv, OutputInv, Calling
  <2>2. IsrInv'
    BY SameIsr DEF TypeInv
  <2> QED BY <2>1, <2>2 DEF TypeInv
<1> QED BY <1>1, <1>2, <1>3, <1>4, <1>5, <1>6 DEF Next

-----------------------------------------------------------------------------
(* The bytes on the line. *)

\* The codes of the events on the line are codes that came.
CodesInv ==
    \A k \in DOMAIN txd : txd[k].byte.from = "key" => txd[k].byte.code \in DOMAIN codes

\* The main program has seen room.  If there is none any more, the byte before
\* its own is the second of a key event.
FullInv ==
    pc = "write" /\ isr = << >> /\ level = TxSize =>
        /\ Len(txd) >= 2
        /\ txd[Len(txd)].byte = Second(txd[Len(txd)].byte.code)

\* KeyEventsWhole and TextDelivered, for the k-th byte.
WholeAt(k) ==
    txd[k].byte.from = "key" =>
        /\ ~txd[k].lost
        /\ \E first \in {k - 1, k} :
              /\ first \in DOMAIN txd /\ txd[first].byte = First(txd[k].byte.code)
              /\ IF first < Len(txd) THEN txd[first + 1].byte = Second(txd[k].byte.code)
                 ELSE isr = <<Second(txd[k].byte.code)>>
DeliveredAt(k) ==
    txd[k].lost => /\ txd[k].byte.from = "text" /\ k > 2
                   /\ txd[k - 1].byte = Second(txd[k - 1].byte.code)

LineInv ==
    /\ CodesInv
    /\ FullInv
    /\ \A k \in DOMAIN txd : WholeAt(k) /\ DeliveredAt(k)

\* A step that does not write: no code is forgotten, and the handler starts
\* only when it has nothing left to write.
LEMMA LineSame ==
    ASSUME TypeInv, LineInv, txd' = txd,
           \A n \in DOMAIN codes : n \in DOMAIN codes' /\ codes'[n] = codes[n],
           isr' = isr \/ isr = << >>,
           FullInv'
    PROVE  LineInv'
<1>1. ASSUME NEW n \in DOMAIN codes
      PROVE  First(n)' = First(n) /\ Second(n)' = Second(n)
  BY DEF First, Second, Code
<1>2. CodesInv'
  BY DEF LineInv, CodesInv
<1>3. ASSUME NEW k \in DOMAIN txd
      PROVE  WholeAt(k)' /\ DeliveredAt(k)'
  <2>1. DeliveredAt(k)'
    BY DEF LineInv, DeliveredAt, Second, Code
  <2>2. WholeAt(k)'
    <3> SUFFICES ASSUME txd[k].byte.from = "key" PROVE WholeAt(k)'
      BY DEF WholeAt
    <3> DEFINE n == txd[k].byte.code
    <3>1. n \in DOMAIN codes
      BY DEF LineInv, CodesInv
    <3>2. First(n)' = First(n) /\ Second(n)' = Second(n)
      BY <1>1, <3>1
    <3>3. PICK first \in {k - 1, k} :
              /\ first \in DOMAIN txd /\ txd[first].byte = First(n)
              /\ IF first < Len(txd) THEN txd[first + 1].byte = Second(n)
                 ELSE isr = <<Second(n)>>
      BY DEF LineInv, WholeAt
    <3>4. ~txd[k].lost
      BY DEF LineInv, WholeAt
    <3>5. <<Second(n)>> # << >>
      BY SMT
    <3> QED BY <3>2, <3>3, <3>4, <3>5 DEF WholeAt
  <2> QED BY <2>1, <2>2
<1> QED BY <1>2, <1>3 DEF LineInv

\* The handler writes a byte of a key event: there is room for it, and the
\* first byte of the event is in front of the second.
LEMMA LineKeyWrite ==
    ASSUME TypeInv, TypeInv', LineInv, KeyWrite
    PROVE  LineInv'
<1> USE DEF KeyWrite, printfVars, keypadVars, mainVars
<1> DEFINE L == Len(txd)
           e == txd'[L + 1]
<1>1. PICK n \in DOMAIN codes :
          \/ isr = <<First(n), Second(n)>>
          \/ /\ isr = <<Second(n)>>
             /\ txd # << >>
             /\ txd[L] = [byte |-> First(n), lost |-> FALSE]
  BY DEF TypeInv, IsrInv
<1>2. n \in Nat /\ First(n)' = First(n) /\ Second(n)' = Second(n) /\ codes' = codes
  BY SMT DEF TypeInv, HistoryInv, First, Second, Code
<1>3. /\ First(n) \in KeyByte /\ First(n).code = n /\ First(n).from = "key"
      /\ Second(n) \in KeyByte /\ Second(n).code = n /\ Second(n).from = "key"
  BY <1>2, KeyBytes
<1>4. /\ isr = <<First(n), Second(n)>> => Head(isr) = First(n) /\ isr' = <<Second(n)>>
      /\ isr = <<Second(n)>> => Head(isr) = Second(n) /\ isr' = << >>
  BY PairIs
<1>5. /\ Len(txd') = L + 1 /\ L \in Nat
      /\ e = [byte |-> Head(isr), lost |-> level = TxSize]
      /\ \A k \in 1..L : txd'[k] = txd[k]
  <2>1. Head(isr) \in KeyByte \cup TextByte
    BY <1>1, <1>3, <1>4
  <2>2. TypeOK /\ HistoryInv
    BY DEF TypeInv
  <2>3. WriteTXD(Head(isr))
    OBVIOUS
  <2> QED BY <2>1, <2>2, <2>3, WriteIs
<1>6. DOMAIN txd = 1..L /\ DOMAIN txd' = 1..(L + 1)
  BY <1>5, SMT DEF TypeInv, HistoryInv
<1>7. e.byte = Head(isr) /\ ~e.lost
  <2>1. (level = TxSize) = FALSE
    BY UartTxAssumption, SMT DEF NotFull, TypeInv, TypeOK
  <2>2. e = [byte |-> Head(isr), lost |-> FALSE]
    BY <1>5, <2>1
  <2> HIDE DEF e
  <2> QED BY <2>2
<1> HIDE DEF e
<1>8. CodesInv'
  <2>1. e.byte.from = "key" /\ e.byte.code = n
    BY <1>1, <1>3, <1>4, <1>7
  <2>2. \A k \in 1..(L + 1) : k = L + 1 \/ k \in 1..L
    <3>1. \A l \in Nat : \A k \in 1..(l + 1) : k = l + 1 \/ k \in 1..l
      BY SMT
    <3> QED BY <1>5, <3>1
  <2> QED BY <1>2, <1>5, <1>6, <2>1, <2>2 DEF LineInv, CodesInv, e
<1>9. ASSUME NEW k \in 1..L
      PROVE  WholeAt(k)' /\ DeliveredAt(k)'
  <2>1. k \in 1..(L + 1) /\ k \in Nat /\ k >= 1 /\ k <= L
    BY <1>5, SMT
  <2>2. DeliveredAt(k)'
    <3>1. k > 2 => k - 1 \in 1..L
      BY <2>1, SMT
    <3> QED BY <1>5, <1>6, <3>1 DEF LineInv, DeliveredAt, Second, Code
  <2>3. WholeAt(k)'
    <3> SUFFICES ASSUME txd[k].byte.from = "key" PROVE WholeAt(k)'
      BY <1>5 DEF WholeAt
    <3> DEFINE c == txd[k].byte.code
    <3>1. ~txd[k].lost
      BY <1>6 DEF LineInv, WholeAt
    <3>2. PICK first \in {k - 1, k} :
              /\ first \in DOMAIN txd /\ txd[first].byte = First(c)
              /\ IF first < L THEN txd[first + 1].byte = Second(c)
                 ELSE isr = <<Second(c)>>
      BY <1>6 DEF LineInv, WholeAt
    <3>3. first \in 1..L /\ first < L + 1 /\ first \in 1..(L + 1)
      BY <1>5, <1>6, <3>2, SMT
    <3>4. txd'[k] = txd[k] /\ txd'[first] = txd[first]
      BY <1>5, <3>3
    <3>5. txd'[first + 1].byte = Second(c)
      <4>1. CASE first < L
        <5>1. first + 1 \in 1..L
          BY <1>5, <3>3, <4>1, SMT
        <5> QED BY <1>5, <3>2, <4>1, <5>1
      <4>2. CASE ~(first < L)
        <5>1. first = L
          BY <1>5, <3>3, <4>2, SMT
        <5>2. isr = <<Second(c)>>
          BY <3>2, <4>2
        <5>3. Head(isr) = Second(c)
          BY <5>2, PairIs
        <5> QED BY <1>7, <5>1, <5>3 DEF e
      <4> QED BY <4>1, <4>2
    <3> QED BY <1>2, <1>5, <1>6, <3>1, <3>2, <3>3, <3>4, <3>5 DEF WholeAt, First, Second, Code
  <2> QED BY <2>2, <2>3
<1>10. ASSUME NEW k, k = L + 1
       PROVE  WholeAt(k)' /\ DeliveredAt(k)'
  <2>1. txd'[k].byte = Head(isr) /\ ~txd'[k].lost
    BY <1>7, <1>10 DEF e
  <2>2. DeliveredAt(k)'
    BY <2>1 DEF DeliveredAt
  <2>3. CASE isr = <<First(n), Second(n)>>
    <3>1. txd'[k].byte = First(n) /\ txd'[k].byte.code = n /\ isr' = <<Second(n)>>
      BY <1>3, <1>4, <2>1, <2>3
    <3>2. k \in DOMAIN txd' /\ ~(k < Len(txd'))
      BY <1>5, <1>6, <1>10, SMT
    <3> QED BY <1>2, <2>1, <2>2, <3>1, <3>2 DEF WholeAt
  <2>4. CASE isr # <<First(n), Second(n)>>
    <3>1. isr = <<Second(n)>> /\ txd # << >> /\ txd[L] = [byte |-> First(n), lost |-> FALSE]
      BY <1>1, <2>4
    <3>2. txd'[k].byte = Second(n) /\ txd'[k].byte.code = n
      BY <1>3, <1>4, <2>1, <3>1
    <3>3. /\ L \in 1..L /\ k - 1 = L /\ L \in DOMAIN txd'
          /\ L < Len(txd') /\ L + 1 = k
      <4>1. L # 0
        BY <3>1, SMT DEF TypeInv, HistoryInv
      <4> QED BY <1>5, <1>6, <1>10, <4>1, SMT
    <3>4. txd'[L].byte = First(n)
      BY <1>5, <3>1, <3>3
    <3>5. /\ k - 1 \in DOMAIN txd' /\ txd'[k - 1].byte = First(n)
          /\ k - 1 < Len(txd') /\ txd'[(k - 1) + 1].byte = Second(n)
      BY <3>2, <3>3, <3>4
    <3> QED BY <1>2, <2>1, <2>2, <3>2, <3>5 DEF WholeAt
  <2> QED BY <2>3, <2>4
<1>11. FullInv'
  <2> SUFFICES ASSUME isr' = << >> 
               PROVE  /\ Len(txd') >= 2
                      /\ txd'[Len(txd')].byte = Second(txd[Len(txd)].byte.code)'
    BY DEF FullInv
  <2>1. <<Second(n)>> # << >>
    BY SMT
  <2>2. isr = <<Second(n)>> /\ txd # << >> /\ e.byte = Second(n) /\ e.byte.code = n
    BY <1>1, <1>3, <1>4, <1>7, <2>1
  <2>3. Len(txd') >= 2
    BY <1>5, <2>2, SMT DEF TypeInv, HistoryInv
  <2> QED BY <1>2, <1>5, <2>2, <2>3 DEF e, Second, Code
<1> QED
  <2>1. \A k \in 1..(L + 1) : k = L + 1 \/ k \in 1..L
    BY <1>5, SMT
  <2>2. \A k \in DOMAIN txd' : WholeAt(k)' /\ DeliveredAt(k)'
    BY <1>6, <1>9, <1>10, <2>1
  <2> QED BY <1>8, <1>11, <2>2 DEF LineInv

\* The main program writes a byte of the text.  It is lost only if a key event
\* has filled the buffer since the program saw room.
LEMMA LineWrite ==
    ASSUME TypeInv, TypeInv', LineInv, Write
    PROVE  LineInv'
<1> USE DEF Write, Runs, MainOnly, ps2Vars, printfVars, keypadVars
<1> DEFINE L == Len(txd)
<1>1. /\ Len(txd') = L + 1 /\ L \in Nat
      /\ txd'[L + 1] = [byte |-> Char(index), lost |-> level = TxSize]
      /\ \A k \in 1..L : txd'[k] = txd[k]
  <2>1. Char(index) \in KeyByte \cup TextByte
    BY CharIs
  <2>2. TypeOK /\ HistoryInv
    BY DEF TypeInv
  <2>3. WriteTXD(Char(index))
    OBVIOUS
  <2> QED BY <2>1, <2>2, <2>3, WriteIs
<1>2. DOMAIN txd = 1..L /\ DOMAIN txd' = 1..(L + 1)
  BY <1>1, SMT DEF TypeInv, HistoryInv
<1>3. txd'[L + 1].byte.from = "text"
  BY <1>1 DEF Char
<1>4. \A k \in 1..(L + 1) : k = L + 1 \/ k \in 1..L
  <2>1. \A l \in Nat : \A k \in 1..(l + 1) : k = l + 1 \/ k \in 1..l
    BY SMT
  <2> QED BY <1>1, <2>1
<1>5. codes' = codes /\ isr = << >> /\ isr' = << >> /\ pc' # "write"
  OBVIOUS
<1>6. CodesInv'
  BY <1>1, <1>2, <1>3, <1>4, <1>5 DEF LineInv, CodesInv
<1>7. FullInv'
  BY <1>5 DEF FullInv
<1>8. ASSUME NEW k \in 1..L
      PROVE  WholeAt(k)' /\ DeliveredAt(k)'
  <2>1. k \in 1..(L + 1) /\ k \in Nat /\ k >= 1 /\ k <= L
    BY <1>1, SMT
  <2>2. DeliveredAt(k)'
    <3>1. k > 2 => k - 1 \in 1..L
      BY <2>1, SMT
    <3> QED BY <1>1, <1>2, <3>1 DEF LineInv, DeliveredAt, Second, Code
  <2>3. WholeAt(k)'
    <3> SUFFICES ASSUME txd[k].byte.from = "key" PROVE WholeAt(k)'
      BY <1>1 DEF WholeAt
    <3> DEFINE c == txd[k].byte.code
    <3>1. ~txd[k].lost
      BY <1>2 DEF LineInv, WholeAt
    <3>2. PICK first \in {k - 1, k} :
              /\ first \in DOMAIN txd /\ txd[first].byte = First(c)
              /\ IF first < L THEN txd[first + 1].byte = Second(c)
                 ELSE isr = <<Second(c)>>
      BY <1>2 DEF LineInv, WholeAt
    <3>3. first < L
      <4>1. <<Second(c)>> # << >>
        BY SMT
      <4> QED BY <1>5, <3>2, <4>1
    <3>4. first \in 1..L /\ first < L + 1 /\ first \in 1..(L + 1) /\ first + 1 \in 1..L
      BY <1>1, <1>2, <3>2, <3>3, SMT
    <3>5. txd'[k] = txd[k] /\ txd'[first] = txd[first] /\ txd'[first + 1].byte = Second(c)
      BY <1>1, <3>2, <3>3, <3>4
    <3> QED BY <1>1, <1>2, <1>5, <3>1, <3>2, <3>4, <3>5 DEF WholeAt, First, Second, Code
  <2> QED BY <2>2, <2>3
<1>9. ASSUME NEW k, k = L + 1
      PROVE  WholeAt(k)' /\ DeliveredAt(k)'
  <2>1. WholeAt(k)'
    BY <1>3, <1>9 DEF WholeAt
  <2>2. ASSUME txd'[k].lost
        PROVE  /\ txd'[k].byte.from = "text" /\ k > 2
               /\ txd'[k - 1].byte = Second(txd[L].byte.code)
               /\ txd'[k - 1] = txd[L]
    <3>1. level = TxSize
      <4>1. txd'[k].lost = (level = TxSize)
        BY <1>1, <1>9
      <4>2. level # TxSize => (level = TxSize) = FALSE
        OBVIOUS
      <4> QED BY <2>2, <4>1, <4>2
    <3>2. L >= 2 /\ txd[L].byte = Second(txd[L].byte.code)
      BY <1>5, <3>1 DEF LineInv, FullInv
    <3>3. k > 2 /\ k - 1 = L /\ L \in 1..L
      BY <1>1, <1>9, <3>2, SMT
    <3> QED BY <1>1, <1>3, <1>9, <3>2, <3>3
  <2>3. DeliveredAt(k)'
    BY <2>2 DEF DeliveredAt, Second, Code
  <2> QED BY <2>1, <2>3
<1> QED
  <2>1. \A k \in DOMAIN txd' : WholeAt(k)' /\ DeliveredAt(k)'
    BY <1>2, <1>4, <1>8, <1>9
  <2> QED BY <1>6, <1>7, <2>1 DEF LineInv

\* The line carries nothing at first.
LEMMA InitLine == Init => LineInv
<1> SUFFICES ASSUME Init PROVE LineInv
  OBVIOUS
<1>1. txd = << >> /\ DOMAIN << >> = {} /\ pc = "init"
  BY SMT DEF Init, TxInit
<1> QED BY <1>1 DEF LineInv, CodesInv, FullInv

\* Neither what the hardware does nor a step of the program breaks it.
LEMMA NextLine ==
    ASSUME TypeInv, TypeInv', LineInv, [Next]_vars
    PROVE  LineInv'
<1> USE DEF txVars, printfVars, keypadVars, mainVars, ps2Vars, MainOnly, Runs
<1>1. ASSUME txd' = txd, codes' = codes, isr' = isr \/ isr = << >>, FullInv'
      PROVE  LineInv'
  BY <1>1, LineSame
<1>2. CASE KeyWrite
  BY <1>2, LineKeyWrite
<1>3. CASE Write
  BY <1>3, LineWrite
<1>4. CASE ps2_receive
  <2>1. FullInv'
    <3>1. isr' # << >>
      <4>1. \A a, b : <<a, b>> # << >>
        BY SMT
      <4> QED BY <1>4, <4>1 DEF ps2_receive, KeyEvent
    <3> QED BY <3>1 DEF FullInv
  <2> QED BY <1>1, <1>4, <2>1 DEF ps2_receive
<1>5. CASE SeesRoom
  <2>1. FullInv'
    BY <1>5, UartTxAssumption, SMT DEF SeesRoom, NotFull, FullInv, TypeInv, TypeOK
  <2> QED BY <1>1, <1>5, <2>1 DEF SeesRoom
<1>6. CASE TransmitByte
  <2>1. level' # TxSize
    BY <1>6, UartTxAssumption, SMT DEF TransmitByte, Transmit, TypeInv, TypeOK
  <2>2. FullInv'
    BY <2>1 DEF FullInv
  <2> QED BY <1>1, <1>6, <2>2 DEF TransmitByte, Transmit
<1>7. CASE \/ cb_printf_init \/ Scan \/ Report \/ Putchar \/ Return
           \/ EndPoll \/ cb_printf_finish \/ uart_flush
  <2>1. txd' = txd /\ codes' = codes /\ isr' = isr /\ pc' # "write"
    BY <1>7 DEF cb_printf_init, Scan, Report, Putchar, Return, EndPoll,
       cb_printf_finish, uart_flush, CallBack, AfterFinish
  <2> QED BY <1>1, <2>1 DEF FullInv
<1>8. ASSUME NEW released \in BOOLEAN, KeyboardSends(released)
      PROVE  LineInv'
  <2>1. \A n \in DOMAIN codes : n \in DOMAIN codes' /\ codes'[n] = codes[n]
    BY <1>8, SMT DEF KeyboardSends, TypeInv, HistoryInv
  <2>2. txd' = txd /\ isr' = isr
    BY <1>8 DEF KeyboardSends
  <2>3. FullInv'
    BY <1>8 DEF KeyboardSends, FullInv, LineInv, Second, Code
  <2> QED BY <2>1, <2>2, <2>3, LineSame
<1>9. ASSUME NEW k \in Keys, MoveKey(k)
      PROVE  LineInv'
  <2>1. FullInv'
    BY <1>9 DEF MoveKey, FullInv, LineInv, Second, Code
  <2> QED BY <1>1, <1>9, <2>1 DEF MoveKey
<1>10. CASE UNCHANGED vars
  <2>1. FullInv'
    BY <1>10 DEF vars, FullInv, LineInv, Second, Code
  <2> QED BY <1>1, <1>10, <2>1 DEF vars
<1> QED BY <1>2, <1>3, <1>4, <1>5, <1>6, <1>7, <1>8, <1>9, <1>10 DEF Next, Interrupt, Main
-----------------------------------------------------------------------------
(* The text. *)

Texts == Keep(txd, {k \in DOMAIN txd : txd[k].byte.from = "text"})
GivenOf(s) == [k \in DOMAIN s |-> [char |-> s[k].byte.char, cb |-> s[k].byte.cb]]
CharOf(e) == [char |-> e.byte.char, cb |-> e.byte.cb]

\* The elements of the sequences of characters.
Written == Given1 \cup {CharOf(e) : e \in Entry}

\* GivenOf is a sequence, and grows with its argument.
LEMMA GivenOfIs ==
    ASSUME NEW s \in Seq(Entry)
    PROVE  /\ GivenOf(s) \in Seq(Written)
           /\ \A e \in Entry : GivenOf(Append(s, e)) = Append(GivenOf(s), CharOf(e))
<1>1. \A k \in 1..Len(s) : s[k] \in Entry /\ CharOf(s[k]) \in Written
  BY SMT DEF Written
<1>2. GivenOf(s) = [k \in 1..Len(s) |-> CharOf(s[k])] /\ Len(s) \in Nat
  BY SMT DEF GivenOf, CharOf
<1>3. GivenOf(s) \in Seq(Written) /\ Len(GivenOf(s)) = Len(s)
  <2> HIDE DEF Written
  <2> QED BY <1>1, <1>2, IsASeq, LenProperties
<1>4. ASSUME NEW e \in Entry
      PROVE  GivenOf(Append(s, e)) = Append(GivenOf(s), CharOf(e))
  <2> DEFINE t == Append(s, e)
             u == Append(GivenOf(s), CharOf(e))
  <2>1. t \in Seq(Entry) /\ Len(t) = Len(s) + 1 /\ t[Len(s) + 1] = e
        /\ \A k \in 1..Len(s) : t[k] = s[k]
    BY SMT
  <2>2. GivenOf(t) = [k \in 1..(Len(s) + 1) |-> CharOf(t[k])]
    BY <1>2, <2>1, SMT DEF GivenOf, CharOf
  <2>3. CharOf(e) \in Written
    BY DEF Written
  <2>4. u \in Seq(Written) /\ Len(u) = Len(s) + 1 /\ u[Len(s) + 1] = CharOf(e)
        /\ \A k \in 1..Len(s) : u[k] = GivenOf(s)[k]
    BY <1>3, <2>3, SMT
  <2>5. \A k \in 1..(Len(s) + 1) : k = Len(s) + 1 \/ k \in 1..Len(s)
    BY <1>2, SMT
  <2>6. \A k \in 1..(Len(s) + 1) : CharOf(t[k]) \in Written /\ u[k] = CharOf(t[k])
    BY <1>1, <1>2, <2>1, <2>3, <2>4, <2>5
  <2> HIDE DEF t, u, Written
  <2>7. GivenOf(t) \in Seq(Written) /\ Len(GivenOf(t)) = Len(s) + 1
    BY <1>2, <2>2, <2>6, IsASeq, LenProperties
  <2>8. \A k \in 1..(Len(s) + 1) : GivenOf(t)[k] = u[k]
    BY <2>2, <2>6
  <2>9. GivenOf(t) = u
    BY <2>4, <2>7, <2>8, SeqEqual
  <2> QED BY <2>9 DEF t, u
<1> QED BY <1>3, <1>4

\* A byte of a key event adds nothing to the text on the line, a byte of the
\* text its character.
LEMMA GivenGrows ==
    ASSUME HistoryInv, NEW e \in Entry, txd' = Append(txd, e)
    PROVE  /\ Given \in Seq(Written)
           /\ e.byte.from = "key" => Given' = Given
           /\ e.byte.from = "text" => Given' = Append(Given, CharOf(e))
<1> DEFINE K == {k \in DOMAIN txd : txd[k].byte.from = "text"}
           L == {k \in DOMAIN txd' : txd'[k].byte.from = "text"}
<1>1. txd \in Seq(Entry)
  BY DEF HistoryInv
<1>2. /\ DOMAIN txd = 1..Len(txd) /\ DOMAIN txd' = 1..(Len(txd) + 1) /\ Len(txd) \in Nat
      /\ \A k \in 1..Len(txd) : txd'[k] = txd[k] /\ k \in 1..(Len(txd) + 1)
      /\ txd'[Len(txd) + 1] = e /\ Len(txd) + 1 \in 1..(Len(txd) + 1)
  BY <1>1, SMT
<1>3. \A k \in 1..Len(txd) : k \in L <=> k \in K
  BY <1>2
<1>4. Len(txd) + 1 \in L <=> e.byte.from = "text"
  BY <1>2
<1> HIDE DEF K, L
<1>5. Keep(txd', L) = IF Len(txd) + 1 \in L THEN Append(Keep(txd, K), e) ELSE Keep(txd, K)
  BY <1>1, <1>3, KeepAppend
<1>6. Keep(txd, K) \in Seq(Entry)
  BY <1>1, KeepType
<1>7. Given = GivenOf(Keep(txd, K)) /\ Given' = GivenOf(Keep(txd', L))
  BY DEF Given, GivenOf, K, L
<1>8. e.byte.from = "key" => e.byte.from # "text"
  OBVIOUS
<1> QED BY <1>4, <1>5, <1>6, <1>7, <1>8, GivenOfIs

\* For, character by character.
LEMMA ForIs ==
    ASSUME NEW s \in Seq(Chars), NEW cb \in Callbacks \cup {NoCallback}
    PROVE  /\ For(cb, s) \in Seq(Written) /\ Len(For(cb, s)) = Len(s)
           /\ \A k \in 1..Len(s) : For(cb, s)[k] = [char |-> s[k], cb |-> cb]
<1>1. For(cb, s) = [k \in 1..Len(s) |-> [char |-> s[k], cb |-> cb]] /\ Len(s) \in Nat
  BY SMT DEF For
<1>2. \A k \in 1..Len(s) : [char |-> s[k], cb |-> cb] \in Written
  BY SMT DEF Written, Given1
<1> HIDE DEF Written
<1> QED BY <1>1, <1>2, IsASeq, LenProperties

\* A character more to be given.
LEMMA ForAppend ==
    ASSUME NEW s \in Seq(Chars), NEW c \in Chars, NEW cb \in Callbacks \cup {NoCallback}
    PROVE  For(cb, Append(s, c)) = Append(For(cb, s), [char |-> c, cb |-> cb])
<1> DEFINE t == Append(s, c)
           x == [char |-> c, cb |-> cb]
           u == Append(For(cb, s), x)
<1>1. t \in Seq(Chars) /\ Len(t) = Len(s) + 1 /\ t[Len(s) + 1] = c /\ Len(s) \in Nat
      /\ \A k \in 1..Len(s) : t[k] = s[k]
  BY SMT
<1> HIDE DEF t
<1>2. For(cb, t) \in Seq(Written) /\ Len(For(cb, t)) = Len(s) + 1
      /\ \A k \in 1..(Len(s) + 1) : For(cb, t)[k] = [char |-> t[k], cb |-> cb]
  BY <1>1, ForIs
<1>3. For(cb, s) \in Seq(Written) /\ Len(For(cb, s)) = Len(s)
      /\ \A k \in 1..Len(s) : For(cb, s)[k] = [char |-> s[k], cb |-> cb]
  BY ForIs
<1>4. x \in Written
  BY DEF Written, Given1
<1> HIDE DEF Written
<1>5. u \in Seq(Written) /\ Len(u) = Len(s) + 1 /\ u[Len(s) + 1] = x
      /\ \A k \in 1..Len(s) : u[k] = For(cb, s)[k]
  BY <1>3, <1>4, SMT
<1>6. \A k \in 1..(Len(s) + 1) : k = Len(s) + 1 \/ k \in 1..Len(s)
  BY <1>1, SMT
<1>7. \A k \in 1..(Len(s) + 1) : For(cb, t)[k] = u[k]
  BY <1>1, <1>2, <1>3, <1>5, <1>6
<1>8. For(cb, t) = u
  BY <1>2, <1>5, <1>7, SeqEqual
<1> QED BY <1>8 DEF t

\* An element in front of a sequence.
LEMMA InFront ==
    ASSUME NEW S, NEW x \in S, NEW r \in Seq(S)
    PROVE  /\ <<x>> \o r \in Seq(S) /\ Len(<<x>> \o r) = Len(r) + 1
           /\ (<<x>> \o r)[1] = x
           /\ \A k \in 1..Len(r) : (<<x>> \o r)[k + 1] = r[k]
<1> DEFINE s == <<x>>
<1>1. s \in Seq(S) /\ Len(s) = 1 /\ s[1] = x
  BY SMT
<1>2. Len(r) \in Nat
  BY SMT
<1> HIDE DEF s
<1>3. /\ s \o r \in Seq(S) /\ Len(s \o r) = 1 + Len(r)
      /\ \A i \in 1..(1 + Len(r)) : (s \o r)[i] = IF i <= 1 THEN s[i] ELSE r[i - 1]
  <2>1. /\ s \o r \in Seq(S) /\ Len(s \o r) = Len(s) + Len(r)
        /\ \A i \in 1..(Len(s) + Len(r)) :
              (s \o r)[i] = IF i <= Len(s) THEN s[i] ELSE r[i - Len(s)]
    BY <1>1, ConcatProperties
  <2> QED BY <1>1, <2>1
<1>4. (s \o r)[1] = x
  <2>1. 1 \in 1..(1 + Len(r)) /\ 1 <= 1
    BY <1>2, SMT
  <2> QED BY <1>1, <1>3, <2>1
<1>5. \A k \in 1..Len(r) : (s \o r)[k + 1] = r[k]
  <2>1. \A k \in 1..Len(r) : k + 1 \in 1..(1 + Len(r)) /\ ~(k + 1 <= 1) /\ (k + 1) - 1 = k
    BY <1>2, SMT
  <2> QED BY <1>3, <2>1
<1>6. 1 + Len(r) = Len(r) + 1
  BY <1>2, SMT
<1> QED BY <1>3, <1>4, <1>5, <1>6 DEF s

\* An element at the end of one sequence or in front of the next.
LEMMA Regroup ==
    ASSUME NEW S, NEW g \in Seq(S), NEW x \in S, NEW r \in Seq(S)
    PROVE  g \o (<<x>> \o r) = Append(g, x) \o r
<1> DEFINE one == <<x>>
<1>1. one \in Seq(S)
  BY SMT
<1>2. Append(g, x) = g \o one
  BY AppendIsConcat
<1> HIDE DEF one
<1>3. (g \o one) \o r = g \o (one \o r)
  BY <1>1, ConcatAssociative
<1> QED BY <1>2, <1>3 DEF one

\* The next character is taken off the front of what is to be given.
LEMMA ForRest ==
    ASSUME NEW s \in Seq(Chars), NEW i \in 1..Len(s), NEW cb \in Callbacks \cup {NoCallback}
    PROVE  For(cb, SubSeq(s, i, Len(s)))
             = <<[char |-> s[i], cb |-> cb]>> \o For(cb, SubSeq(s, i + 1, Len(s)))
<1> DEFINE n == Len(s)
           x == [char |-> s[i], cb |-> cb]
           t == SubSeq(s, i, n)
           r == SubSeq(s, i + 1, n)
<1>1. n \in Nat /\ i \in Nat /\ 1 <= i /\ i <= n
  BY SMT
<1>2. t \in Seq(Chars) /\ Len(t) = n - i + 1 /\ \A k \in 1..(n - i + 1) : t[k] = s[k + i - 1]
  BY <1>1, SMT
<1>3. r \in Seq(Chars) /\ Len(r) = n - i /\ \A k \in 1..(n - i) : r[k] = s[k + i]
  BY <1>1, SMT
<1>4. x \in Written /\ s[i] \in Chars
  BY SMT DEF Written, Given1
<1> HIDE DEF t, r, Written
<1>5. /\ For(cb, t) \in Seq(Written) /\ Len(For(cb, t)) = n - i + 1
      /\ \A k \in 1..(n - i + 1) : For(cb, t)[k] = [char |-> s[k + i - 1], cb |-> cb]
  <2>1. /\ For(cb, t) \in Seq(Written) /\ Len(For(cb, t)) = Len(t)
        /\ \A k \in 1..Len(t) : For(cb, t)[k] = [char |-> t[k], cb |-> cb]
    BY <1>2, ForIs
  <2> QED BY <1>2, <2>1
<1>6. /\ For(cb, r) \in Seq(Written) /\ Len(For(cb, r)) = n - i
      /\ \A k \in 1..(n - i) : For(cb, r)[k] = [char |-> s[k + i], cb |-> cb]
  <2>1. /\ For(cb, r) \in Seq(Written) /\ Len(For(cb, r)) = Len(r)
        /\ \A k \in 1..Len(r) : For(cb, r)[k] = [char |-> r[k], cb |-> cb]
    BY <1>3, ForIs
  <2> QED BY <1>3, <2>1
<1> DEFINE u == <<x>> \o For(cb, r)
<1> HIDE DEF x
<1>7. /\ u \in Seq(Written) /\ Len(u) = n - i + 1 /\ u[1] = x
      /\ \A k \in 1..(n - i) : u[k + 1] = For(cb, r)[k]
  <2>1. /\ u \in Seq(Written) /\ Len(u) = Len(For(cb, r)) + 1 /\ u[1] = x
        /\ \A k \in 1..Len(For(cb, r)) : u[k + 1] = For(cb, r)[k]
    <3> DEFINE f == For(cb, r)
    <3>1. f \in Seq(Written)
      BY <1>6
    <3> HIDE DEF f
    <3>2. /\ <<x>> \o f \in Seq(Written) /\ Len(<<x>> \o f) = Len(f) + 1
          /\ (<<x>> \o f)[1] = x
          /\ \A k \in 1..Len(f) : (<<x>> \o f)[k + 1] = f[k]
      BY <1>4, <3>1, InFront
    <3> QED BY <3>2 DEF f
  <2> HIDE DEF u
  <2> QED BY <1>6, <2>1
<1>8. \A k \in 1..(n - i + 1) : For(cb, t)[k] = u[k]
  <2> SUFFICES ASSUME NEW k \in 1..(n - i + 1) PROVE For(cb, t)[k] = u[k]
    OBVIOUS
  <2>1. CASE k = 1
    <3>1. k + i - 1 = i
      BY <1>1, <2>1, SMT
    <3> QED BY <1>5, <1>7, <2>1, <3>1 DEF x
  <2>2. CASE k # 1
    <3>1. k - 1 \in 1..(n - i) /\ (k - 1) + 1 = k /\ (k - 1) + i = k + i - 1
      BY <1>1, <2>2, SMT
    <3>2. u[k] = For(cb, r)[k - 1]
      BY <1>7, <3>1
    <3> QED BY <1>5, <1>6, <3>1, <3>2
  <2> QED BY <2>1, <2>2
<1> HIDE DEF u
<1>9. For(cb, t) = u
  BY <1>5, <1>7, <1>8, SeqEqual
<1> QED BY <1>9 DEF t, r, u, x

\* Nothing is nothing, for whatever callback.
LEMMA ForNothing == \A cb : For(cb, << >>) = << >>
BY SMT DEF For


\* What is still to be given: all of the buffer when its callback starts,
\* nothing when it returns.
LEMMA NotGivenIs ==
    ASSUME TypeInv
    PROVE  /\ NotGiven \in Seq(Chars)
           /\ pc = "return" => NotGiven = << >>
           /\ pc \in {"wait", "write"} => NotGiven = SubSeq(printf_buf, index, Len(printf_buf))
           /\ ~Calling => NotGiven = printf_buf
           /\ SubSeq(printf_buf, 1, Len(printf_buf)) = printf_buf
<1>1. /\ printf_buf \in Seq(Chars) /\ Len(printf_buf) \in Nat
      /\ pc = "return" => index = Len(printf_buf) + 1
      /\ pc \in {"wait", "write"} => index \in 1..Len(printf_buf)
  BY SMT DEF TypeInv, TypeOK, OutputInv
<1>2. SubSeq(printf_buf, 1, Len(printf_buf)) = printf_buf
  BY <1>1, SubSeqFull
<1>3. SubSeq(printf_buf, Len(printf_buf) + 1, Len(printf_buf)) = << >>
  BY <1>1, SMT
<1>4. pc \in {"wait", "write"} => SubSeq(printf_buf, index, Len(printf_buf)) \in Seq(Chars)
  BY <1>1, SMT
<1>5. << >> \in Seq(Chars)
  BY SMT
<1> QED BY <1>1, <1>2, <1>3, <1>4, <1>5 DEF NotGiven, Calling

\* The same after a step.
LEMMA NotGivenIsPrime ==
    ASSUME TypeInv'
    PROVE  /\ NotGiven' \in Seq(Chars)
           /\ pc' = "return" => NotGiven' = << >>
           /\ pc' \in {"wait", "write"} => NotGiven' = SubSeq(printf_buf', index', Len(printf_buf'))
           /\ ~Calling' => NotGiven' = printf_buf'
           /\ SubSeq(printf_buf', 1, Len(printf_buf')) = printf_buf'
<1>1. /\ printf_buf' \in Seq(Chars) /\ Len(printf_buf') \in Nat
      /\ pc' = "return" => index' = Len(printf_buf') + 1
      /\ pc' \in {"wait", "write"} => index' \in 1..Len(printf_buf')
  BY SMT DEF TypeInv, TypeOK, OutputInv
<1>2. SubSeq(printf_buf', 1, Len(printf_buf')) = printf_buf'
  BY <1>1, SubSeqFull
<1>3. SubSeq(printf_buf', Len(printf_buf') + 1, Len(printf_buf')) = << >>
  BY <1>1, SMT
<1>4. pc' \in {"wait", "write"} => SubSeq(printf_buf', index', Len(printf_buf')) \in Seq(Chars)
  BY <1>1, SMT
<1>5. << >> \in Seq(Chars)
  BY SMT
<1> QED BY <1>1, <1>2, <1>3, <1>4, <1>5 DEF NotGiven, Calling

\* A step that neither writes nor prints.
LEMMA TextSame ==
    ASSUME TextWhole, txd' = txd, printed' = printed,
           \/ callback' = callback /\ NotGiven' = NotGiven
           \/ NotGiven = << >> /\ NotGiven' = << >>
    PROVE  TextWhole'
<1>1. Given' = Given
  BY DEF Given
<1>2. For(callback', NotGiven') = For(callback, NotGiven)
  BY ForNothing
<1>3. For(callback, NotGiven)' = For(callback', NotGiven')
  BY DEF For
<1> QED BY <1>1, <1>2, <1>3 DEF TextWhole

\* The handler writes: nothing of the text.
LEMMA TextKeyWrite ==
    ASSUME TypeInv, TextWhole, KeyWrite
    PROVE  TextWhole'
<1> USE DEF KeyWrite, printfVars, keypadVars, mainVars
<1>1. Head(isr) \in KeyByte
  <2>1. PICK n \in DOMAIN codes : isr = <<First(n), Second(n)>> \/ isr = <<Second(n)>>
    BY DEF TypeInv, IsrInv
  <2>2. n \in Nat
    BY SMT DEF TypeInv, HistoryInv
  <2>3. First(n) \in KeyByte /\ Second(n) \in KeyByte
    BY <2>2, KeyBytes
  <2> QED BY <2>1, <2>3, PairIs
<1> DEFINE e == [byte |-> Head(isr), lost |-> level = TxSize]
<1>2. e \in Entry /\ e.byte.from = "key"
  BY <1>1 DEF Entry, KeyByte
<1>3. txd' = Append(txd, e)
  BY DEF WriteTXD
<1> HIDE DEF e
<1>4. Given' = Given
  BY <1>2, <1>3, GivenGrows DEF TypeInv
<1>5. For(callback, NotGiven)' = For(callback, NotGiven)
  BY DEF For, NotGiven
<1> QED BY <1>4, <1>5 DEF TextWhole

\* The main program writes: the first character of what was still to be given.
LEMMA TextWrite ==
    ASSUME TypeInv, TypeInv', TextWhole, Write
    PROVE  TextWhole'
<1> USE DEF Write, Runs, MainOnly, ps2Vars, printfVars, keypadVars
<1> DEFINE e == [byte |-> Char(index), lost |-> level = TxSize]
           x == [char |-> printf_buf[index], cb |-> callback]
           rest == SubSeq(printf_buf, index + 1, Len(printf_buf))
<1>1. e \in Entry /\ e.byte.from = "text" /\ CharOf(e) = x
  <2>1. Char(index) \in TextByte
    BY CharIs
  <2> QED BY <2>1 DEF Entry, Char, CharOf
<1>2. txd' = Append(txd, e)
  BY DEF WriteTXD
<1>3. /\ printf_buf \in Seq(Chars) /\ index \in 1..Len(printf_buf) /\ index \in Nat
      /\ callback \in Callbacks \cup {NoCallback} /\ Len(printf_buf) \in Nat
  BY SMT DEF TypeInv, TypeOK, OutputInv
<1> HIDE DEF e
<1>4. Given' = Append(Given, x) /\ Given \in Seq(Written)
  BY <1>1, <1>2, GivenGrows DEF TypeInv
<1>5. x \in Written
  BY <1>1 DEF Written
<1>6. For(callback, NotGiven) = <<x>> \o For(callback, rest)
  BY <1>3, NotGivenIs, ForRest
<1>7. NotGiven' = rest
  <2>1. index = Len(printf_buf) => rest = << >>
    BY <1>3, SMT
  <2> QED BY <1>3, <2>1, NotGivenIsPrime
<1>8. For(callback, rest) \in Seq(Written)
  <2>1. rest \in Seq(Chars)
    BY <1>7, NotGivenIsPrime
  <2> QED BY <1>3, <2>1, ForIs
<1> HIDE DEF x, rest, Written
<1>9. Given \o (<<x>> \o For(callback, rest)) = Append(Given, x) \o For(callback, rest)
  BY <1>4, <1>5, <1>8, Regroup
<1>10. For(callback, NotGiven)' = For(callback, rest)
  BY <1>7 DEF For
<1>11. printed = Given \o For(callback, NotGiven) /\ printed' = printed
  BY DEF TextWhole
<1>12. printed' = Given' \o For(callback, rest)
  BY <1>4, <1>6, <1>9, <1>11
<1> QED BY <1>10, <1>12 DEF TextWhole

\* A character is printed: it is the last that is still to be given.
LEMMA TextPutchar ==
    ASSUME TypeInv, TypeInv', TextWhole, Putchar
    PROVE  TextWhole'
<1> USE DEF Putchar, Runs, MainOnly, ps2Vars, txVars, keypadVars
<1> DEFINE c == Head(text)
           x == [char |-> c, cb |-> callback]
<1>1. /\ c \in Chars /\ printf_buf \in Seq(Chars)
      /\ callback \in Callbacks \cup {NoCallback} /\ printed \in Seq(Given1)
      /\ txd \in Seq(Entry)
  BY SMT DEF TypeInv, TypeOK, HistoryInv, OutputInv
<1>2. /\ printf_buf' = Append(printf_buf, c) /\ callback' = callback
      /\ printed' = printed \o For(callback, <<c>>) /\ txd' = txd
  BY DEF buf_putchar
<1>3. NotGiven = printf_buf
  BY NotGivenIs DEF Calling
<1>4. NotGiven' = printf_buf'
  <2>1. CASE Full(printf_buf')
    <3>1. pc' = "wait" /\ index' = 1
      BY <2>1 DEF CallBack
    <3> QED BY <3>1, NotGivenIsPrime
  <2>2. CASE ~Full(printf_buf')
    <3>1. ~Calling'
      BY <2>2 DEF Calling
    <3> QED BY <3>1, NotGivenIsPrime
  <2> QED BY <2>1, <2>2
<1> HIDE DEF c
<1>5. printed' = Append(printed, x)
  BY <1>1, <1>2, ForOne
<1>6. For(callback, printf_buf') = Append(For(callback, printf_buf), x)
  BY <1>1, <1>2, ForAppend
<1>7. For(callback, printf_buf) \in Seq(Written)
  BY <1>1, ForIs
<1>8. Given \in Seq(Written)
  <2>1. Texts \in Seq(Entry)
    BY <1>1, KeepType DEF Texts
  <2>2. Given = GivenOf(Texts)
    BY DEF Given, GivenOf, Texts
  <2> QED BY <2>1, <2>2, GivenOfIs
<1>9. x \in Written
  BY <1>1 DEF Written, Given1
<1>10. printed = Given \o For(callback, printf_buf)
  BY <1>3 DEF TextWhole
<1> HIDE DEF x, Written
<1>11. printed' = Given \o For(callback, printf_buf')
  <2> DEFINE g == Given
             f == For(callback, printf_buf)
  <2>1. g \in Seq(Written) /\ f \in Seq(Written)
    BY <1>7, <1>8
  <2> DEFINE one == <<x>>
  <2>2. one \in Seq(Written)
    BY <1>9, SMT
  <2>3. printed' = printed \o one
    BY <1>1, <1>5, AppendIsConcat
  <2>4. For(callback, printf_buf') = f \o one
    BY <1>6, <1>9, <2>1, AppendIsConcat DEF f
  <2>5. printed = g \o f
    BY <1>10 DEF g, f
  <2> HIDE DEF g, f, one
  <2>6. (g \o f) \o one = g \o (f \o one)
    BY <2>1, <2>2, ConcatAssociative
  <2> QED BY <2>3, <2>4, <2>5, <2>6 DEF g
<1>12. Given' = Given
  BY <1>2 DEF Given
<1>13. For(callback, NotGiven)' = For(callback, printf_buf')
  BY <1>2, <1>4 DEF For
<1> QED BY <1>11, <1>12, <1>13 DEF TextWhole

\* Nothing is printed at first.
LEMMA InitText == Init => TextWhole
<1> SUFFICES ASSUME Init PROVE TextWhole
  OBVIOUS
<1> USE DEF Init, TxInit, PrintfInit
<1>1. NotGiven = << >> /\ printed = << >> /\ txd = << >>
  BY DEF NotGiven
<1>2. Given = << >>
  <2>1. Texts = << >>
    BY <1>1, KeepNothing DEF Texts
  <2>2. Given = GivenOf(Texts)
    BY DEF Given, GivenOf, Texts
  <2> QED BY <2>1, <2>2, SMT DEF GivenOf
<1>3. << >> \o << >> = << >>
  BY SMT
<1> QED BY <1>1, <1>2, <1>3, ForNothing DEF TextWhole

\* Giving the buffer to its callback, the callback's return, and a new
\* callback lose no character and print none twice.
LEMMA NextText ==
    ASSUME TypeInv, TypeInv', TextWhole, [Next]_vars
    PROVE  TextWhole'
<1> USE DEF txVars, printfVars, keypadVars, mainVars, ps2Vars, MainOnly, Runs
<1>1. CASE KeyWrite
  BY <1>1, TextKeyWrite
<1>2. CASE Write
  BY <1>2, TextWrite
<1>3. CASE Putchar
  BY <1>3, TextPutchar
<1>4. ASSUME txd' = txd, UNCHANGED printfVars, NotGiven' = NotGiven
      PROVE  TextWhole'
  BY <1>4, TextSame
<1>5. ASSUME CallBack("init") \/ CallBack("finish"), UNCHANGED <<txd, printfVars>>, ~Calling
      PROVE  TextWhole'
  <2>1. pc' = "wait" /\ index' = 1
    BY <1>5 DEF CallBack
  <2>2. NotGiven' = NotGiven
    BY <1>5, <2>1, NotGivenIs, NotGivenIsPrime
  <2> QED BY <1>4, <1>5, <2>2
<1>6. ASSUME txd' = txd, printed' = printed, printf_buf' = << >>, ~Calling', NotGiven = << >>
      PROVE  TextWhole'
  <2>1. NotGiven' = << >>
    BY <1>6, NotGivenIsPrime
  <2> QED BY <1>6, <2>1, TextSame
<1>7. CASE cb_printf_init
  <2>1. ~Calling
    BY <1>7 DEF cb_printf_init, Calling
  <2>2. CASE printf_buf = << >>
    BY <1>6, <1>7, <2>1, <2>2, NotGivenIs DEF cb_printf_init, Installed, Calling
  <2>3. CASE printf_buf # << >>
    BY <1>5, <1>7, <2>1, <2>3 DEF cb_printf_init
  <2> QED BY <2>2, <2>3
<1>8. CASE cb_printf_finish
  <2>1. ~Calling
    BY <1>8 DEF cb_printf_finish, Calling
  <2>2. CASE printf_buf = << >>
    BY <1>6, <1>8, <2>1, <2>2, NotGivenIs DEF cb_printf_finish, Finished, AfterFinish, Calling
  <2>3. CASE printf_buf # << >>
    BY <1>5, <1>8, <2>1, <2>3 DEF cb_printf_finish
  <2> QED BY <2>2, <2>3
<1>9. CASE Return
  <2>1. NotGiven = << >>
    BY <1>9, NotGivenIs DEF Return
  <2>2. ~Calling'
    BY <1>9 DEF Return, AfterFinish, Calling
  <2>3. txd' = txd /\ printed' = printed /\ printf_buf' = << >>
    BY <1>9 DEF Return, Flushed, Finished, Installed
  <2> QED BY <1>6, <2>1, <2>2, <2>3
<1>10. CASE SeesRoom
  <2>1. NotGiven' = NotGiven
    BY <1>10 DEF SeesRoom, NotGiven
  <2> QED BY <1>4, <1>10, <2>1 DEF SeesRoom
<1>11. CASE Scan \/ Report \/ EndPoll \/ uart_flush
  <2>1. NotGiven' = NotGiven /\ txd' = txd /\ UNCHANGED printfVars
    BY <1>11 DEF Scan, Report, EndPoll, uart_flush, NotGiven
  <2> QED BY <1>4, <2>1
<1>12. CASE ps2_receive \/ TransmitByte
  <2>1. NotGiven' = NotGiven /\ txd' = txd /\ UNCHANGED printfVars
    BY <1>12 DEF ps2_receive, TransmitByte, Transmit, NotGiven
  <2> QED BY <1>4, <2>1
<1>13. ASSUME NEW released \in BOOLEAN, KeyboardSends(released)
       PROVE  TextWhole'
  BY <1>4, <1>13 DEF KeyboardSends, NotGiven
<1>14. ASSUME NEW k \in Keys, MoveKey(k)
       PROVE  TextWhole'
  BY <1>4, <1>14 DEF MoveKey, NotGiven
<1>15. CASE UNCHANGED vars
  BY <1>4, <1>15 DEF vars, NotGiven
<1> QED BY <1>1, <1>2, <1>3, <1>7, <1>8, <1>9, <1>10, <1>11, <1>12, <1>13, <1>14, <1>15
        DEF Next, Interrupt, Main

-----------------------------------------------------------------------------
(* The events of a key. *)

\* The loop of pmodkypd_poll has begun and not ended, also while a callback
\* that it called waits for the UART.
InPoll == pc \in {"report", "print"} \/ (Calling /\ resume = "print")

\* The loop has printed what happened to k.
Told(k) == k < key /\ ~(text # << >> /\ k = key - 1)

\* An odd number of events: the last one was a press.
Odd(k) == Len(EventsOf(k, printed)) % 2 = 1

Alternating(k) ==
    LET events == EventsOf(k, printed) IN
    \A n \in DOMAIN events : events[n].char.part = 3 <=> n % 2 = 1

\* While a key callback prints, the message is about a key that differs from
\* the previous sample, and its second character is still to be printed.
TextInv ==
    text # << >> =>
        \E k \in Keys :
            /\ key = k + 1 /\ InPoll
            /\ k \in current_key_state <=> k \notin new_key_state
            /\ text = Message(k) \/ text = Tail(Message(k))

\* What has been printed of a key agrees with the previous sample until the
\* loop has told of it, and with the new one from then on.
AgreeInv ==
    \A k \in Keys :
        /\ Alternating(k)
        /\ InPoll /\ Told(k) => (k \in new_key_state <=> Odd(k))
        /\ ~(InPoll /\ Told(k)) => (k \in current_key_state <=> Odd(k))

\* The events of a key in a text that grows by a character.
LEMMA EventsAppend ==
    ASSUME NEW s \in Seq(Given1), NEW e \in Given1, NEW k
    PROVE  /\ EventsOf(k, s) \in Seq(Given1)
           /\ EventsOf(k, Append(s, e))
                = IF e.char.key = k /\ e.char.part # 1 THEN Append(EventsOf(k, s), e)
                  ELSE EventsOf(k, s)
<1> DEFINE t == Append(s, e)
           K == {n \in DOMAIN s : s[n].char.key = k /\ s[n].char.part # 1}
           L == {n \in DOMAIN t : t[n].char.key = k /\ t[n].char.part # 1}
<1>1. /\ DOMAIN s = 1..Len(s) /\ DOMAIN t = 1..(Len(s) + 1) /\ Len(s) \in Nat
      /\ \A n \in 1..Len(s) : t[n] = s[n] /\ n \in 1..(Len(s) + 1)
      /\ t[Len(s) + 1] = e /\ Len(s) + 1 \in 1..(Len(s) + 1)
  BY SMT
<1> HIDE DEF t
<1>2. \A n \in 1..Len(s) : n \in L <=> n \in K
  BY <1>1
<1>3. Len(s) + 1 \in L <=> (e.char.key = k /\ e.char.part # 1)
  BY <1>1
<1> HIDE DEF K, L
<1>4. Keep(t, L) = IF Len(s) + 1 \in L THEN Append(Keep(s, K), e) ELSE Keep(s, K)
  BY <1>2, KeepAppend DEF t
<1>5. EventsOf(k, s) = Keep(s, K) /\ EventsOf(k, t) = Keep(t, L)
  BY DEF EventsOf, K, L
<1>6. Keep(s, K) \in Seq(Given1)
  BY KeepType
<1> QED BY <1>3, <1>4, <1>5, <1>6 DEF t

\* One more is odd when it was not.
LEMMA OddNext == \A n \in Nat : (n + 1) % 2 = 1 <=> ~(n % 2 = 1)
BY SMT

\* An event that is a press when the number of events was even, and a release
\* when it was odd, keeps the events of the key alternating.
LEMMA AlternatesOnce ==
    ASSUME NEW s \in Seq(Given1), NEW e \in Given1,
           \A n \in DOMAIN s : s[n].char.part = 3 <=> n % 2 = 1,
           e.char.part = 3 <=> ~(Len(s) % 2 = 1)
    PROVE  /\ \A n \in DOMAIN Append(s, e) : Append(s, e)[n].char.part = 3 <=> n % 2 = 1
           /\ Len(Append(s, e)) % 2 = 1 <=> ~(Len(s) % 2 = 1)
<1> DEFINE t == Append(s, e)
<1>1. /\ DOMAIN s = 1..Len(s) /\ DOMAIN t = 1..(Len(s) + 1) /\ Len(s) \in Nat
      /\ \A n \in 1..Len(s) : t[n] = s[n]
      /\ t[Len(s) + 1] = e /\ Len(t) = Len(s) + 1
  BY SMT
<1>2. \A n \in 1..(Len(s) + 1) : n = Len(s) + 1 \/ n \in 1..Len(s)
  <2>1. \A l \in Nat : \A n \in 1..(l + 1) : n = l + 1 \/ n \in 1..l
    BY SMT
  <2> QED BY <1>1, <2>1
<1>3. (Len(s) + 1) % 2 = 1 <=> ~(Len(s) % 2 = 1)
  BY <1>1, OddNext
<1> HIDE DEF t
<1>4. \A n \in DOMAIN t : t[n].char.part = 3 <=> n % 2 = 1
  BY <1>1, <1>2, <1>3
<1>5. Len(t) % 2 = 1 <=> ~(Len(s) % 2 = 1)
  BY <1>1, <1>3
<1> QED BY <1>4, <1>5 DEF t

\* A step that neither prints nor takes the loop further.
LEMMA AgreeSame ==
    ASSUME TextInv, AgreeInv, UNCHANGED <<printed, text, key>>,
           UNCHANGED <<current_key_state, new_key_state>>, InPoll' = InPoll
    PROVE  TextInv' /\ AgreeInv'
<1>1. TextInv'
  BY DEF TextInv, Message
<1>2. ASSUME NEW k \in Keys
      PROVE  /\ Alternating(k)' <=> Alternating(k)
             /\ Told(k)' <=> Told(k)
             /\ Odd(k)' <=> Odd(k)
  BY DEF Alternating, Told, Odd, EventsOf
<1>3. AgreeInv'
  BY <1>2 DEF AgreeInv
<1> QED BY <1>1, <1>3

\* Outside the loop only what was sampled last counts.
LEMMA AgreeOutside ==
    ASSUME TypeInv, TypeInv', TextInv, AgreeInv, ~InPoll, ~InPoll' \/ key' = 0,
           text' = text, printed' = printed, current_key_state' = current_key_state
    PROVE  TextInv' /\ AgreeInv'
<1>1. text = << >>
  BY DEF TypeInv, OutputInv, InPoll
<1>2. TextInv'
  BY <1>1 DEF TextInv
<1>3. ASSUME NEW k \in Keys
      PROVE  /\ Alternating(k)' <=> Alternating(k)
             /\ Odd(k)' <=> Odd(k)
             /\ ~(InPoll' /\ Told(k)')
  <2>1. k \in Nat
    BY KeysNat, SMT DEF Keys
  <2>2. ~(k < 0)
    BY <2>1, SMT
  <2> QED BY <2>2 DEF Alternating, Odd, EventsOf, Told
<1>4. AgreeInv'
  BY <1>3 DEF AgreeInv
<1> QED BY <1>2, <1>4

\* The loop comes to the next key that differs.
LEMMA AgreeReport ==
    ASSUME TypeInv, TextInv, AgreeInv, Report
    PROVE  TextInv' /\ AgreeInv'
<1> USE DEF Report, Runs, MainOnly, ps2Vars, txVars, printfVars, keypadVars
<1>0. PICK j : j = Min(Changed(key))
  OBVIOUS
<1>1. key \in Nat /\ key <= NUM_KEYS /\ NUM_KEYS \in Nat
  BY KeysNat, SMT DEF TypeInv, TypeOK
<1>2. j \in Changed(key) /\ \A x \in Changed(key) : j <= x
  BY <1>0, <1>1, NextKey
<1>3. /\ j \in Keys /\ j \in Nat /\ key <= j
      /\ j \in current_key_state <=> j \notin new_key_state
  BY <1>1, <1>2, SMT DEF Changed, Keys
<1>4. text = << >> /\ InPoll /\ InPoll'
  BY DEF TypeInv, OutputInv, Calling, InPoll
<1>5. text' = Message(j) /\ key' = j + 1 /\ text' # << >>
  BY <1>0, <1>3, MessageIs
<1>6. TextInv'
  <2>1. Message(j)' = Message(j)
    BY DEF Message
  <2> QED BY <1>3, <1>4, <1>5, <2>1 DEF TextInv
<1>7. ASSUME NEW k \in Keys
      PROVE  /\ Alternating(k)' <=> Alternating(k)
             /\ Odd(k)' <=> Odd(k)
             /\ Told(k)' <=> k < j
             /\ Told(k) <=> k < key
             /\ ~Told(k) /\ Told(k)' => (k \in current_key_state <=> k \in new_key_state)
             /\ Told(k) => Told(k)'
  <2>1. k \in Nat /\ k < NUM_KEYS
    BY KeysNat, SMT DEF Keys
  <2>2. Told(k)' <=> k < j
    <3>1. k < key' /\ ~(k = key' - 1) <=> k < j
      BY <1>3, <1>5, <2>1, SMT
    <3>2. Told(k)' <=> k < key' /\ ~(k = key' - 1)
      <4>1. text' # << >>
        BY <1>5
      <4> QED BY <4>1, Zenon DEF Told
    <3> QED BY <3>1, <3>2
  <2>3. Told(k) <=> k < key
    BY <1>4 DEF Told
  <2>4. key <= k /\ k < j => (k \in current_key_state <=> k \in new_key_state)
    <3> SUFFICES ASSUME key <= k, k < j
                 PROVE  k \in current_key_state <=> k \in new_key_state
      OBVIOUS
    <3>1. k \notin Changed(key)
      BY <1>2, <1>3, <2>1, SMT
    <3>2. k \in key..(NUM_KEYS - 1)
      BY <1>1, <2>1, SMT
    <3> QED BY <3>1, <3>2 DEF Changed
  <2>5. (~(k < key) <=> key <= k) /\ (k < key => k < j)
    BY <1>1, <1>3, <2>1, SMT
  <2> QED BY <2>2, <2>3, <2>4, <2>5 DEF Alternating, Odd, EventsOf
<1>8. AgreeInv'
  BY <1>4, <1>7 DEF AgreeInv
<1> QED BY <1>6, <1>8

\* The loop ends: no key is left that differs.
LEMMA AgreeEnd ==
    ASSUME TypeInv, TypeInv', TextInv, AgreeInv, EndPoll
    PROVE  TextInv' /\ AgreeInv'
<1> USE DEF EndPoll, Polled, Runs, MainOnly, ps2Vars, txVars, printfVars
<1>1. key \in Nat /\ key <= NUM_KEYS /\ NUM_KEYS \in Nat
  BY KeysNat, SMT DEF TypeInv, TypeOK
<1>2. text = << >> /\ InPoll /\ ~InPoll' /\ text' = << >>
  BY DEF TypeInv, OutputInv, Calling, InPoll
<1>3. TextInv'
  BY <1>2 DEF TextInv
<1>4. ASSUME NEW k \in Keys
      PROVE  /\ Alternating(k)' <=> Alternating(k)
             /\ Odd(k)' <=> Odd(k)
             /\ Told(k) \/ (k \in current_key_state <=> k \in new_key_state)
             /\ k \in current_key_state' <=> k \in new_key_state
  <2>1. k \in Nat /\ k < NUM_KEYS
    BY KeysNat, SMT DEF Keys
  <2>2. ~(k < key) => k \in key..(NUM_KEYS - 1)
    BY <1>1, <2>1, SMT
  <2>3. ~(k < key) => (k \in current_key_state <=> k \in new_key_state)
    BY <2>2 DEF Changed
  <2> QED BY <1>2, <2>3 DEF Alternating, Odd, EventsOf, Told
<1>5. AgreeInv'
  BY <1>2, <1>4 DEF AgreeInv
<1> QED BY <1>3, <1>5

\* A character of a key callback: the second one is the event, and is printed
\* before the loop goes on to the next key.
LEMMA AgreePutchar ==
    ASSUME TypeInv, TextInv, AgreeInv, Putchar
    PROVE  TextInv' /\ AgreeInv'
<1> USE DEF Putchar, Runs, MainOnly, ps2Vars, txVars, keypadVars
<1> DEFINE c == Head(text)
           e == [char |-> c, cb |-> callback]
<1>1. /\ text # << >> /\ printed \in Seq(Given1) /\ callback \in Callbacks \cup {NoCallback}
  BY DEF TypeInv, OutputInv, HistoryInv, TypeOK
<1>2. PICK j \in Keys :
          /\ key = j + 1 /\ InPoll
          /\ j \in current_key_state <=> j \notin new_key_state
          /\ text = Message(j) \/ text = Tail(Message(j))
  BY <1>1 DEF TextInv
<1> DEFINE last == [key |-> j, part |-> IF j \in new_key_state THEN 3 ELSE 2]
<1>3. /\ c \in Chars
      /\ text = Message(j) => c = [key |-> j, part |-> 1] /\ text' = <<last>>
      /\ text # Message(j) => c = last /\ text' = << >>
      /\ text' = Tail(text)
  <2>1. /\ Head(Message(j)) = [key |-> j, part |-> 1] /\ Tail(Message(j)) = <<last>>
    BY MessageIs
  <2>2. last \in Chars /\ [key |-> j, part |-> 1] \in Chars
    BY SMT DEF Chars
  <2> HIDE DEF last
  <2> QED BY <1>2, <2>1, <2>2, PairIs
<1>4. /\ last.key = j /\ last.part # 1 /\ (last.part = 3 <=> j \in new_key_state)
  OBVIOUS
<1>5. /\ key' = key /\ current_key_state' = current_key_state
      /\ new_key_state' = new_key_state /\ InPoll'
  BY DEF CallBack, InPoll, Calling
<1>6. e \in Given1 /\ e.char = c
  BY <1>1, <1>3 DEF Given1
<1>7. printed' = Append(printed, e)
  BY <1>1, ForOne DEF buf_putchar
<1> HIDE DEF c, e, last
<1>8. TextInv'
  <2>1. Message(j)' = Message(j)
    BY DEF Message
  <2>2. text' # << >> => text' = Tail(Message(j))
    BY <1>2, <1>3
  <2> QED BY <1>2, <1>5, <2>1, <2>2 DEF TextInv
<1>9. ASSUME NEW k \in Keys
      PROVE  /\ EventsOf(k, printed) \in Seq(Given1)
             /\ EventsOf(k, printed)' = IF c.key = k /\ c.part # 1
                                        THEN Append(EventsOf(k, printed), e)
                                        ELSE EventsOf(k, printed)
  <2>1. EventsOf(k, printed)' = EventsOf(k, Append(printed, e))
    BY <1>7 DEF EventsOf
  <2> QED BY <1>1, <1>6, <2>1, EventsAppend
<1>10. ASSUME NEW k \in Keys
       PROVE  k \in Nat /\ j \in Nat /\ (k < j + 1 /\ k # j + 1 - 1 <=> k < j) /\ j + 1 - 1 = j
                 /\ j < j + 1 /\ (k # j => (k < j + 1 <=> k < j))
  <2>1. k \in Nat /\ j \in Nat
    BY KeysNat, SMT DEF Keys
  <2> QED BY <2>1, SMT
<1>11. ASSUME NEW k \in Keys, ~(c.key = k /\ c.part # 1)
       PROVE  /\ Alternating(k)' <=> Alternating(k)
              /\ Odd(k)' <=> Odd(k)
              /\ Told(k)' <=> Told(k)
  <2>1. EventsOf(k, printed)' = EventsOf(k, printed)
    BY <1>9, <1>11
  <2>2. Told(k)' <=> Told(k)
    <3>1. CASE text = Message(j)
      <4>1. text' # << >>
        BY <1>3, <3>1, SMT
      <4> QED BY <1>1, <1>5, <4>1 DEF Told
    <3>2. CASE text # Message(j)
      <4>1. k # j
        BY <1>3, <1>4, <1>11, <3>2
      <4> QED BY <1>2, <1>5, <1>10, <4>1 DEF Told
    <3> QED BY <3>1, <3>2
  <2> QED BY <2>1, <2>2 DEF Alternating, Odd
<1>12. ASSUME c.key = j, c.part # 1
       PROVE  /\ Alternating(j)' /\ (j \in new_key_state <=> Odd(j)')
              /\ Told(j)'
  <2>1. text # Message(j) /\ c = last /\ text' = << >>
    BY <1>3, <1>12
  <2>2. Told(j)' /\ ~Told(j)
    BY <1>1, <1>2, <1>5, <1>10, <2>1 DEF Told
  <2> DEFINE s == EventsOf(j, printed)
             t == Append(s, e)
  <2>3. /\ \A n \in DOMAIN s : s[n].char.part = 3 <=> n % 2 = 1
        /\ j \in current_key_state <=> Len(s) % 2 = 1
    BY <2>2 DEF AgreeInv, Alternating, Odd
  <2>4. s \in Seq(Given1) /\ EventsOf(j, printed)' = t
    BY <1>9, <1>12
  <2>5. e.char.part = 3 <=> ~(Len(s) % 2 = 1)
    BY <1>2, <1>4, <1>6, <2>1, <2>3
  <2> HIDE DEF s
  <2>6. /\ \A n \in DOMAIN t : t[n].char.part = 3 <=> n % 2 = 1
        /\ Len(t) % 2 = 1 <=> ~(Len(s) % 2 = 1)
    BY <1>6, <2>3, <2>4, <2>5, AlternatesOnce
  <2> HIDE DEF t
  <2>7. Alternating(j)' /\ (Odd(j)' <=> Len(t) % 2 = 1)
    BY <2>4, <2>6 DEF Alternating, Odd
  <2> QED BY <1>2, <2>2, <2>3, <2>6, <2>7
<1>13. AgreeInv'
  <2> SUFFICES ASSUME NEW k \in Keys
               PROVE  /\ Alternating(k)'
                      /\ Told(k)' => (k \in new_key_state <=> Odd(k)')
                      /\ ~Told(k)' => (k \in current_key_state <=> Odd(k)')
    BY <1>5 DEF AgreeInv
  <2>1. CASE ~(c.key = k /\ c.part # 1)
    BY <1>2, <1>11, <2>1 DEF AgreeInv
  <2>2. CASE c.key = k /\ c.part # 1
    <3>1. k = j
      BY <1>3, <1>4, <2>2
    <3> QED BY <1>12, <2>2, <3>1
  <2> QED BY <2>1, <2>2
<1> QED BY <1>8, <1>13

\* Nothing is printed and no key is held at first.
LEMMA InitAgree == Init => TextInv /\ AgreeInv
<1> SUFFICES ASSUME Init PROVE TextInv /\ AgreeInv
  OBVIOUS
<1> USE DEF Init, PrintfInit, KeypadInit
<1>1. TextInv /\ ~InPoll
  BY DEF TextInv, InPoll, Calling
<1>2. ASSUME NEW k \in Keys
      PROVE  EventsOf(k, printed) = << >>
  BY KeepNothing DEF EventsOf
<1>3. DOMAIN << >> = {} /\ Len(<< >>) = 0 /\ ~(0 % 2 = 1)
  BY SMT
<1> QED BY <1>1, <1>2, <1>3 DEF AgreeInv, Alternating, Odd

\* What the interrupt, the UART and the callback do between two characters
\* changes no event, and the keys that move meanwhile are those of the next
\* sample.
LEMMA NextAgree ==
    ASSUME TypeInv, TypeInv', TextInv, AgreeInv, [Next]_vars
    PROVE  TextInv' /\ AgreeInv'
<1> USE DEF txVars, printfVars, keypadVars, mainVars, ps2Vars, MainOnly, Runs
<1>1. CASE Report
  BY <1>1, AgreeReport
<1>2. CASE EndPoll
  BY <1>2, AgreeEnd
<1>3. CASE Putchar
  BY <1>3, AgreePutchar
<1>4. CASE Scan
  <2>1. ~InPoll
    BY <1>4 DEF Scan, InPoll, Calling
  <2>2. ~InPoll' \/ key' = 0
    BY <1>4 DEF Scan, InPoll, Calling
  <2> QED BY <1>4, <2>1, <2>2, AgreeOutside DEF Scan, ReadColumn
<1>5. CASE cb_printf_init \/ cb_printf_finish
  <2>1. ~InPoll /\ ~InPoll'
    BY <1>5 DEF cb_printf_init, cb_printf_finish, CallBack, AfterFinish, InPoll, Calling
  <2>2. printed' = printed
    BY <1>5 DEF cb_printf_init, cb_printf_finish, Installed, Finished
  <2> QED BY <1>5, <2>1, <2>2, AgreeOutside DEF cb_printf_init, cb_printf_finish
<1>6. CASE Return
  <2>1. printed' = printed
    BY <1>6 DEF Return, Installed, Finished, Flushed
  <2>2. CASE resume = "print" /\ Flushed /\ pc' = IF text = << >> THEN "report" ELSE "print"
    <3>1. InPoll' = InPoll
      BY <1>6, <2>2 DEF Return, InPoll, Calling
    <3> QED BY <1>6, <2>1, <3>1, AgreeSame DEF Return
  <2>3. CASE resume \in {"finish", "init"} /\ pc' \in {"flush", "init", "scan"}
    <3>1. ~InPoll /\ ~InPoll'
      BY <1>6, <2>3 DEF Return, InPoll, Calling
    <3> QED BY <1>6, <2>1, <3>1, AgreeOutside DEF Return
  <2> QED BY <1>6, <2>2, <2>3 DEF Return, AfterFinish
<1>7. CASE SeesRoom \/ Write \/ uart_flush
  <2>1. InPoll' = InPoll
    BY <1>7 DEF SeesRoom, Write, uart_flush, InPoll, Calling
  <2> QED BY <1>7, <2>1, AgreeSame DEF SeesRoom, Write, uart_flush
<1>8. CASE ps2_receive \/ KeyWrite \/ TransmitByte
  <2>1. InPoll' = InPoll
    BY <1>8 DEF ps2_receive, KeyWrite, TransmitByte, InPoll, Calling
  <2> QED BY <1>8, <2>1, AgreeSame DEF ps2_receive, KeyWrite, TransmitByte
<1>9. ASSUME NEW released \in BOOLEAN, KeyboardSends(released)
      PROVE  TextInv' /\ AgreeInv'
  BY <1>9, AgreeSame DEF KeyboardSends, InPoll, Calling
<1>10. ASSUME NEW k \in Keys, MoveKey(k)
       PROVE  TextInv' /\ AgreeInv'
  BY <1>10, AgreeSame DEF MoveKey, Move, InPoll, Calling
<1>11. CASE UNCHANGED vars
  BY <1>11, AgreeSame DEF vars, InPoll, Calling
<1> QED BY <1>1, <1>2, <1>3, <1>4, <1>5, <1>6, <1>7, <1>8, <1>9, <1>10, <1>11
        DEF Next, Interrupt, Main

-----------------------------------------------------------------------------
(* The theorems. *)

IInv == TypeInv /\ LineInv /\ TextWhole /\ TextInv /\ AgreeInv

\* The inductive invariant: what holds at first holds after every step of the
\* two writers, the hardware and the keys.
THEOREM Invariant == Spec => []IInv
<1>1. Init => IInv
  BY InitType, InitLine, InitText, InitAgree DEF IInv
<1>2. IInv /\ [Next]_vars => IInv'
  BY NextType, NextLine, NextText, NextAgree DEF IInv
<1> QED BY <1>1, <1>2, PTL DEF Spec

\* The buffer of cb_printf never overflows and never goes to a callback that
\* is not there, and uart_write stays within it.
THEOREM TypeCorrect == Spec => []TypeOK
<1>1. IInv => TypeOK
  BY DEF IInv, TypeInv
<1> QED BY <1>1, Invariant, PTL

\* The two bytes of a key event follow each other on the line and neither is
\* lost, wherever the interrupt found the main program.
THEOREM KeysWhole == Spec => []KeyEventsWhole
<1>1. IInv => KeyEventsWhole
  BY KeyEventIs DEF IInv, LineInv, WholeAt, KeyEventsWhole
<1> QED BY <1>1, Invariant, PTL

\* A byte of the text is lost only right behind a key event.
THEOREM TextArrives == Spec => []TextDelivered
<1>1. IInv => TextDelivered
  BY KeyEventIs DEF IInv, LineInv, DeliveredAt, TextDelivered
<1> QED BY <1>1, Invariant, PTL

\* Every character is given to uart_write once, in order, by its callback.
THEOREM TextKept == Spec => []TextWhole
<1>1. IInv => TextWhole
  BY DEF IInv
<1> QED BY <1>1, Invariant, PTL

\* The events of a key alternate, and agree with the state of the key between
\* two polls.
THEOREM EventsAlternate == Spec => []Alternate
<1>1. IInv => Alternate
  <2>1. pc \in {"init", "scan"} => ~InPoll
    BY DEF InPoll, Calling
  <2> QED BY <2>1 DEF IInv, AgreeInv, Alternating, Odd, Alternate
<1> QED BY <1>1, Invariant, PTL
=============================================================================
