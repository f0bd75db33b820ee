------------------------------ MODULE Commands ------------------------------
(***************************************************************************)
(* The commands of the event loop: the parser of src/tools/tools.c and the *)
(* handlers of src/event-loop/event_loop.c, as operators from the bytes of *)
(* a packet to what the handler does with them.  Nothing runs while a      *)
(* handler parses, so that its answer is a function of the packet.         *)
(*                                                                         *)
(* A parser is what it does to a ParseState; the values it returned are    *)
(* kept there, the command byte first.  A handler stops at the first       *)
(* parser that fails, so every parser after it fails too.                  *)
(***************************************************************************)
EXTENDS Integers, Sequences, Totals

CONSTANT Garbage  \* a byte of the memory behind the packet

Byte == 0..255
Word == 65536
Numbers == 0..(Word - 1)  \* values of a size_t, and of the numbers in a packet

-----------------------------------------------------------------------------
(* The parser. *)

create_parse_state(buf) ==
    [buf |-> buf, pos |-> 0, len |-> Len(buf), ok |-> TRUE, values |-> << >>]

\* The state stands for the rest of the packet, no less and no more.
InPacket(s) == s.pos + s.len = Len(s.buf)

\* The next n bytes, wherever they are.
Bytes(s, n) ==
    [k \in 1..n |-> IF s.pos + k <= Len(s.buf) THEN s.buf[s.pos + k] ELSE Garbage]

\* advance_state, when a parser succeeds with a value.
Parsed(s, n, value) ==
    [s EXCEPT !.pos = @ + n, !.len = (@ - n) % Word, !.values = Append(@, value)]

Failed(s) == [s EXCEPT !.ok = FALSE]

Number(bytes) == bytes[1] * 256 + bytes[2]

parse_byte(s) ==
    IF s.ok /\ s.len >= 1 THEN Parsed(s, 1, Bytes(s, 1)[1]) ELSE Failed(s)

parse_int(s) ==
    IF s.ok /\ s.len >= 2 THEN Parsed(s, 2, Number(Bytes(s, 2))) ELSE Failed(s)

\* n of them, one after the other; call_sancus_module has room for four.
parse_ints(s, n) ==
    LET one == parse_int(s)
        two == parse_int(one)
        three == parse_int(two)
        four == parse_int(three)
    IN  <<s, one, two, three, four>>[n + 1]

\* memchr: the string ends before the first null byte.
parse_string(s) ==
    LET ends == {k \in 1..s.len : Bytes(s, k)[k] = 0} IN
    IF s.ok /\ ends # {}
    THEN LET end == CHOOSE k \in ends : \A l \in ends : k <= l IN
         Parsed(s, end, Bytes(s, end - 1))
    ELSE Failed(s)

\* Fault: the length in the packet is trusted.
RawUnchecked(s, len) == IF s.ok THEN Parsed(s, len, Bytes(s, len)) ELSE Failed(s)

parse_raw_data(s, len) ==
    IF s.ok /\ s.len >= len THEN Parsed(s, len, Bytes(s, len)) ELSE Failed(s)

parse_all_raw_data(s) == Parsed(s, s.len, Bytes(s, s.len))

\* Raw data whose length was parsed just before.
parse_sized_data(s) == IF s.ok THEN parse_raw_data(s, s.values[Len(s.values)]) ELSE s

-----------------------------------------------------------------------------
(* The handlers.  What one does: the function it calls in the end, with    *)
(* which numbers and which bytes, unless a parser failed; and whether it   *)
(* stayed inside the packet.                                               *)

Does(s, op, numbers, bytes) ==
    [op |-> op, ok |-> s.ok, inside |-> InPacket(s),
     numbers |-> IF s.ok THEN numbers ELSE << >>,
     bytes |-> IF s.ok THEN bytes ELSE << >>]

echo(s0) ==
    LET s == parse_all_raw_data(s0)  v == s.values
    IN Does(s, "packet_write", << >>, <<v[2]>>)

\* Name, vendor, size and file.
load_sancus_module(s0) ==
    LET s == parse_sized_data(parse_int(parse_int(parse_string(s0))))  v == s.values
    IN Does(s, "sm_load", <<v[3]>>, <<v[2], v[5]>>)

\* Module, index and up to four arguments, each a number.  More of them are
\* the bytes of one buffer, of which the module gets the address and the
\* number 2: nargs was set to 2 before it was copied to args[1].
call_sancus_module(s0) ==
    LET h == parse_int(parse_int(parse_int(s0)))
        nargs == h.values[Len(h.values)]
        s == IF ~h.ok THEN h
             ELSE IF nargs \in 0..4
             THEN parse_ints(h, nargs)
             ELSE parse_raw_data(h, nargs)
        v == s.values
    IN IF nargs \in 0..4
       THEN Does(s, "sm_call_id", <<v[2], v[3]>> \o SubSeq(v, 5, Len(v)), << >>)
       ELSE Does(s, "sm_call_id", <<v[2], v[3], 2>>, <<v[5]>>)

\* Address, size and data.
load_data(s0) ==
    LET s == parse_sized_data(parse_int(parse_int(s0)))  v == s.values
    IN Does(s, "memcpy", <<v[2]>>, <<v[4]>>)

print_uart_data(s0) ==
    LET s == parse_sized_data(parse_int(s0))  v == s.values
    IN Does(s, "printf", << >>, <<v[3]>>)

print_sancus_module_identity(s0) ==
    LET s == parse_int(s0)  v == s.values
    IN Does(s, "sm_get_by_id", <<v[2]>>, << >>)

\* Not implemented (SmLdInfo), or no command.
NoCommand(s) == Does(Failed(s), "none", << >>, << >>)

CommandBytes == {0, 1, 2, 3, 4, 6}

\* The switch of handle_command.
Dispatch(data) ==
    LET s == parse_byte(create_parse_state(data))
        command == s.values[1]
    IN IF ~s.ok THEN NoCommand(s) ELSE
       CASE command = 0 -> echo(s)
         [] command = 1 -> load_sancus_module(s)
         [] command = 2 -> call_sancus_module(s)
         [] command = 3 -> print_sancus_module_identity(s)
         [] command = 4 -> load_data(s)
         [] command = 6 -> print_uart_data(s)
         [] OTHER -> NoCommand(s)

-----------------------------------------------------------------------------
(* The host: a command, given like what a handler does, as bytes.          *)

TwoBytes(n) == <<n \div 256, n % 256>>
Sized(bytes) == TwoBytes(Len(bytes)) \o bytes
AllNumbers(numbers) == Flatten([k \in DOMAIN numbers |-> TwoBytes(numbers[k])])

\* upload_sm.py: the bytes that it writes to have a file loaded.
upload_sm(name, vendor_id, file) ==
    <<1>> \o name \o <<0>> \o TwoBytes(vendor_id) \o Sized(file)

Encode(c) ==
    CASE c.op = "packet_write" -> <<0>> \o c.bytes[1]
      [] c.op = "sm_load" -> upload_sm(c.bytes[1], c.numbers[1], c.bytes[2])
      [] c.op = "sm_call_id" /\ c.bytes = << >> ->
             <<2>> \o AllNumbers(SubSeq(c.numbers, 1, 2)) \o TwoBytes(Len(c.numbers) - 2)
                  \o AllNumbers(SubSeq(c.numbers, 3, Len(c.numbers)))
      [] c.op = "sm_call_id" /\ c.bytes # << >> ->
             <<2>> \o AllNumbers(c.numbers) \o Sized(c.bytes[1])
      [] c.op = "sm_get_by_id" -> <<3>> \o TwoBytes(c.numbers[1])
      [] c.op = "memcpy" -> <<4>> \o TwoBytes(c.numbers[1]) \o Sized(c.bytes[1])
      [] c.op = "printf" -> <<6>> \o Sized(c.bytes[1])

\* The commands that the host can ask for in this way: a name has no null byte,
\* and bytes that are passed to a module are more than its registers hold.
HostCommand(c) ==
    /\ c.numbers \in Seq(Numbers) /\ c.bytes \in Seq(Seq(Byte))
    /\ \A k \in DOMAIN c.bytes : Len(c.bytes[k]) \in Numbers
    /\ Len(Encode(c)) \in Numbers
    /\ \/ c.op = "packet_write" /\ Len(c.numbers) = 0 /\ Len(c.bytes) = 1
       \/ /\ c.op = "sm_load" /\ Len(c.numbers) = 1 /\ Len(c.bytes) = 2
          /\ \A k \in DOMAIN c.bytes[1] : c.bytes[1][k] # 0
       \/ c.op = "sm_call_id" /\ Len(c.numbers) \in 2..6 /\ c.bytes = << >>
       \/ /\ c.op = "sm_call_id" /\ Len(c.numbers) = 2 /\ Len(c.bytes) = 1
          /\ Len(c.bytes[1]) > 4
       \/ c.op = "sm_get_by_id" /\ Len(c.numbers) = 1 /\ c.bytes = << >>
       \/ c.op = "memcpy" /\ Len(c.numbers) = 1 /\ Len(c.bytes) = 1
       \/ c.op = "printf" /\ Len(c.numbers) = 0 /\ Len(c.bytes) = 1
=============================================================================
