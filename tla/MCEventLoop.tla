---------------------------- MODULE MCEventLoop ----------------------------
(* Model-checking instance of EventLoop: a buffer of two bytes, and pieces  *)
(* that fill it in part, fill it, and exceed it.                            *)
EXTENDS EventLoop

PieceSizes == {1, 2}

\* The first needs both bytes of a number.
SmIds == {258, 1}
Elf == <<9, 0>>
OtherElf == <<8>>
Files == {Elf, OtherElf}
Public == [f \in Files |-> <<200 + Head(f)>>]

Asks(op, numbers, bytes) == [op |-> op, numbers |-> numbers, bytes |-> bytes]
Whole(c) == [header |-> 1, data |-> Encode(c), cmd |-> c]

\* The first n bytes of a command, or other data.
Cut(c, n) == [header |-> 1, data |-> SubSeq(Encode(c), 1, n), cmd |-> Null]
Other(header, data) == [header |-> header, data |-> data, cmd |-> Null]

Load == Asks("sm_load", <<513>>, <<<<97>>, Elf>>)
OtherLoad == Asks("sm_load", <<0>>, << << >>, OtherElf>>)
Call == Asks("sm_call_id", <<258, 1, 772>>, << >>)

Asked ==
    {Load, OtherLoad, Call,
     Asks("packet_write", << >>, <<<<7, 8, 9>>>>),
     Asks("sm_call_id", <<1, 0>>, <<<<1, 2, 3, 4, 5>>>>),
     Asks("sm_get_by_id", <<258>>, << >>),
     Asks("memcpy", <<1030>>, <<<<6>>>>),
     Asks("printf", << >>, << << >> >>)}

AnyFrame ==
    {Whole(c) : c \in Asked} \cup
    {Cut(Load, 8), Cut(Call, 8),
     Other(1, << >>), Other(0, <<1, 2>>), Other(1, <<5>>)}
=============================================================================
