-------------------------- MODULE EventLoopProofs --------------------------
(***************************************************************************)
(* Proofs about EventLoop with Packet and Commands, for any commands,      *)
(* frames, modules and sizes: what the parser makes of the bytes of a      *)
(* packet, what comes out of the one send buffer that replies, the tick    *)
(* callback and the queue share, and which command reaches which module.   *)
(***************************************************************************)
EXTENDS EventLoop, SubsequenceProofs, SequenceTheorems

-----------------------------------------------------------------------------
(* The parser. *)

\* The two values of ok, as names that the provers take like any other value.
Yes == TRUE
No == FALSE

\* A ParseState that has left p bytes of the packet behind, and one in which
\* a parser failed there.
Rest(data, p) == Len(data) - p
State(buf1, pos, len, ok, v) ==
    [buf |-> buf1, pos |-> pos, len |-> len, ok |-> ok, values |-> v]
At(data, p, v) == State(data, p, Rest(data, p), Yes, v)
Fallen(data, p, v) == State(data, p, Rest(data, p), No, v)

\* n bytes of it, after the first p.
Part(data, p, n) == [k \in 1..n |-> data[p + k]]
IntAt(data, p) == data[p + 1] * 256 + data[p + 2]

\* A packet that fits in memory.
Memory(data) == data \in Seq(Byte) /\ Len(data) \in Numbers

\* A short sequence, written out.
LEMMA Listed ==
    ASSUME NEW S, NEW s \in Seq(S)
    PROVE  /\ Len(s) = 1 => s = <<s[1]>>
           /\ Len(s) = 2 => s = <<s[1], s[2]>>
           /\ Len(s) = 3 => s = <<s[1], s[2], s[3]>>
           /\ Len(s) = 4 => s = <<s[1], s[2], s[3], s[4]>>
           /\ Len(s) = 5 => s = <<s[1], s[2], s[3], s[4], s[5]>>
BY SMT

\* One with an element more.
LEMMA AppendIs ==
    ASSUME NEW S, NEW s \in Seq(S), NEW x \in S, NEW n, Len(s) = n, NEW m, m = n + 1
    PROVE  /\ Append(s, x) \in Seq(S) /\ Len(Append(s, x)) = m
           /\ \A k \in 1..n : Append(s, x)[k] = s[k]
           /\ Append(s, x)[m] = x
BY SMT

\* Appending to a sequence of one.
LEMMA Append1 ==
    ASSUME NEW a, NEW b
    PROVE  Append(<<a>>, b) = <<a, b>>
<1> DEFINE S == {a, b}  t == <<a>>
<1>0. PICK n, m : n = 1 /\ m = 2
  OBVIOUS
<1>1. t \in Seq(S) /\ b \in S /\ Len(t) = n
  BY <1>0
<1>2. t[1] = a
  OBVIOUS
<1> HIDE DEF t, S
<1>3. m = n + 1
  BY <1>0
<1>4. PICK s : s = Append(t, b)
  OBVIOUS
<1>5. s \in Seq(S) /\ Len(s) = m /\ s[m] = b /\ \A k \in 1..n : s[k] = t[k]
  BY <1>1, <1>3, <1>4, AppendIs
<1>6. s[1] = t[1] /\ s[2] = b
  BY <1>0, <1>5
<1>7. s = <<s[1], s[2]>>
  BY <1>0, <1>5, Listed
<1>8. s = <<a, b>>
  BY <1>2, <1>6, <1>7, Zenon
<1> QED BY <1>4, <1>8 DEF t

\* Appending to one of two.
LEMMA Append2 ==
    ASSUME NEW a, NEW b, NEW c
    PROVE  Append(<<a, b>>, c) = <<a, b, c>>
<1> DEFINE S == {a, b, c}  t == <<a, b>>
<1>0. PICK n, m : n = 2 /\ m = 3
  OBVIOUS
<1>1. t \in Seq(S) /\ c \in S /\ Len(t) = n
  BY <1>0
<1>2. t[1] = a /\ t[2] = b
  OBVIOUS
<1> HIDE DEF t, S
<1>3. m = n + 1
  BY <1>0
<1>4. PICK s : s = Append(t, c)
  OBVIOUS
<1>5. s \in Seq(S) /\ Len(s) = m /\ s[m] = c /\ \A k \in 1..n : s[k] = t[k]
  BY <1>1, <1>3, <1>4, AppendIs
<1>6. s[1] = t[1] /\ s[2] = t[2] /\ s[3] = c
  BY <1>0, <1>5
<1>7. s = <<s[1], s[2], s[3]>>
  BY <1>0, <1>5, Listed
<1>8. s = <<a, b, c>>
  BY <1>2, <1>6, <1>7, Zenon
<1> QED BY <1>4, <1>8 DEF t

\* Appending to one of three.
LEMMA Append3 ==
    ASSUME NEW a, NEW b, NEW c, NEW d
    PROVE  Append(<<a, b, c>>, d) = <<a, b, c, d>>
<1> DEFINE S == {a, b, c, d}  t == <<a, b, c>>
<1>0. PICK n, m : n = 3 /\ m = 4
  OBVIOUS
<1>1. t \in Seq(S) /\ d \in S /\ Len(t) = n
  BY <1>0
<1>2. t[1] = a /\ t[2] = b /\ t[3] = c
  OBVIOUS
<1> HIDE DEF t, S
<1>3. m = n + 1
  BY <1>0
<1>4. PICK s : s = Append(t, d)
  OBVIOUS
<1>5. s \in Seq(S) /\ Len(s) = m /\ s[m] = d /\ \A k \in 1..n : s[k] = t[k]
  BY <1>1, <1>3, <1>4, AppendIs
<1>6. s[1] = t[1] /\ s[2] = t[2] /\ s[3] = t[3] /\ s[4] = d
  BY <1>0, <1>5
<1>7. s = <<s[1], s[2], s[3], s[4]>>
  BY <1>0, <1>5, Listed
<1>8. s = <<a, b, c, d>>
  BY <1>2, <1>6, <1>7, Zenon
<1> QED BY <1>4, <1>8 DEF t

\* Appending to one of four.
LEMMA Append4 ==
    ASSUME NEW a, NEW b, NEW c, NEW d, NEW e
    PROVE  Append(<<a, b, c, d>>, e) = <<a, b, c, d, e>>
<1> DEFINE S == {a, b, c, d, e}  t == <<a, b, c, d>>
<1>0. PICK n, m : n = 4 /\ m = 5
  OBVIOUS
<1>1. t \in Seq(S) /\ e \in S /\ Len(t) = n
  BY <1>0
<1>2. t[1] = a /\ t[2] = b /\ t[3] = c /\ t[4] = d
  OBVIOUS
<1> HIDE DEF t, S
<1>3. m = n + 1
  BY <1>0
<1>4. PICK s : s = Append(t, e)
  OBVIOUS
<1>5. s \in Seq(S) /\ Len(s) = m /\ s[m] = e /\ \A k \in 1..n : s[k] = t[k]
  BY <1>1, <1>3, <1>4, AppendIs
<1>6. s[1] = t[1] /\ s[2] = t[2] /\ s[3] = t[3] /\ s[4] = t[4] /\ s[5] = e
  BY <1>0, <1>5
<1>7. s = <<s[1], s[2], s[3], s[4], s[5]>>
  BY <1>0, <1>5, Listed
<1>8. s = <<a, b, c, d, e>>
  BY <1>2, <1>6, <1>7, Zenon
<1> QED BY <1>4, <1>8 DEF t

\* Some sequence.
IsSeq(s) == \E S : s \in Seq(S)

\* The value that was appended to it is the last.
LEMMA LastIs ==
    ASSUME NEW s, IsSeq(s), NEW x
    PROVE  IsSeq(Append(s, x)) /\ Append(s, x)[Len(Append(s, x))] = x
<1>1. PICK S : s \in Seq(S)
  BY DEF IsSeq
<1>2. s \in Seq(S \cup {x}) /\ x \in S \cup {x}
  BY <1>1, SMT
<1>3. Append(s, x) \in Seq(S \cup {x})
  BY <1>2, SMT
<1>4. Append(s, x)[Len(Append(s, x))] = x
  BY <1>2, SMT
<1> QED BY <1>3, <1>4 DEF IsSeq

\* What numbers are.
LEMMA NumbersAre ==
    /\ \A n \in Numbers : n \in Nat /\ n < Word
    /\ \A n \in Nat : n < Word => n \in Numbers
<1>1. \A w, n \in Nat : n \in 0..(w - 1) <=> n < w
  BY SMT
<1>2. Word \in Nat
  BY DEF Word
<1>3. \A n \in Numbers : n \in Nat
  BY <1>2, SMT DEF Numbers
<1> QED BY <1>1, <1>2, <1>3 DEF Numbers

\* What is left of a packet is a number that does not wrap.
LEMMA RestIs ==
    ASSUME NEW data, Memory(data), NEW p \in 0..Len(data)
    PROVE  /\ p \in Nat /\ Rest(data, p) \in Nat /\ p + Rest(data, p) < Word
           /\ p + Rest(data, p) = Len(data) /\ Rest(data, p) = Len(data) - p
<1>1. Len(data) \in Nat /\ Len(data) < Word
  BY NumbersAre DEF Memory
<1>0. PICK l : l = Len(data)
  OBVIOUS
<1>2. p \in 0..l /\ l \in Nat /\ l < Word
  BY <1>0, <1>1
<1>3. l - p \in Nat /\ p \in Nat /\ p + (l - p) = l
  BY <1>2, SMT
<1> QED BY <1>0, <1>2, <1>3 DEF Rest

\* And after n more bytes.
LEMMA RestAfter ==
    ASSUME NEW data, Memory(data), NEW p \in 0..Len(data), NEW n \in 0..Rest(data, p)
    PROVE  /\ p + n \in 0..Len(data) /\ Rest(data, p + n) = Rest(data, p) - n
           /\ (Rest(data, p) - n) % Word = Rest(data, p) - n
<1>0. PICK l, r : l = Len(data) /\ r = Rest(data, p)
  OBVIOUS
<1>1. p \in Nat /\ r \in Nat /\ p + r < Word /\ p + r = l /\ n \in 0..r
  BY <1>0, RestIs
<1>2. p + n \in 0..l /\ l - (p + n) = r - n /\ (r - n) % Word = r - n
  BY <1>1, SMT DEF Word
<1> QED BY <1>0, <1>2 DEF Rest

\* The parts of a state.
LEMMA AtIs ==
    ASSUME NEW data, NEW p, NEW v
    PROVE  /\ At(data, p, v).buf = data /\ At(data, p, v).pos = p
           /\ At(data, p, v).len = Rest(data, p) /\ At(data, p, v).values = v
BY DEF At, State

\* The parts of one in which a parser failed.
LEMMA FallenIs ==
    ASSUME NEW data, NEW p, NEW v
    PROVE  /\ Fallen(data, p, v).buf = data /\ Fallen(data, p, v).pos = p
           /\ Fallen(data, p, v).len = Rest(data, p) /\ Fallen(data, p, v).values = v
BY DEF Fallen, State

\* Whether a parser failed before.
LEMMA OkIs ==
    ASSUME NEW data, NEW p, NEW v
    PROVE  At(data, p, v).ok /\ ~Fallen(data, p, v).ok
BY DEF At, Fallen, Yes, No, State

\* Both stand for the rest of the packet.
LEMMA Inside ==
    ASSUME NEW data, Memory(data), NEW p \in 0..Len(data), NEW v
    PROVE  InPacket(At(data, p, v)) /\ InPacket(Fallen(data, p, v))
BY AtIs, FallenIs, RestIs DEF InPacket

\* The start of a command.
LEMMA CreateIs ==
    ASSUME NEW data, Memory(data)
    PROVE  0 \in 0..Len(data) /\ create_parse_state(data) = At(data, 0, << >>)
<1>1. Len(data) \in Nat
  BY NumbersAre DEF Memory
<1>0. PICK l : l = Len(data)
  OBVIOUS
<1>2. l - 0 = l /\ 0 \in 0..l
  BY <1>0, <1>1, SMT
<1> QED BY <1>0, <1>2 DEF create_parse_state, At, Rest, Yes, State

\* A parser that fails leaves the state where it is.
LEMMA FailedIs ==
    ASSUME NEW data, NEW p, NEW v
    PROVE  /\ Failed(At(data, p, v)) = Fallen(data, p, v)
           /\ Failed(Fallen(data, p, v)) = Fallen(data, p, v)
<1>1. [At(data, p, v) EXCEPT !.ok = No] = Fallen(data, p, v)
  BY DEF At, Fallen, State
<1>2. [Fallen(data, p, v) EXCEPT !.ok = No] = Fallen(data, p, v)
  BY DEF Fallen, State
<1>3. \A s : Failed(s) = [s EXCEPT !.ok = No]
  BY DEF Failed, No
<1> QED BY <1>1, <1>2, <1>3

\* One that succeeds takes its bytes off the front; the length does not wrap.
LEMMA ParsedIs ==
    ASSUME NEW data, Memory(data), NEW p \in 0..Len(data), NEW n \in 0..Rest(data, p),
           NEW v, NEW x
    PROVE  Parsed(At(data, p, v), n, x) = At(data, p + n, Append(v, x))
<1>0. PICK q, l, w, m : /\ q = p + n /\ l = Rest(data, p + n) /\ w = Append(v, x)
                        /\ m = Rest(data, p)
  OBVIOUS
<1>1. (m - n) % Word = l
  BY <1>0, RestAfter
<1> DEFINE s == State(data, p, m, Yes, v)
<1>2. s.pos = p /\ s.len = m /\ s.values = v
  BY DEF State
<1>3. At(data, p, v) = s
  BY <1>0 DEF At
<1>5. [State(data, p, m, Yes, v) EXCEPT !.pos = q, !.len = l, !.values = w]
        = State(data, q, l, Yes, w)
  <2>1. [State(data, p, m, Yes, v) EXCEPT !.pos = q] = State(data, q, m, Yes, v)
    BY DEF State
  <2>2. [State(data, q, m, Yes, v) EXCEPT !.len = l] = State(data, q, l, Yes, v)
    BY DEF State
  <2>3. [State(data, q, l, Yes, v) EXCEPT !.values = w] = State(data, q, l, Yes, w)
    BY DEF State
  <2>4. [State(data, p, m, Yes, v) EXCEPT !.pos = q, !.len = l, !.values = w]
          = [[[State(data, p, m, Yes, v) EXCEPT !.pos = q] EXCEPT !.len = l] EXCEPT !.values = w]
    OBVIOUS
  <2> QED BY <2>1, <2>2, <2>3, <2>4
<1> HIDE DEF s
<1>4. Parsed(s, n, x) = [s EXCEPT !.pos = q, !.len = l, !.values = w]
  BY <1>0, <1>1, <1>2 DEF Parsed
<1>6. [s EXCEPT !.pos = q, !.len = l, !.values = w] = State(data, q, l, Yes, w)
  BY <1>5, Zenon DEF s
<1> QED BY <1>0, <1>3, <1>4, <1>6 DEF At

\* Bytes that are there are bytes of the packet.
LEMMA BytesAre ==
    ASSUME NEW data, Memory(data), NEW p \in 0..Len(data), NEW n \in 0..Rest(data, p),
           NEW v
    PROVE  Bytes(At(data, p, v), n) = Part(data, p, n)
<1> DEFINE s == At(data, p, v)
<1>0. PICK l, r : l = Len(data) /\ r = Rest(data, p)
  OBVIOUS
<1>1. p \in Nat /\ r \in Nat /\ p + r = l /\ n \in 0..r
  BY <1>0, RestIs
<1>2. \A k \in 1..n : p + k <= l
  BY <1>1, SMT
<1>3. s.buf = data /\ s.pos = p
  BY AtIs
<1> HIDE DEF s
<1>4. Bytes(s, n) = [k \in 1..n |-> IF p + k <= l THEN data[p + k] ELSE Garbage]
  BY <1>0, <1>3 DEF Bytes
<1>5. Bytes(s, n) = [k \in 1..n |-> data[p + k]]
  BY <1>2, <1>4
<1> QED BY <1>5 DEF Part, s

\* The parsers, on a state that no parser failed on.
LEMMA ByteIs ==
    ASSUME NEW data, Memory(data), NEW p \in 0..Len(data), NEW v
    PROVE  parse_byte(At(data, p, v))
             = IF p + 1 <= Len(data) THEN At(data, p + 1, Append(v, data[p + 1]))
               ELSE Fallen(data, p, v)
<1> DEFINE s == At(data, p, v)
<1>0. PICK l, r : l = Len(data) /\ r = Rest(data, p)
  OBVIOUS
<1>1. p \in Nat /\ r \in Nat /\ p + r = l
  BY <1>0, RestIs
<1>2. s.ok /\ s.len = r
  BY <1>0, AtIs, OkIs
<1>3. Failed(s) = Fallen(data, p, v)
  BY FailedIs
<1>4. ASSUME 1 \in 0..r
      PROVE  Bytes(s, 1) = Part(data, p, 1)
             /\ \A x : Parsed(s, 1, x) = At(data, p + 1, Append(v, x))
  <2>1. 1 \in 0..Rest(data, p)
    BY <1>0, <1>4
  <2>2. Bytes(s, 1) = Part(data, p, 1)
    BY <2>1, BytesAre
  <2>3. \A x : Parsed(s, 1, x) = At(data, p + 1, Append(v, x))
    BY <2>1, ParsedIs
  <2> QED BY <2>2, <2>3
<1>5. Part(data, p, 1)[1] = data[p + 1]
  BY DEF Part
<1> HIDE DEF s
<1>6. r >= 1 <=> p + 1 <= l
  BY <1>1, SMT
<1>7. r >= 1 <=> 1 \in 0..r
  BY <1>1, SMT
<1>8. CASE r >= 1
  BY <1>0, <1>2, <1>4, <1>5, <1>6, <1>7, <1>8 DEF parse_byte, s
<1>9. CASE ~(r >= 1)
  BY <1>0, <1>2, <1>3, <1>6, <1>9 DEF parse_byte, s
<1> QED BY <1>8, <1>9

\* A number takes two bytes.
LEMMA IntIs ==
    ASSUME NEW data, Memory(data), NEW p \in 0..Len(data), NEW v
    PROVE  parse_int(At(data, p, v))
             = IF p + 2 <= Len(data) THEN At(data, p + 2, Append(v, IntAt(data, p)))
               ELSE Fallen(data, p, v)
<1> DEFINE s == At(data, p, v)
<1>0. PICK l, r : l = Len(data) /\ r = Rest(data, p)
  OBVIOUS
<1>1. p \in Nat /\ r \in Nat /\ p + r = l
  BY <1>0, RestIs
<1>2. s.ok /\ s.len = r
  BY <1>0, AtIs, OkIs
<1>3. Failed(s) = Fallen(data, p, v)
  BY FailedIs
<1>4. ASSUME 2 \in 0..r
      PROVE  Bytes(s, 2) = Part(data, p, 2)
             /\ \A x : Parsed(s, 2, x) = At(data, p + 2, Append(v, x))
  <2>1. 2 \in 0..Rest(data, p)
    BY <1>0, <1>4
  <2>2. Bytes(s, 2) = Part(data, p, 2)
    BY <2>1, BytesAre
  <2>3. \A x : Parsed(s, 2, x) = At(data, p + 2, Append(v, x))
    BY <2>1, ParsedIs
  <2> QED BY <2>2, <2>3
<1>5. Number(Part(data, p, 2)) = IntAt(data, p)
  BY DEF Part, Number, IntAt
<1> HIDE DEF s
<1>6. r >= 2 <=> p + 2 <= l
  BY <1>1, SMT
<1>7. r >= 2 <=> 2 \in 0..r
  BY <1>1, SMT
<1>8. CASE r >= 2
  BY <1>0, <1>2, <1>4, <1>5, <1>6, <1>7, <1>8 DEF parse_int, s
<1>9. CASE ~(r >= 2)
  BY <1>0, <1>2, <1>3, <1>6, <1>9 DEF parse_int, s
<1> QED BY <1>8, <1>9

\* Raw data takes what it is given.
LEMMA RawIs ==
    ASSUME NEW data, Memory(data), NEW p \in 0..Len(data), NEW v, NEW n \in Nat
    PROVE  parse_raw_data(At(data, p, v), n)
             = IF p + n <= Len(data) THEN At(data, p + n, Append(v, Part(data, p, n)))
               ELSE Fallen(data, p, v)
<1> DEFINE s == At(data, p, v)
<1>0. PICK l, r : l = Len(data) /\ r = Rest(data, p)
  OBVIOUS
<1>1. p \in Nat /\ r \in Nat /\ p + r = l
  BY <1>0, RestIs
<1>2. s.ok /\ s.len = r
  BY <1>0, AtIs, OkIs
<1>3. Failed(s) = Fallen(data, p, v)
  BY FailedIs
<1>4. ASSUME n \in 0..r
      PROVE  Bytes(s, n) = Part(data, p, n)
             /\ \A x : Parsed(s, n, x) = At(data, p + n, Append(v, x))
  <2>1. n \in 0..Rest(data, p)
    BY <1>0, <1>4
  <2>2. Bytes(s, n) = Part(data, p, n)
    BY <2>1, BytesAre
  <2>3. \A x : Parsed(s, n, x) = At(data, p + n, Append(v, x))
    BY <2>1, ParsedIs
  <2> QED BY <2>2, <2>3
<1> HIDE DEF s
<1>6. r >= n <=> p + n <= l
  BY <1>1, SMT
<1>7. r >= n <=> n \in 0..r
  BY <1>1, SMT
<1>8. CASE r >= n
  BY <1>0, <1>2, <1>4, <1>6, <1>7, <1>8 DEF parse_raw_data, s
<1>9. CASE ~(r >= n)
  BY <1>0, <1>2, <1>3, <1>6, <1>9 DEF parse_raw_data, s
<1> QED BY <1>8, <1>9

\* All that is left.
LEMMA AllRawIs ==
    ASSUME NEW data, Memory(data), NEW p \in 0..Len(data), NEW v
    PROVE  parse_all_raw_data(At(data, p, v))
             = At(data, Len(data), Append(v, Part(data, p, Rest(data, p))))
<1>0. PICK r : r = Rest(data, p)
  OBVIOUS
<1>1. r \in Nat /\ p + r = Len(data)
  BY <1>0, RestIs
<1>2. r \in 0..r
  BY <1>1, SMT
<1>3. At(data, p, v).len = r
  BY <1>0, AtIs
<1> QED BY <1>0, <1>1, <1>2, <1>3, ParsedIs, BytesAre DEF parse_all_raw_data

\* A string ends before the first null byte.
LEMMA StringIs ==
    ASSUME NEW data, Memory(data), NEW p \in 0..Len(data), NEW v
    PROVE  \/ /\ \A k \in 1..Rest(data, p) : data[p + k] # 0
              /\ parse_string(At(data, p, v)) = Fallen(data, p, v)
           \/ \E e \in 1..Rest(data, p) :
                 /\ data[p + e] = 0 /\ \A k \in 1..(e - 1) : data[p + k] # 0
                 /\ parse_string(At(data, p, v))
                      = At(data, p + e, Append(v, Part(data, p, e - 1)))
<1> DEFINE s == At(data, p, v)
           ends == {k \in 1..s.len : Bytes(s, k)[k] = 0}
<1>0. PICK r : r = Rest(data, p)
  OBVIOUS
<1>1. r \in Nat
  BY <1>0, RestIs
<1>2. s.ok /\ s.len = r
  BY <1>0, AtIs, OkIs
<1>3. Failed(s) = Fallen(data, p, v)
  BY FailedIs
<1>4. \A n \in 0..r : Bytes(s, n) = Part(data, p, n)
  BY <1>0, BytesAre
<1>5. \A n \in 0..r : \A x : Parsed(s, n, x) = At(data, p + n, Append(v, x))
  BY <1>0, ParsedIs
<1> HIDE DEF s
<1>6. \A k \in 1..r : k \in Nat /\ k \in 1..k /\ k \in 0..r /\ k - 1 \in 0..r
  BY <1>1, SMT
<1>7. \A k \in 1..r : Bytes(s, k)[k] = data[p + k]
  <2>1. \A k \in 1..r : Part(data, p, k)[k] = data[p + k]
    BY <1>6 DEF Part
  <2> QED BY <1>4, <1>6, <2>1
<1>8. CASE ends = {}
  <2>1. parse_string(s) = Failed(s)
    BY <1>8 DEF parse_string
  <2>2. \A k \in 1..r : data[p + k] # 0
    BY <1>2, <1>7, <1>8
  <2> QED BY <1>0, <1>3, <2>1, <2>2 DEF s
<1>9. CASE ends # {}
  <2> DEFINE end == CHOOSE k \in ends : \A j \in ends : k <= j
  <2>1. ends \subseteq Nat
    BY <1>2, <1>6
  <2>2. \E k \in ends : \A j \in ends : k <= j
    BY <1>9, <2>1, Least
  <2>3. end \in ends /\ \A j \in ends : end <= j
    BY <2>2
  <2>4. parse_string(s) = Parsed(s, end, Bytes(s, end - 1))
    BY <1>2, <1>9 DEF parse_string
  <2> HIDE DEF end
  <2>5. end \in 1..r /\ data[p + end] = 0
    BY <1>2, <1>7, <2>3
  <2>6. \A k \in 1..(end - 1) : k \in 1..r /\ ~(end <= k)
    BY <1>1, <2>5, SMT
  <2>7. \A k \in 1..(end - 1) : data[p + k] # 0
    BY <1>2, <1>7, <2>3, <2>6
  <2>8. parse_string(s) = At(data, p + end, Append(v, Part(data, p, end - 1)))
    BY <1>4, <1>5, <1>6, <2>4, <2>5
  <2> QED BY <1>0, <2>5, <2>7, <2>8 DEF s
<1> QED BY <1>8, <1>9

\* Once a parser failed all that follow do.
LEMMA FallenStays ==
    ASSUME NEW data, NEW p, NEW v, NEW n
    PROVE  /\ parse_byte(Fallen(data, p, v)) = Fallen(data, p, v)
           /\ parse_int(Fallen(data, p, v)) = Fallen(data, p, v)
           /\ parse_string(Fallen(data, p, v)) = Fallen(data, p, v)
           /\ parse_raw_data(Fallen(data, p, v), n) = Fallen(data, p, v)
           /\ parse_sized_data(Fallen(data, p, v)) = Fallen(data, p, v)
<1> DEFINE s == Fallen(data, p, v)
<1>1. ~s.ok /\ Failed(s) = s
  BY OkIs, FailedIs
<1> HIDE DEF s
<1>2. parse_byte(s) = s /\ parse_int(s) = s /\ parse_string(s) = s
  BY <1>1 DEF parse_byte, parse_int, parse_string
<1>3. parse_raw_data(s, n) = s /\ parse_sized_data(s) = s
  BY <1>1 DEF parse_raw_data, parse_sized_data
<1> QED BY <1>2, <1>3 DEF s

\* A number in the packet is a number.
LEMMA IntAtIs ==
    ASSUME NEW data, Memory(data), NEW p \in 0..Len(data), p + 2 <= Len(data)
    PROVE  IntAt(data, p) \in Numbers
<1>0. PICK l : l = Len(data)
  OBVIOUS
<1>1. l \in Nat /\ p \in Nat /\ p + 2 <= l
  BY <1>0, RestIs, NumbersAre DEF Memory
<1>2. p + 1 \in 1..l /\ p + 2 \in 1..l
  BY <1>1, SMT
<1>3. data[p + 1] \in Byte /\ data[p + 2] \in Byte
  BY <1>0, <1>2, SMT DEF Memory
<1>4. ASSUME NEW x \in Byte, NEW y \in Byte
      PROVE  x * 256 + y \in Numbers
  <2>1. x \in Nat /\ y \in Nat /\ x <= 255 /\ y <= 255
    BY SMT DEF Byte
  <2>2. x * 256 + y \in Nat /\ x * 256 + y < Word
    BY <2>1, SMT DEF Word
  <2> QED BY <2>2, NumbersAre
<1> QED BY <1>3, <1>4 DEF IntAt

-----------------------------------------------------------------------------
(* A handler reads nothing behind the packet, whatever is in it. *)

\* The parser is in the packet.
Good(data, s) ==
    \E p \in 0..Len(data) : \E v : IsSeq(v) /\ (s = At(data, p, v) \/ s = Fallen(data, p, v))

\* Then its state stands for the rest of the packet.
LEMMA GoodIs ==
    ASSUME NEW data, Memory(data), NEW s, Good(data, s)
    PROVE  InPacket(s)
BY Inside DEF Good

\* A number and a string are read in the packet.
LEMMA GoodParsers ==
    ASSUME NEW data, Memory(data), NEW s, Good(data, s)
    PROVE  Good(data, parse_int(s)) /\ Good(data, parse_string(s))
<1>0. PICK p \in 0..Len(data) : \E v : IsSeq(v) /\ (s = At(data, p, v) \/ s = Fallen(data, p, v))
  BY DEF Good
<1>1. PICK v : IsSeq(v) /\ (s = At(data, p, v) \/ s = Fallen(data, p, v))
  BY <1>0
<1>2. CASE s = Fallen(data, p, v)
  BY <1>1, <1>2, FallenStays DEF Good
<1>3. CASE s = At(data, p, v)
  <2>1. Good(data, parse_int(s))
    <3>1. p + 2 <= Len(data) => p + 2 \in 0..Len(data)
      BY RestIs, SMT
    <3> QED BY <1>1, <1>3, <3>1, IntIs, LastIs DEF Good
  <2>2. Good(data, parse_string(s))
    <3>1. \A e \in 1..Rest(data, p) : e \in 0..Rest(data, p)
      BY RestIs, SMT
    <3> QED BY <1>1, <1>3, <3>1, StringIs, RestAfter, LastIs DEF Good
  <2> QED BY <2>1, <2>2
<1> QED BY <1>1, <1>2, <1>3

\* So is raw data.
LEMMA GoodRaw ==
    ASSUME NEW data, Memory(data), NEW s, Good(data, s), NEW n \in Nat
    PROVE  Good(data, parse_raw_data(s, n))
<1>0. PICK p \in 0..Len(data) : \E v : IsSeq(v) /\ (s = At(data, p, v) \/ s = Fallen(data, p, v))
  BY DEF Good
<1>1. PICK v : IsSeq(v) /\ (s = At(data, p, v) \/ s = Fallen(data, p, v))
  BY <1>0
<1>2. CASE s = Fallen(data, p, v)
  BY <1>1, <1>2, FallenStays DEF Good
<1>3. CASE s = At(data, p, v)
  <2>1. p + n <= Len(data) => p + n \in 0..Len(data)
    BY RestIs, SMT
  <2> QED BY <1>1, <1>3, <2>1, RawIs, LastIs DEF Good
<1> QED BY <1>1, <1>2, <1>3

\* And raw data whose size is read before it.
LEMMA GoodSized ==
    ASSUME NEW data, Memory(data), NEW s, Good(data, s)
    PROVE  /\ Good(data, parse_sized_data(parse_int(s)))
           /\ parse_int(s).ok => parse_int(s).values[Len(parse_int(s).values)] \in Nat
<1>0. PICK p \in 0..Len(data) : \E v : IsSeq(v) /\ (s = At(data, p, v) \/ s = Fallen(data, p, v))
  BY DEF Good
<1>1. PICK v : IsSeq(v) /\ (s = At(data, p, v) \/ s = Fallen(data, p, v))
  BY <1>0
<1>2. PICK t : t = parse_int(s)
  OBVIOUS
<1>3. CASE t = Fallen(data, p, v)
  <2>1. PICK u : u = Fallen(data, p, v)
    OBVIOUS
  <2>2. parse_sized_data(u) = u /\ ~u.ok
    BY <2>1, FallenStays, OkIs
  <2>3. Good(data, u)
    BY <1>1, <2>1 DEF Good
  <2> QED BY <1>2, <1>3, <2>1, <2>2, <2>3
<1>4. CASE /\ p + 2 <= Len(data)
           /\ t = At(data, p + 2, Append(v, IntAt(data, p)))
  <2>0. PICK w : w = Append(v, IntAt(data, p))
    OBVIOUS
  <2>1. t.values[Len(t.values)] = IntAt(data, p)
    <3>1. \A q : At(data, q, w).values = w
      BY AtIs
    <3>2. w[Len(w)] = IntAt(data, p)
      BY <1>1, <2>0, LastIs
    <3>3. t = At(data, p + 2, w)
      BY <1>4, <2>0
    <3> QED BY <3>1, <3>2, <3>3
  <2>2. IntAt(data, p) \in Nat
    BY <1>4, IntAtIs, NumbersAre
  <2>3. t.ok /\ Good(data, t)
    BY <1>1, <1>2, <1>4, OkIs, GoodParsers
  <2>4. parse_sized_data(t) = parse_raw_data(t, IntAt(data, p))
    BY <2>1, <2>3 DEF parse_sized_data
  <2> QED BY <1>2, <2>1, <2>2, <2>3, <2>4, GoodRaw
<1>5. CASE s = Fallen(data, p, v)
  BY <1>2, <1>3, <1>5, FallenStays
<1>6. CASE s = At(data, p, v)
  BY <1>2, <1>3, <1>4, <1>6, IntIs
<1> QED BY <1>1, <1>5, <1>6

\* What a handler does is inside the packet when its parser is.
LEMMA DoesInside ==
    ASSUME NEW s, InPacket(s), NEW op, NEW numbers, NEW bytes
    PROVE  Does(s, op, numbers, bytes).inside
BY DEF Does

\* Whatever the bytes of a packet, handle_command and the handlers read nothing
\* behind its end (tools.c:112-169).
THEOREM DispatchInside ==
    ASSUME NEW data, Memory(data)
    PROVE  Dispatch(data).inside
<1>1. PICK s : s = parse_byte(create_parse_state(data))
  OBVIOUS
<1>2. Good(data, s)
  <2>1. IsSeq(<< >>)
    BY SMT DEF IsSeq
  <2>2. 0 + 1 <= Len(data) => 0 + 1 \in 0..Len(data)
    BY CreateIs, RestIs, SMT
  <2> QED BY <1>1, <2>1, <2>2, CreateIs, ByteIs, LastIs DEF Good
<1>3. \A t, op, numbers, bytes : Good(data, t) => Does(t, op, numbers, bytes).inside
  BY GoodIs, DoesInside
<1>4. NoCommand(s).inside
  <2>1. Good(data, Failed(s))
    BY <1>2, FailedIs DEF Good
  <2> QED BY <1>3, <2>1 DEF NoCommand
<1>5. s.ok => echo(s).inside
  <2> SUFFICES ASSUME s.ok PROVE Good(data, parse_all_raw_data(s))
    BY <1>3 DEF echo
  <2>1. PICK p \in 0..Len(data) : \E v : IsSeq(v) /\ s = At(data, p, v)
    BY <1>2, OkIs DEF Good
  <2>2. Len(data) \in 0..Len(data)
    BY <2>1, RestIs, SMT
  <2> QED BY <2>1, <2>2, AllRawIs, LastIs DEF Good
<1>6. load_sancus_module(s).inside
  BY <1>2, <1>3, GoodParsers, GoodSized DEF load_sancus_module
<1>7. call_sancus_module(s).inside
  <2> DEFINE h == parse_int(parse_int(parse_int(s)))
             n == h.values[Len(h.values)]
  <2>1. Good(data, h) /\ (h.ok => n \in Nat)
    BY <1>2, GoodParsers, GoodSized
  <2> HIDE DEF h
  <2>2. h.ok => Good(data, parse_raw_data(h, n))
    BY <2>1, GoodRaw
  <2>3. n \in 0..4 => Good(data, parse_ints(h, n))
    <3> DEFINE one == parse_int(h)
               two == parse_int(one)
               three == parse_int(two)
               four == parse_int(three)
    <3>1. Good(data, one) /\ Good(data, two) /\ Good(data, three) /\ Good(data, four)
      BY <2>1, GoodParsers
    <3>2. parse_ints(h, n) = <<h, one, two, three, four>>[n + 1]
      BY DEF parse_ints
    <3> HIDE DEF one, two, three, four
    <3>3. \A k \in 0..4 : <<h, one, two, three, four>>[k + 1] \in {h, one, two, three, four}
      OBVIOUS
    <3> QED BY <2>1, <3>1, <3>2, <3>3
  <2> DEFINE t == IF ~h.ok THEN h ELSE IF n \in 0..4 THEN parse_ints(h, n)
                  ELSE parse_raw_data(h, n)
  <2>4. Good(data, t)
    BY <2>1, <2>2, <2>3
  <2> HIDE DEF t
  <2>5. call_sancus_module(s)
          = IF n \in 0..4
            THEN Does(t, "sm_call_id", <<t.values[2], t.values[3]>>
                                         \o SubSeq(t.values, 5, Len(t.values)), << >>)
            ELSE Does(t, "sm_call_id", <<t.values[2], t.values[3], 2>>, <<t.values[5]>>)
    BY DEF call_sancus_module, h, t
  <2> HIDE DEF n
  <2> QED BY <1>3, <2>4, <2>5
<1>8. load_data(s).inside
  BY <1>2, <1>3, GoodParsers, GoodSized DEF load_data
<1>9. print_uart_data(s).inside
  BY <1>2, <1>3, GoodParsers, GoodSized DEF print_uart_data
<1>10. print_sancus_module_identity(s).inside
  BY <1>2, <1>3, GoodParsers DEF print_sancus_module_identity
<1> QED BY <1>1, <1>4, <1>5, <1>6, <1>7, <1>8, <1>9, <1>10 DEF Dispatch

-----------------------------------------------------------------------------
(* What the host encoded is read as it was meant. *)

\* From p on, data holds these bytes as far as it goes.
Holds(data, p, bytes) ==
    \A k \in 1..Len(bytes) : p + k <= Len(data) => data[p + k] = bytes[k]

\* The parser is at p, with the values v, if the packet reaches that far;
\* otherwise a parser failed.
Reads(s, data, p, v) ==
    IF p <= Len(data) THEN s = At(data, p, v)
    ELSE \E q \in 0..Len(data) : \E w : s = Fallen(data, q, w)

\* The parts of a sequence of two.
LEMMA Joined ==
    ASSUME NEW S, NEW x \in Seq(S), NEW y \in Seq(S), NEW n, n = Len(x), NEW m, m = Len(y)
    PROVE  /\ n \in Nat /\ m \in Nat /\ x \o y \in Seq(S) /\ Len(x \o y) = n + m
           /\ \A k \in 1..n : (x \o y)[k] = x[k]
           /\ \A k \in 1..m : (x \o y)[n + k] = y[k]
<1>1. n \in Nat /\ m \in Nat /\ x \o y \in Seq(S) /\ Len(x \o y) = n + m
  BY SMT
<1>2. \A k \in 1..n : (x \o y)[k] = x[k]
  BY SMT
<1>3. \A k \in 1..m : (x \o y)[n + k] = y[k]
  BY SMT
<1> QED BY <1>1, <1>2, <1>3

\* Bytes that follow each other are there one after the other.
LEMMA HoldsBoth ==
    ASSUME NEW data, Memory(data), NEW p \in Nat,
           NEW S, NEW x \in Seq(S), NEW y \in Seq(S), Holds(data, p, x \o y)
    PROVE  Holds(data, p, x) /\ Holds(data, p + Len(x), y)
<1>0. PICK n, m, z, l : n = Len(x) /\ m = Len(y) /\ z = x \o y /\ l = Len(data)
  OBVIOUS
<1>1. /\ n \in Nat /\ m \in Nat /\ Len(z) = n + m
      /\ \A k \in 1..n : z[k] = x[k]
      /\ \A k \in 1..m : z[n + k] = y[k]
  BY <1>0, Joined
<1>2. \A k \in 1..(n + m) : p + k <= l => data[p + k] = z[k]
  BY <1>0, <1>1 DEF Holds
<1>3. \A k \in 1..n : p + k <= l => data[p + k] = x[k]
  <2>1. \A k \in 1..n : k \in 1..(n + m)
    BY <1>1, SMT
  <2> QED BY <1>1, <1>2, <2>1
<1>4. \A k \in 1..m : (p + n) + k <= l => data[(p + n) + k] = y[k]
  <2>1. \A k \in 1..m : n + k \in 1..(n + m) /\ p + (n + k) = (p + n) + k
    BY <1>1, SMT
  <2> QED BY <1>1, <1>2, <2>1
<1> QED BY <1>0, <1>3, <1>4 DEF Holds

\* A number as two bytes.
LEMMA TwoBytesAre ==
    ASSUME NEW n \in Numbers
    PROVE  /\ TwoBytes(n) \in Seq(Byte) /\ Len(TwoBytes(n)) = 2
           /\ TwoBytes(n)[1] * 256 + TwoBytes(n)[2] = n
<1>1. n \in Nat /\ n < Word
  BY NumbersAre
<1>2. n \div 256 \in Nat /\ n % 256 \in Nat /\ n \div 256 <= 255 /\ n % 256 <= 255
  BY <1>1, SMT DEF Word
<1>3. (n \div 256) * 256 + (n % 256) = n
  BY <1>1, SMT
<1>0. PICK a, b : a = n \div 256 /\ b = n % 256
  OBVIOUS
<1>4. a \in Byte /\ b \in Byte
  <2>1. \A i \in Nat : i <= 255 => i \in Byte
    BY SMT DEF Byte
  <2> QED BY <1>0, <1>2, <2>1
<1>5. <<a, b>> \in Seq(Byte) /\ Len(<<a, b>>) = 2 /\ <<a, b>>[1] = a /\ <<a, b>>[2] = b
  BY <1>4
<1> QED BY <1>0, <1>3, <1>5 DEF TwoBytes

\* It is read back.
LEMMA ReadsInt ==
    ASSUME NEW data, Memory(data), NEW p \in Nat, NEW s, NEW v, Reads(s, data, p, v),
           NEW n \in Numbers, Holds(data, p, TwoBytes(n))
    PROVE  Reads(parse_int(s), data, p + 2, Append(v, n))
<1>0. PICK l : l = Len(data)
  OBVIOUS
<1>1. l \in Nat
  BY <1>0, NumbersAre DEF Memory
<1>2. CASE ~(p <= l)
  <2>1. ~(p + 2 <= l)
    BY <1>1, <1>2, SMT
  <2> QED BY <1>0, <1>2, <2>1, FallenStays DEF Reads
<1>3. CASE p <= l
  <2>1. p \in 0..l /\ s = At(data, p, v)
    BY <1>0, <1>1, <1>3 DEF Reads
  <2>2. CASE p + 2 <= l
    <3>1. p + 1 <= l /\ 1 \in 1..2 /\ 2 \in 1..2
      BY <1>1, <2>2, SMT
    <3>2. data[p + 1] = TwoBytes(n)[1] /\ data[p + 2] = TwoBytes(n)[2]
      BY <1>0, <2>2, <3>1, TwoBytesAre DEF Holds
    <3>3. IntAt(data, p) = n
      BY <3>2, TwoBytesAre DEF IntAt
    <3> QED BY <1>0, <2>1, <2>2, <3>3, IntIs DEF Reads
  <2>3. CASE ~(p + 2 <= l)
    BY <1>0, <2>1, <2>3, IntIs DEF Reads
  <2> QED BY <2>2, <2>3
<1> QED BY <1>2, <1>3

\* So are as many bytes as there should be.
LEMMA ReadsRaw ==
    ASSUME NEW data, Memory(data), NEW p \in Nat, NEW s, NEW v, Reads(s, data, p, v),
           NEW bytes \in Seq(Byte), Holds(data, p, bytes)
    PROVE  Reads(parse_raw_data(s, Len(bytes)), data, p + Len(bytes), Append(v, bytes))
<1>0. PICK l, n : l = Len(data) /\ n = Len(bytes)
  OBVIOUS
<1>1. l \in Nat /\ n \in Nat
  BY <1>0, NumbersAre DEF Memory
<1>2. CASE ~(p <= l)
  <2>1. ~(p + n <= l)
    BY <1>1, <1>2, SMT
  <2> QED BY <1>0, <1>2, <2>1, FallenStays DEF Reads
<1>3. CASE p <= l
  <2>1. p \in 0..l /\ s = At(data, p, v)
    BY <1>0, <1>1, <1>3 DEF Reads
  <2>2. CASE p + n <= l
    <3>1. \A k \in 1..n : p + k <= l
      BY <1>1, <2>2, SMT
    <3>2. \A k \in 1..n : data[p + k] = bytes[k]
      BY <1>0, <3>1 DEF Holds
    <3>3. bytes = [k \in 1..n |-> bytes[k]]
      BY <1>0, SMT
    <3>4. Part(data, p, n) = bytes
      BY <3>2, <3>3 DEF Part
    <3> QED BY <1>0, <1>1, <2>1, <2>2, <3>4, RawIs DEF Reads
  <2>3. CASE ~(p + n <= l)
    BY <1>0, <1>1, <2>1, <2>3, RawIs DEF Reads
  <2> QED BY <2>2, <2>3
<1> QED BY <1>2, <1>3

\* And a size and as many bytes.
LEMMA ReadsSized ==
    ASSUME NEW data, Memory(data), NEW p \in Nat, NEW s, NEW v, IsSeq(v),
           Reads(s, data, p, v),
           NEW bytes \in Seq(Byte), Len(bytes) \in Numbers, Holds(data, p, Sized(bytes))
    PROVE  Reads(parse_sized_data(parse_int(s)), data, p + 2 + Len(bytes),
                 Append(Append(v, Len(bytes)), bytes))
<1>0. PICK n, w, t : n = Len(bytes) /\ w = Append(v, n) /\ t = parse_int(s)
  OBVIOUS
<1>1. Holds(data, p, TwoBytes(n)) /\ Holds(data, p + 2, bytes)
  <2>1. TwoBytes(n) \in Seq(Byte) /\ Len(TwoBytes(n)) = 2
    BY <1>0, TwoBytesAre
  <2> QED BY <1>0, <2>1, HoldsBoth DEF Sized
<1>2. Reads(t, data, p + 2, w)
  BY <1>0, <1>1, ReadsInt
<1>3. Reads(parse_raw_data(t, n), data, p + 2 + n, Append(w, bytes))
  <2>1. p + 2 \in Nat
    BY SMT
  <2> QED BY <1>0, <1>1, <1>2, <2>1, ReadsRaw
<1>4. parse_sized_data(t) = parse_raw_data(t, n)
  <2>1. CASE p + 2 <= Len(data)
    <3>1. t = At(data, p + 2, w)
      BY <1>2, <2>1 DEF Reads
    <3>2. \A q : At(data, q, w).values = w /\ At(data, q, w).ok
      BY AtIs, OkIs
    <3>3. w[Len(w)] = n
      BY <1>0, LastIs
    <3>4. t.ok /\ t.values[Len(t.values)] = n
      BY <3>1, <3>2, <3>3
    <3> QED BY <3>4 DEF parse_sized_data
  <2>2. CASE ~(p + 2 <= Len(data))
    <3>1. \E q : \E x : t = Fallen(data, q, x)
      BY <1>2, <2>2 DEF Reads
    <3> QED BY <3>1, FallenStays
  <2> QED BY <2>1, <2>2
<1> QED BY <1>0, <1>3, <1>4

\* And a string that ends before its first null byte.
LEMMA ReadsString ==
    ASSUME NEW data, Memory(data), NEW p \in Nat, NEW s, NEW v, Reads(s, data, p, v),
           NEW name \in Seq(Byte), \A k \in 1..Len(name) : name[k] # 0,
           Holds(data, p, name), Holds(data, p + Len(name), << 0 >>)
    PROVE  Reads(parse_string(s), data, p + Len(name) + 1, Append(v, name))
<1>0. PICK l, n, r : l = Len(data) /\ n = Len(name) /\ r = Rest(data, p)
  OBVIOUS
<1>1. l \in Nat /\ n \in Nat
  BY <1>0, NumbersAre DEF Memory
<1>2. CASE ~(p <= l)
  <2>1. ~(p + n + 1 <= l)
    BY <1>1, <1>2, SMT
  <2> QED BY <1>0, <1>2, <2>1, FallenStays DEF Reads
<1>3. CASE p <= l
  <2>1. p \in 0..l /\ s = At(data, p, v)
    BY <1>0, <1>1, <1>3 DEF Reads
  <2>2. r \in Nat /\ p + r = l
    BY <1>0, <2>1, RestIs
  <2>3. \A k \in 1..n : p + k <= l => data[p + k] # 0 /\ data[p + k] = name[k]
    BY <1>0 DEF Holds
  <2>4. p + n + 1 <= l => data[p + (n + 1)] = 0
    <3>1. 1 \in 1..1 /\ Len(<<0>>) = 1 /\ <<0>>[1] = 0
      BY SMT
    <3>2. p + n + 1 <= l => data[p + n + 1] = 0
      BY <1>0, <3>1 DEF Holds
    <3>3. p + n + 1 = p + (n + 1)
      BY <1>1, SMT
    <3> QED BY <3>2, <3>3
  <2>5. CASE p + n + 1 <= l
    <3>1. n + 1 \in 1..r
      BY <1>1, <2>2, <2>5, SMT
    <3>2. ASSUME NEW e \in 1..r, data[p + e] = 0, \A k \in 1..(e - 1) : data[p + k] # 0
          PROVE  e = n + 1
      <4>1. e < n + 1 => e \in 1..n /\ p + e <= l
        BY <1>1, <2>2, <2>5, SMT
      <4>2. n + 1 < e => n + 1 \in 1..(e - 1)
        BY <1>1, <3>1, SMT
      <4>3. ~(e < n + 1)
        BY <2>3, <3>2, <4>1
      <4>4. ~(n + 1 < e)
        BY <2>4, <2>5, <3>2, <4>2
      <4> QED BY <1>1, <4>3, <4>4, SMT
    <3>3. Part(data, p, n) = name
      <4>1. \A k \in 1..n : p + k <= l
        BY <1>1, <2>5, SMT
      <4>2. name = [k \in 1..n |-> name[k]]
        BY <1>0, SMT
      <4> QED BY <2>3, <4>1, <4>2 DEF Part
    <3>4. parse_string(s) = At(data, p + (n + 1), Append(v, Part(data, p, (n + 1) - 1)))
      BY <1>0, <2>1, <2>4, <2>5, <3>1, <3>2, StringIs
    <3>5. (n + 1) - 1 = n /\ p + (n + 1) = p + n + 1
      BY <1>1, SMT
    <3> QED BY <1>0, <2>5, <3>3, <3>4, <3>5 DEF Reads
  <2>6. CASE ~(p + n + 1 <= l)
    <3>1. \A e \in 1..r : e \in 1..n /\ p + e <= l
      BY <1>1, <2>2, <2>6, SMT
    <3>2. \A e \in 1..r : data[p + e] # 0
      BY <2>3, <3>1
    <3>3. parse_string(s) = Fallen(data, p, v)
      BY <1>0, <2>1, <3>2, StringIs
    <3> QED BY <1>0, <2>1, <2>6, <3>3 DEF Reads
  <2> QED BY <2>5, <2>6
<1> QED BY <1>2, <1>3

\* At the end of a command.
LEMMA ReadsAll ==
    ASSUME NEW data, NEW s, NEW e, NEW v, Reads(s, data, e, v), e \in Nat, Len(data) \in Nat,
           Len(data) <= e
    PROVE  IF Len(data) = e THEN s.ok /\ s.values = v ELSE ~s.ok
<1>0. PICK l : l = Len(data)
  OBVIOUS
<1>1. CASE l = e
  <2>1. e <= l
    BY <1>0, <1>1, SMT
  <2> QED BY <1>0, <1>1, <2>1, AtIs, OkIs DEF Reads
<1>2. CASE l # e
  <2>1. ~(e <= l)
    BY <1>0, <1>2, SMT
  <2> QED BY <1>0, <1>2, <2>1, OkIs DEF Reads
<1> QED BY <1>1, <1>2

\* What a handler does, by its parser.
LEMMA DoesIs ==
    ASSUME NEW s, NEW op, NEW numbers, NEW bytes
    PROVE  /\ s.ok => LET d == Does(s, op, numbers, bytes) IN
                         d.ok /\ d.op = op /\ d.numbers = numbers /\ d.bytes = bytes
           /\ ~s.ok => ~Does(s, op, numbers, bytes).ok
BY DEF Does

\* The numbers of a command, one after the other.
LEMMA NumbersHold ==
    ASSUME NEW x \in Seq(Numbers)
    PROVE  /\ AllNumbers(x) \in Seq(Byte) /\ Len(AllNumbers(x)) = 2 * Len(x)
           /\ \A data : \A p \in Nat : Memory(data) /\ Holds(data, p, AllNumbers(x)) =>
                 \A k \in 1..Len(x) : Holds(data, p + 2 * (k - 1), TwoBytes(x[k]))
<1> DEFINE ss == [k \in DOMAIN x |-> TwoBytes(x[k])]
           Fine(n) == /\ Flattened(ss)[n] \in Seq(Byte) /\ Len(Flattened(ss)[n]) = 2 * n
                      /\ \A data : \A p \in Nat :
                            Memory(data) /\ Holds(data, p, Flattened(ss)[n]) =>
                               \A k \in 1..n : Holds(data, p + 2 * (k - 1), TwoBytes(x[k]))
<1>0. PICK l : l = Len(x)
  OBVIOUS
<1>1. l \in Nat /\ DOMAIN x = 1..l /\ \A k \in 1..l : x[k] \in Numbers
  BY <1>0, SMT
<1>2. \A k \in 1..l : /\ ss[k] = TwoBytes(x[k]) /\ ss[k] \in Seq(Byte) /\ Len(ss[k]) = 2
  BY <1>1, TwoBytesAre
<1>3. \A n \in Nat : Flattened(ss)[n] = AddOn(ss, Flattened(ss), n)
  BY FlattenedIs
<1>4. Len(ss) = l
  BY <1>1, SMT
<1> HIDE DEF ss
<1>5. Fine(0)
  <2>1. Flattened(ss)[0] = << >>
    BY <1>3 DEF AddOn
  <2>2. << >> \in Seq(Byte) /\ Len(<< >>) = 2 * 0 /\ 1..0 = {}
    BY SMT
  <2> QED BY <2>1, <2>2
<1>6. ASSUME NEW n \in 1..l, Fine(n - 1)
      PROVE  Fine(n)
  <2>0. PICK m : m = n - 1
    OBVIOUS
  <2>1. n \in Nat /\ n # 0 /\ m \in Nat
    BY <1>1, <2>0, SMT
  <2>2. PICK a, b : a = Flattened(ss)[m] /\ b = TwoBytes(x[n])
    OBVIOUS
  <2>3. Flattened(ss)[n] = a \o b
    BY <1>2, <1>3, <2>0, <2>1, <2>2 DEF AddOn
  <2>4. a \in Seq(Byte) /\ Len(a) = 2 * m /\ b \in Seq(Byte) /\ Len(b) = 2
    BY <1>2, <1>6, <2>0, <2>2
  <2>5. a \o b \in Seq(Byte) /\ Len(a \o b) = 2 * n
    <3>1. 2 * m + 2 = 2 * n
      BY <2>0, <2>1, SMT
    <3>2. PICK q, r : q = Len(a) /\ r = Len(b)
      OBVIOUS
    <3>3. a \o b \in Seq(Byte) /\ Len(a \o b) = q + r
      BY <2>4, <3>2, ConcatProperties, Zenon
    <3> QED BY <2>4, <3>1, <3>2, <3>3
  <2>6. ASSUME NEW data, NEW p \in Nat, Memory(data), Holds(data, p, a \o b)
        PROVE  \A k \in 1..n : Holds(data, p + 2 * (k - 1), TwoBytes(x[k]))
    <3>1. Holds(data, p, a) /\ Holds(data, p + 2 * m, b)
      BY <2>4, <2>6, HoldsBoth
    <3>2. \A k \in 1..m : Holds(data, p + 2 * (k - 1), TwoBytes(x[k]))
      BY <1>6, <2>0, <2>2, <2>6, <3>1
    <3>3. \A k \in 1..n : k \in 1..m \/ k = n
      BY <2>0, <2>1, SMT
    <3> QED BY <2>0, <2>2, <3>1, <3>2, <3>3
  <2> QED BY <2>3, <2>5, <2>6
<1>7. Fine(l)
  <2> DEFINE Bad == {n \in 0..l : ~Fine(n)}
  <2>1. l \in 0..l
    BY <1>1, SMT
  <2>2. ASSUME Bad # {}
        PROVE  FALSE
    <3>1. Bad \subseteq Nat
      BY SMT
    <3>2. PICK n \in Bad : \A k \in Bad : n <= k
      BY <2>2, <3>1, Least
    <3>3. n # 0
      BY <1>5, <3>2
    <3>4. n \in 1..l /\ n - 1 \in 0..l /\ ~(n <= n - 1)
      BY <1>1, <3>2, <3>3, SMT
    <3>5. Fine(n - 1)
      BY <3>2, <3>4
    <3> QED BY <1>6, <3>2, <3>4, <3>5
  <2> QED BY <2>1, <2>2
<1>8. AllNumbers(x) = Flattened(ss)[l]
  BY <1>4 DEF AllNumbers, Flatten, ss
<1> QED BY <1>0, <1>7, <1>8

\* Bytes that follow others at the beginning of a packet.
LEMMA Follows ==
    ASSUME NEW data, Memory(data), NEW x \in Seq(Byte), NEW y \in Seq(Byte),
           NEW n, Len(x) = n, NEW m, Len(y) = m
    PROVE  /\ n \in Nat /\ m \in Nat /\ x \o y \in Seq(Byte) /\ Len(x \o y) = n + m
           /\ Holds(data, 0, x \o y) => Holds(data, 0, x) /\ Holds(data, n, y)
<1>1. n \in Nat /\ m \in Nat
  BY LenProperties
<1>2. x \o y \in Seq(Byte) /\ Len(x \o y) = Len(x) + Len(y)
  BY ConcatProperties, Zenon
<1>3. Holds(data, 0, x \o y) => Holds(data, 0, x) /\ Holds(data, 0 + Len(x), y)
  <2>1. 0 \in Nat
    BY SMT
  <2> QED BY <2>1, HoldsBoth
<1>4. 0 + n = n
  BY <1>1, SMT
<1> QED BY <1>1, <1>2, <1>3, <1>4

\* A command of the host that fits in memory, and as much of it as arrived.
Arrives(data, c) ==
    /\ HostCommand(c) /\ Memory(data) /\ data # << >>
    /\ Len(data) <= Len(Encode(c)) /\ Holds(data, 0, Encode(c))

\* What a handler has to do with it.
Obeys(d, data, c) ==
    IF Len(data) = Len(Encode(c)) THEN AsAsked(d, c) ELSE ~d.ok

\* The parts of it.
LEMMA ArrivesIs ==
    ASSUME NEW data, NEW c, Arrives(data, c)
    PROVE  /\ Len(data) \in Nat /\ Len(Encode(c)) \in Nat /\ 1 <= Len(data)
           /\ \A k \in DOMAIN c.bytes : c.bytes[k] \in Seq(Byte) /\ Len(c.bytes[k]) \in Numbers
           /\ \A k \in DOMAIN c.numbers : c.numbers[k] \in Numbers
<1>1. Len(data) \in Nat /\ Len(Encode(c)) \in Nat
  BY NumbersAre DEF Arrives, HostCommand, Memory
<1>2. 1 <= Len(data)
  <2>1. data \in Seq(Byte) /\ data # << >>
    BY DEF Arrives, Memory
  <2> QED BY <1>1, <2>1, SMT
<1>3. c.numbers \in Seq(Numbers) /\ c.bytes \in Seq(Seq(Byte))
      /\ \A k \in DOMAIN c.bytes : Len(c.bytes[k]) \in Numbers
  BY DEF Arrives, HostCommand
<1>4. \A k \in DOMAIN c.bytes : c.bytes[k] \in Seq(Byte)
  BY <1>3, SMT
<1>5. \A k \in DOMAIN c.numbers : c.numbers[k] \in Numbers
  BY <1>3, SMT
<1> QED BY <1>1, <1>2, <1>3, <1>4, <1>5

\* The first byte chooses the handler.
LEMMA FirstIs ==
    ASSUME NEW data, Memory(data), 1 <= Len(data)
    PROVE  LET s == At(data, 1, <<data[1]>>) IN
           /\ parse_byte(create_parse_state(data)) = s
           /\ s.ok /\ s.values[1] = data[1] /\ Reads(s, data, 1, <<data[1]>>)
<1>1. create_parse_state(data) = At(data, 0, << >>) /\ 0 \in 0..Len(data)
  BY CreateIs
<1>2. Append(<< >>, data[0 + 1]) = <<data[1]>> /\ 0 + 1 = 1
  BY SMT
<1>3. parse_byte(create_parse_state(data)) = At(data, 1, <<data[1]>>)
  BY <1>1, <1>2, ByteIs
<1>4. <<data[1]>>[1] = data[1]
  OBVIOUS
<1> QED BY <1>3, <1>4, AtIs, OkIs DEF Reads

\* What a first byte holds.
LEMMA FirstByte ==
    ASSUME NEW data, Memory(data), 1 <= Len(data), NEW b \in Byte, NEW x \in Seq(Byte),
           Holds(data, 0, <<b>> \o x)
    PROVE  data[1] = b /\ Holds(data, 1, x)
<1>1. <<b>> \in Seq(Byte) /\ Len(<<b>>) = 1 /\ <<b>>[1] = b /\ 1 \in 1..1 /\ 0 + 1 = 1
  OBVIOUS
<1>2. Holds(data, 0, <<b>>) /\ Holds(data, 1, x)
  <2>1. Holds(data, 0, <<b>>) /\ Holds(data, 0 + Len(<<b>>), x)
    BY <1>1, HoldsBoth
  <2> QED BY <1>1, <2>1
<1> QED BY <1>1, <1>2 DEF Holds

\* What a size and bytes are.
LEMMA SizedIs ==
    ASSUME NEW bytes \in Seq(Byte), NEW n \in Numbers, n = Len(bytes)
    PROVE  Sized(bytes) \in Seq(Byte) /\ Len(Sized(bytes)) = 2 + n
<1>1. TwoBytes(n) \in Seq(Byte) /\ Len(TwoBytes(n)) = 2
  BY TwoBytesAre
<1>2. PICK t : t = TwoBytes(n)
  OBVIOUS
<1>3. t \o bytes \in Seq(Byte) /\ Len(t \o bytes) = 2 + n
  <2>1. t \o bytes \in Seq(Byte) /\ Len(t \o bytes) = Len(t) + Len(bytes)
    BY <1>1, <1>2, ConcatProperties, Zenon
  <2> QED BY <1>1, <1>2, <2>1
<1> QED BY <1>2, <1>3 DEF Sized

\* A handler that reads all of it and does what was meant obeys.
LEMMA ObeysIs ==
    ASSUME NEW data, NEW c, Arrives(data, c), NEW s, NEW v,
           Reads(s, data, Len(Encode(c)), v), NEW op, NEW numbers, NEW bytes,
           s.values = v => op = c.op /\ bytes = c.bytes
              /\ numbers = IF c.op = "sm_call_id" /\ c.bytes # << >>
                           THEN c.numbers \o << 2 >> ELSE c.numbers
    PROVE  Obeys(Does(s, op, numbers, bytes), data, c)
<1>1. Len(data) <= Len(Encode(c)) /\ Len(data) \in Nat /\ Len(Encode(c)) \in Nat
  BY ArrivesIs DEF Arrives
<1>2. IF Len(data) = Len(Encode(c)) THEN s.ok /\ s.values = v ELSE ~s.ok
  BY <1>1, ReadsAll
<1> DEFINE d == Does(s, op, numbers, bytes)
<1>3. /\ s.ok => d.ok /\ d.op = op /\ d.numbers = numbers /\ d.bytes = bytes
      /\ ~s.ok => ~d.ok
  BY DoesIs
<1> HIDE DEF d
<1>4. CASE Len(data) = Len(Encode(c))
  <2>1. d.ok /\ d.op = c.op /\ d.bytes = c.bytes
        /\ d.numbers = IF c.op = "sm_call_id" /\ c.bytes # << >>
                       THEN c.numbers \o <<2>> ELSE c.numbers
    BY <1>2, <1>3, <1>4
  <2> QED BY <1>4, <2>1 DEF Obeys, AsAsked, d
<1>5. CASE Len(data) # Len(Encode(c))
  BY <1>2, <1>3, <1>5 DEF Obeys, d
<1> QED BY <1>4, <1>5

\* Echo.
LEMMA EchoObeys ==
    ASSUME NEW data, NEW c, Arrives(data, c), c.op = "packet_write", Len(data) = Len(Encode(c))
    PROVE  data[1] = 0 /\ AsAsked(echo(At(data, 1, <<0>>)), c)
<1> DEFINE s0 == At(data, 1, <<0>>)
           b == c.bytes[1]
<1>1. /\ c.numbers = << >> /\ c.bytes = <<b>> /\ 1 \in DOMAIN c.bytes
  <2>1. c.numbers \in Seq(Numbers) /\ c.bytes \in Seq(Seq(Byte)) /\ Len(c.numbers) = 0 /\ Len(c.bytes) = 1
    BY DEF Arrives, HostCommand
  <2>2. c.bytes = <<b>>
    BY <2>1, Listed
  <2> QED BY <2>1, <2>2, SMT
<1>2. b \in Seq(Byte) /\ Memory(data) /\ 1 <= Len(data) /\ 0 \in Byte
  BY <1>1, ArrivesIs, SMT DEF Arrives, Byte
<1>3. Encode(c) = <<0>> \o b
  BY DEF Encode
<1> HIDE DEF b
<1>4. data[1] = 0 /\ Holds(data, 1, b)
  BY <1>2, <1>3, FirstByte DEF Arrives
<1>5. Reads(s0, data, 1, <<0>>)
  BY <1>2, <1>4, FirstIs
<1>0. PICK n, l : n = Len(b) /\ l = Len(data)
  OBVIOUS
<1>6. n \in Nat /\ l = 1 + n
  <2>1. <<0>> \in Seq(Byte) /\ Len(<<0>>) = 1
    BY <1>2
  <2>2. Len(<<0>> \o b) = 1 + Len(b) /\ Len(b) \in Nat
    BY <1>2, <2>1, ConcatProperties, LenProperties
  <2> QED BY <1>0, <1>3, <2>2
<1>7. parse_raw_data(s0, n) = At(data, l, Append(<<0>>, b))
  <2>1. Reads(parse_raw_data(s0, n), data, 1 + n, Append(<<0>>, b))
    BY <1>0, <1>2, <1>4, <1>5, ReadsRaw
  <2>2. l <= l
    BY <1>6, SMT
  <2> QED BY <1>0, <1>6, <2>1, <2>2 DEF Reads
<1>8. parse_all_raw_data(s0) = parse_raw_data(s0, n)
  <2>1. 1 \in 0..l /\ l - 1 = n /\ 1 + n <= l
    BY <1>6, SMT
  <2>2. Rest(data, 1) = n
    BY <1>0, <2>1 DEF Rest
  <2>3. parse_all_raw_data(s0) = At(data, l, Append(<<0>>, Part(data, 1, n)))
    BY <1>0, <1>2, <2>1, <2>2, AllRawIs
  <2>4. parse_raw_data(s0, n) = At(data, 1 + n, Append(<<0>>, Part(data, 1, n)))
    BY <1>0, <1>2, <1>6, <2>1, RawIs
  <2> QED BY <1>6, <2>3, <2>4
<1>9. PICK s : s = parse_all_raw_data(s0)
  OBVIOUS
<1>10. s.ok /\ s.values = <<0, b>>
  <2>1. Append(<<0>>, b) = <<0, b>>
    BY Append1
  <2>2. s = At(data, l, <<0, b>>)
    BY <1>7, <1>8, <1>9, <2>1
  <2> QED BY <2>2, AtIs, OkIs
<1>11. echo(s0) = Does(s, "packet_write", << >>, <<s.values[2]>>)
  BY <1>9 DEF echo
<1>12. s.values[2] = b
  BY <1>10
<1> HIDE DEF s0
<1>13. AsAsked(echo(s0), c)
  <2>1. PICK d : d = Does(s, "packet_write", << >>, <<b>>)
    OBVIOUS
  <2>2. d.ok /\ d.op = "packet_write" /\ d.numbers = << >> /\ d.bytes = <<b>>
    BY <1>10, <2>1, DoesIs
  <2> QED BY <1>1, <1>11, <1>12, <2>1, <2>2 DEF AsAsked
<1> QED BY <1>4, <1>13 DEF s0

\* Load a module.
LEMMA LoadObeys ==
    ASSUME NEW data, NEW c, Arrives(data, c), c.op = "sm_load"
    PROVE  data[1] = 1 /\ Obeys(load_sancus_module(At(data, 1, <<1>>)), data, c)
<1> DEFINE s0 == At(data, 1, <<1>>)
           n == c.numbers[1]
           name == c.bytes[1]
           file == c.bytes[2]
           f == Len(file)
<1>1. /\ c.numbers = <<n>> /\ c.bytes = <<name, file>> /\ 1 \in DOMAIN c.numbers
      /\ 1 \in DOMAIN c.bytes /\ 2 \in DOMAIN c.bytes /\ \A k \in 1..Len(name) : name[k] # 0
  <2>1. c.numbers \in Seq(Numbers) /\ c.bytes \in Seq(Seq(Byte)) /\ Len(c.numbers) = 1 /\ Len(c.bytes) = 2
        /\ \A k \in DOMAIN name : name[k] # 0
    BY DEF Arrives, HostCommand
  <2>2. c.numbers = <<n>> /\ c.bytes = <<name, file>>
    BY <2>1, Listed
  <2>3. 1 \in DOMAIN c.numbers /\ 1 \in DOMAIN c.bytes /\ 2 \in DOMAIN c.bytes
    BY <2>1, SMT
  <2>4. DOMAIN name = 1..Len(name)
    BY <2>1, <2>3, SMT
  <2> QED BY <2>1, <2>2, <2>3, <2>4
<1>2. /\ n \in Numbers /\ name \in Seq(Byte) /\ file \in Seq(Byte) /\ f \in Numbers
      /\ Memory(data) /\ 1 <= Len(data)
  BY <1>1, ArrivesIs DEF Arrives
<1>3. Encode(c) = <<1>> \o name \o <<0>> \o TwoBytes(n) \o Sized(file)
  BY DEF Encode, upload_sm
<1> HIDE DEF n, name, file
<1>4. 0 \in Byte /\ 1 \in Byte /\ <<0>> \in Seq(Byte) /\ <<1>> \in Seq(Byte)
      /\ Len(<<0>>) = 1 /\ Len(<<1>>) = 1
  BY SMT DEF Byte
<1>5. TwoBytes(n) \in Seq(Byte) /\ Len(TwoBytes(n)) = 2
      /\ Sized(file) \in Seq(Byte) /\ Len(Sized(file)) = 2 + f
  <2>1. TwoBytes(n) \in Seq(Byte) /\ Len(TwoBytes(n)) = 2
    BY <1>2, TwoBytesAre
  <2>2. Sized(file) \in Seq(Byte) /\ Len(Sized(file)) = 2 + f
    BY <1>2, SizedIs
  <2> QED BY <2>1, <2>2
<1>6. PICK x1, x2, x3, a, w, z : /\ x1 = <<1>> \o name /\ x2 = x1 \o <<0>> /\ w = TwoBytes(n)
                                 /\ x3 = x2 \o w /\ z = Sized(file) /\ a = Len(name)
  OBVIOUS
<1>7. PICK p0, p1, p2 : p0 = 1 + a /\ p1 = p0 + 1 /\ p2 = p1 + 2
  OBVIOUS
<1>8. /\ x1 \in Seq(Byte) /\ Len(x1) = p0 /\ a \in Nat
      /\ Holds(data, 0, x1) => data[1] = 1 /\ Holds(data, 1, name)
  BY <1>2, <1>4, <1>6, <1>7, Follows, FirstByte
<1>9. /\ x2 \in Seq(Byte) /\ Len(x2) = p1 /\ p0 \in Nat
      /\ Holds(data, 0, x2) => Holds(data, 0, x1) /\ Holds(data, p0, <<0>>)
  <2>0. PICK m, y : y = <<0>> /\ m = 1
    OBVIOUS
  <2>1. y \in Seq(Byte) /\ Len(y) = m
    BY <1>4, <2>0
  <2>2. /\ x1 \o y \in Seq(Byte) /\ Len(x1 \o y) = p0 + m /\ p0 \in Nat
        /\ Holds(data, 0, x1 \o y) => Holds(data, 0, x1) /\ Holds(data, p0, y)
    BY <1>2, <1>8, <2>1, Follows
  <2> QED BY <1>6, <1>7, <2>0, <2>2
<1>10. /\ x3 \in Seq(Byte) /\ Len(x3) = p2 /\ p1 \in Nat
       /\ Holds(data, 0, x3) => Holds(data, 0, x2) /\ Holds(data, p1, w)
  <2>0. PICK m : m = 2
    OBVIOUS
  <2>1. w \in Seq(Byte) /\ Len(w) = m
    BY <1>5, <1>6, <2>0
  <2>2. /\ x2 \o w \in Seq(Byte) /\ Len(x2 \o w) = p1 + m /\ p1 \in Nat
        /\ Holds(data, 0, x2 \o w) => Holds(data, 0, x2) /\ Holds(data, p1, w)
    BY <1>2, <1>9, <2>1, Follows
  <2> QED BY <1>6, <1>7, <2>0, <2>2
<1>11. /\ Len(x3 \o z) = p2 + (2 + f) /\ p2 \in Nat
       /\ Holds(data, 0, x3 \o z) => Holds(data, 0, x3) /\ Holds(data, p2, z)
  <2>1. z \in Seq(Byte) /\ Len(z) = 2 + f
    BY <1>5, <1>6
  <2> QED BY <1>2, <1>10, <2>1, Follows
<1>12. /\ data[1] = 1 /\ Holds(data, 1, name) /\ Holds(data, p0, <<0>>)
       /\ Holds(data, p1, w) /\ Holds(data, p2, z)
  <2>1. Holds(data, 0, x3 \o z)
    BY <1>3, <1>6 DEF Arrives
  <2> QED BY <2>1, <1>8, <1>9, <1>10, <1>11
<1>13. Len(Encode(c)) = p2 + 2 + f
  <2>1. f \in Nat
    BY <1>2, NumbersAre
  <2>2. \A g \in Nat : p2 + (2 + g) = p2 + 2 + g
    BY <1>11, SMT
  <2> QED BY <1>3, <1>6, <1>11, <2>1, <2>2
<1>15. Reads(s0, data, 1, <<1>>)
  BY <1>2, <1>12, FirstIs
<1>16. PICK s1, s2, s3 : /\ s1 = parse_string(s0) /\ s2 = parse_int(s1)
                         /\ s3 = parse_sized_data(parse_int(s2))
  OBVIOUS
<1>17. Reads(s1, data, p1, <<1, name>>)
  <2>1. Reads(s1, data, 1 + a + 1, Append(<<1>>, name))
    BY <1>1, <1>2, <1>6, <1>7, <1>12, <1>15, <1>16, ReadsString
  <2>2. Append(<<1>>, name) = <<1, name>>
    BY Append1
  <2> QED BY <1>7, <2>1, <2>2
<1>18. Reads(s2, data, p2, <<1, name, n>>)
  <2>1. Reads(s2, data, p1 + 2, Append(<<1, name>>, n))
    BY <1>2, <1>6, <1>10, <1>12, <1>16, <1>17, ReadsInt
  <2>2. Append(<<1, name>>, n) = <<1, name, n>>
    BY Append2
  <2> QED BY <1>7, <2>1, <2>2
<1>19. Reads(s3, data, p2 + 2 + f, <<1, name, n, f, file>>)
  <2>1. IsSeq(<<1, name, n>>)
    <3>1. <<1, name, n>> \in Seq({1, name, n})
      OBVIOUS
    <3> QED BY <3>1 DEF IsSeq
  <2>2. Reads(s3, data, p2 + 2 + f, Append(Append(<<1, name, n>>, f), file))
    BY <1>2, <1>6, <1>11, <1>12, <1>16, <1>18, <2>1, ReadsSized
  <2>3. Append(<<1, name, n>>, f) = <<1, name, n, f>>
    BY Append3
  <2>4. Append(<<1, name, n, f>>, file) = <<1, name, n, f, file>>
    BY Append4
  <2> QED BY <2>2, <2>3, <2>4
<1>20. load_sancus_module(s0)
         = Does(s3, "sm_load", <<s3.values[3]>>, <<s3.values[2], s3.values[5]>>)
  BY <1>16 DEF load_sancus_module
<1>21. s3.values = <<1, name, n, f, file>> =>
         <<s3.values[3]>> = c.numbers /\ <<s3.values[2], s3.values[5]>> = c.bytes
  BY <1>1
<1> HIDE DEF s0
<1> QED BY <1>12, <1>13, <1>19, <1>20, <1>21, ObeysIs DEF s0

\* A byte, and what follows it.
LEMMA HeadFollows ==
    ASSUME NEW data, Memory(data), 1 <= Len(data), NEW b \in Byte, NEW y \in Seq(Byte),
           NEW m, Len(y) = m
    PROVE  /\ m \in Nat /\ <<b>> \o y \in Seq(Byte) /\ Len(<<b>> \o y) = 1 + m
           /\ Holds(data, 0, <<b>> \o y) =>
                 data[1] = b /\ Holds(data, 1, y) /\ Reads(At(data, 1, <<b>>), data, 1, <<b>>)
<1>1. <<b>> \in Seq(Byte) /\ Len(<<b>>) = 1
  OBVIOUS
<1>2. m \in Nat /\ <<b>> \o y \in Seq(Byte) /\ Len(<<b>> \o y) = 1 + m
  BY <1>1, Follows
<1>3. Holds(data, 0, <<b>> \o y) => data[1] = b /\ Holds(data, 1, y)
  BY FirstByte
<1> QED BY <1>2, <1>3, FirstIs

\* Numbers in a byte, for the commands below.
LEMMA SmallBytes == {0, 1, 2, 3, 4, 6} \subseteq Byte
BY SMT DEF Byte

\* Print the identity of a module.
LEMMA IdentityObeys ==
    ASSUME NEW data, NEW c, Arrives(data, c), c.op = "sm_get_by_id"
    PROVE  data[1] = 3 /\ Obeys(print_sancus_module_identity(At(data, 1, <<3>>)), data, c)
<1> DEFINE s0 == At(data, 1, <<3>>)
           n == c.numbers[1]
<1>1. c.numbers = <<n>> /\ c.bytes = << >> /\ 1 \in DOMAIN c.numbers
  <2>1. c.numbers \in Seq(Numbers) /\ Len(c.numbers) = 1 /\ c.bytes = << >>
    BY DEF Arrives, HostCommand
  <2>2. c.numbers = <<n>>
    BY <2>1, Listed
  <2> QED BY <2>1, <2>2, SMT
<1>2. n \in Numbers /\ Memory(data) /\ 1 <= Len(data) /\ 3 \in Byte
  BY <1>1, ArrivesIs, SmallBytes DEF Arrives
<1>3. Encode(c) = <<3>> \o TwoBytes(n)
  BY DEF Encode
<1> HIDE DEF n
<1>0. PICK m : m = 2
  OBVIOUS
<1>4. TwoBytes(n) \in Seq(Byte) /\ Len(TwoBytes(n)) = m
  BY <1>0, <1>2, TwoBytesAre
<1>5. /\ Len(Encode(c)) = 1 + m
      /\ data[1] = 3 /\ Holds(data, 1, TwoBytes(n)) /\ Reads(s0, data, 1, <<3>>)
  BY <1>2, <1>3, <1>4, HeadFollows DEF Arrives
<1>6. PICK s : s = parse_int(s0)
  OBVIOUS
<1>7. Reads(s, data, Len(Encode(c)), <<3, n>>)
  <2>1. 1 \in Nat
    BY SMT
  <2>2. Reads(s, data, 1 + 2, Append(<<3>>, n))
    BY <1>2, <1>5, <1>6, <2>1, ReadsInt
  <2>3. Append(<<3>>, n) = <<3, n>>
    BY Append1
  <2> QED BY <1>0, <1>5, <2>2, <2>3
<1>8. print_sancus_module_identity(s0) = Does(s, "sm_get_by_id", <<s.values[2]>>, << >>)
  BY <1>6 DEF print_sancus_module_identity
<1>9. s.values = <<3, n>> => <<s.values[2]>> = c.numbers
  BY <1>1
<1> HIDE DEF s0
<1> QED BY <1>1, <1>5, <1>7, <1>8, <1>9, ObeysIs DEF s0

\* Print data on the UART.
LEMMA PrintObeys ==
    ASSUME NEW data, NEW c, Arrives(data, c), c.op = "printf"
    PROVE  data[1] = 6 /\ Obeys(print_uart_data(At(data, 1, <<6>>)), data, c)
<1> DEFINE s0 == At(data, 1, <<6>>)
           b == c.bytes[1]
           f == Len(b)
<1>1. c.numbers = << >> /\ c.bytes = <<b>> /\ 1 \in DOMAIN c.bytes
  <2>1. c.numbers \in Seq(Numbers) /\ Len(c.numbers) = 0 /\ c.bytes \in Seq(Seq(Byte)) /\ Len(c.bytes) = 1
    BY DEF Arrives, HostCommand
  <2>2. c.bytes = <<b>>
    BY <2>1, Listed
  <2> QED BY <2>1, <2>2, SMT
<1>2. b \in Seq(Byte) /\ f \in Numbers /\ Memory(data) /\ 1 <= Len(data) /\ 6 \in Byte
  BY <1>1, ArrivesIs, SmallBytes DEF Arrives
<1>3. Encode(c) = <<6>> \o Sized(b)
  BY DEF Encode
<1> HIDE DEF b
<1>0. PICK m : m = 2 + f
  OBVIOUS
<1>4. Sized(b) \in Seq(Byte) /\ Len(Sized(b)) = m
  BY <1>0, <1>2, SizedIs
<1>5. /\ Len(Encode(c)) = 1 + m
      /\ data[1] = 6 /\ Holds(data, 1, Sized(b)) /\ Reads(s0, data, 1, <<6>>)
  BY <1>2, <1>3, <1>4, HeadFollows DEF Arrives
<1>6. PICK s : s = parse_sized_data(parse_int(s0))
  OBVIOUS
<1>7. Reads(s, data, Len(Encode(c)), <<6, f, b>>)
  <2>1. 1 \in Nat /\ IsSeq(<<6>>)
    <3>1. <<6>> \in Seq(Nat)
      OBVIOUS
    <3> QED BY <3>1 DEF IsSeq
  <2>2. Reads(s, data, 1 + 2 + f, Append(Append(<<6>>, f), b))
    BY <1>2, <1>5, <1>6, <2>1, ReadsSized
  <2>3. Append(<<6>>, f) = <<6, f>>
    BY Append1
  <2>4. Append(<<6, f>>, b) = <<6, f, b>>
    BY Append2
  <2>5. \A g \in Nat : 1 + 2 + g = 1 + (2 + g)
    BY SMT
  <2>6. 1 + 2 + f = 1 + m
    BY <1>0, <1>2, <2>5, NumbersAre
  <2> QED BY <1>5, <2>2, <2>3, <2>4, <2>6
<1>8. print_uart_data(s0) = Does(s, "printf", << >>, <<s.values[3]>>)
  BY <1>6 DEF print_uart_data
<1>9. s.values = <<6, f, b>> => <<s.values[3]>> = c.bytes
  BY <1>1
<1> HIDE DEF s0
<1> QED BY <1>1, <1>5, <1>7, <1>8, <1>9, ObeysIs DEF s0

\* Load data.
LEMMA DataObeys ==
    ASSUME NEW data, NEW c, Arrives(data, c), c.op = "memcpy"
    PROVE  data[1] = 4 /\ Obeys(load_data(At(data, 1, <<4>>)), data, c)
<1> DEFINE s0 == At(data, 1, <<4>>)
           n == c.numbers[1]
           b == c.bytes[1]
           f == Len(b)
<1>1. c.numbers = <<n>> /\ c.bytes = <<b>> /\ 1 \in DOMAIN c.bytes /\ 1 \in DOMAIN c.numbers
  <2>1. /\ c.numbers \in Seq(Numbers) /\ Len(c.numbers) = 1
        /\ c.bytes \in Seq(Seq(Byte)) /\ Len(c.bytes) = 1
    BY DEF Arrives, HostCommand
  <2>2. c.bytes = <<b>> /\ c.numbers = <<n>>
    BY <2>1, Listed
  <2> QED BY <2>1, <2>2, SMT
<1>2. /\ b \in Seq(Byte) /\ f \in Numbers /\ n \in Numbers
      /\ Memory(data) /\ 1 <= Len(data) /\ 4 \in Byte
  BY <1>1, ArrivesIs, SmallBytes DEF Arrives
<1>3. Encode(c) = <<4>> \o TwoBytes(n) \o Sized(b)
  BY DEF Encode
<1> HIDE DEF b, n
<1>0. PICK m, k, x, w, z : /\ m = 2 + f /\ k = 2 /\ w = TwoBytes(n) /\ z = Sized(b)
                           /\ x = <<4>> \o w
  OBVIOUS
<1>4. z \in Seq(Byte) /\ Len(z) = m /\ w \in Seq(Byte) /\ Len(w) = k
  <2>1. z \in Seq(Byte) /\ Len(z) = m
    BY <1>0, <1>2, SizedIs
  <2>2. w \in Seq(Byte) /\ Len(w) = k
    BY <1>0, <1>2, TwoBytesAre
  <2> QED BY <2>1, <2>2
<1>5. /\ Len(x) = 1 + k /\ x \in Seq(Byte)
      /\ Holds(data, 0, x) => data[1] = 4 /\ Holds(data, 1, w) /\ Reads(s0, data, 1, <<4>>)
  <2>1. /\ Len(<<4>> \o w) = 1 + k /\ <<4>> \o w \in Seq(Byte)
        /\ Holds(data, 0, <<4>> \o w) =>
              data[1] = 4 /\ Holds(data, 1, w) /\ Reads(At(data, 1, <<4>>), data, 1, <<4>>)
    BY <1>2, <1>4, HeadFollows
  <2> QED BY <1>0, <2>1
<1>6. /\ Len(Encode(c)) = (1 + k) + m
      /\ data[1] = 4 /\ Holds(data, 1, w) /\ Reads(s0, data, 1, <<4>>) /\ Holds(data, 1 + k, z)
  <2>1. Encode(c) = x \o z /\ Holds(data, 0, Encode(c))
    BY <1>0, <1>3 DEF Arrives
  <2>0. PICK j : j = 1 + k
    OBVIOUS
  <2>2. Len(x \o z) = j + m /\ (Holds(data, 0, x \o z) => Holds(data, 0, x) /\ Holds(data, j, z))
    BY <1>2, <1>4, <1>5, <2>0, Follows
  <2> QED BY <1>5, <2>0, <2>1, <2>2
<1>7. PICK t, s : t = parse_int(s0) /\ s = parse_sized_data(parse_int(t))
  OBVIOUS
<1>8. Reads(t, data, 1 + k, <<4, n>>)
  <2>1. 1 \in Nat
    BY SMT
  <2>2. Reads(t, data, 1 + 2, Append(<<4>>, n))
    BY <1>0, <1>2, <1>6, <1>7, <2>1, ReadsInt
  <2>3. Append(<<4>>, n) = <<4, n>>
    BY Append1
  <2> QED BY <1>0, <2>2, <2>3
<1>9. Reads(s, data, Len(Encode(c)), <<4, n, f, b>>)
  <2>1. 1 + k \in Nat /\ IsSeq(<<4, n>>)
    <3>1. <<4, n>> \in Seq({4, n}) /\ 1 + k \in Nat
      BY <1>0
    <3> QED BY <3>1 DEF IsSeq
  <2>2. Reads(s, data, 1 + k + 2 + f, Append(Append(<<4, n>>, f), b))
    BY <1>0, <1>2, <1>6, <1>7, <1>8, <2>1, ReadsSized
  <2>3. Append(<<4, n>>, f) = <<4, n, f>>
    BY Append2
  <2>4. Append(<<4, n, f>>, b) = <<4, n, f, b>>
    BY Append3
  <2>5. \A g \in Nat : 1 + k + 2 + g = (1 + k) + (2 + g)
    BY <1>0, SMT
  <2>6. 1 + k + 2 + f = (1 + k) + m
    BY <1>0, <1>2, <2>5, NumbersAre
  <2> QED BY <1>6, <2>2, <2>3, <2>4, <2>6
<1>10. load_data(s0) = Does(s, "memcpy", <<s.values[2]>>, <<s.values[4]>>)
  BY <1>7 DEF load_data
<1>11. s.values = <<4, n, f, b>> => <<s.values[2]>> = c.numbers /\ <<s.values[4]>> = c.bytes
  BY <1>1
<1> HIDE DEF s0
<1> QED BY <1>1, <1>6, <1>9, <1>10, <1>11, ObeysIs DEF s0

\* The head of a call: module, index and what follows.
LEMMA CallHead ==
    ASSUME NEW data, Memory(data), NEW s, Reads(s, data, 1, << 2 >>),
           NEW a \in Numbers, NEW b \in Numbers, NEW n \in Numbers,
           Holds(data, 1, TwoBytes(a)), Holds(data, 3, TwoBytes(b)), Holds(data, 5, TwoBytes(n))
    PROVE  LET h == parse_int(parse_int(parse_int(s))) IN
           /\ Reads(h, data, 7, <<2, a, b, n>>)
           /\ h.ok => h.values[Len(h.values)] = n
<1>0. PICK t, u, h : t = parse_int(s) /\ u = parse_int(t) /\ h = parse_int(u)
  OBVIOUS
<1>1. 1 \in Nat /\ 3 \in Nat /\ 5 \in Nat /\ 1 + 2 = 3 /\ 3 + 2 = 5 /\ 5 + 2 = 7
  OBVIOUS
<1>2. Reads(t, data, 3, <<2, a>>)
  <2>1. Reads(t, data, 1 + 2, Append(<<2>>, a))
    BY <1>0, <1>1, ReadsInt
  <2>2. Append(<<2>>, a) = <<2, a>>
    BY Append1
  <2> QED BY <1>1, <2>1, <2>2
<1>3. Reads(u, data, 5, <<2, a, b>>)
  <2>1. Reads(u, data, 3 + 2, Append(<<2, a>>, b))
    BY <1>0, <1>1, <1>2, ReadsInt
  <2>2. Append(<<2, a>>, b) = <<2, a, b>>
    BY Append2
  <2> QED BY <1>1, <2>1, <2>2
<1>4. Reads(h, data, 7, <<2, a, b, n>>)
  <2>1. Reads(h, data, 5 + 2, Append(<<2, a, b>>, n))
    BY <1>0, <1>1, <1>3, ReadsInt
  <2>2. Append(<<2, a, b>>, n) = <<2, a, b, n>>
    BY Append3
  <2> QED BY <1>1, <2>1, <2>2
<1>5. h.ok => h.values[Len(h.values)] = n
  <2>1. PICK v : v = <<2, a, b, n>>
    OBVIOUS
  <2>2. h.ok => h = At(data, 7, v)
    BY <1>4, <2>1, OkIs DEF Reads
  <2>3. h.ok => h.values = v
    BY <2>2, AtIs
  <2>4. v[Len(v)] = n
    BY <2>1
  <2> QED BY <2>3, <2>4
<1> QED BY <1>0, <1>4, <1>5

\* A call with arguments that are bytes.
LEMMA CallBytesObeys ==
    ASSUME NEW data, NEW c, Arrives(data, c), c.op = "sm_call_id", c.bytes # << >>
    PROVE  data[1] = 2 /\ Obeys(call_sancus_module(At(data, 1, <<2>>)), data, c)
<1> DEFINE s0 == At(data, 1, <<2>>)
           a == c.numbers[1]
           b == c.numbers[2]
           d == c.bytes[1]
           f == Len(d)
<1>1. /\ c.numbers = <<a, b>> /\ c.bytes = <<d>> /\ c.numbers \in Seq(Numbers)
      /\ 1 \in DOMAIN c.bytes /\ 1 \in DOMAIN c.numbers /\ 2 \in DOMAIN c.numbers
      /\ Len(c.numbers) = 2 /\ f > 4
  <2>1. /\ c.numbers \in Seq(Numbers) /\ Len(c.numbers) = 2 /\ f > 4
        /\ c.bytes \in Seq(Seq(Byte)) /\ Len(c.bytes) = 1
    BY DEF Arrives, HostCommand
  <2>2. c.bytes = <<d>> /\ c.numbers = <<a, b>>
    BY <2>1, Listed
  <2> QED BY <2>1, <2>2, SMT
<1>2. /\ d \in Seq(Byte) /\ f \in Numbers /\ a \in Numbers /\ b \in Numbers
      /\ Memory(data) /\ 1 <= Len(data) /\ 2 \in Byte
  BY <1>1, ArrivesIs, SmallBytes DEF Arrives
<1>3. Encode(c) = <<2>> \o AllNumbers(c.numbers) \o Sized(d)
  BY DEF Encode
<1> HIDE DEF a, b, d
<1>0. PICK m, k, x, y, z : /\ m = 2 + f /\ k = 4 /\ y = AllNumbers(c.numbers) /\ z = Sized(d)
                           /\ x = <<2>> \o y
  OBVIOUS
<1>4. z \in Seq(Byte) /\ Len(z) = m /\ y \in Seq(Byte) /\ Len(y) = k
  <2>1. y \in Seq(Byte) /\ Len(y) = 2 * Len(c.numbers)
    BY <1>0, <1>1, NumbersHold
  <2>2. z \in Seq(Byte) /\ Len(z) = m
    BY <1>0, <1>2, SizedIs
  <2>3. Len(y) = k
    <3>1. 2 * 2 = k
      BY <1>0
    <3> QED BY <1>1, <2>1, <3>1
  <2> QED BY <2>1, <2>2, <2>3
<1>5. /\ Len(x) = 1 + k /\ x \in Seq(Byte)
      /\ Holds(data, 0, x) => data[1] = 2 /\ Holds(data, 1, y) /\ Reads(s0, data, 1, <<2>>)
  <2>1. /\ Len(<<2>> \o y) = 1 + k /\ <<2>> \o y \in Seq(Byte)
        /\ Holds(data, 0, <<2>> \o y) =>
              data[1] = 2 /\ Holds(data, 1, y) /\ Reads(At(data, 1, <<2>>), data, 1, <<2>>)
    BY <1>2, <1>4, HeadFollows
  <2> QED BY <1>0, <2>1
<1>6. /\ Len(Encode(c)) = 5 + m
      /\ data[1] = 2 /\ Holds(data, 1, y) /\ Reads(s0, data, 1, <<2>>) /\ Holds(data, 5, z)
  <2>1. Encode(c) = x \o z /\ Holds(data, 0, Encode(c))
    BY <1>0, <1>3 DEF Arrives
  <2>0. PICK j : j = 5
    OBVIOUS
  <2>2. Len(x) = j
    BY <1>0, <1>5, <2>0
  <2>3. Len(x \o z) = j + m /\ (Holds(data, 0, x \o z) => Holds(data, 0, x) /\ Holds(data, j, z))
    BY <1>2, <1>4, <1>5, <2>2, Follows
  <2> QED BY <1>5, <2>0, <2>1, <2>3
<1>7. Holds(data, 1, TwoBytes(a)) /\ Holds(data, 3, TwoBytes(b))
  <2>1. 1 \in Nat /\ 1 \in 1..2 /\ 2 \in 1..2 /\ 1 + 2 * (1 - 1) = 1 /\ 1 + 2 * (2 - 1) = 3
    OBVIOUS
  <2>2. \A i \in 1..2 : Holds(data, 1 + 2 * (i - 1), TwoBytes(c.numbers[i]))
    BY <1>0, <1>1, <1>2, <1>6, <2>1, NumbersHold
  <2> QED BY <2>1, <2>2 DEF a, b
<1>8. Holds(data, 5, TwoBytes(f)) /\ Holds(data, 7, d)
  <2>1. TwoBytes(f) \in Seq(Byte) /\ Len(TwoBytes(f)) = 2
    BY <1>2, TwoBytesAre
  <2>2. 5 \in Nat /\ 5 + 2 = 7
    OBVIOUS
  <2>3. Holds(data, 5, TwoBytes(f)) /\ Holds(data, 5 + Len(TwoBytes(f)), d)
    BY <1>0, <1>2, <1>6, <2>1, <2>2, HoldsBoth DEF Sized
  <2> QED BY <2>1, <2>2, <2>3
<1>9. PICK h, nargs : h = parse_int(parse_int(parse_int(s0))) /\ nargs = h.values[Len(h.values)]
  OBVIOUS
<1>10. Reads(h, data, 7, <<2, a, b, f>>) /\ (h.ok => nargs = f)
  BY <1>2, <1>6, <1>7, <1>8, <1>9, CallHead
<1>11. PICK s : s = IF ~h.ok THEN h ELSE IF nargs \in 0..4 THEN parse_ints(h, nargs)
                    ELSE parse_raw_data(h, nargs)
  OBVIOUS
<1>12. f \notin 0..4
  <2>1. \A g \in 0..4 : ~(g > 4)
    BY SMT
  <2> QED BY <1>1, <2>1
<1>13. Reads(s, data, Len(Encode(c)), <<2, a, b, f, d>>)
  <2>1. s = parse_raw_data(h, f)
    <3>1. CASE h.ok
      BY <1>10, <1>11, <1>12, <3>1
    <3>2. CASE ~h.ok
      <4>1. \E q : \E w : h = Fallen(data, q, w)
        BY <1>10, <3>2, OkIs DEF Reads
      <4> QED BY <1>11, <3>2, <4>1, FallenStays
    <3> QED BY <3>1, <3>2
  <2>2. 7 \in Nat
    OBVIOUS
  <2>3. Reads(s, data, 7 + f, Append(<<2, a, b, f>>, d))
    BY <1>2, <1>8, <1>10, <2>1, <2>2, ReadsRaw
  <2>4. Append(<<2, a, b, f>>, d) = <<2, a, b, f, d>>
    BY Append4
  <2>5. \A g \in Nat : 7 + g = 5 + (2 + g)
    BY SMT
  <2>6. 7 + f = 5 + m
    BY <1>0, <1>2, <2>5, NumbersAre
  <2> QED BY <1>6, <2>3, <2>4, <2>6
<1>14. call_sancus_module(s0)
         = IF nargs \in 0..4
           THEN Does(s, "sm_call_id", <<s.values[2], s.values[3]>>
                                        \o SubSeq(s.values, 5, Len(s.values)), << >>)
           ELSE Does(s, "sm_call_id", <<s.values[2], s.values[3], 2>>, <<s.values[5]>>)
  BY <1>9, <1>11 DEF call_sancus_module
<1>15. s.values = <<2, a, b, f, d>> =>
         <<s.values[2], s.values[3], 2>> = c.numbers \o <<2>> /\ <<s.values[5]>> = c.bytes
  <2>1. <<a, b>> \o <<2>> = <<a, b, 2>>
    <3>1. <<a, b>> \in Seq({a, b, 2}) /\ 2 \in {a, b, 2}
      OBVIOUS
    <3>2. Append(<<a, b>>, 2) = <<a, b>> \o <<2>>
      BY <3>1, AppendIsConcat
    <3> QED BY <3>2, Append2
  <2> QED BY <1>1, <2>1
<1> HIDE DEF s0
<1>16. CASE nargs \notin 0..4
  <2>1. PICK numbers, bytes : numbers = <<s.values[2], s.values[3], 2>> /\ bytes = <<s.values[5]>>
    OBVIOUS
  <2>2. Obeys(Does(s, "sm_call_id", numbers, bytes), data, c)
    BY <1>13, <1>15, <2>1, ObeysIs
  <2> QED BY <1>6, <1>14, <1>16, <2>1, <2>2 DEF s0
<1>17. CASE nargs \in 0..4
  <2>1. ~h.ok
    BY <1>10, <1>12, <1>17
  <2>2. ~s.ok
    BY <1>11, <2>1
  <2>3. Len(data) # Len(Encode(c))
    <3>1. Len(data) \in Nat /\ Len(Encode(c)) \in Nat /\ Len(data) <= Len(Encode(c))
      BY ArrivesIs DEF Arrives
    <3> QED BY <1>13, <2>2, <3>1, ReadsAll
  <2>4. ~call_sancus_module(s0).ok
    BY <1>14, <1>17, <2>2, DoesIs
  <2> QED BY <1>6, <2>3, <2>4 DEF Obeys, s0
<1> QED BY <1>16, <1>17

\* Up to four numbers, one after the other.
LEMMA ReadsInts ==
    ASSUME NEW data, Memory(data), NEW p \in Nat, NEW s, NEW v \in Seq(Numbers),
           Reads(s, data, p, v), NEW args \in Seq(Numbers), NEW n \in 0..4, Len(args) = n,
           \A k \in 1..n : Holds(data, p + 2 * (k - 1), TwoBytes(args[k]))
    PROVE  Reads(parse_ints(s, n), data, p + 2 * n, v \o args)
<1> DEFINE Arg(k) == v \o SubSeq(args, 1, k)
           Fine(t, k) == Reads(t, data, p + 2 * k, Arg(k))
           one == parse_int(s)
           two == parse_int(one)
           three == parse_int(two)
           four == parse_int(three)
<1>0. n \in Nat
  BY SMT
<1>1. Fine(s, 0)
  <2>1. SubSeq(args, 1, 0) = << >>
    BY SubSeqEmpty, SMT
  <2>2. p + 2 * 0 = p
    BY SMT
  <2> QED BY <2>1, <2>2, ConcatEmptySeq
<1>2. ASSUME NEW k \in 0..4, k + 1 <= n, NEW t, Fine(t, k)
      PROVE  Fine(parse_int(t), k + 1)
  <2>1. /\ k + 1 \in 1..n /\ p + 2 * k \in Nat /\ p + 2 * k + 2 = p + 2 * (k + 1)
        /\ p + 2 * ((k + 1) - 1) = p + 2 * k
    BY <1>0, <1>2, SMT
  <2>2. args[k + 1] \in Numbers
    BY <2>1, SMT
  <2>3. Holds(data, p + 2 * k, TwoBytes(args[k + 1]))
    BY <2>1
  <2>4. Reads(parse_int(t), data, p + 2 * k + 2, Append(Arg(k), args[k + 1]))
    BY <1>2, <2>1, <2>2, <2>3, ReadsInt
  <2>5. Append(Arg(k), args[k + 1]) = Arg(k + 1)
    <3>1. 1 \in 1..n /\ k + 1 \in 1..n /\ (k + 1) - 1 = k
      BY <1>0, <1>2, SMT
    <3>2. SubSeq(args, 1, k + 1) = SubSeq(args, 1, k) \o <<args[k + 1]>>
      BY <3>1, SubSeqRecursiveSecond
    <3>3. SubSeq(args, 1, k) \in Seq(Numbers)
      <4>1. \A i \in 1..k : i \in 1..n
        BY <1>0, <1>2, SMT
      <4>2. \A i \in 1..k : args[i] \in Numbers
        BY <4>1, SMT
      <4>3. k \in Int /\ 1 \in Int
        BY SMT
      <4> QED BY <4>2, <4>3, SubSeqProperties
    <3>4. <<args[k + 1]>> \in Seq(Numbers)
      BY <2>2
    <3>5. Arg(k) \in Seq(Numbers)
      BY <3>3, ConcatProperties
    <3>6. Append(Arg(k), args[k + 1]) = Arg(k) \o <<args[k + 1]>>
      BY <2>2, <3>5, AppendIsConcat
    <3>7. (v \o SubSeq(args, 1, k)) \o <<args[k + 1]>> = v \o (SubSeq(args, 1, k) \o <<args[k + 1]>>)
      <4>1. PICK y, z : y = SubSeq(args, 1, k) /\ z = <<args[k + 1]>>
        OBVIOUS
      <4>2. (v \o y) \o z = v \o (y \o z)
        <5>1. v \in Seq(Numbers) /\ y \in Seq(Numbers) /\ z \in Seq(Numbers)
          BY <3>3, <3>4, <4>1
        <5> QED BY <5>1, SMT
      <4> QED BY <4>1, <4>2
    <3> QED BY <3>2, <3>6, <3>7
  <2> QED BY <2>1, <2>4, <2>5
<1>3. Arg(n) = v \o args
  BY SubSeqFull
<1>4. Fine(s, n) => Reads(s, data, p + 2 * n, v \o args)
  BY <1>3
<1>5. \A t : Fine(t, n) => Reads(t, data, p + 2 * n, v \o args)
  BY <1>3
<1>6. parse_ints(s, n) = <<s, one, two, three, four>>[n + 1]
  BY DEF parse_ints
<1> HIDE DEF Fine, Arg
<1>7. 1 <= n => Fine(one, 1)
  BY <1>1, <1>2
<1>8. 2 <= n => Fine(two, 2)
  <2>1. 2 <= n => 1 <= n
    BY <1>0, SMT
  <2> QED BY <1>2, <1>7, <2>1
<1>9. 3 <= n => Fine(three, 3)
  <2>1. 3 <= n => 2 <= n
    BY <1>0, SMT
  <2> QED BY <1>2, <1>8, <2>1
<1>10. 4 <= n => Fine(four, 4)
  <2>1. 4 <= n => 3 <= n
    BY <1>0, SMT
  <2> QED BY <1>2, <1>9, <2>1
<1> HIDE DEF one, two, three, four
<1>11. n = 0 \/ n = 1 \/ n = 2 \/ n = 3 \/ n = 4
  BY SMT
<1>12. Fine(parse_ints(s, n), n)
  <2>1. CASE n = 0
    <3>1. <<s, one, two, three, four>>[0 + 1] = s
      OBVIOUS
    <3> QED BY <1>1, <1>6, <2>1, <3>1
  <2>2. CASE n = 1
    <3>1. <<s, one, two, three, four>>[1 + 1] = one /\ 1 <= 1
      OBVIOUS
    <3> QED BY <1>6, <1>7, <2>2, <3>1
  <2>3. CASE n = 2
    <3>1. <<s, one, two, three, four>>[2 + 1] = two /\ 2 <= 2
      OBVIOUS
    <3> QED BY <1>6, <1>8, <2>3, <3>1
  <2>4. CASE n = 3
    <3>1. <<s, one, two, three, four>>[3 + 1] = three /\ 3 <= 3
      OBVIOUS
    <3> QED BY <1>6, <1>9, <2>4, <3>1
  <2>5. CASE n = 4
    <3>1. <<s, one, two, three, four>>[4 + 1] = four /\ 4 <= 4
      OBVIOUS
    <3> QED BY <1>6, <1>10, <2>5, <3>1
  <2> QED BY <1>11, <2>1, <2>2, <2>3, <2>4, <2>5
<1> QED BY <1>5, <1>12

\* A call with numbers.
LEMMA CallNumbersObeys ==
    ASSUME NEW data, NEW c, Arrives(data, c), c.op = "sm_call_id", c.bytes = << >>
    PROVE  data[1] = 2 /\ Obeys(call_sancus_module(At(data, 1, <<2>>)), data, c)
<1> DEFINE s0 == At(data, 1, <<2>>)
           a == c.numbers[1]
           b == c.numbers[2]
           ab == SubSeq(c.numbers, 1, 2)
           args == SubSeq(c.numbers, 3, Len(c.numbers))
           n == Len(c.numbers) - 2
<1>0. PICK l : l = Len(c.numbers)
  OBVIOUS
<1>1. /\ c.numbers \in Seq(Numbers) /\ l \in 2..6 /\ l \in Nat /\ n = l - 2 /\ n \in 0..4
      /\ 1 \in DOMAIN c.numbers /\ 2 \in DOMAIN c.numbers
  <2>1. c.numbers \in Seq(Numbers) /\ l \in 2..6
    BY <1>0 DEF Arrives, HostCommand
  <2>2. l \in Nat /\ l - 2 \in 0..4 /\ 1 \in 1..l /\ 2 \in 1..l
    BY <2>1, SMT
  <2>3. DOMAIN c.numbers = 1..l
    BY <1>0, <2>1, SMT
  <2> QED BY <1>0, <2>1, <2>2, <2>3
<1>2. a \in Numbers /\ b \in Numbers /\ n \in Numbers /\ Memory(data) /\ 1 <= Len(data)
      /\ 2 \in Byte /\ 2 \in Numbers
  <2>1. \A k \in 0..4 : k \in Nat /\ k < Word /\ 2 \in Nat /\ 2 < Word
    BY SMT DEF Word
  <2> QED BY <1>1, <2>1, NumbersAre, ArrivesIs, SmallBytes DEF Arrives
<1>3. Encode(c) = <<2>> \o AllNumbers(ab) \o TwoBytes(n) \o AllNumbers(args)
  BY DEF Encode
<1>4. /\ ab \in Seq(Numbers) /\ Len(ab) = 2 /\ ab[1] = a /\ ab[2] = b
      /\ args \in Seq(Numbers) /\ Len(args) = n /\ ab = <<a, b>> /\ ab \o args = c.numbers
  <2>1. /\ 1 \in Int /\ 2 \in Int /\ 3 \in Int /\ l \in Int /\ 1 \in 1..l /\ 2 \in 1..l
        /\ \A i \in 1..2 : i \in 1..l /\ \A j \in 3..l : j \in 1..l
    BY <1>1, SMT
  <2>2. \A i \in 1..l : c.numbers[i] \in Numbers
    BY <1>0, <1>1, SMT
  <2>3. /\ ab \in Seq(Numbers) /\ Len(ab) = 2 /\ ab[1] = a /\ ab[2] = b
    <3>1. /\ ab \in Seq(Numbers) /\ Len(ab) = (IF 1 <= 2 THEN 2 - 1 + 1 ELSE 0)
          /\ \A i \in 1..(2 - 1 + 1) : ab[i] = c.numbers[1 + i - 1]
      BY <2>1, <2>2, SubSeqProperties
    <3>2. 1 \in 1..(2 - 1 + 1) /\ 2 \in 1..(2 - 1 + 1) /\ 1 + 1 - 1 = 1 /\ 1 + 2 - 1 = 2
          /\ (IF 1 <= 2 THEN 2 - 1 + 1 ELSE 0) = 2
      OBVIOUS
    <3> QED BY <3>1, <3>2
  <2>4. args \in Seq(Numbers) /\ Len(args) = n
    <3>1. \A i \in 3..l : c.numbers[i] \in Numbers
      BY <2>1, <2>2, SMT
    <3>2. SubSeq(c.numbers, 3, l) \in Seq(Numbers)
          /\ Len(SubSeq(c.numbers, 3, l)) = (IF 3 <= l THEN l - 3 + 1 ELSE 0)
      BY <2>1, <3>1, SubSeqProperties
    <3>3. (IF 3 <= l THEN l - 3 + 1 ELSE 0) = l - 2
      BY <1>1, SMT
    <3> QED BY <1>0, <1>1, <3>2, <3>3
  <2>5. ab = <<ab[1], ab[2]>>
    BY <2>3, Listed
  <2>6. ab \o args = c.numbers
    <3>1. 1 \in 1..(l + 1) /\ 2 \in (1 - 1)..l /\ l \in 2..l /\ 2 + 1 = 3
      BY <1>1, SMT
    <3>2. SubSeq(c.numbers, 1, 2) \o SubSeq(c.numbers, 2 + 1, l) = SubSeq(c.numbers, 1, l)
      BY <1>0, <1>1, <3>1, ConcatAdjacentSubSeq
    <3>3. SubSeq(c.numbers, 1, l) = c.numbers
      BY <1>0, <1>1, SubSeqFull
    <3> QED BY <1>0, <3>1, <3>2, <3>3
  <2> QED BY <2>3, <2>4, <2>5, <2>6
<1> HIDE DEF a, b, ab, args, n
<1>5. PICK x, x1, x2, y, w, z, m : /\ y = AllNumbers(ab) /\ z = AllNumbers(args)
                                   /\ w = TwoBytes(n) /\ x1 = <<2>> \o y /\ x2 = x1 \o w
                                   /\ x = x2 \o z /\ m = 2 * n
  OBVIOUS
<1>6. PICK two, four, five, seven : two = 2 /\ four = 4 /\ five = 5 /\ seven = 7
  OBVIOUS
<1>7. /\ y \in Seq(Byte) /\ Len(y) = four /\ z \in Seq(Byte) /\ Len(z) = m
      /\ w \in Seq(Byte) /\ Len(w) = two
  <2>1. y \in Seq(Byte) /\ Len(y) = 2 * Len(ab) /\ z \in Seq(Byte) /\ Len(z) = 2 * Len(args)
    BY <1>4, <1>5, NumbersHold
  <2>2. 2 * 2 = four
    BY <1>6
  <2>3. Len(y) = four /\ Len(z) = m
    BY <1>4, <1>5, <2>1, <2>2
  <2>4. w \in Seq(Byte) /\ Len(w) = two
    BY <1>2, <1>5, <1>6, TwoBytesAre
  <2> QED BY <2>1, <2>3, <2>4
<1>8. /\ x1 \in Seq(Byte) /\ Len(x1) = five
      /\ Holds(data, 0, x1) => data[1] = 2 /\ Holds(data, 1, y) /\ Reads(s0, data, 1, <<2>>)
  <2>1. /\ Len(<<2>> \o y) = 1 + four /\ <<2>> \o y \in Seq(Byte)
        /\ Holds(data, 0, <<2>> \o y) =>
              data[1] = 2 /\ Holds(data, 1, y) /\ Reads(At(data, 1, <<2>>), data, 1, <<2>>)
    BY <1>2, <1>7, HeadFollows
  <2>2. 1 + four = five
    BY <1>6
  <2> QED BY <1>5, <2>1, <2>2
<1>9. /\ x2 \in Seq(Byte) /\ Len(x2) = seven
      /\ Holds(data, 0, x2) => Holds(data, 0, x1) /\ Holds(data, five, w)
  <2>1. /\ x1 \o w \in Seq(Byte) /\ Len(x1 \o w) = five + two
        /\ Holds(data, 0, x1 \o w) => Holds(data, 0, x1) /\ Holds(data, five, w)
    BY <1>2, <1>7, <1>8, Follows
  <2>2. five + two = seven
    BY <1>6
  <2> QED BY <1>5, <2>1, <2>2
<1>10. /\ Len(x) = seven + m
       /\ Holds(data, 0, x) => Holds(data, 0, x2) /\ Holds(data, seven, z)
  <2>1. /\ Len(x2 \o z) = seven + m
        /\ Holds(data, 0, x2 \o z) => Holds(data, 0, x2) /\ Holds(data, seven, z)
    BY <1>2, <1>7, <1>9, Follows
  <2> QED BY <1>5, <2>1
<1>11. /\ Len(Encode(c)) = 7 + 2 * n /\ data[1] = 2 /\ Reads(s0, data, 1, <<2>>)
       /\ Holds(data, 1, y) /\ Holds(data, 5, TwoBytes(n)) /\ Holds(data, 7, z)
  <2>1. Encode(c) = x /\ Holds(data, 0, Encode(c))
    BY <1>3, <1>5 DEF Arrives
  <2> QED BY <1>5, <1>6, <1>8, <1>9, <1>10, <2>1
<1>12. Holds(data, 1, TwoBytes(a)) /\ Holds(data, 3, TwoBytes(b))
  <2>1. 1 \in Nat /\ 1 \in 1..2 /\ 2 \in 1..2 /\ 1 + 2 * (1 - 1) = 1 /\ 1 + 2 * (2 - 1) = 3
    OBVIOUS
  <2>2. \A i \in 1..2 : Holds(data, 1 + 2 * (i - 1), TwoBytes(ab[i]))
    BY <1>2, <1>4, <1>5, <1>11, <2>1, NumbersHold
  <2> QED BY <1>4, <2>1, <2>2
<1>13. \A k \in 1..n : Holds(data, 7 + 2 * (k - 1), TwoBytes(args[k]))
  <2>1. 7 \in Nat
    OBVIOUS
  <2> QED BY <1>2, <1>4, <1>5, <1>11, <2>1, NumbersHold
<1>14. PICK h, nargs : h = parse_int(parse_int(parse_int(s0))) /\ nargs = h.values[Len(h.values)]
  OBVIOUS
<1>15. Reads(h, data, 7, <<2, a, b, n>>) /\ (h.ok => nargs = n)
  BY <1>2, <1>11, <1>12, <1>14, CallHead
<1>16. PICK s : s = IF ~h.ok THEN h ELSE IF nargs \in 0..4 THEN parse_ints(h, nargs)
                    ELSE parse_raw_data(h, nargs)
  OBVIOUS
<1>17. PICK v : v = <<2, a, b, n>>
  OBVIOUS
<1>18. v \in Seq(Numbers) /\ Len(v) = 4 /\ v[2] = a /\ v[3] = b
  BY <1>2, <1>17
<1>19. Reads(parse_ints(h, n), data, 7 + 2 * n, v \o args)
  <2>1. 7 \in Nat
    OBVIOUS
  <2> QED BY <1>1, <1>2, <1>4, <1>13, <1>15, <1>17, <1>18, <2>1, ReadsInts
<1>20. Reads(s, data, Len(Encode(c)), v \o args)
  <2>1. CASE h.ok
    BY <1>1, <1>11, <1>15, <1>16, <1>19, <2>1
  <2>2. CASE ~h.ok
    <3>1. \E q \in 0..Len(data) : \E u : h = Fallen(data, q, u)
      BY <1>15, <2>2, OkIs DEF Reads
    <3>2. parse_ints(h, n) = h
      <4>1. parse_int(h) = h
        BY <3>1, FallenStays
      <4>2. parse_ints(h, n) = <<h, h, h, h, h>>[n + 1]
        BY <4>1 DEF parse_ints
      <4>3. \A k \in 0..4 : <<h, h, h, h, h>>[k + 1] = h
        OBVIOUS
      <4> QED BY <1>1, <4>2, <4>3
    <3> QED BY <1>11, <1>16, <1>19, <2>2, <3>2
  <2> QED BY <2>1, <2>2
<1>21. call_sancus_module(s0)
         = IF nargs \in 0..4
           THEN Does(s, "sm_call_id", <<s.values[2], s.values[3]>>
                                        \o SubSeq(s.values, 5, Len(s.values)), << >>)
           ELSE Does(s, "sm_call_id", <<s.values[2], s.values[3], 2>>, <<s.values[5]>>)
  BY <1>14, <1>16 DEF call_sancus_module
<1>22. s.values = v \o args =>
         <<s.values[2], s.values[3]>> \o SubSeq(s.values, 5, Len(s.values)) = c.numbers
  <2>1. PICK u : u = v \o args
    OBVIOUS
  <2>2. Len(u) = 4 + n /\ n \in Nat
    <3>1. Len(v \o args) = Len(v) + Len(args)
      BY <1>4, <1>18, ConcatProperties
    <3> QED BY <1>1, <1>4, <1>18, <2>1, <3>1, SMT
  <2>3. u[2] = a /\ u[3] = b
    <3>1. PICK i : i = Len(v)
      OBVIOUS
    <3>2. \A k \in 1..i : (v \o args)[k] = v[k]
      <4>1. PICK j : j = Len(args)
        OBVIOUS
      <4>2. v \in Seq(Numbers) /\ args \in Seq(Numbers)
        BY <1>4, <1>18
      <4> QED BY <3>1, <4>1, <4>2, Joined, SMT
    <3>3. 2 \in 1..4 /\ 3 \in 1..4
      OBVIOUS
    <3> QED BY <1>18, <2>1, <3>1, <3>2, <3>3
  <2>4. SubSeq(u, 5, Len(u)) = args
    <3>1. CASE n = 0
      <4>1. args = << >>
        BY <1>4, <3>1, EmptySeq
      <4>2. 5 \in Int /\ 4 \in Int /\ 4 < 5 /\ 4 + 0 = 4
        OBVIOUS
      <4>3. SubSeq(u, 5, 4) = << >>
        BY <4>2, SubSeqEmpty
      <4> QED BY <2>2, <3>1, <4>1, <4>2, <4>3
    <3>2. CASE n # 0
      <4>1. 5 \in (4 + 1)..(4 + n) /\ 4 + n \in (4 + 1)..(4 + n) /\ 5 - 4 = 1 /\ (4 + n) - 4 = n
        BY <2>2, <3>2, SMT
      <4>2. SubSeq(v \o args, 5, 4 + n) = SubSeq(args, 5 - Len(v), (4 + n) - Len(v))
        <5>1. PICK i, j : i = Len(v) /\ j = Len(args)
          OBVIOUS
        <5>2. PICK p, q : p = 5 /\ q = 4 + n
          OBVIOUS
        <5>3. p \in (i + 1)..(i + j) /\ q \in (i + 1)..(i + j)
          BY <1>4, <1>18, <4>1, <5>1, <5>2
        <5>4. SubSeq(v \o args, p, q) = SubSeq(args, p - i, q - i)
          <6>1. v \in Seq(Numbers) /\ args \in Seq(Numbers)
            BY <1>4, <1>18
          <6> QED BY <5>1, <5>3, <6>1, SubSeqOfConcat2, Zenon
        <5> QED BY <5>1, <5>2, <5>4
      <4>3. SubSeq(args, 1, n) = args
        BY <1>4, SubSeqFull
      <4> QED BY <1>18, <2>1, <2>2, <4>1, <4>2, <4>3
    <3> QED BY <3>1, <3>2
  <2> QED BY <1>4, <2>1, <2>3, <2>4
<1> HIDE DEF s0
<1>23. CASE nargs \in 0..4
  <2>1. PICK numbers : numbers = <<s.values[2], s.values[3]>> \o SubSeq(s.values, 5, Len(s.values))
    OBVIOUS
  <2>2. Obeys(Does(s, "sm_call_id", numbers, << >>), data, c)
    BY <1>20, <1>22, <2>1, ObeysIs
  <2> QED BY <1>11, <1>21, <1>23, <2>1, <2>2 DEF s0
<1>24. CASE nargs \notin 0..4
  <2>1. ~h.ok
    BY <1>1, <1>15, <1>24
  <2>2. ~s.ok
    BY <1>16, <2>1
  <2>3. Len(data) # Len(Encode(c))
    <3>1. Len(data) \in Nat /\ Len(Encode(c)) \in Nat /\ Len(data) <= Len(Encode(c))
      BY ArrivesIs DEF Arrives
    <3> QED BY <1>20, <2>2, <3>1, ReadsAll
  <2>4. ~call_sancus_module(s0).ok
    BY <1>21, <1>24, <2>2, DoesIs
  <2> QED BY <1>11, <2>3, <2>4 DEF Obeys, s0
<1> QED BY <1>23, <1>24

\* The switch, by the first byte.
LEMMA DispatchIs ==
    ASSUME NEW data, Memory(data), 1 <= Len(data)
    PROVE  LET s == At(data, 1, <<data[1]>>) IN
           Dispatch(data) = CASE data[1] = 0 -> echo(s)
                              [] data[1] = 1 -> load_sancus_module(s)
                              [] data[1] = 2 -> call_sancus_module(s)
                              [] data[1] = 3 -> print_sancus_module_identity(s)
                              [] data[1] = 4 -> load_data(s)
                              [] data[1] = 6 -> print_uart_data(s)
                              [] OTHER -> NoCommand(s)
<1>1. PICK s : s = At(data, 1, <<data[1]>>)
  OBVIOUS
<1>2. parse_byte(create_parse_state(data)) = s /\ s.ok /\ s.values[1] = data[1]
  BY <1>1, FirstIs
<1>3. PICK x : x = data[1]
  OBVIOUS
<1> QED BY <1>1, <1>2, <1>3 DEF Dispatch

\* A command that is no echo, or a part of it.
LEMMA DispatchObeys ==
    ASSUME NEW data, NEW c, Arrives(data, c), c.op # "packet_write"
    PROVE  Obeys(Dispatch(data), data, c)
<1>1. Memory(data) /\ 1 <= Len(data)
  BY ArrivesIs DEF Arrives
<1>2. c.op \in {"sm_load", "sm_call_id", "sm_get_by_id", "memcpy", "printf"}
  BY DEF Arrives, HostCommand
<1>3. CASE c.op = "sm_load"
  BY <1>1, <1>3, LoadObeys, DispatchIs
<1>4. CASE c.op = "sm_call_id" /\ c.bytes = << >>
  BY <1>1, <1>4, CallNumbersObeys, DispatchIs
<1>5. CASE c.op = "sm_call_id" /\ c.bytes # << >>
  BY <1>1, <1>5, CallBytesObeys, DispatchIs
<1>6. CASE c.op = "sm_get_by_id"
  BY <1>1, <1>6, IdentityObeys, DispatchIs
<1>7. CASE c.op = "memcpy"
  BY <1>1, <1>7, DataObeys, DispatchIs
<1>8. CASE c.op = "printf"
  BY <1>1, <1>8, PrintObeys, DispatchIs
<1> QED BY <1>2, <1>3, <1>4, <1>5, <1>6, <1>7, <1>8

\* The bytes of a sequence hold it.
LEMMA HoldsItself ==
    ASSUME NEW data, Memory(data)
    PROVE  Holds(data, 0, data)
<1>1. \A k \in 1..Len(data) : 0 + k = k
  BY SMT
<1> QED BY <1>1 DEF Holds

\* What handle_command does with a whole command is what the host asked for,
\* number for number and byte for byte (event_loop.c:223-267).
THEOREM DispatchAsked ==
    ASSUME NEW c \in Requests, NEW data, data = Encode(c), Memory(data), data # << >>
    PROVE  AsAsked(Dispatch(data), c)
<1>1. HostCommand(c)
  BY EventLoopAssumption
<1>2. Len(data) <= Len(data)
  BY NumbersAre, SMT DEF Memory
<1>3. Arrives(data, c)
  BY <1>1, <1>2, HoldsItself DEF Arrives
<1>4. CASE c.op = "packet_write"
  <2>1. 1 <= Len(data)
    BY <1>3, ArrivesIs
  <2>2. data[1] = 0 /\ AsAsked(echo(At(data, 1, <<0>>)), c)
    BY <1>3, <1>4, EchoObeys
  <2>3. Dispatch(data) = echo(At(data, 1, <<0>>))
    BY <2>1, <2>2, DispatchIs
  <2> QED BY <2>2, <2>3
<1>5. CASE c.op # "packet_write"
  BY <1>3, <1>5, DispatchObeys DEF Obeys
<1> QED BY <1>4, <1>5

\* Nothing is done for a packet in which a command is cut short, or that begins
\* with no command: each handler returns at the first parser that fails.
THEOREM DispatchNothing ==
    ASSUME NEW data, Memory(data), data # << >>, NoRequest(data)
    PROVE  ~Dispatch(data).ok
<1>0. PICK l : l = Len(data)
  OBVIOUS
<1>1. l \in Nat /\ 1 <= l
  <2>1. data \in Seq(Byte)
    BY DEF Memory
  <2> QED BY <1>0, <2>1, SMT
<1>2. CASE data[1] \notin CommandBytes
  <2>1. PICK s : s = At(data, 1, <<data[1]>>)
    OBVIOUS
  <2>2. Dispatch(data) = NoCommand(s)
    <3>1. PICK b : b = data[1]
      OBVIOUS
    <3>2. b # 0 /\ b # 1 /\ b # 2 /\ b # 3 /\ b # 4 /\ b # 6
      BY <1>2, <3>1 DEF CommandBytes
    <3> QED BY <1>0, <1>1, <2>1, <3>1, <3>2, DispatchIs
  <2>3. ~Failed(s).ok
    BY <2>1, FailedIs, OkIs
  <2> QED BY <2>2, <2>3, DoesIs DEF NoCommand
<1>3. CASE \E c \in Requests :
              /\ c.op # "packet_write"
              /\ \E n \in 0..(Len(Encode(c)) - 1) : data = SubSeq(Encode(c), 1, n)
  <2>1. PICK c \in Requests :
              /\ c.op # "packet_write"
              /\ \E n \in 0..(Len(Encode(c)) - 1) : data = SubSeq(Encode(c), 1, n)
    BY <1>3
  <2>2. PICK e, m : e = Encode(c) /\ m = Len(e)
    OBVIOUS
  <2>3. PICK n \in 0..(m - 1) : data = SubSeq(e, 1, n)
    BY <2>1, <2>2
  <2>4. HostCommand(c) /\ m \in Nat
    <3>1. HostCommand(c)
      BY EventLoopAssumption
    <3> QED BY <2>2, <3>1, NumbersAre DEF HostCommand
  <2>5. n \in Nat /\ n < m /\ n \in Int /\ 1 \in Int
    BY <2>4, SMT
  <2>6. l = n /\ \A k \in 1..n : data[k] = e[k]
    <3> DEFINE S == {e[i] : i \in 1..n}
    <3>1. \A i \in 1..n : e[i] \in S
      OBVIOUS
    <3> HIDE DEF S
    <3>2. /\ Len(data) = (IF 1 <= n THEN n - 1 + 1 ELSE 0)
          /\ \A i \in 1..(n - 1 + 1) : data[i] = e[1 + i - 1]
      BY <2>3, <2>5, <3>1, SubSeqProperties
    <3>3. (IF 1 <= n THEN n - 1 + 1 ELSE 0) = n /\ n - 1 + 1 = n /\ \A i \in 1..n : 1 + i - 1 = i
      BY <2>5, SMT
    <3> QED BY <1>0, <3>2, <3>3
  <2>7. Arrives(data, c)
    <3>1. \A k \in 1..m : 0 + k <= l => k \in 1..n /\ 0 + k = k
      BY <1>1, <2>4, <2>5, <2>6, SMT
    <3>2. Holds(data, 0, e)
      BY <1>0, <2>2, <2>6, <3>1 DEF Holds
    <3>3. l <= m
      BY <2>4, <2>5, <2>6, SMT
    <3> QED BY <1>0, <2>2, <2>4, <3>2, <3>3 DEF Arrives
  <2>8. l # m
    BY <2>4, <2>5, <2>6, SMT
  <2>9. Obeys(Dispatch(data), data, c)
    BY <2>1, <2>7, DispatchObeys
  <2> QED BY <1>0, <2>2, <2>8, <2>9 DEF Obeys
<1> QED BY <1>2, <1>3 DEF NoRequest

-----------------------------------------------------------------------------
(* What is sent. *)

\* The frames of s that hold a piece of the packet of d.
With(s, d) ==
    Keep(s, {k \in DOMAIN s : \E i \in DOMAIN s[k].data : SamePacket(d, s[k].data[i])})
Has(f, d) == \E i \in DOMAIN f.data : SamePacket(d, f.data[i])

\* A call that sends up to two frames of F.
Grown(s, t, F) ==
    \/ t = s
    \/ \E f \in F : t = Append(s, f)
    \/ \E f, g \in F : t = Append(Append(s, f), g)

\* In the order of arrival, if they are replies.
Rising(s) ==
    \A k, l \in DOMAIN s :
        k < l /\ IsReply(s[k].data[1]) /\ IsReply(s[l].data[1])
            => s[k].data[1].id < s[l].data[1].id

\* A frame more belongs to the packet of d, or does not.
LEMMA WithAppend ==
    ASSUME NEW S, NEW s \in Seq(S), NEW f \in S, NEW d
    PROVE  With(Append(s, f), d) = IF Has(f, d) THEN Append(With(s, d), f) ELSE With(s, d)
<1> DEFINE t == Append(s, f)
           K == {k \in DOMAIN s : Has(s[k], d)}
           L == {k \in DOMAIN t : Has(t[k], d)}
<1>0. PICK n : n = Len(s)
  OBVIOUS
<1>1. /\ n \in Nat /\ DOMAIN s = 1..n /\ DOMAIN t = 1..(n + 1) /\ t[n + 1] = f
      /\ \A k \in 1..n : t[k] = s[k] /\ k \in 1..(n + 1)
      /\ n + 1 \in 1..(n + 1)
  <2>1. n \in Nat /\ DOMAIN s = 1..n
    BY <1>0, SMT
  <2>2. Len(t) = n + 1 /\ t[n + 1] = f /\ t \in Seq(S) /\ \A k \in 1..n : t[k] = s[k]
    BY <1>0, AppendProperties
  <2>3. DOMAIN t = 1..(n + 1)
    <3> HIDE DEF t
    <3> QED BY <2>2, SMT
  <2>4. n + 1 \in 1..(n + 1) /\ \A k \in 1..n : k \in 1..(n + 1)
    BY <2>1, SMT
  <2> QED BY <2>1, <2>2, <2>3, <2>4, Zenon
<1> HIDE DEF t
<1>2. \A k \in 1..n : k \in L <=> k \in K
  BY <1>1, Zenon
<1>3. n + 1 \in L <=> Has(f, d)
  BY <1>1, Zenon
<1>4. With(s, d) = Keep(s, K) /\ With(t, d) = Keep(t, L)
  BY Zenon DEF With, Has
<1> HIDE DEF K, L
<1>5. Keep(Append(s, f), L) = IF n + 1 \in L THEN Append(Keep(s, K), f) ELSE Keep(s, K)
  <2>1. \A k \in 1..Len(s) : k \in L <=> k \in K
    BY <1>0, <1>2, Zenon
  <2> QED BY <1>0, <2>1, KeepAppend
<1> QED BY <1>3, <1>4, <1>5 DEF t

\* With nothing sent, no packet has frames.
LEMMA WithNothing ==
    ASSUME NEW d
    PROVE  With(<< >>, d) = << >>
BY KeepNothing DEF With

\* If no frame has a piece of it, neither.
LEMMA WithNone ==
    ASSUME NEW S, NEW s \in Seq(S), NEW d, \A k \in DOMAIN s : ~Has(s[k], d)
    PROVE  With(s, d) = << >>
<1> DEFINE K == {k \in DOMAIN s : Has(s[k], d)}
<1>1. K = {}
  OBVIOUS
<1>2. Keep(s, {}) = << >>
  <2>1. \A n \in Nat : Kept(s, {})[n] = Step(s, {}, Kept(s, {}), n)
    BY KeptIs
  <2> DEFINE Bad == {n \in Nat : Kept(s, {})[n] # << >>}
  <2>2. Bad = {}
    <3> SUFFICES ASSUME Bad # {} PROVE FALSE
      OBVIOUS
    <3>1. PICK n \in Bad : \A m \in Bad : n <= m
      <4>1. Bad \subseteq Nat
        OBVIOUS
      <4> QED BY <4>1, Least
    <3>2. n \in Nat /\ (n = 0 \/ (n - 1 \in Nat /\ ~(n <= n - 1)))
      <4>1. n \in Nat
        BY <3>1
      <4> QED BY <4>1, SMT
    <3>3. n = 0 \/ Kept(s, {})[n - 1] = << >>
      BY <3>1, <3>2
    <3>4. Kept(s, {})[n] = << >>
      BY <2>1, <3>2, <3>3 DEF Step
    <3> QED BY <3>1, <3>4
  <2>3. Len(s) \in Nat
    BY SMT
  <2> QED BY <2>2, <2>3 DEF Keep
<1>3. With(s, d) = Keep(s, K)
  BY DEF With, Has
<1> QED BY <1>1, <1>2, <1>3

\* Frames of other packets do not matter.
LEMMA WithGrown ==
    ASSUME NEW S, NEW s \in Seq(S), NEW t, NEW F, F \subseteq S, Grown(s, t, F),
           NEW d, \A f \in F : ~Has(f, d)
    PROVE  With(t, d) = With(s, d)
<1>1. CASE t = s
  BY <1>1
<1>2. CASE \E f \in F : t = Append(s, f)
  <2>1. PICK f \in F : t = Append(s, f)
    BY <1>2
  <2> QED BY <2>1, WithAppend
<1>3. CASE \E f, g \in F : t = Append(Append(s, f), g)
  <2>1. PICK f \in F : \E g \in F : t = Append(Append(s, f), g)
    BY <1>3
  <2>2. PICK g \in F : t = Append(Append(s, f), g)
    BY <2>1
  <2>3. PICK u : u = Append(s, f)
    OBVIOUS
  <2>4. u \in Seq(S)
    BY <2>3, AppendProperties
  <2>5. With(u, d) = With(s, d)
    BY <2>3, WithAppend
  <2> QED BY <2>2, <2>3, <2>4, <2>5, WithAppend
<1> QED BY <1>1, <1>2, <1>3 DEF Grown

\* One frame more at the end.
LEMMA LonerIs ==
    ASSUME NEW S, NEW s \in Seq(S), NEW f \in S
    PROVE  /\ Append(s, f) \in Seq(S) /\ Len(s) \in Nat /\ DOMAIN s = 1..Len(s)
           /\ DOMAIN Append(s, f) = 1..(Len(s) + 1)
           /\ Append(s, f)[Len(s) + 1] = f
           /\ \A k \in DOMAIN Append(s, f) :
                 \/ k \in DOMAIN s /\ Append(s, f)[k] = s[k]
                 \/ k = Len(s) + 1 /\ Append(s, f)[k] = f
<1>0. PICK n : n = Len(s)
  OBVIOUS
<1>1. n \in Nat /\ DOMAIN s = 1..n
  BY <1>0, SMT
<1>2. PICK t : t = Append(s, f)
  OBVIOUS
<1>3. t \in Seq(S) /\ Len(t) = n + 1 /\ t[n + 1] = f /\ \A k \in 1..n : t[k] = s[k]
  BY <1>0, <1>2, AppendProperties
<1>4. DOMAIN t = 1..(n + 1)
  BY <1>3, SMT
<1>5. \A k \in 1..(n + 1) : k \in 1..n \/ k = n + 1
  BY <1>1, SMT
<1> QED BY <1>0, <1>1, <1>2, <1>3, <1>4, <1>5, Zenon

\* What is sent is what was sent, and frames of F.
LEMMA GrownIs ==
    ASSUME NEW S, NEW s \in Seq(S), NEW t, NEW F, F \subseteq S, Grown(s, t, F)
    PROVE  /\ t \in Seq(S)
           /\ \A k \in DOMAIN t : (k \in DOMAIN s /\ t[k] = s[k]) \/ t[k] \in F
<1>1. CASE t = s
  BY <1>1
<1>2. CASE \E f \in F : t = Append(s, f)
  <2>1. PICK f \in F : t = Append(s, f)
    BY <1>2
  <2>2. f \in S
    BY <2>1
  <2> QED BY <2>1, <2>2, LonerIs
<1>3. CASE \E f, g \in F : t = Append(Append(s, f), g)
  <2>1. PICK f \in F : \E g \in F : t = Append(Append(s, f), g)
    BY <1>3
  <2>2. PICK g \in F : t = Append(Append(s, f), g)
    BY <2>1
  <2>3. PICK u : u = Append(s, f)
    OBVIOUS
  <2>4. f \in S /\ g \in S
    BY <2>1, <2>2
  <2>5. u \in Seq(S) /\ \A k \in DOMAIN u : (k \in DOMAIN s /\ u[k] = s[k]) \/ u[k] = f
    BY <2>3, <2>4, LonerIs
  <2>6. t = Append(u, g)
    BY <2>2, <2>3
  <2>7. t \in Seq(S) /\ \A k \in DOMAIN t : (k \in DOMAIN u /\ t[k] = u[k]) \/ t[k] = g
    BY <2>4, <2>5, <2>6, LonerIs
  <2> QED BY <2>1, <2>2, <2>5, <2>7, Zenon
<1> QED BY <1>1, <1>2, <1>3 DEF Grown

\* A frame more is in order if its reply is later than all before.
LEMMA RisingAppend ==
    ASSUME NEW S, NEW s \in Seq(S), NEW f \in S, Rising(s),
           \A k \in DOMAIN s : IsReply(s[k].data[1]) /\ IsReply(f.data[1])
                                  => s[k].data[1].id < f.data[1].id
    PROVE  Rising(Append(s, f))
<1> DEFINE t == Append(s, f)
<1>1. PICK n : n = Len(s)
  OBVIOUS
<1>2. /\ n \in Nat /\ DOMAIN s = 1..n /\ DOMAIN t = 1..(n + 1)
      /\ \A k \in DOMAIN t : \/ k \in DOMAIN s /\ t[k] = s[k]
                             \/ k = n + 1 /\ t[k] = f
  BY <1>1, LonerIs
<1> HIDE DEF t
<1>3. SUFFICES ASSUME NEW k \in DOMAIN t, NEW l \in DOMAIN t, k < l,
                      IsReply(t[k].data[1]), IsReply(t[l].data[1])
               PROVE  t[k].data[1].id < t[l].data[1].id
  BY DEF Rising, t
<1>4. k \in 1..n
  BY <1>2, <1>3, SMT
<1>5. t[k] = s[k] /\ k \in DOMAIN s
  <2>1. k # n + 1
    BY <1>2, <1>4, SMT
  <2> QED BY <1>2, <1>4, <2>1, Zenon
<1>6. CASE l \in DOMAIN s /\ t[l] = s[l]
  BY <1>3, <1>5, <1>6, Zenon DEF Rising
<1>7. CASE t[l] = f
  BY <1>3, <1>5, <1>7, Zenon
<1> QED BY <1>2, <1>6, <1>7, Zenon

\* Frames without replies are always in order.
LEMMA RisingGrown ==
    ASSUME NEW S, NEW s \in Seq(S), NEW t, NEW F, F \subseteq S, Grown(s, t, F), Rising(s),
           \A f \in F : ~IsReply(f.data[1])
    PROVE  Rising(t)
<1>1. CASE t = s
  BY <1>1
<1>2. CASE \E f \in F : t = Append(s, f)
  <2>1. PICK f \in F : t = Append(s, f)
    BY <1>2
  <2> QED BY <2>1, RisingAppend
<1>3. CASE \E f, g \in F : t = Append(Append(s, f), g)
  <2>1. PICK f \in F : \E g \in F : t = Append(Append(s, f), g)
    BY <1>3
  <2>2. PICK g \in F : t = Append(Append(s, f), g)
    BY <2>1
  <2>3. PICK u : u = Append(s, f)
    OBVIOUS
  <2>4. u \in Seq(S)
    BY <2>3, AppendProperties
  <2>5. Rising(u)
    BY <2>3, RisingAppend
  <2> QED BY <2>2, <2>3, <2>4, <2>5, RisingAppend
<1> QED BY <1>1, <1>2, <1>3 DEF Grown

-----------------------------------------------------------------------------
(* What a packet is. *)

Piecewise(S) == \A d \in S : d.size \in Nat
Sizing(s) == [k \in DOMAIN s |-> s[k].size]
Datas(s) == [k \in DOMAIN s |-> s[k].data]

\* A function on one number more is the sequence with one element more.
LEMMA LongerIs ==
    ASSUME NEW n \in Nat, NEW T, NEW f \in [1..n -> T], NEW U, NEW g \in [1..(n + 1) -> U], NEW x,
           \A k \in 1..n : g[k] = f[k], g[n + 1] = x
    PROVE  g = Append(f, x)
<1>1. f \in Seq(T) /\ DOMAIN f = 1..n
  BY SMT
<1>2. f \in Seq(T \cup {x}) /\ x \in T \cup {x}
  BY <1>1, SMT
<1>3. Len(f) = n
  BY <1>1, SMT
<1>4. PICK h : h = Append(f, x)
  OBVIOUS
<1>5. h \in Seq(T \cup {x}) /\ Len(h) = n + 1 /\ h[n + 1] = x /\ \A k \in 1..n : h[k] = f[k]
  BY <1>2, <1>3, <1>4, AppendProperties
<1>6. h \in [1..(n + 1) -> T \cup {x}]
  BY <1>5, LenProperties
<1>7. \A k \in 1..(n + 1) : k \in 1..n \/ k = n + 1
  BY SMT
<1>8. \A k \in 1..(n + 1) : g[k] = h[k]
  BY <1>5, <1>7
<1>9. h = [k \in 1..(n + 1) |-> h[k]]
  BY <1>6
<1> QED BY <1>4, <1>8, <1>9

\* The sizes of pieces, and the data of frames, one more at a time.
LEMMA MapAppend ==
    ASSUME NEW S, NEW s \in Seq(S), NEW e \in S
    PROVE  /\ Sizing(Append(s, e)) = Append(Sizing(s), e.size)
           /\ Datas(Append(s, e)) = Append(Datas(s), e.data)
<1>1. PICK n : n = Len(s)
  OBVIOUS
<1>2. PICK t : t = Append(s, e)
  OBVIOUS
<1>3. /\ n \in Nat /\ DOMAIN s = 1..n /\ DOMAIN t = 1..(n + 1) /\ t[n + 1] = e
      /\ \A k \in DOMAIN t : (k \in DOMAIN s /\ t[k] = s[k]) \/ (k = n + 1 /\ t[k] = e)
  BY <1>1, <1>2, LonerIs
<1>4. n + 1 \notin 1..n
  BY <1>3, SMT
<1>6. \A k \in 1..n : k \in 1..(n + 1) /\ t[k] = s[k]
  BY <1>3, <1>4, SMT
<1>7. n + 1 \in 1..(n + 1)
  BY <1>3, SMT
<1>8. Sizing(t) = Append(Sizing(s), e.size)
  <2> DEFINE f == Sizing(s)
             g == Sizing(t)
             T == {s[k].size : k \in 1..n}
             U == {t[k].size : k \in 1..(n + 1)}
  <2>1. DOMAIN f = 1..n /\ f \in [1..n -> T] /\ g \in [1..(n + 1) -> U]
    BY <1>3 DEF Sizing
  <2>2. (\A k \in 1..n : g[k] = f[k]) /\ g[n + 1] = e.size
    BY <1>3, <1>6, <1>7 DEF Sizing
  <2> HIDE DEF f, g, T, U
  <2>3. n \in Nat
    BY <1>3
  <2>4. PICK a, b, x : a = f /\ b = g /\ x = e.size
    OBVIOUS
  <2>5. a \in [1..n -> T] /\ b \in [1..(n + 1) -> U]
    BY <2>1, <2>4
  <2>6. (\A k \in 1..n : b[k] = a[k]) /\ b[n + 1] = x
    BY <2>2, <2>4
  <2>7. b = Append(a, x)
    BY <2>3, <2>5, <2>6, LongerIs
  <2> QED BY <2>4, <2>7 DEF f, g
<1>9. Datas(t) = Append(Datas(s), e.data)
  <2> DEFINE f == Datas(s)
             g == Datas(t)
             T == {s[k].data : k \in 1..n}
             U == {t[k].data : k \in 1..(n + 1)}
  <2>1. DOMAIN f = 1..n /\ f \in [1..n -> T] /\ g \in [1..(n + 1) -> U]
    BY <1>3 DEF Datas
  <2>2. (\A k \in 1..n : g[k] = f[k]) /\ g[n + 1] = e.data
    BY <1>3, <1>6, <1>7 DEF Datas
  <2> HIDE DEF f, g, T, U
  <2>3. n \in Nat
    BY <1>3
  <2>4. PICK a, b, x : a = f /\ b = g /\ x = e.data
    OBVIOUS
  <2>5. a \in [1..n -> T] /\ b \in [1..(n + 1) -> U]
    BY <2>1, <2>4
  <2>6. (\A k \in 1..n : b[k] = a[k]) /\ b[n + 1] = x
    BY <2>2, <2>4
  <2>7. b = Append(a, x)
    BY <2>3, <2>5, <2>6, LongerIs
  <2> QED BY <2>4, <2>7 DEF f, g
<1> QED BY <1>2, <1>8, <1>9

\* The size of pieces is a number, 0 if there are none.
LEMMA SizeIs ==
    ASSUME NEW S, Piecewise(S), NEW s \in Seq(S)
    PROVE  Size(s) \in Nat /\ Sizing(s) \in Seq(Nat) /\ (s = << >> => Size(s) = 0)
<1>1. Sizing(s) \in Seq(Nat)
  <2>1. PICK n : n = Len(s)
    OBVIOUS
  <2>2. n \in Nat /\ DOMAIN s = 1..n /\ \A k \in 1..n : s[k] \in S
    BY <2>1, SMT
  <2>3. Sizing(s) \in [1..n -> Nat]
    BY <2>2 DEF Sizing, Piecewise
  <2> QED BY <2>2, <2>3, SMT
<1>2. Size(s) = Total(Sizing(s))
  BY DEF Size, Sizing
<1>3. s = << >> => Sizing(s) = << >>
  BY DEF Sizing
<1> QED BY <1>1, <1>2, <1>3, TotalNat

\* One piece more.
LEMMA SizeAppend ==
    ASSUME NEW S, Piecewise(S), NEW s \in Seq(S), NEW d \in S
    PROVE  Size(Append(s, d)) = Size(s) + d.size
<1>1. Sizing(Append(s, d)) = Append(Sizing(s), d.size)
  BY MapAppend
<1>2. d.size \in Nat /\ Sizing(s) \in Seq(Nat)
  BY SizeIs DEF Piecewise
<1>3. Total(Append(Sizing(s), d.size)) = Total(Sizing(s)) + d.size
  BY <1>2, TotalAppend
<1> QED BY <1>1, <1>3 DEF Size, Sizing

\* A piece by itself.
LEMMA SizeOne ==
    ASSUME NEW S, Piecewise(S), NEW d \in S
    PROVE  Size(<<d>>) = d.size
<1>1. << >> \in Seq(S) /\ <<d>> = Append(<< >>, d)
  OBVIOUS
<1>2. Size(<< >>) = 0 /\ Size(<<d>>) = Size(<< >>) + d.size
  BY <1>1, SizeIs, SizeAppend
<1>3. d.size \in Nat
  BY DEF Piecewise
<1> QED BY <1>2, <1>3

\* Pieces that are not empty have a size.
LEMMA SizeZero ==
    ASSUME NEW S, Piecewise(S), NEW s \in Seq(S), \A k \in DOMAIN s : s[k].size > 0
    PROVE  Size(s) = 0 <=> s = << >>
<1>1. s = << >> => Size(s) = 0
  BY SizeIs
<1>2. ASSUME s # << >>
      PROVE  Size(s) # 0
  <2>1. PICK n : n = Len(s)
    OBVIOUS
  <2>2. n \in Nat /\ n >= 1 /\ 1 \in 1..n /\ n \in 1..n /\ 1 - 1 = 0 /\ DOMAIN s = 1..n
    BY <1>2, <2>1, SMT
  <2>3. PICK z : z = Sizing(s)
    OBVIOUS
  <2>4. z \in Seq(Nat)
    BY <2>3, SizeIs
  <2>5. z[1] = s[1].size /\ z[1] > 0
    BY <2>2, <2>3 DEF Sizing
  <2>6. Len(z) = n /\ \A k \in 1..n : z[k] \in Nat
    <3>1. DOMAIN z = 1..n
      BY <2>2, <2>3 DEF Sizing
    <3> QED BY <2>2, <2>4, <3>1, SMT
  <2>7. Totals(z)[1 - 1] \in Nat /\ Totals(z)[n] \in Nat /\ Totals(z)[1 - 1] + z[1] <= Totals(z)[n]
    BY <2>2, <2>6, TotalsGrow
  <2>8. Totals(z)[n] # 0
    BY <2>2, <2>5, <2>6, <2>7
  <2> QED BY <2>3, <2>6, <2>8 DEF Size, Sizing, Total
<1> QED BY <1>1, <1>2

\* What frames hold together, one frame more.
LEMMA HeldAppend ==
    ASSUME NEW S, NEW s \in Seq(S), NEW f \in S
    PROVE  /\ Flatten(Datas(Append(s, f))) = Flatten(Datas(s)) \o f.data
           /\ Flatten(Datas(<< >>)) = << >>
<1>1. Datas(Append(s, f)) = Append(Datas(s), f.data)
  BY MapAppend
<1>2. Datas(s) \in Seq({s[k].data : k \in DOMAIN s})
  <2>1. PICK n : n = Len(s)
    OBVIOUS
  <2>2. n \in Nat /\ DOMAIN s = 1..n
    BY <2>1, SMT
  <2>3. Datas(s) \in [1..n -> {s[k].data : k \in DOMAIN s}]
    BY <2>2 DEF Datas
  <2> QED BY <2>2, <2>3, SMT
<1>3. Flatten(Append(Datas(s), f.data)) = Flatten(Datas(s)) \o f.data
  BY <1>2, FlattenAppend
<1>4. Datas(<< >>) = << >>
  BY DEF Datas
<1> QED BY <1>1, <1>3, <1>4, FlattenNothing

-----------------------------------------------------------------------------
(* What the calls that send may do. *)

\* What a frame is.
Frame == [header : {0, 1, Null}, data : Seq(AllPieces)]

\* The parts of an outcome.
LEMMA OutcomeIs ==
    ASSUME NEW p, NEW fs, NEW k, NEW x
    PROVE  /\ Outcome(p, fs, k).buf = p /\ Outcome(p, fs, k).frames = fs
           /\ Outcome(p, fs, Yes).ok /\ ~Outcome(p, fs, No).ok
           /\ [Outcome(p, fs, k) EXCEPT !.buf = x] = Outcome(x, fs, k)
           /\ [Outcome(p, fs, k) EXCEPT !.frames = x] = Outcome(p, x, k)
<1>1. Outcome(p, fs, k).buf = p /\ Outcome(p, fs, k).frames = fs
  BY DEF Outcome
<1>2. Outcome(p, fs, Yes).ok /\ ~Outcome(p, fs, No).ok
  BY DEF Outcome, Yes, No
<1>3. [Outcome(p, fs, k) EXCEPT !.buf = x] = Outcome(x, fs, k)
  BY DEF Outcome
<1>4. [Outcome(p, fs, k) EXCEPT !.frames = x] = Outcome(p, x, k)
  BY DEF Outcome
<1> QED BY <1>1, <1>2, <1>3, <1>4

\* And one that turns out to have failed.
LEMMA FailingIs ==
    ASSUME NEW p, NEW fs
    PROVE  [Outcome(p, fs, Yes) EXCEPT !.ok = No] = Outcome(p, fs, No)
BY DEF Outcome

\* What flush_buffer may do, in the words of the model and in Yes and No.
LEMMA FlushOutcomes ==
    ASSUME NEW b, NEW h, NEW o \in flush_buffer(b, h)
    PROVE  \/ Size(b) = 0 /\ o = Outcome(b, << >>, Yes)
           \/ Size(b) # 0 /\ o = Outcome(<< >>, <<[header |-> h, data |-> b]>>, Yes)
           \/ Size(b) # 0 /\ o = Outcome(b, << >>, No)
BY DEF flush_buffer, Yes, No

\* What a call does to the line.
LEMMA SentIs ==
    ASSUME NEW S, NEW s \in Seq(S), NEW f \in S, NEW g \in S
    PROVE  /\ s \o << >> = s /\ s \o <<f>> = Append(s, f)
           /\ s \o <<f, g>> = Append(Append(s, f), g)
           /\ << >> \o << >> = << >> /\ <<f>> \o << >> = <<f>> /\ << >> \o <<f>> = <<f>>
<1>1. s \o << >> = s
  BY SMT
<1>2. s \o <<f>> = Append(s, f)
  BY AppendIsConcat
<1>3. << >> \o << >> = << >> /\ <<f>> \o << >> = <<f>> /\ << >> \o <<f>> = <<f>>
  <2>1. << >> \in Seq(S) /\ <<f>> \in Seq(S)
    BY SMT
  <2> QED BY <2>1, ConcatEmptySeq
<1>4. s \o <<f, g>> = Append(Append(s, f), g)
  <2>1. <<f>> \in Seq(S) /\ <<g>> \in Seq(S) /\ Append(s, f) \in Seq(S)
    BY AppendProperties
  <2>2. <<f, g>> = <<f>> \o <<g>>
    BY <2>1, Append1, AppendIsConcat
  <2>3. Append(Append(s, f), g) = Append(s, f) \o <<g>>
    BY <2>1, AppendIsConcat
  <2>4. (s \o <<f>>) \o <<g>> = s \o (<<f>> \o <<g>>)
    BY <2>1, ConcatAssociative
  <2> QED BY <1>2, <2>2, <2>3, <2>4
<1> QED BY <1>1, <1>2, <1>3, <1>4

\* The frames that a call may send.
Of(h, b) == [header |-> h, data |-> b]

\* Their parts, and that they are frames.
LEMMA OfIs ==
    ASSUME NEW h, NEW b
    PROVE  /\ Of(h, b).header = h /\ Of(h, b).data = b
           /\ h \in {0, 1, Null} /\ b \in Seq(AllPieces) => Of(h, b) \in Frame
BY DEF Of, Frame

\* With nothing to flush, and no room: it is sent by itself, or fails.
LEMMA WriteAlone ==
    ASSUME NEW b, NEW d, ~Fits(b, d), NEW o \in WriteFlushed(Outcome(b, << >>, Yes), d)
    PROVE  o = Outcome(b, <<Of(Null, <<d>>)>>, Yes) \/ o = Outcome(b, << >>, No)
<1>0. PICK q : q = Outcome(b, << >>, Yes)
  OBVIOUS
<1>1. q.ok /\ q.buf = b /\ q.frames = << >>
  BY <1>0, OutcomeIs
<1>2. o \in {[q EXCEPT !.frames = Append(@, Of(Null, <<d>>))], [q EXCEPT !.ok = No]}
  BY <1>0, <1>1 DEF WriteFlushed, Of, No
<1>3. [q EXCEPT !.frames = Append(@, Of(Null, <<d>>))]
         = Outcome(b, Append(<< >>, Of(Null, <<d>>)), Yes)
  <2>1. PICK y : y = Append(<< >>, Of(Null, <<d>>))
    OBVIOUS
  <2>2. [q EXCEPT !.frames = y] = Outcome(b, y, Yes)
    <3>1. PICK e, k : e = << >> /\ k = Yes
      OBVIOUS
    <3>2. [Outcome(b, e, k) EXCEPT !.frames = y] = Outcome(b, y, k)
      BY OutcomeIs
    <3> QED BY <1>0, <3>1, <3>2
  <2>3. [q EXCEPT !.frames = Append(@, Of(Null, <<d>>))] = [q EXCEPT !.frames = y]
    BY <1>1, <2>1
  <2> QED BY <2>1, <2>2, <2>3
<1>4. [q EXCEPT !.ok = No] = Outcome(b, << >>, No)
  BY <1>0, FailingIs
<1>5. Append(<< >>, Of(Null, <<d>>)) = <<Of(Null, <<d>>)>>
  OBVIOUS
<1> QED BY <1>2, <1>3, <1>4, <1>5

\* packet_write copies the piece; or fails at once; or sends it by itself;
\* or sends what there was and then copies it, sends it, or fails.
LEMMA WriteIs ==
    ASSUME NEW b \in Seq(AllPieces), NEW d \in AllPieces, NEW o \in WriteOutcomes(b, d),
           NEW s \in Seq(Frame)
    PROVE  \/ o.ok /\ Fits(b, d) /\ o.buf = Copied(b, d) /\ s \o o.frames = s
           \/ ~o.ok /\ ~Fits(b, d) /\ o.buf = b /\ s \o o.frames = s
           \/ o.ok /\ ~Fits(b, d) /\ Size(b) = 0 /\ o.buf = b /\ s \o o.frames = Append(s, Of(Null, <<d>>))
           \/ /\ o.ok /\ ~Fits(b, d) /\ Size(b) # 0 /\ Fits(<< >>, d)
              /\ o.buf = Copied(<< >>, d) /\ s \o o.frames = Append(s, Of(0, b))
           \/ /\ o.ok /\ ~Fits(b, d) /\ Size(b) # 0 /\ ~Fits(<< >>, d)
              /\ o.buf = << >> /\ s \o o.frames = Append(Append(s, Of(0, b)), Of(Null, <<d>>))
           \/ /\ ~o.ok /\ ~Fits(b, d) /\ Size(b) # 0 /\ ~Fits(<< >>, d)
              /\ o.buf = << >> /\ s \o o.frames = Append(s, Of(0, b))
<1> DEFINE t == s \o o.frames
<1>1. <<d>> \in Seq(AllPieces) /\ << >> \in Seq(Frame)
  OBVIOUS
<1>2. Of(Null, <<d>>) \in Frame /\ Of(0, b) \in Frame
  BY <1>1, OfIs
<1>3. CASE Fits(b, d)
  <2>1. o = Outcome(Copied(b, d), << >>, Yes)
    BY <1>3 DEF WriteOutcomes, Yes
  <2> QED BY <1>2, <1>3, <2>1, OutcomeIs, SentIs
<1>4. CASE ~Fits(b, d)
  <2>1. PICK q \in flush_buffer(b, 0) : o \in WriteFlushed(q, d)
    BY <1>4 DEF WriteOutcomes
  <2>2. CASE Size(b) # 0 /\ q = Outcome(b, << >>, No)
    <3>1. o = q
      BY <2>1, <2>2, OutcomeIs DEF WriteFlushed
    <3> QED BY <1>2, <1>4, <2>2, <3>1, OutcomeIs, SentIs
  <2>3. CASE Size(b) = 0 /\ q = Outcome(b, << >>, Yes)
    <3>1. o = Outcome(b, <<Of(Null, <<d>>)>>, Yes) \/ o = Outcome(b, << >>, No)
      BY <1>4, <2>1, <2>3, WriteAlone
    <3>6. CASE o = Outcome(b, <<Of(Null, <<d>>)>>, Yes)
      <4>1. o.ok /\ o.buf = b /\ o.frames = <<Of(Null, <<d>>)>>
        BY <3>6, OutcomeIs
      <4>2. t = Append(s, Of(Null, <<d>>))
        BY <1>2, <4>1, SentIs
      <4> QED BY <1>4, <2>3, <4>1, <4>2
    <3>7. CASE o = Outcome(b, << >>, No)
      BY <1>2, <1>4, <2>3, <3>7, OutcomeIs, SentIs
    <3> QED BY <3>1, <3>6, <3>7
  <2>4. CASE Size(b) # 0 /\ q = Outcome(<< >>, <<Of(0, b)>>, Yes)
    <3>1. q.ok /\ q.buf = << >> /\ q.frames = <<Of(0, b)>>
      BY <2>4, OutcomeIs
    <3>2. CASE Fits(<< >>, d)
      <4>1. o = [q EXCEPT !.buf = Copied(@, d)]
        BY <2>1, <3>1, <3>2 DEF WriteFlushed
      <4>2. o = Outcome(Copied(<< >>, d), <<Of(0, b)>>, Yes)
        BY <2>4, <3>1, <4>1, OutcomeIs
      <4>3. o.ok /\ o.buf = Copied(<< >>, d) /\ o.frames = <<Of(0, b)>>
        BY <4>2, OutcomeIs
      <4>4. t = Append(s, Of(0, b))
        BY <1>2, <4>3, SentIs
      <4> QED BY <1>4, <2>4, <3>2, <4>3, <4>4
    <3>3. CASE ~Fits(<< >>, d)
      <4>1. o \in {[q EXCEPT !.frames = Append(@, Of(Null, <<d>>))], [q EXCEPT !.ok = No]}
        BY <2>1, <3>1, <3>3 DEF WriteFlushed, Of, No
      <4>2. [q EXCEPT !.frames = Append(@, Of(Null, <<d>>))]
               = Outcome(<< >>, Append(<<Of(0, b)>>, Of(Null, <<d>>)), Yes)
        <5>1. PICK y : y = Append(<<Of(0, b)>>, Of(Null, <<d>>))
          OBVIOUS
        <5>2. [q EXCEPT !.frames = y] = Outcome(<< >>, y, Yes)
          BY <2>4, OutcomeIs
        <5>3. [q EXCEPT !.frames = Append(@, Of(Null, <<d>>))] = [q EXCEPT !.frames = y]
          BY <3>1, <5>1
        <5> QED BY <5>1, <5>2, <5>3
      <4>3. [q EXCEPT !.ok = No] = Outcome(<< >>, <<Of(0, b)>>, No)
        BY <2>4, FailingIs
      <4>4. Append(<<Of(0, b)>>, Of(Null, <<d>>)) = <<Of(0, b), Of(Null, <<d>>)>>
        BY Append1
      <4>5. CASE o = Outcome(<< >>, <<Of(0, b), Of(Null, <<d>>)>>, Yes)
        <5>1. o.ok /\ o.buf = << >> /\ o.frames = <<Of(0, b), Of(Null, <<d>>)>>
          BY <4>5, OutcomeIs
        <5>2. t = Append(Append(s, Of(0, b)), Of(Null, <<d>>))
          BY <1>2, <5>1, SentIs
        <5> QED BY <1>4, <2>4, <3>3, <5>1, <5>2
      <4>6. CASE o = Outcome(<< >>, <<Of(0, b)>>, No)
        <5>1. ~o.ok /\ o.buf = << >> /\ o.frames = <<Of(0, b)>>
          BY <4>6, OutcomeIs
        <5>2. t = Append(s, Of(0, b))
          BY <1>2, <5>1, SentIs
        <5> QED BY <1>4, <2>4, <3>3, <5>1, <5>2
      <4> QED BY <4>1, <4>2, <4>3, <4>4, <4>5, <4>6
    <3> QED BY <3>2, <3>3
  <2> QED BY <2>1, <2>2, <2>3, <2>4, FlushOutcomes DEF Of
<1> QED BY <1>3, <1>4

\* flush_buffer does nothing if there is nothing; or sends all; or fails.
LEMMA FlushIs ==
    ASSUME NEW b \in Seq(AllPieces), NEW h \in {0, 1}, NEW o \in flush_buffer(b, h),
           NEW s \in Seq(Frame)
    PROVE  \/ Size(b) = 0 /\ o.ok /\ o.buf = b /\ s \o o.frames = s
           \/ Size(b) # 0 /\ o.ok /\ o.buf = << >> /\ s \o o.frames = Append(s, Of(h, b))
           \/ Size(b) # 0 /\ ~o.ok /\ o.buf = b /\ s \o o.frames = s
<1> DEFINE t == s \o o.frames
<1>1. Of(h, b) \in Frame
  BY OfIs
<1>2. CASE Size(b) = 0 /\ o = Outcome(b, << >>, Yes)
  <2>1. o.ok /\ o.buf = b /\ o.frames = << >>
    BY <1>2, OutcomeIs
  <2> QED BY <1>1, <1>2, <2>1, SentIs
<1>3. CASE Size(b) # 0 /\ o = Outcome(<< >>, <<Of(h, b)>>, Yes)
  <2>1. o.ok /\ o.buf = << >> /\ o.frames = <<Of(h, b)>>
    BY <1>3, OutcomeIs
  <2>2. t = Append(s, Of(h, b))
    BY <1>1, <2>1, SentIs
  <2> QED BY <1>3, <2>1, <2>2
<1>4. CASE Size(b) # 0 /\ o = Outcome(b, << >>, No)
  <2>1. ~o.ok /\ o.buf = b /\ o.frames = << >>
    BY <1>4, OutcomeIs
  <2> QED BY <1>1, <1>4, <2>1, SentIs
<1> QED BY <1>2, <1>3, <1>4, FlushOutcomes DEF Of

\* A packet of one piece is sent in one frame, or not at all; an empty one is
\* not sent.
LEMMA WholeIs ==
    ASSUME NEW d \in AllPieces, NEW o \in WholeOutcomes(d),
           NEW s \in Seq(Frame)
    PROVE  \/ ~o.ok /\ s \o o.frames = s /\ (o.buf = << >> \/ (o.buf = <<d>> /\ d.size \in 1..BUF_LEN))
           \/ o.ok /\ o.buf = << >> /\ d.size = 0 /\ s \o o.frames = s
           \/ o.ok /\ o.buf = << >> /\ d.size \in 1..BUF_LEN /\ s \o o.frames = Append(s, Of(1, <<d>>))
           \/ o.ok /\ o.buf = << >> /\ d.size > BUF_LEN /\ s \o o.frames = Append(s, Of(Null, <<d>>))
<1> DEFINE t == s \o o.frames
<1>0. PICK e : e = << >>
  OBVIOUS
<1>1. e \in Seq(AllPieces) /\ <<d>> \in Seq(AllPieces) /\ d.size \in Nat /\ BUF_LEN \in Nat
  BY <1>0, PacketAssumption DEF AllPieces
<1>2. Of(Null, <<d>>) \in Frame /\ Of(1, <<d>>) \in Frame
  BY <1>1, OfIs
<1>3. Size(e) = 0 /\ Size(<<d>>) = d.size
  <2>1. Piecewise(AllPieces)
    BY DEF Piecewise, AllPieces
  <2> QED BY <1>0, <1>1, <2>1, SizeIs, SizeOne
<1>4. Fits(e, d) <=> d.size <= BUF_LEN
  BY <1>1, <1>3 DEF Fits
<1>5. Copied(e, d) = IF d.size = 0 THEN e ELSE <<d>>
  BY <1>0 DEF Copied
<1>6. PICK w \in WriteOutcomes(e, d) :
         o \in IF ~w.ok THEN {w}
               ELSE {[f EXCEPT !.frames = w.frames \o @] : f \in flush_buffer(w.buf, 1)}
  BY <1>0 DEF WholeOutcomes
<1>7. CASE w = Outcome(e, e, No)
  <2>1. o = w
    BY <1>6, <1>7, OutcomeIs
  <2>2. ~o.ok /\ o.buf = e /\ o.frames = e
    BY <1>7, <2>1, OutcomeIs
  <2> QED BY <1>0, <1>2, <2>2, SentIs
<1>8. ASSUME NEW p, NEW fs, w = Outcome(p, fs, Yes)
      PROVE  \/ Size(p) = 0 /\ o = Outcome(p, fs \o e, Yes)
             \/ Size(p) # 0 /\ o = Outcome(e, fs \o <<Of(1, p)>>, Yes)
             \/ Size(p) # 0 /\ o = Outcome(p, fs \o e, No)
  <2>1. w.ok /\ w.buf = p /\ w.frames = fs
    BY <1>8, OutcomeIs
  <2>2. PICK f \in flush_buffer(p, 1) : o = [f EXCEPT !.frames = fs \o @]
    BY <1>6, <2>1
  <2>3. PICK y : y = fs \o f.frames
    OBVIOUS
  <2>4. o = [f EXCEPT !.frames = y]
    BY <2>2, <2>3
  <2>5. CASE Size(p) = 0 /\ f = Outcome(p, e, Yes)
    <3>1. f.frames = e /\ [Outcome(p, e, Yes) EXCEPT !.frames = y] = Outcome(p, y, Yes)
      BY <2>5, OutcomeIs
    <3> QED BY <2>3, <2>4, <2>5, <3>1
  <2>6. CASE Size(p) # 0 /\ f = Outcome(e, <<Of(1, p)>>, Yes)
    <3>1. PICK gs : gs = <<Of(1, p)>>
      OBVIOUS
    <3>2. f.frames = gs /\ [Outcome(e, gs, Yes) EXCEPT !.frames = y] = Outcome(e, y, Yes)
      BY <2>6, <3>1, OutcomeIs
    <3> QED BY <2>3, <2>4, <2>6, <3>1, <3>2
  <2>7. CASE Size(p) # 0 /\ f = Outcome(p, e, No)
    <3>1. f.frames = e /\ [Outcome(p, e, No) EXCEPT !.frames = y] = Outcome(p, y, No)
      BY <2>7, OutcomeIs
    <3> QED BY <2>3, <2>4, <2>7, <3>1
  <2> QED BY <1>0, <2>5, <2>6, <2>7, FlushOutcomes DEF Of
<1>9. e \o e = e /\ \A f \in Frame : e \o <<f>> = <<f>> /\ <<f>> \o e = <<f>>
  BY <1>0, SentIs
<1>10. CASE d.size = 0 /\ w = Outcome(e, e, Yes)
  <2>1. o = Outcome(e, e, Yes)
    BY <1>3, <1>8, <1>9, <1>10
  <2>2. o.ok /\ o.buf = e /\ o.frames = e
    BY <2>1, OutcomeIs
  <2> QED BY <1>0, <1>2, <1>10, <2>2, SentIs
<1>11. CASE d.size > BUF_LEN /\ w = Outcome(e, <<Of(Null, <<d>>)>>, Yes)
  <2>1. PICK fs : fs = <<Of(Null, <<d>>)>>
    OBVIOUS
  <2>2. fs \o e = fs
    BY <1>2, <1>9, <2>1
  <2>3. o = Outcome(e, fs, Yes)
    BY <1>3, <1>8, <1>11, <2>1, <2>2
  <2>4. o.ok /\ o.buf = e /\ o.frames = fs
    BY <2>3, OutcomeIs
  <2>5. t = Append(s, Of(Null, <<d>>))
    BY <1>2, <2>1, <2>4, SentIs
  <2> QED BY <1>0, <1>11, <2>4, <2>5
<1>12. CASE d.size \in 1..BUF_LEN /\ w = Outcome(<<d>>, e, Yes)
  <2>1. PICK p, fs : p = <<d>> /\ fs = <<Of(1, p)>>
    OBVIOUS
  <2>2. Size(p) # 0
    BY <1>1, <1>3, <1>12, <2>1
  <2>3. e \o fs = fs /\ e \o e = e
    BY <1>2, <1>9, <2>1
  <2>4. o = Outcome(e, fs, Yes) \/ o = Outcome(p, e, No)
    BY <1>8, <1>12, <2>1, <2>2, <2>3
  <2>5. CASE o = Outcome(e, fs, Yes)
    <3>1. o.ok /\ o.buf = e /\ o.frames = fs
      BY <2>5, OutcomeIs
    <3>2. t = Append(s, Of(1, <<d>>))
      BY <1>2, <2>1, <3>1, SentIs
    <3> QED BY <1>0, <1>12, <3>1, <3>2
  <2>6. CASE o = Outcome(p, e, No)
    <3>1. ~o.ok /\ o.buf = p /\ o.frames = e
      BY <2>6, OutcomeIs
    <3> QED BY <1>0, <1>2, <1>12, <2>1, <3>1, SentIs
  <2> QED BY <2>4, <2>5, <2>6
<1>13. CASE Fits(e, d)
  <2>1. w = Outcome(Copied(e, d), e, Yes)
    BY <1>0, <1>6, <1>13 DEF WriteOutcomes, Yes
  <2> QED BY <1>0, <1>1, <1>4, <1>5, <1>10, <1>12, <1>13, <2>1
<1>14. CASE ~Fits(e, d)
  <2>1. PICK q \in flush_buffer(e, 0) : w \in WriteFlushed(q, d)
    BY <1>6, <1>14 DEF WriteOutcomes
  <2>2. q = Outcome(e, e, Yes)
    BY <1>0, <1>3, FlushOutcomes
  <2>3. w = Outcome(e, <<Of(Null, <<d>>)>>, Yes) \/ w = Outcome(e, e, No)
    BY <1>0, <1>14, <2>1, <2>2, WriteAlone
  <2>4. d.size > BUF_LEN
    BY <1>1, <1>4, <1>14
  <2> QED BY <1>7, <1>11, <2>3, <2>4
<1> QED BY <1>13, <1>14

-----------------------------------------------------------------------------
(* The inductive invariant. *)

\* What is kept of a frame that arrives, and the frame in the link's list.
Arrival == {[frame |-> f, does |-> Dispatch(f.data)] : f \in Incoming}
FrameOf(n) == [id |-> n, header |-> arrived[n].frame.header,
               size |-> Len(arrived[n].frame.data) + 1]

\* The number of frames that packet_available took from the link.
Taken == Len(arrived) - Len(inbox)

Types ==
    /\ arrived \in Seq(Arrival) /\ ticks \in Nat /\ Len(arrived) + ticks <= MaxWork
    /\ inbox \in Seq(AllFrames) /\ IsSeq(done)
    /\ {received_packet, command} \subseteq AllFrames \cup {Null}
    /\ buf \in Seq(AllPieces) /\ pieces \in Seq(AllPieces) /\ sent \in Seq(Frame)
    /\ finished \subseteq Seq(AllPieces)
    /\ accepted \subseteq AllPieces /\ queue \in accepted \cup {Null}
    /\ sms \in Seq([id : Ids, module : Modules])
    /\ pc \in {"poll", "get", "start", "command", "finish", "tick", "write", "queued"}
    /\ pc = "write" => ticks # 0

\* The buffer holds no empty piece, and no more than fits.
BufferInv ==
    /\ Size(buf) <= BUF_LEN
    /\ \A k \in DOMAIN buf : buf[k].size > 0

\* A packet that was taken and holds a command.
IsTaken(r) == r.id \in 1..Taken /\ r = FrameOf(r.id) /\ IsCommand(r.id)

\* The link's list is the end of what arrived; the packet that is being taken
\* or done is a command that arrived before.
InboxInv ==
    /\ Len(inbox) <= Len(arrived)
    /\ \A k \in 1..Len(inbox) : inbox[k] = FrameOf(Taken + k)
    /\ IF pc = "get" THEN received_packet # Null /\ IsTaken(received_packet)
       ELSE received_packet = Null
    /\ IF pc \in {"start", "command", "finish"} THEN command # Null /\ IsTaken(command)
       ELSE command = Null

\* A command that was done, and one whose reply may be in progress.
Before(n) ==
    /\ n \in 1..Taken
    /\ pc = "get" => n < received_packet.id
    /\ pc \in {"start", "command", "finish"} => n < command.id
Begun(n) == Before(n) \/ (pc = "finish" /\ n = command.id)

\* What was done is what the bytes of a command say, in their order.
DoneInv ==
    /\ \A k \in DOMAIN done : /\ Begun(done[k].id) /\ IsCommand(done[k].id)
                              /\ done[k].call = arrived[done[k].id].does
    /\ \A k, l \in DOMAIN done : k < l => done[k].id < done[l].id

\* A packet that is over, and one that may be in progress.
Over(d) ==
    \/ d.from = "reply" /\ Before(d.id)
    \/ d.from = "tick" /\ d.id <= ticks /\ (pc = "write" => d.id < ticks)
Known(d) ==
    \/ Over(d)
    \/ d.from = "reply" /\ Begun(d.id)
    \/ d.from = "tick" /\ pc = "write" /\ pieces # << >> /\ d.id = ticks
    \/ d.from = "queue" /\ d.id <= ticks

\* A frame holds pieces of one packet, and a reply is in a frame of its own.
Proper(f) ==
    /\ f.data # << >>
    /\ \A i \in DOMAIN f.data :
          /\ Known(f.data[i]) /\ SamePacket(f.data[1], f.data[i])
          /\ IsReply(f.data[i]) => Len(f.data) = 1
SentInv == (\A k \in DOMAIN sent : Proper(sent[k])) /\ Rising(sent)

\* The packet in progress: of its pieces, those that are not on the line are in
\* the buffer, and there is nothing else in it.
Current(d) ==
    \/ pc \in {"command", "finish"} /\ d.from = "reply" /\ d.id = command.id
    \/ pc = "write" /\ d.from = "tick" /\ d.id = ticks
Split(p) ==
    /\ buf # << >>
    /\ Flatten(Datas(FramesWith(p[1]))) \o buf = p
    /\ \A k \in DOMAIN FramesWith(p[1]) : FramesWith(p[1])[k].header = 0
BuildInv ==
    pc \in {"command", "finish", "write"} =>
       /\ \A k \in DOMAIN buf : Current(buf[k])
       /\ \A k \in DOMAIN pieces : Current(pieces[k])
       /\ pieces = << >> => buf = << >>
       /\ pc = "command" => pieces = << >>
       /\ pc = "finish" =>
             /\ Len(buf) <= 1
             /\ buf # << >> => \A k \in DOMAIN sent : IsReply(sent[k].data[1])
                                                      => sent[k].data[1].id < command.id
       /\ pieces # << >> /\ Fitting(pieces) => Split(pieces)

\* A packet that was finished is over.
FinishedInv ==
    /\ FinishedWhole
    /\ \A p \in finished : p # << >> => Over(p[1])

\* A packet is queued under a number of its own.
QueueInv ==
    /\ QueuedOnce
    /\ \A d \in accepted : d.from = "queue" /\ d.id <= ticks
    /\ \A d, e \in accepted : d.id = e.id => d = e

\* The table is what loads have registered.
TableInv ==
    /\ \A n, m \in DOMAIN sms : sms[n].id = sms[m].id => n = m
    /\ \A n \in DOMAIN sms : \E k \in DOMAIN done : done[k].result = sms[n].id
    /\ \A k \in DOMAIN done :
          LET d == done[k] IN
          /\ d.call.op = "sm_load" => d.reply = TwoBytes(d.result)
          /\ d.result \in Ids \cup {0}
          /\ d.result # 0 => /\ d.call.op = "sm_load"
                             /\ \E n \in DOMAIN sms : /\ sms[n].id = d.result
                                                      /\ sms[n].module = d.call.bytes[2]
          /\ d.target # {} => \E j \in 1..(k - 1) :
                                 done[j].result # 0 /\ done[j].result = d.call.numbers[1]
          /\ \A l \in (k + 1)..Len(done) : Answered(d, done[l])

Inv ==
    /\ Types /\ BufferInv /\ InboxInv /\ DoneInv /\ SentInv /\ BuildInv /\ FinishedInv
    /\ QueueInv /\ TableInv

-----------------------------------------------------------------------------
(* The control, and the packets that come in. *)

\* Where a step leaves the loop that takes no frame and no packet.
Goes ==
    \/ pc' = pc /\ command' = command /\ ticks' = ticks /\ (pieces # << >> => pieces' # << >>)
    \/ pc = "start" /\ pc' = "command" /\ command' = command /\ ticks' = ticks
    \/ pc = "command" /\ pc' = "finish" /\ command' = command /\ ticks' = ticks
    \/ pc = "finish" /\ pc' = "tick" /\ command' = Null /\ ticks' = ticks
    \/ /\ pc = "tick" /\ pc' \in {"tick", "write"} /\ command' = command
       /\ ticks' = ticks + 1 /\ Len(arrived) + ticks < MaxWork
    \/ pc = "tick" /\ pc' = "queued" /\ command' = command /\ ticks' = ticks
    \/ pc = "write" /\ pc' = "tick" /\ command' = command /\ ticks' = ticks
    \/ pc = "queued" /\ pc' = "poll" /\ command' = command /\ ticks' = ticks

\* A step takes a frame or a packet, or leaves the loop somewhere.
LEMMA Control ==
    ASSUME pieces \in Seq(AllPieces), [Next]_vars
    PROVE  \/ \E f \in Incoming : FrameArrives(f)
           \/ Poll
           \/ GetCommand
           \/ UNCHANGED <<arrived, inbox, received_packet>> /\ Goes
<1>1. ASSUME NEW d
      PROVE  Append(pieces, d) # << >>
  <2>1. PICK S : S = AllPieces \cup {d}
    OBVIOUS
  <2>2. pieces \in Seq(S) /\ d \in S
    BY <2>1, SMT
  <2> QED BY <2>2, AppendProperties
<1>2. CASE UNCHANGED vars
  BY <1>2 DEF vars, packetVars, history, Goes
<1>3. CASE StartReply
  BY <1>3 DEF StartReply, packet_start, Goes
<1>4. CASE RunCommand
  BY <1>4 DEF RunCommand, Goes
<1>5. CASE FinishCommand
  BY <1>5 DEF FinishCommand, Goes
<1>6. CASE SendQueued
  BY <1>6 DEF SendQueued, packet_send_queued, history, Goes
<1>7. CASE TickStart
  BY <1>7 DEF TickStart, Goes
<1>8. CASE TickFinish
  BY <1>8 DEF TickFinish, Goes
<1>9. CASE TickReturns
  BY <1>9 DEF TickReturns, packetVars, history, Goes
<1>10. ASSUME NEW size \in Sizes, TickWrite(size)
       PROVE  UNCHANGED <<arrived, inbox, received_packet>> /\ Goes
  <2>1. PICK d, o : /\ pieces' = (IF o.ok THEN Append(pieces, d) ELSE << >>)
                    /\ pc' = (IF o.ok THEN "write" ELSE "tick")
    BY <1>10 DEF TickWrite
  <2> QED BY <1>1, <1>10, <2>1 DEF TickWrite, Goes
<1>11. ASSUME NEW size \in Sizes, TickQueue(size)
       PROVE  UNCHANGED <<arrived, inbox, received_packet>> /\ Goes
  BY <1>11 DEF TickQueue, packet_queue, Goes
<1> QED BY <1>2, <1>3, <1>4, <1>5, <1>6, <1>7, <1>8, <1>9, <1>10, <1>11
        DEF Next, Loop, HandleCommand, Tick

\* The frames that arrived stay what they are.
LEMMA ArrivedIs ==
    ASSUME arrived \in Seq(Arrival), NEW f \in Incoming,
           arrived' = Append(arrived, [frame |-> f, does |-> Dispatch(f.data)])
    PROVE  /\ Len(arrived) \in Nat /\ Len(arrived)' = Len(arrived) + 1
           /\ arrived' \in Seq(Arrival)
           /\ arrived'[Len(arrived) + 1].frame = f
           /\ \A n \in 1..Len(arrived) : arrived'[n] = arrived[n]
<1>1. PICK x : x = [frame |-> f, does |-> Dispatch(f.data)]
  OBVIOUS
<1>2. x \in Arrival /\ x.frame = f
  BY <1>1 DEF Arrival
<1>3. PICK n : n = Len(arrived)
  OBVIOUS
<1>4. n \in Nat
  BY <1>3, LenProperties
<1>5. /\ arrived' \in Seq(Arrival) /\ Len(arrived') = n + 1 /\ arrived'[n + 1] = x
      /\ \A k \in 1..n : arrived'[k] = arrived[k]
  BY <1>1, <1>2, <1>3, AppendProperties
<1> QED BY <1>2, <1>3, <1>4, <1>5

\* The link's list follows what arrives.
LEMMA InboxNext ==
    ASSUME Types, InboxInv, [Next]_vars
    PROVE  InboxInv'
<1> DEFINE a == Len(arrived)
           b == Len(inbox)
<1>1. a \in Nat /\ b \in Nat /\ b <= a /\ Taken = a - b
  <2>1. arrived \in Seq(Arrival) /\ inbox \in Seq(AllFrames) /\ b <= a
    BY DEF Types, InboxInv
  <2> QED BY <2>1, LenProperties DEF Taken
<1>2. CASE \E f \in Incoming : FrameArrives(f)
  <2>1. PICK f \in Incoming : FrameArrives(f)
    BY <1>2
  <2>2. /\ a' = a + 1 /\ arrived'[a + 1].frame = f
        /\ \A n \in 1..a : arrived'[n] = arrived[n]
    BY <2>1, ArrivedIs DEF FrameArrives, Types
  <2>3. PICK y : y = [id |-> a + 1, header |-> f.header, size |-> Len(f.data) + 1]
    OBVIOUS
  <2>0. PICK c : c = a + 1
    OBVIOUS
  <2>4. y = FrameOf(c)'
    BY <2>0, <2>2, <2>3 DEF FrameOf
  <2>5. b' = b + 1 /\ inbox'[b + 1] = y /\ \A k \in 1..b : inbox'[k] = inbox[k]
    <3>1. PICK S : S = AllFrames \cup {y}
      OBVIOUS
    <3>2. inbox \in Seq(S) /\ y \in S
      <4>1. inbox \in Seq(AllFrames)
        BY DEF Types
      <4> QED BY <3>1, <4>1, SMT
    <3>3. inbox' = Append(inbox, y)
      BY <2>1, <2>3 DEF FrameArrives
    <3> HIDE DEF a
    <3> QED BY <3>2, <3>3, AppendProperties
  <2>6. Taken' = Taken
    <3>1. Taken' = a' - b'
      BY DEF Taken
    <3> HIDE DEF a, b
    <3> QED BY <1>1, <2>2, <2>5, <3>1
  <2>7. \A n \in 1..a : FrameOf(n)' = FrameOf(n)
    BY <2>2 DEF FrameOf
  <2>8. ASSUME NEW k \in 1..b'
        PROVE  inbox'[k] = FrameOf(Taken + k)'
    <3> HIDE DEF a, b
    <3>1. k \in 1..b \/ k = b + 1
      BY <1>1, <2>5, <2>8
    <3>2. ASSUME k \in 1..b
          PROVE  Taken + k \in 1..a
      BY <1>1, <3>2
    <3>3. k = b + 1 => Taken + k = a + 1
      BY <1>1
    <3>4. CASE k \in 1..b
      <4>1. inbox[k] = FrameOf(Taken + k)
        BY <3>4 DEF InboxInv, b
      <4> QED BY <2>5, <2>6, <2>7, <3>2, <3>4, <4>1
    <3>5. CASE k = b + 1
      <4>1. PICK m : m = Taken + k
        OBVIOUS
      <4>2. m = c /\ inbox'[k] = y
        BY <2>0, <2>5, <3>3, <3>5, <4>1
      <4>3. FrameOf(Taken + k)' = FrameOf(m)'
        BY <2>6, <4>1
      <4> QED BY <2>4, <4>2, <4>3
    <3> QED BY <3>1, <3>4, <3>5
  <2>9. b' <= a'
    <3> HIDE DEF a, b
    <3> QED BY <1>1, <2>2, <2>5
  <2>10. pc = "poll" /\ pc' = "poll" /\ received_packet' = Null /\ command' = Null
    BY <2>1 DEF FrameArrives, InboxInv
  <2> QED BY <2>8, <2>9, <2>10 DEF InboxInv
<1>3. CASE Poll
  <2>1. pc = "poll" /\ arrived' = arrived /\ command' = command /\ command = Null
    BY <1>3 DEF Poll, InboxInv
  <2>2. received_packet = Null
    BY <2>1 DEF InboxInv
  <2>3. \A n : FrameOf(n)' = FrameOf(n) /\ (IsCommand(n)' <=> IsCommand(n))
    BY <2>1 DEF FrameOf, IsCommand
  <2>4. CASE UNCHANGED <<received_packet, inbox>>
    <3>1. pc' = "tick" /\ received_packet' = Null
      BY <1>3, <2>2, <2>4 DEF Poll
    <3>2. Taken' = Taken
      BY <2>1, <2>4 DEF Taken
    <3> QED BY <2>1, <2>3, <2>4, <3>1, <3>2 DEF InboxInv
  <2>5. CASE /\ inbox # << >> /\ inbox' = Tail(inbox)
             /\ received_packet' \in IF IsPacket(Head(inbox)) THEN {Head(inbox), Null} ELSE {Null}
    <3>1. b >= 1 /\ b' = b - 1 /\ Head(inbox) = inbox[1] /\ \A k \in 1..b' : inbox'[k] = inbox[k + 1]
      <4>1. inbox \in Seq(AllFrames)
        BY DEF Types
      <4> QED BY <2>5, <4>1, SMT
    <3>2. a' = a
      BY <2>1
    <3>3. Taken' = Taken + 1 /\ b' <= a' /\ 1 \in 1..b /\ Taken + 1 \in 1..a
      <4>1. Taken' = a' - b'
        BY DEF Taken
      <4> HIDE DEF a, b
      <4> QED BY <1>1, <3>1, <3>2, <4>1
    <3>4. ASSUME NEW k \in 1..b'
          PROVE  inbox'[k] = FrameOf(Taken + k)'
      <4>1. k + 1 \in 1..b /\ Taken + (k + 1) = Taken' + k
        <5> HIDE DEF a, b
        <5> QED BY <1>1, <3>1, <3>3, <3>4
      <4>2. inbox[k + 1] = FrameOf(Taken + (k + 1))
        BY <4>1 DEF InboxInv
      <4>3. inbox'[k] = inbox[k + 1]
        BY <3>1, <3>4
      <4> QED BY <2>3, <4>1, <4>2, <4>3
    <3>5. ASSUME received_packet' # Null
          PROVE  IsTaken(received_packet)'
      <4>1. received_packet' = inbox[1] /\ IsPacket(inbox[1])
        BY <2>5, <3>1, <3>5
      <4>2. inbox[1] = FrameOf(Taken + 1)
        BY <3>3 DEF InboxInv
      <4>3. PICK r, n : r = received_packet' /\ n = Taken + 1
        OBVIOUS
      <4>4. r.id = n /\ r = FrameOf(n) /\ r.header = 1 /\ r.size > 1
        BY <4>1, <4>2, <4>3 DEF FrameOf, IsPacket
      <4>5. arrived[n].frame.header = 1 /\ Len(arrived[n].frame.data) + 1 > 1
        BY <4>4 DEF FrameOf
      <4>6. arrived[n].frame.data # << >>
        <5>1. Len(<< >>) = 0
          OBVIOUS
        <5> QED BY <4>5, <5>1
      <4>7. n \in 1..a /\ n <= a /\ n \in 1..Taken'
        <5> HIDE DEF a, b
        <5> QED BY <1>1, <3>3, <4>3
      <4>8. IsCommand(n)
        BY <4>5, <4>6, <4>7 DEF IsCommand
      <4>9. r.id \in 1..Taken' /\ r = FrameOf(r.id)' /\ IsCommand(r.id)'
        BY <2>3, <4>4, <4>7, <4>8
      <4> QED BY <4>3, <4>9 DEF IsTaken
    <3>6. pc' = IF received_packet' # Null THEN "get" ELSE "tick"
      BY <1>3 DEF Poll
    <3>7. InboxInv' <=> /\ b' <= a'
                        /\ \A k \in 1..b' : inbox'[k] = FrameOf(Taken + k)'
                        /\ IF pc' = "get" THEN received_packet' # Null /\ IsTaken(received_packet)'
                           ELSE received_packet' = Null
                        /\ IF pc' \in {"start", "command", "finish"}
                           THEN command' # Null /\ IsTaken(command)' ELSE command' = Null
      BY DEF InboxInv
    <3>8. command' = Null /\ pc' \notin {"start", "command", "finish"}
      BY <2>1, <3>6
    <3> HIDE DEF a, b
    <3> QED BY <3>3, <3>4, <3>5, <3>6, <3>7, <3>8
  <2> QED BY <1>3, <2>2, <2>4, <2>5 DEF Poll, packet_available
<1>4. CASE GetCommand
  <2>1. /\ pc = "get" /\ pc' = "start" /\ command' = received_packet /\ received_packet' = Null
        /\ arrived' = arrived /\ inbox' = inbox
    BY <1>4 DEF GetCommand, packet_get_next, history
  <2>2. received_packet # Null /\ IsTaken(received_packet)
    BY <2>1 DEF InboxInv
  <2>3. Taken' = Taken /\ \A n : FrameOf(n)' = FrameOf(n) /\ (IsCommand(n)' <=> IsCommand(n))
    BY <2>1 DEF Taken, FrameOf, IsCommand
  <2>4. IsTaken(command)'
    BY <2>1, <2>2, <2>3 DEF IsTaken
  <2> QED BY <2>1, <2>2, <2>3, <2>4 DEF InboxInv
<1>5. CASE UNCHANGED <<arrived, inbox, received_packet>> /\ Goes
  <2>1. Taken' = Taken /\ \A n : FrameOf(n)' = FrameOf(n) /\ (IsCommand(n)' <=> IsCommand(n))
    BY <1>5 DEF Taken, FrameOf, IsCommand
  <2>2. received_packet' = received_packet /\ inbox' = inbox /\ arrived' = arrived
    BY <1>5
  <2>3. IsTaken(received_packet)' <=> IsTaken(received_packet)
    BY <2>1, <2>2 DEF IsTaken
  <2>4. command' = command => (IsTaken(command)' <=> IsTaken(command))
    BY <2>1 DEF IsTaken
  <2>5. pc = "get" <=> pc' = "get"
    BY <1>5 DEF Goes
  <2>6. \/ command' = command /\ ((pc' \in {"start", "command", "finish"}) <=>
                                    (pc \in {"start", "command", "finish"}))
        \/ command' = Null /\ pc' \notin {"start", "command", "finish"}
    BY <1>5 DEF Goes
  <2> QED BY <2>1, <2>2, <2>3, <2>4, <2>5, <2>6 DEF InboxInv
<1> QED BY <1>2, <1>3, <1>4, <1>5, Control DEF Types

\* What the step leaves of the frames that arrived, and how many are taken.
LEMMA Takes ==
    ASSUME Types, InboxInv, [Next]_vars
    PROVE  /\ Len(arrived) \in Nat /\ Taken \in Nat /\ Taken <= Len(arrived) /\ Taken' \in Nat
           /\ \/ Taken' = Taken
              \/ Taken' = Taken + 1 /\ Poll /\ (received_packet' # Null => received_packet'.id = Taken + 1)
           /\ Len(arrived) <= Len(arrived)'
           /\ \A n \in 1..Len(arrived) : arrived'[n] = arrived[n]
<1> DEFINE a == Len(arrived)
           b == Len(inbox)
<1>1. a \in Nat /\ b \in Nat /\ b <= a /\ Taken = a - b /\ Taken' = a' - b'
  <2>1. arrived \in Seq(Arrival) /\ inbox \in Seq(AllFrames) /\ b <= a
    BY DEF Types, InboxInv
  <2> QED BY <2>1, LenProperties DEF Taken
<1>2. CASE \E f \in Incoming : FrameArrives(f)
  <2>1. PICK f \in Incoming : FrameArrives(f)
    BY <1>2
  <2>2. a' = a + 1 /\ \A n \in 1..a : arrived'[n] = arrived[n]
    BY <2>1, ArrivedIs DEF FrameArrives, Types
  <2>3. b' = b + 1
    <3>1. PICK y : inbox' = Append(inbox, y)
      BY <2>1 DEF FrameArrives
    <3>2. PICK S : S = AllFrames \cup {y}
      OBVIOUS
    <3>3. inbox \in Seq(S) /\ y \in S
      <4>1. inbox \in Seq(AllFrames)
        BY DEF Types
      <4> QED BY <3>2, <4>1, SMT
    <3> QED BY <3>1, <3>3, AppendProperties
  <2> HIDE DEF a, b
  <2>4. Taken' = Taken /\ Taken \in Nat /\ Taken <= a /\ a <= a'
    BY <1>1, <2>2, <2>3
  <2> QED BY <1>1, <2>2, <2>4 DEF a
<1>3. CASE Poll
  <2>1. arrived' = arrived /\ received_packet = Null
    BY <1>3 DEF Poll, InboxInv
  <2>2. CASE inbox' = inbox
    <3>1. b' = b /\ a' = a
      BY <2>1, <2>2
    <3> HIDE DEF a, b
    <3>2. Taken' = Taken /\ Taken \in Nat /\ Taken <= a /\ a <= a'
      BY <1>1, <3>1
    <3> QED BY <1>1, <2>1, <3>2 DEF a
  <2>3. CASE /\ inbox # << >> /\ inbox' = Tail(inbox)
             /\ received_packet' \in IF IsPacket(Head(inbox)) THEN {Head(inbox), Null} ELSE {Null}
    <3>1. b >= 1 /\ b' = b - 1 /\ Head(inbox) = inbox[1] /\ a' = a
      <4>1. inbox \in Seq(AllFrames)
        BY DEF Types
      <4> QED BY <2>1, <2>3, <4>1, SMT
    <3>2. received_packet' # Null => received_packet'.id = Taken + 1
      <4>1. 1 \in 1..b
        <5> HIDE DEF a, b
        <5> QED BY <1>1, <3>1
      <4>2. inbox[1] = FrameOf(Taken + 1)
        BY <4>1 DEF InboxInv
      <4> QED BY <2>3, <3>1, <4>2 DEF FrameOf
    <3> HIDE DEF a, b
    <3>3. Taken' = Taken + 1 /\ Taken \in Nat /\ Taken <= a /\ a <= a' /\ Taken' \in Nat
      BY <1>1, <3>1
    <3> QED BY <1>1, <1>3, <2>1, <3>2, <3>3 DEF a
  <2> QED BY <1>3, <2>1, <2>2, <2>3 DEF Poll, packet_available
<1>4. CASE UNCHANGED <<arrived, inbox>>
  <2>1. a' = a /\ b' = b
    BY <1>4
  <2> HIDE DEF a, b
  <2>2. Taken' = Taken /\ Taken \in Nat /\ Taken <= a /\ a <= a'
    BY <1>1, <2>1
  <2> QED BY <1>1, <1>4, <2>2 DEF a
<1>5. GetCommand => UNCHANGED <<arrived, inbox>>
  BY DEF GetCommand, packet_get_next, history
<1> QED BY <1>2, <1>3, <1>4, <1>5, Control DEF Types

\* A command stays a command.
LEMMA CommandStays ==
    ASSUME Types, InboxInv, [Next]_vars, NEW n \in 1..Len(arrived), IsCommand(n)
    PROVE  IsCommand(n)' /\ arrived'[n] = arrived[n] /\ n \in 1..Len(arrived)'
<1> DEFINE a == Len(arrived)
<1>1. a \in Nat /\ a <= a' /\ arrived'[n] = arrived[n]
  BY Takes
<1>2. a' \in Nat
  <2>1. arrived' \in Seq(Arrival)
    <3>1. ASSUME NEW f \in Incoming, FrameArrives(f)
          PROVE  arrived' \in Seq(Arrival)
      BY <3>1, ArrivedIs DEF FrameArrives, Types
    <3>2. Poll \/ GetCommand => arrived' = arrived
      BY DEF Poll, GetCommand, history
    <3> QED BY <3>1, <3>2, Control DEF Types
  <2> QED BY <2>1, LenProperties
<1>3. n <= a' /\ n \in 1..a'
  <2> HIDE DEF a
  <2>1. n \in 1..a
    BY DEF a
  <2> QED BY <1>1, <1>2, <2>1
<1> QED BY <1>1, <1>3 DEF IsCommand

\* What was done, begun, over or known is so for ever.
LEMMA Onward ==
    ASSUME Types, InboxInv, [Next]_vars
    PROVE  /\ \A n : Before(n) => Before(n)'
           /\ \A n : Begun(n) => Begun(n)'
           /\ \A d \in AllPieces : Over(d) => Over(d)'
           /\ \A d \in AllPieces : Known(d) => Known(d)'
<1> DEFINE T == Taken
<1>1. /\ T \in Nat /\ T' \in Nat
      /\ \/ T' = T
         \/ T' = T + 1 /\ Poll /\ (received_packet' # Null => received_packet'.id = T + 1)
  BY Takes
<1>2. T <= T' /\ \A n \in 1..T : n \in 1..T' /\ n < T + 1
  <2> HIDE DEF T
  <2> QED BY <1>1
<1>3. InboxInv'
  BY InboxNext
<1>4. ASSUME NEW n, Before(n)
      PROVE  Before(n)'
  <2>1. n \in 1..T /\ n \in 1..T'
    BY <1>2, <1>4 DEF Before
  <2>2. CASE \E f \in Incoming : FrameArrives(f)
    <3>1. pc' = "poll"
      BY <2>2 DEF FrameArrives
    <3> QED BY <2>1, <3>1 DEF Before
  <2>3. CASE Poll
    <3>1. pc' = "get" => received_packet' # Null
      BY <1>3 DEF InboxInv
    <3>2. pc' \in {"get", "tick"}
      BY <2>3 DEF Poll
    <3>3. pc' = "get" => n < received_packet'.id
      <4>1. CASE T' = T + 1
        <5>1. received_packet' # Null => received_packet'.id = T + 1
          <6> HIDE DEF T
          <6> QED BY <1>1, <4>1
        <5> QED BY <1>2, <2>1, <3>1, <5>1
      <4>2. CASE T' = T
        <5>1. UNCHANGED <<received_packet, inbox>>
          <6>1. arrived' = arrived /\ inbox \in Seq(AllFrames) /\ arrived \in Seq(Arrival)
            BY <2>3 DEF Poll, Types
          <6>2. inbox' # Tail(inbox) \/ inbox = << >>
            <7>1. Len(inbox)' = Len(inbox)
              <8>1. Len(arrived) \in Nat /\ Len(inbox) \in Nat
                BY <6>1, LenProperties
              <8>2. Len(arrived) - Len(inbox') = Len(arrived) - Len(inbox)
                BY <4>2, <6>1 DEF Taken
              <8>3. PICK x, y, z : x = Len(arrived) /\ y = Len(inbox) /\ z = Len(inbox')
                OBVIOUS
              <8>4. z \in Int
                <9>1. z = y \/ (inbox # << >> /\ inbox' = Tail(inbox))
                  BY <2>3, <8>3 DEF Poll, packet_available
                <9> QED BY <6>1, <8>1, <8>3, <9>1, SMT
              <8> QED BY <8>1, <8>2, <8>3, <8>4
            <7> QED BY <6>1, <7>1, SMT
          <6> QED BY <2>3, <6>2 DEF Poll, packet_available
        <5>2. received_packet' = Null
          BY <2>3, <5>1 DEF Poll, InboxInv
        <5> QED BY <3>1, <5>2
      <4> QED BY <1>1, <4>1, <4>2
    <3> QED BY <2>1, <3>2, <3>3 DEF Before
  <2>4. CASE GetCommand
    <3>1. pc = "get" /\ pc' = "start" /\ command' = received_packet
      BY <2>4 DEF GetCommand
    <3> QED BY <1>4, <2>1, <3>1 DEF Before
  <2>5. CASE UNCHANGED <<arrived, inbox, received_packet>> /\ Goes
    <3>1. \/ command' = command /\ ((pc' \in {"start", "command", "finish"}) <=>
                                      (pc \in {"start", "command", "finish"}))
          \/ pc' \notin {"start", "command", "finish"}
      BY <2>5 DEF Goes
    <3>2. pc = "get" <=> pc' = "get"
      BY <2>5 DEF Goes
    <3> QED BY <1>4, <2>1, <2>5, <3>1, <3>2 DEF Before
  <2> QED BY <2>2, <2>3, <2>4, <2>5, Control DEF Types
<1>5. ASSUME NEW n, pc = "finish", n = command.id
      PROVE  Begun(n)'
  <2>1. n \in 1..T
    BY <1>5 DEF InboxInv, IsTaken
  <2>2. UNCHANGED <<arrived, inbox, received_packet>> /\ Goes
    BY <1>5, Control DEF Types, FrameArrives, Poll, GetCommand
  <2>3. (pc' = "finish" /\ command' = command) \/ pc' = "tick"
    BY <1>5, <2>2 DEF Goes
  <2> QED BY <1>2, <1>5, <2>1, <2>3 DEF Begun, Before
<1>6. ASSUME NEW n, Begun(n)
      PROVE  Begun(n)'
  BY <1>4, <1>5, <1>6 DEF Begun
<1>7. ticks \in Nat /\ ticks' \in Nat /\ \/ ticks' = ticks
                                         \/ ticks' = ticks + 1 /\ pc = "tick"
  <2>1. ticks \in Nat
    BY DEF Types
  <2>2. (\E f \in Incoming : FrameArrives(f)) \/ Poll \/ GetCommand => ticks' = ticks
    BY DEF FrameArrives, Poll, GetCommand, history
  <2>3. Goes => ticks' = ticks \/ (ticks' = ticks + 1 /\ pc = "tick")
    BY DEF Goes
  <2> QED BY <2>1, <2>2, <2>3, Control DEF Types
<1>8. \/ pc' = "write" /\ ((pc = "write" /\ ticks' = ticks /\ (pieces # << >> => pieces' # << >>))
                           \/ (pc = "tick" /\ ticks' = ticks + 1))
      \/ pc' # "write"
  <2>1. (\E f \in Incoming : FrameArrives(f)) \/ Poll \/ GetCommand => pc' # "write"
    BY DEF FrameArrives, Poll, GetCommand
  <2>2. Goes => \/ pc' = "write" /\ ((pc = "write" /\ ticks' = ticks /\ (pieces # << >> => pieces' # << >>))
                                     \/ (pc = "tick" /\ ticks' = ticks + 1))
                \/ pc' # "write"
    BY DEF Goes
  <2> QED BY <2>1, <2>2, Control DEF Types
<1>9. ASSUME NEW d \in AllPieces
      PROVE  d.id \in Nat
  <2>1. d.id \in 1..MaxWork
    BY DEF AllPieces
  <2> QED BY <2>1, EventLoopAssumption
<1>10. ASSUME NEW d \in AllPieces, Over(d)
       PROVE  Over(d)'
  BY <1>4, <1>7, <1>8, <1>9, <1>10 DEF Over
<1>11. ASSUME NEW d \in AllPieces, Known(d)
       PROVE  Known(d)'
  <2>1. CASE Over(d)
    BY <1>10, <2>1 DEF Known
  <2>2. CASE d.from = "reply" /\ Begun(d.id)
    BY <1>6, <2>2 DEF Known
  <2>3. CASE d.from = "tick" /\ pc = "write" /\ pieces # << >> /\ d.id = ticks
    <3>1. ticks' = ticks
      BY <1>7, <2>3
    <3> QED BY <1>7, <1>8, <1>9, <2>3, <3>1 DEF Known, Over
  <2>4. CASE d.from = "queue" /\ d.id <= ticks
    BY <1>7, <1>9, <2>4 DEF Known
  <2> QED BY <1>11, <2>1, <2>2, <2>3, <2>4 DEF Known
<1> QED BY <1>4, <1>6, <1>10, <1>11

-----------------------------------------------------------------------------
(* The commands that are done. *)

\* What a command is, which arrived and is handled.
LEMMA CommandIs ==
    ASSUME Types, NEW n \in 1..Len(arrived), IsCommand(n)
    PROVE  LET f == arrived[n].frame  c == arrived[n].does IN
           /\ f \in Incoming /\ c = Dispatch(f.data) /\ Memory(f.data) /\ f.data # << >>
           /\ c.inside
           /\ IF f.cmd = Null THEN ~c.ok ELSE f.cmd \in Requests /\ AsAsked(c, f.cmd)
<1> DEFINE f == arrived[n].frame
           c == arrived[n].does
<1>1. arrived[n] \in Arrival
  <2>1. arrived \in [1..Len(arrived) -> Arrival]
    BY LenProperties DEF Types
  <2> QED BY <2>1
<1>2. f \in Incoming /\ c = Dispatch(f.data)
  BY <1>1 DEF Arrival
<1>3. f.data # << >> /\ f.header = 1
  BY DEF IsCommand
<1>4. Memory(f.data)
  BY <1>2, EventLoopAssumption DEF Memory
<1> HIDE DEF f, c
<1>5. IF f.cmd = Null THEN NoRequest(f.data) ELSE f.cmd \in Requests /\ f.data = Encode(f.cmd)
  BY <1>2, <1>3, EventLoopAssumption
<1>6. c.inside
  BY <1>2, <1>4, DispatchInside
<1>7. CASE f.cmd = Null
  BY <1>2, <1>3, <1>4, <1>5, <1>6, <1>7, DispatchNothing DEF f, c
<1>8. CASE f.cmd # Null
  <2>1. AsAsked(c, f.cmd)
    BY <1>2, <1>3, <1>4, <1>5, <1>8, DispatchAsked
  <2> QED BY <1>2, <1>3, <1>4, <1>5, <1>6, <1>8, <2>1 DEF f, c
<1> QED BY <1>7, <1>8

\* An echo echoes bytes.
LEMMA EchoIs ==
    ASSUME NEW data, Memory(data), data # << >>, Dispatch(data).op = "packet_write"
    PROVE  Len(Dispatch(data).bytes[1]) \in Nat
<1>1. 1 <= Len(data) /\ Len(data) \in Nat
  BY SMT DEF Memory
<1>2. PICK s : s = At(data, 1, <<data[1]>>)
  OBVIOUS
<1>3. data[1] = 0 /\ Dispatch(data) = echo(s)
  <2>1. /\ load_sancus_module(s).op # "packet_write" /\ print_sancus_module_identity(s).op # "packet_write"
        /\ load_data(s).op # "packet_write" /\ print_uart_data(s).op # "packet_write"
        /\ NoCommand(s).op # "packet_write"
    BY DEF load_sancus_module, print_sancus_module_identity, load_data, print_uart_data, NoCommand, Does
  <2>2. call_sancus_module(s).op # "packet_write"
    BY DEF call_sancus_module, Does
  <2>3. PICK b : b = data[1]
    OBVIOUS
  <2>4. Dispatch(data) = CASE b = 0 -> echo(s)
                           [] b = 1 -> load_sancus_module(s)
                           [] b = 2 -> call_sancus_module(s)
                           [] b = 3 -> print_sancus_module_identity(s)
                           [] b = 4 -> load_data(s)
                           [] b = 6 -> print_uart_data(s)
                           [] OTHER -> NoCommand(s)
    BY <1>1, <1>2, <2>3, DispatchIs
  <2> QED BY <2>1, <2>2, <2>3, <2>4
<1>4. PICK n, m, p : n = Len(data) /\ p = Part(data, 1, Rest(data, 1)) /\ m = Rest(data, 1)
  OBVIOUS
<1>5. PICK t : t = parse_all_raw_data(s)
  OBVIOUS
<1>6. t = At(data, n, Append(<<data[1]>>, p)) /\ 1 \in 0..Len(data)
  BY <1>1, <1>2, <1>4, <1>5, AllRawIs
<1>7. t.ok /\ t.values = <<data[1], p>>
  <2>1. Append(<<data[1]>>, p) = <<data[1], p>>
    BY Append1
  <2>2. PICK v : v = Append(<<data[1]>>, p)
    OBVIOUS
  <2>3. t = At(data, n, v)
    BY <1>6, <2>2
  <2>4. t.values = v
    BY <2>3, AtIs
  <2>5. t.ok
    BY <2>3, OkIs
  <2> QED BY <2>1, <2>2, <2>4, <2>5
<1>8. Dispatch(data).bytes = <<p>>
  <2>1. echo(s).bytes = <<t.values[2]>>
    BY <1>5, <1>7 DEF echo, Does
  <2>2. t.values[2] = p
    BY <1>7
  <2> QED BY <1>3, <2>1, <2>2
<1>9. m \in Nat /\ Len(p) = m
  <2>1. m \in Nat
    BY <1>1, <1>4, <1>6, RestIs
  <2>2. p = [k \in 1..m |-> data[1 + k]]
    BY <1>4 DEF Part
  <2> QED BY <2>1, <2>2, SMT
<1> QED BY <1>8, <1>9

\* What a handler gives to packet_write has a length.
LEMMA ReplyIs ==
    ASSUME Types, InboxInv, pc = "command", NEW c, c = arrived[command.id].does,
           NEW result, result \in Results(c), Reply(c, result) # Null
    PROVE  Len(Reply(c, result)) \in Nat
<1>1. command.id \in 1..Len(arrived) /\ IsCommand(command.id)
  <2>1. command.id \in 1..Taken /\ IsCommand(command.id)
    BY DEF InboxInv, IsTaken
  <2>2. Taken \in Nat /\ Len(arrived) \in Nat /\ Taken <= Len(arrived)
    <3>1. arrived \in Seq(Arrival) /\ inbox \in Seq(AllFrames) /\ Len(inbox) <= Len(arrived)
      BY DEF Types, InboxInv
    <3>2. Len(arrived) \in Nat /\ Len(inbox) \in Nat
      BY <3>1, LenProperties
    <3> QED BY <3>1, <3>2 DEF Taken
  <2> QED BY <2>1, <2>2
<1>2. PICK r : r = Reply(c, result)
  OBVIOUS
<1>3. CASE c.op = "packet_write"
  <2>1. r = c.bytes[1]
    BY <1>2, <1>3 DEF Reply
  <2> QED BY <1>1, <1>2, <1>3, <2>1, CommandIs, EchoIs
<1>4. CASE c.op = "sm_load"
  <2>1. r = <<result \div 256, result % 256>>
    BY <1>2, <1>4 DEF Reply
  <2> QED BY <1>2, <2>1
<1>5. CASE c.op = "sm_get_by_id" /\ Target(c) # {}
  <2>1. PICK m : m = CHOOSE x \in Target(c) : TRUE
    OBVIOUS
  <2>2. m \in Target(c) /\ r = Text[m]
    BY <1>2, <1>5, <2>1 DEF Reply
  <2>3. m \in Modules
    <3>1. m \in Table!Found(c.numbers[1])
      BY <2>2 DEF Target
    <3>2. PICK i \in DOMAIN sms : m = sms[i].module
      BY <3>1 DEF Table!Found
    <3>3. sms[i] \in [id : Ids, module : Modules]
      <4>1. PICK R : R = [id : Ids, module : Modules]
        OBVIOUS
      <4>2. sms \in Seq(R)
        BY <4>1 DEF Types
      <4>3. sms[i] \in R
        BY <3>2, <4>2, LenProperties
      <4> QED BY <4>1, <4>3
    <3> QED BY <3>2, <3>3
  <2>4. Text[m] \in Seq(Byte)
    BY <2>3, EventLoopAssumption
  <2> QED BY <1>2, <2>2, <2>4, LenProperties
<1> QED BY <1>2, <1>3, <1>4, <1>5 DEF Reply

-----------------------------------------------------------------------------
(* What the steps that send do. *)

\* A buffer as it should be.
Neat(b) ==
    b \in Seq(AllPieces) /\ Size(b) <= BUF_LEN /\ \A k \in DOMAIN b : b[k].size > 0

\* Pieces are pieces.
LEMMA PieceIs ==
    ASSUME NEW from \in {"reply", "tick", "queue"}, NEW id \in 1..MaxWork,
           NEW part \in 1..(MaxPieces + 1), NEW size \in Nat
    PROVE  LET d == Piece(from, id, part, size) IN
           d \in AllPieces /\ d.from = from /\ d.id = id /\ d.size = size
BY DEF Piece, AllPieces

\* And have a size.
LEMMA PiecesAre ==
    /\ Piecewise(AllPieces) /\ BUF_LEN \in Nat /\ Null \notin AllPieces
    /\ \A d \in AllPieces : d.size \in Nat /\ d.id \in Nat
    /\ 1 \in 1..(MaxPieces + 1) /\ 1..MaxWork \subseteq Nat
<1>1. Piecewise(AllPieces) /\ \A d \in AllPieces : d.size \in Nat
  BY DEF Piecewise, AllPieces
<1>2. BUF_LEN \in Nat
  BY PacketAssumption
<1>3. MaxWork \in Nat /\ MaxPieces \in Nat
  BY EventLoopAssumption
<1>4. 1..MaxWork \subseteq Nat /\ 1..(MaxPieces + 1) \subseteq Nat /\ 1 \in 1..(MaxPieces + 1)
  BY <1>3
<1>5. \A d \in AllPieces : d.id \in Nat
  BY <1>4 DEF AllPieces
<1>6. AllPieces \subseteq [from : {"reply", "tick", "queue"}, id : Nat, part : Nat, size : Nat]
  BY <1>4 DEF AllPieces
<1> QED BY <1>1, <1>2, <1>4, <1>5, <1>6, EventLoopAssumption

\* Nothing has no size.
LEMMA EmptyIs == Size(<< >>) = 0 /\ << >> \in Seq(AllPieces) /\ Neat(<< >>)
<1>1. PICK e : e = << >>
  OBVIOUS
<1>2. e \in Seq(AllPieces)
  BY <1>1
<1>3. Size(e) = 0
  BY <1>1, <1>2, PiecesAre, SizeIs
<1>4. Size(e) <= BUF_LEN /\ \A k \in DOMAIN e : e[k].size > 0
  BY <1>1, <1>3, PiecesAre
<1> QED BY <1>1, <1>2, <1>3, <1>4 DEF Neat

\* An empty buffer, and one with a piece more.
LEMMA NeatIs ==
    ASSUME NEW b, Neat(b), NEW d \in AllPieces
    PROVE  /\ Neat(<< >>) /\ Size(<< >>) = 0 /\ (Size(b) = 0 <=> b = << >>)
           /\ Fits(<< >>, d) <=> d.size <= BUF_LEN
           /\ Fits(b, d) => Neat(Copied(b, d))
           /\ Copied(b, d) = IF d.size = 0 THEN b ELSE Append(b, d)
           /\ Append(<< >>, d) = <<d>>
<1>1. Size(<< >>) = 0 /\ << >> \in Seq(AllPieces)
  BY EmptyIs
<1>2. Neat(<< >>)
  BY EmptyIs
<1>3. Size(b) = 0 <=> b = << >>
  BY PiecesAre, SizeZero DEF Neat
<1>4. Fits(<< >>, d) <=> d.size <= BUF_LEN
  BY <1>1, PiecesAre DEF Fits
<1>5. Copied(b, d) = IF d.size = 0 THEN b ELSE Append(b, d)
  BY DEF Copied
<1>6. ASSUME Fits(b, d), d.size # 0
      PROVE  Neat(Append(b, d))
  <2>1. b \in Seq(AllPieces) /\ \A k \in DOMAIN b : b[k].size > 0
    BY DEF Neat
  <2>2. Size(Append(b, d)) <= BUF_LEN
    BY <1>6, <2>1, PiecesAre, SizeAppend DEF Fits
  <2>3. d.size > 0
    BY <1>6, PiecesAre
  <2>4. /\ Append(b, d) \in Seq(AllPieces)
        /\ \A k \in DOMAIN Append(b, d) : \/ k \in DOMAIN b /\ Append(b, d)[k] = b[k]
                                          \/ Append(b, d)[k] = d
    <3>1. PICK S : S = AllPieces
      OBVIOUS
    <3>2. b \in Seq(S) /\ d \in S
      BY <2>1, <3>1
    <3> QED BY <3>1, <3>2, LonerIs
  <2> QED BY <2>1, <2>2, <2>3, <2>4, Zenon DEF Neat
<1>7. Append(<< >>, d) = <<d>>
  OBVIOUS
<1> QED BY <1>1, <1>2, <1>3, <1>4, <1>5, <1>6, <1>7

\* A reply is copied, or sent by itself, or not at all.
LEMMA RunSends ==
    ASSUME Types, BufferInv, InboxInv, BuildInv, RunCommand
    PROVE  /\ pc = "command" /\ buf = << >> /\ pieces = << >>
           /\ \/ buf' = << >> /\ sent' = sent /\ pieces' = << >>
              \/ \E d \in AllPieces :
                    /\ d.from = "reply" /\ d.id = command.id /\ pieces' = <<d>>
                    /\ \/ buf' = << >> /\ sent' = sent /\ d.size \notin 1..BUF_LEN
                       \/ buf' = <<d>> /\ sent' = sent /\ d.size \in 1..BUF_LEN
                       \/ buf' = << >> /\ sent' = Append(sent, Of(Null, <<d>>)) /\ d.size > BUF_LEN
<1>1. pc = "command" /\ buf = << >> /\ pieces = << >>
  BY DEF RunCommand, BuildInv
<1>2. PICK c, result, reply :
         /\ c = arrived[command.id].does /\ result \in Results(c) /\ reply = Reply(c, result)
         /\ IF reply = Null THEN UNCHANGED <<sendVars, pieces>>
            ELSE LET d == Piece("reply", command.id, 1, Len(reply)) IN
                 /\ \E o \in WriteOutcomes(buf, d) : Sends(o)
                 /\ pieces' = <<d>>
  BY DEF RunCommand
<1>3. CASE reply = Null
  BY <1>1, <1>2, <1>3 DEF sendVars
<1>4. CASE reply # Null
  <2>1. Len(reply) \in Nat
    BY <1>1, <1>2, <1>4, ReplyIs
  <2>2. command.id \in 1..MaxWork
    <3>1. command \in AllFrames
      BY <1>1 DEF Types, InboxInv
    <3> QED BY <3>1 DEF AllFrames
  <2>3. PICK d : d = Piece("reply", command.id, 1, Len(reply))
    OBVIOUS
  <2>4. d \in AllPieces /\ d.from = "reply" /\ d.id = command.id
    BY <2>1, <2>2, <2>3, PieceIs, PiecesAre
  <2>5. PICK o \in WriteOutcomes(buf, d) : Sends(o)
    BY <1>2, <1>4, <2>3
  <2>6. pieces' = <<d>>
    BY <1>2, <1>4, <2>3
  <2>7. buf' = o.buf /\ sent' = sent \o o.frames /\ sent \in Seq(Frame) /\ Neat(buf)
    BY <2>5 DEF Sends, Types, Neat, BufferInv
  <2>8. /\ Size(buf) = 0 /\ (Fits(buf, d) <=> d.size <= BUF_LEN)
        /\ Copied(buf, d) = IF d.size = 0 THEN << >> ELSE <<d>>
    BY <1>1, <2>4, <2>7, NeatIs
  <2>9. \/ Fits(buf, d) /\ buf' = Copied(buf, d) /\ sent' = sent
        \/ ~Fits(buf, d) /\ buf' = buf /\ sent' = sent
        \/ ~Fits(buf, d) /\ buf' = buf /\ sent' = Append(sent, Of(Null, <<d>>))
    <3>1. buf \in Seq(AllPieces)
      BY <2>7 DEF Neat
    <3>3. \/ o.ok /\ Fits(buf, d) /\ o.buf = Copied(buf, d) /\ sent \o o.frames = sent
          \/ ~o.ok /\ ~Fits(buf, d) /\ o.buf = buf /\ sent \o o.frames = sent
          \/ o.ok /\ ~Fits(buf, d) /\ Size(buf) = 0 /\ o.buf = buf /\ sent \o o.frames = Append(sent, Of(Null, <<d>>))
          \/ /\ o.ok /\ ~Fits(buf, d) /\ Size(buf) # 0 /\ Fits(<< >>, d)
             /\ o.buf = Copied(<< >>, d) /\ sent \o o.frames = Append(sent, Of(0, buf))
          \/ /\ o.ok /\ ~Fits(buf, d) /\ Size(buf) # 0 /\ ~Fits(<< >>, d)
             /\ o.buf = << >> /\ sent \o o.frames = Append(Append(sent, Of(0, buf)), Of(Null, <<d>>))
          \/ /\ ~o.ok /\ ~Fits(buf, d) /\ Size(buf) # 0 /\ ~Fits(<< >>, d)
             /\ o.buf = << >> /\ sent \o o.frames = Append(sent, Of(0, buf))
      BY <2>4, <2>5, <2>7, <3>1, WriteIs
    <3> QED BY <2>7, <2>8, <3>3
  <2>10. d.size \in Nat /\ BUF_LEN \in Nat
    BY <2>4, PiecesAre
  <2>11. CASE Fits(buf, d) /\ buf' = Copied(buf, d) /\ sent' = sent
    BY <1>1, <2>4, <2>6, <2>8, <2>10, <2>11
  <2>12. CASE ~Fits(buf, d) /\ buf' = buf /\ sent' = sent
    BY <1>1, <2>4, <2>6, <2>8, <2>10, <2>12
  <2>13. CASE ~Fits(buf, d) /\ buf' = buf /\ sent' = Append(sent, Of(Null, <<d>>))
    <3>1. d.size > BUF_LEN /\ buf' = << >>
      BY <1>1, <2>8, <2>10, <2>13
    <3> QED BY <1>1, <2>4, <2>6, <2>13, <3>1, Zenon
  <2> QED BY <2>9, <2>11, <2>12, <2>13
<1> QED BY <1>3, <1>4

\* A piece that the callback writes is copied, with or without a flush; or
\* sent by itself; or the packet is given up.
TickWrote(d) ==
    /\ d \in AllPieces /\ d.from = "tick" /\ d.id = ticks
    /\ pc = "write" /\ Neat(buf')
    /\ \/ /\ pc' = "write" /\ pieces' = Append(pieces, d)
          /\ \/ sent' = sent /\ buf' = (IF d.size = 0 THEN buf ELSE Append(buf, d))
             \/ d.size > BUF_LEN /\ buf' = << >> /\ sent' = Append(sent, Of(Null, <<d>>))
             \/ /\ d.size \in 1..BUF_LEN /\ buf # << >> /\ buf' = <<d>>
                /\ sent' = Append(sent, Of(0, buf))
             \/ /\ d.size > BUF_LEN /\ buf # << >> /\ buf' = << >>
                /\ sent' = Append(Append(sent, Of(0, buf)), Of(Null, <<d>>))
       \/ /\ pc' = "tick" /\ pieces' = << >>
          /\ \/ sent' = sent /\ buf' = buf
             \/ buf # << >> /\ buf' = << >> /\ sent' = Append(sent, Of(0, buf))

\* That is what packet_write does for the callback.
LEMMA TickSends ==
    ASSUME Types, BufferInv, NEW size \in Sizes, TickWrite(size)
    PROVE  \E d : TickWrote(d)
<1>1. pc = "write" /\ Len(pieces) < MaxPieces
  BY DEF TickWrite
<1>2. PICK d : d = Piece("tick", ticks, Len(pieces) + 1, size)
  OBVIOUS
<1>3. PICK o \in WriteOutcomes(buf, d) :
         /\ Sends(o)
         /\ pieces' = (IF o.ok THEN Append(pieces, d) ELSE << >>)
         /\ pc' = (IF o.ok THEN "write" ELSE "tick")
  BY <1>2 DEF TickWrite
<1>4. d \in AllPieces /\ d.from = "tick" /\ d.id = ticks
  <2>1. Len(pieces) + 1 \in 1..(MaxPieces + 1) /\ size \in Nat
    <3>1. Len(pieces) \in Nat
      BY LenProperties DEF Types
    <3> QED BY <1>1, <3>1, EventLoopAssumption
  <2>2. ticks \in 1..MaxWork
    <3>1. ticks \in Nat /\ ticks # 0 /\ Len(arrived) + ticks <= MaxWork /\ arrived \in Seq(Arrival)
      BY <1>1 DEF Types
    <3>2. Len(arrived) \in Nat
      BY <3>1, LenProperties
    <3> QED BY <3>1, <3>2, EventLoopAssumption
  <2> QED BY <1>2, <2>1, <2>2, PieceIs
<1>5. buf' = o.buf /\ sent' = sent \o o.frames /\ sent \in Seq(Frame) /\ Neat(buf)
  BY <1>3 DEF Sends, Types, Neat, BufferInv
<1>6. /\ Neat(<< >>) /\ (Size(buf) = 0 <=> buf = << >>) /\ (Fits(<< >>, d) <=> d.size <= BUF_LEN)
      /\ Fits(buf, d) => Neat(Copied(buf, d))
      /\ Copied(buf, d) = IF d.size = 0 THEN buf ELSE Append(buf, d)
  BY <1>4, <1>5, NeatIs
<1>7. /\ Fits(<< >>, d) => Neat(Copied(<< >>, d))
      /\ Copied(<< >>, d) = IF d.size = 0 THEN << >> ELSE <<d>>
  BY <1>4, <1>6, NeatIs
<1>8. d.size \in Nat /\ BUF_LEN \in Nat
  BY <1>4, PiecesAre
<1>9. buf \in Seq(AllPieces)
  BY <1>5 DEF Neat
<1>10. CASE o.ok /\ Fits(buf, d) /\ o.buf = Copied(buf, d) /\ sent' = sent
  BY <1>1, <1>3, <1>4, <1>5, <1>6, <1>10 DEF TickWrote
<1>11. CASE ~o.ok /\ ~Fits(buf, d) /\ o.buf = buf /\ sent' = sent
  BY <1>1, <1>3, <1>4, <1>5, <1>11 DEF TickWrote
<1>12. CASE /\ o.ok /\ ~Fits(buf, d) /\ Size(buf) = 0 /\ o.buf = buf
            /\ sent' = Append(sent, Of(Null, <<d>>))
  <2>1. buf = << >> /\ d.size > BUF_LEN
    BY <1>6, <1>8, <1>12
  <2> QED BY <1>1, <1>3, <1>4, <1>5, <1>6, <1>12, <2>1 DEF TickWrote
<1>13. CASE /\ o.ok /\ ~Fits(buf, d) /\ Size(buf) # 0 /\ Fits(<< >>, d)
            /\ o.buf = Copied(<< >>, d) /\ sent' = Append(sent, Of(0, buf))
  <2>1. d.size # 0
    <3>1. Size(buf) <= BUF_LEN /\ Size(buf) \in Nat
      BY <1>5, PiecesAre, SizeIs DEF Neat
    <3> QED BY <1>8, <1>13, <3>1 DEF Fits
  <2>2. d.size \in 1..BUF_LEN /\ buf # << >> /\ buf' = <<d>>
    BY <1>5, <1>6, <1>7, <1>8, <1>13, <2>1
  <2> QED BY <1>1, <1>3, <1>4, <1>5, <1>7, <1>13, <2>2 DEF TickWrote
<1>14. CASE /\ o.ok /\ ~Fits(buf, d) /\ Size(buf) # 0 /\ ~Fits(<< >>, d) /\ o.buf = << >>
            /\ sent' = Append(Append(sent, Of(0, buf)), Of(Null, <<d>>))
  <2>1. d.size > BUF_LEN /\ buf # << >> /\ buf' = << >>
    BY <1>5, <1>6, <1>8, <1>14
  <2> QED BY <1>1, <1>3, <1>4, <1>6, <1>14, <2>1 DEF TickWrote
<1>15. CASE /\ ~o.ok /\ ~Fits(buf, d) /\ Size(buf) # 0 /\ ~Fits(<< >>, d)
            /\ o.buf = << >> /\ sent' = Append(sent, Of(0, buf))
  <2>1. buf # << >> /\ buf' = << >>
    BY <1>5, <1>6, <1>15
  <2> QED BY <1>1, <1>3, <1>4, <1>6, <1>15, <2>1 DEF TickWrote
<1>17. \/ o.ok /\ Fits(buf, d) /\ o.buf = Copied(buf, d) /\ sent \o o.frames = sent
       \/ ~o.ok /\ ~Fits(buf, d) /\ o.buf = buf /\ sent \o o.frames = sent
       \/ o.ok /\ ~Fits(buf, d) /\ Size(buf) = 0 /\ o.buf = buf /\ sent \o o.frames = Append(sent, Of(Null, <<d>>))
       \/ /\ o.ok /\ ~Fits(buf, d) /\ Size(buf) # 0 /\ Fits(<< >>, d)
          /\ o.buf = Copied(<< >>, d) /\ sent \o o.frames = Append(sent, Of(0, buf))
       \/ /\ o.ok /\ ~Fits(buf, d) /\ Size(buf) # 0 /\ ~Fits(<< >>, d)
          /\ o.buf = << >> /\ sent \o o.frames = Append(Append(sent, Of(0, buf)), Of(Null, <<d>>))
       \/ /\ ~o.ok /\ ~Fits(buf, d) /\ Size(buf) # 0 /\ ~Fits(<< >>, d)
          /\ o.buf = << >> /\ sent \o o.frames = Append(sent, Of(0, buf))
  BY <1>3, <1>4, <1>5, <1>9, WriteIs
<1> QED BY <1>5, <1>10, <1>11, <1>12, <1>13, <1>14, <1>15, <1>17

\* packet_finish sends what there is, or fails.
LEMMA FinishSends ==
    ASSUME Types, BufferInv, Finish
    PROVE  /\ pieces' = << >> /\ Neat(buf')
           /\ \/ buf = << >> /\ buf' = << >> /\ sent' = sent /\ finished' = finished \cup {pieces}
              \/ /\ buf # << >> /\ buf' = << >> /\ sent' = Append(sent, Of(1, buf))
                 /\ finished' = finished \cup {pieces}
              \/ buf # << >> /\ buf' = buf /\ sent' = sent /\ finished' = finished
<1>1. PICK o \in flush_buffer(buf, 1) :
         /\ Sends(o) /\ finished' = (IF o.ok THEN finished \cup {pieces} ELSE finished)
         /\ pieces' = << >>
  BY DEF Finish
<1>2. buf' = o.buf /\ sent' = sent \o o.frames /\ sent \in Seq(Frame) /\ Neat(buf) /\ buf \in Seq(AllPieces)
  BY <1>1 DEF Sends, Types, Neat, BufferInv
<1>3. (Size(buf) = 0 <=> buf = << >>) /\ Neat(<< >>)
  <2>1. Size(buf) = 0 <=> buf = << >>
    BY <1>2, PiecesAre, SizeZero DEF Neat
  <2>2. Neat(<< >>)
    BY EmptyIs
  <2> QED BY <2>1, <2>2
<1>4. \/ Size(buf) = 0 /\ o.ok /\ o.buf = buf /\ sent' = sent
      \/ Size(buf) # 0 /\ o.ok /\ o.buf = << >> /\ sent' = Append(sent, Of(1, buf))
      \/ Size(buf) # 0 /\ ~o.ok /\ o.buf = buf /\ sent' = sent
  <2>1. PICK h : h = 1
    OBVIOUS
  <2>2. h \in {0, 1} /\ o \in flush_buffer(buf, h)
    BY <2>1
  <2>3. \/ Size(buf) = 0 /\ o.ok /\ o.buf = buf /\ sent \o o.frames = sent
        \/ Size(buf) # 0 /\ o.ok /\ o.buf = << >> /\ sent \o o.frames = Append(sent, Of(h, buf))
        \/ Size(buf) # 0 /\ ~o.ok /\ o.buf = buf /\ sent \o o.frames = sent
    BY <1>2, <2>2, FlushIs
  <2> QED BY <1>2, <2>1, <2>3
<1> QED BY <1>1, <1>2, <1>3, <1>4

\* The queued packet is sent in a frame of its own, or kept.
LEMMA QueuedSends ==
    ASSUME Types, BufferInv, SendQueued
    PROVE  /\ pc = "queued" /\ Neat(buf')
           /\ \/ sent' = sent /\ queue' = queue
              \/ /\ queue \in AllPieces /\ queue' = Null
                 /\ \/ sent' = sent /\ queue.size = 0
                    \/ sent' = Append(sent, Of(1, <<queue>>)) /\ queue.size \in 1..BUF_LEN
                    \/ sent' = Append(sent, Of(Null, <<queue>>)) /\ queue.size > BUF_LEN
<1>1. pc = "queued" /\ packet_send_queued
  BY DEF SendQueued
<1>2. Neat(buf)
  BY DEF Types, Neat, BufferInv
<1>3. CASE queue = Null
  <2>1. buf' = buf /\ sent' = sent /\ queue' = queue
    BY <1>1, <1>3 DEF packet_send_queued
  <2> QED BY <1>1, <1>2, <2>1
<1>4. CASE queue # Null
  <2>1. queue \in AllPieces
    BY <1>4 DEF Types
  <2>2. PICK o \in WholeOutcomes(queue) : Sends(o) /\ queue' = QueueAfter(o)
    BY <1>1, <1>4 DEF packet_send_queued
  <2>3. /\ buf' = o.buf /\ sent' = sent \o o.frames /\ sent \in Seq(Frame)
        /\ queue' = IF o.ok THEN Null ELSE queue
    BY <2>2 DEF Sends, QueueAfter, Types
  <2>4. Neat(<< >>) /\ (queue.size \in 1..BUF_LEN => Neat(<<queue>>))
    <3>1. PICK e, d : e = << >> /\ d = queue
      OBVIOUS
    <3>2. Neat(e)
      BY <1>2, <2>1, <3>1, NeatIs
    <3>3. d.size \in 1..BUF_LEN => Fits(e, d) /\ Copied(e, d) = <<d>>
      <4>1. d.size \in Nat /\ BUF_LEN \in Nat /\ d \in AllPieces
        BY <2>1, <3>1, PiecesAre
      <4>2. (Fits(e, d) <=> d.size <= BUF_LEN) /\ Copied(e, d) = IF d.size = 0 THEN e ELSE <<d>>
        BY <3>1, <3>2, <4>1, NeatIs
      <4> QED BY <4>1, <4>2
    <3> QED BY <2>1, <3>1, <3>2, <3>3, NeatIs
  <2>5. \/ ~o.ok /\ sent' = sent /\ (o.buf = << >> \/ (o.buf = <<queue>> /\ queue.size \in 1..BUF_LEN))
        \/ o.ok /\ o.buf = << >> /\ queue.size = 0 /\ sent' = sent
        \/ o.ok /\ o.buf = << >> /\ queue.size \in 1..BUF_LEN /\ sent' = Append(sent, Of(1, <<queue>>))
        \/ o.ok /\ o.buf = << >> /\ queue.size > BUF_LEN /\ sent' = Append(sent, Of(Null, <<queue>>))
    <3>2. PICK d : d = queue
      OBVIOUS
    <3>3. \/ ~o.ok /\ sent \o o.frames = sent /\ (o.buf = << >> \/ (o.buf = <<d>> /\ d.size \in 1..BUF_LEN))
          \/ o.ok /\ o.buf = << >> /\ d.size = 0 /\ sent \o o.frames = sent
          \/ o.ok /\ o.buf = << >> /\ d.size \in 1..BUF_LEN /\ sent \o o.frames = Append(sent, Of(1, <<d>>))
          \/ o.ok /\ o.buf = << >> /\ d.size > BUF_LEN /\ sent \o o.frames = Append(sent, Of(Null, <<d>>))
      BY <2>1, <2>2, <2>3, <3>2, WholeIs
    <3> QED BY <2>3, <3>2, <3>3
  <2> QED BY <1>1, <2>1, <2>3, <2>4, <2>5
<1> QED BY <1>3, <1>4

-----------------------------------------------------------------------------
(* Types and the buffer. *)

\* The steps that send nothing.
Quiet ==
    /\ sent' = sent /\ finished' = finished
    /\ \/ /\ buf' = buf /\ pieces' = pieces
          /\ \/ pc' \notin {"command", "finish", "write"}
             \/ UNCHANGED <<pc, command, ticks>>
       \/ /\ buf' = << >> /\ pieces' = << >>
          /\ \/ pc = "start" /\ pc' = "command" /\ command' = command
             \/ pc = "tick" /\ pc' = "write" /\ ticks' = ticks + 1

\* A step sends nothing, or is one of those that send.
LEMMA Sending ==
    ASSUME [Next]_vars
    PROVE  \/ Quiet
           \/ RunCommand
           \/ FinishCommand \/ TickFinish
           \/ \E size \in Sizes : TickWrite(size)
           \/ SendQueued
<1>1. CASE UNCHANGED vars
  BY <1>1 DEF vars, packetVars, history, Quiet
<1>2. ASSUME NEW f \in Incoming, FrameArrives(f)
      PROVE  Quiet
  BY <1>2 DEF FrameArrives, Quiet
<1>3. CASE Poll
  BY <1>3 DEF Poll, packet_available, Quiet
<1>4. CASE GetCommand
  BY <1>4 DEF GetCommand, packet_get_next, history, Quiet
<1>5. CASE StartReply
  BY <1>5 DEF StartReply, packet_start, Quiet
<1>6. CASE TickStart
  BY <1>6 DEF TickStart, packet_start, Quiet
<1>7. CASE TickReturns
  BY <1>7 DEF TickReturns, packetVars, history, Quiet
<1>8. ASSUME NEW size \in Sizes, TickQueue(size)
      PROVE  Quiet
  BY <1>8 DEF TickQueue, packet_queue, Quiet
<1> QED BY <1>1, <1>2, <1>3, <1>4, <1>5, <1>6, <1>7, <1>8 DEF Next, Loop, HandleCommand, Tick

\* Only commands are done, and register modules.
LEMMA Doing ==
    ASSUME [Next]_vars
    PROVE  UNCHANGED <<done, sms>> \/ RunCommand
<1>1. CASE UNCHANGED vars
  BY <1>1 DEF vars, history
<1>2. ASSUME NEW f \in Incoming, FrameArrives(f)
      PROVE  UNCHANGED <<done, sms>>
  BY <1>2 DEF FrameArrives
<1>3. CASE Poll
  BY <1>3 DEF Poll
<1>4. CASE GetCommand
  BY <1>4 DEF GetCommand, history
<1>5. CASE StartReply
  BY <1>5 DEF StartReply
<1>6. CASE TickStart \/ TickFinish \/ TickReturns
  BY <1>6 DEF TickStart, TickFinish, TickReturns, history
<1>7. ASSUME NEW size \in Sizes, TickWrite(size) \/ TickQueue(size)
      PROVE  UNCHANGED <<done, sms>>
  BY <1>7 DEF TickWrite, TickQueue
<1>8. CASE FinishCommand \/ SendQueued
  BY <1>8 DEF FinishCommand, SendQueued, history
<1> QED BY <1>1, <1>2, <1>3, <1>4, <1>5, <1>6, <1>7, <1>8 DEF Next, Loop, HandleCommand, Tick

\* Only the callback queues, and only the loop sends what is queued.
LEMMA Queueing ==
    ASSUME [Next]_vars
    PROVE  \/ UNCHANGED <<queue, accepted>>
           \/ SendQueued /\ accepted' = accepted
           \/ \E size \in Sizes : TickQueue(size)
<1>1. CASE UNCHANGED vars
  BY <1>1 DEF vars, packetVars, history
<1>2. ASSUME NEW f \in Incoming, FrameArrives(f)
      PROVE  UNCHANGED <<queue, accepted>>
  BY <1>2 DEF FrameArrives
<1>3. CASE Poll
  BY <1>3 DEF Poll, packet_available
<1>4. CASE GetCommand
  BY <1>4 DEF GetCommand, packet_get_next, history
<1>5. CASE StartReply \/ RunCommand \/ FinishCommand
  BY <1>5 DEF StartReply, RunCommand, FinishCommand
<1>6. CASE TickStart \/ TickFinish \/ TickReturns
  BY <1>6 DEF TickStart, TickFinish, TickReturns, packetVars, history
<1>7. ASSUME NEW size \in Sizes, TickWrite(size)
      PROVE  UNCHANGED <<queue, accepted>>
  BY <1>7 DEF TickWrite
<1>8. CASE SendQueued
  BY <1>8 DEF SendQueued, history
<1> QED BY <1>1, <1>2, <1>3, <1>4, <1>5, <1>6, <1>7, <1>8 DEF Next, Loop, HandleCommand, Tick

\* The counts stay in their bounds.
LEMMA CountsNext ==
    ASSUME Types, [Next]_vars
    PROVE  /\ arrived' \in Seq(Arrival) /\ ticks' \in Nat /\ Len(arrived)' + ticks' <= MaxWork
           /\ pc' \in {"poll", "get", "start", "command", "finish", "tick", "write", "queued"}
           /\ pc' = "write" => ticks' # 0
<1>1. arrived \in Seq(Arrival) /\ ticks \in Nat /\ Len(arrived) + ticks <= MaxWork /\ MaxWork \in Nat
  BY EventLoopAssumption DEF Types
<1>2. Len(arrived) \in Nat
  BY <1>1, LenProperties
<1>3. ASSUME NEW f \in Incoming, FrameArrives(f)
      PROVE  /\ arrived' \in Seq(Arrival) /\ Len(arrived)' + ticks' <= MaxWork
             /\ ticks' = ticks /\ pc' = "poll"
  <2>1. arrived' \in Seq(Arrival) /\ Len(arrived)' = Len(arrived) + 1
    BY <1>1, <1>3, ArrivedIs DEF FrameArrives
  <2>2. Len(arrived) + ticks < MaxWork /\ ticks' = ticks /\ pc' = "poll"
    BY <1>3 DEF FrameArrives
  <2> QED BY <1>1, <1>2, <2>1, <2>2
<1>4. CASE Poll
  BY <1>1, <1>4 DEF Poll
<1>5. CASE GetCommand
  BY <1>1, <1>5 DEF GetCommand, history
<1>6. CASE UNCHANGED <<arrived, inbox, received_packet>> /\ Goes
  <2>1. arrived' = arrived
    BY <1>6
  <2>2. ticks' = ticks \/ (ticks' = ticks + 1 /\ Len(arrived) + ticks < MaxWork)
    BY <1>6 DEF Goes
  <2>3. ticks' \in Nat /\ Len(arrived) + ticks' <= MaxWork
    BY <1>1, <1>2, <2>2
  <2>4. pc' \in {"poll", "get", "start", "command", "finish", "tick", "write", "queued"}
    BY <1>6 DEF Goes, Types
  <2>5. pc' = "write" => (pc = "write" /\ ticks' = ticks) \/ ticks' = ticks + 1
    BY <1>6 DEF Goes
  <2>6. pc' = "write" => ticks' # 0
    BY <1>1, <2>5 DEF Types
  <2> QED BY <1>1, <2>1, <2>3, <2>4, <2>6
<1> QED BY <1>1, <1>3, <1>4, <1>5, <1>6, Control DEF Types

\* Frames are frames.
LEMMA FramesNext ==
    ASSUME Types, [Next]_vars
    PROVE  inbox' \in Seq(AllFrames) /\ {received_packet, command}' \subseteq AllFrames \cup {Null}
<1>1. inbox \in Seq(AllFrames) /\ {received_packet, command} \subseteq AllFrames \cup {Null}
  BY DEF Types
<1>2. ASSUME NEW f \in Incoming, FrameArrives(f)
      PROVE  inbox' \in Seq(AllFrames) /\ received_packet' = received_packet /\ command' = command
  <2>1. PICK n, m : n = Len(arrived) + 1 /\ m = Len(f.data) + 1
    OBVIOUS
  <2>2. n \in 1..MaxWork
    <3>1. Len(arrived) \in Nat /\ ticks \in Nat /\ MaxWork \in Nat
      BY LenProperties, EventLoopAssumption DEF Types
    <3> QED BY <1>2, <2>1, <3>1 DEF FrameArrives
  <2>3. m \in Nat /\ f.header \in {0, 1}
    <3>1. f.data \in Seq(Byte) /\ f.header \in {0, 1}
      BY EventLoopAssumption
    <3>2. Len(f.data) \in Nat
      BY <3>1, LenProperties
    <3> QED BY <2>1, <3>1, <3>2
  <2>4. [id |-> n, header |-> f.header, size |-> m] \in AllFrames
    BY <2>2, <2>3 DEF AllFrames
  <2>5. inbox' = Append(inbox, [id |-> n, header |-> f.header, size |-> m])
    BY <1>2, <2>1 DEF FrameArrives
  <2> QED BY <1>1, <1>2, <2>4, <2>5, AppendProperties DEF FrameArrives
<1>3. CASE Poll
  <2>1. CASE UNCHANGED <<received_packet, inbox>>
    BY <1>1, <1>3, <2>1 DEF Poll
  <2>2. CASE /\ inbox # << >> /\ inbox' = Tail(inbox)
             /\ received_packet' \in IF IsPacket(Head(inbox)) THEN {Head(inbox), Null} ELSE {Null}
    <3>1. Tail(inbox) \in Seq(AllFrames) /\ Head(inbox) \in AllFrames
      <4>1. PICK S : S = AllFrames
        OBVIOUS
      <4>2. inbox \in Seq(S)
        BY <1>1, <4>1
      <4> QED BY <2>2, <4>1, <4>2, SMT
    <3> QED BY <1>1, <1>3, <2>2, <3>1 DEF Poll
  <2> QED BY <1>3, <2>1, <2>2 DEF Poll, packet_available
<1>4. CASE GetCommand
  BY <1>1, <1>4 DEF GetCommand, packet_get_next, history
<1>5. CASE UNCHANGED <<arrived, inbox, received_packet>> /\ Goes
  BY <1>1, <1>5 DEF Goes
<1> QED BY <1>1, <1>2, <1>3, <1>4, <1>5, Control DEF Types

\* What is sent are frames of pieces.
LEMMA PiecesNext ==
    ASSUME Types, BufferInv, InboxInv, BuildInv, [Next]_vars
    PROVE  /\ BufferInv' /\ buf' \in Seq(AllPieces) /\ pieces' \in Seq(AllPieces)
           /\ sent' \in Seq(Frame) /\ finished' \subseteq Seq(AllPieces)
<1>1. /\ Neat(buf) /\ buf \in Seq(AllPieces) /\ pieces \in Seq(AllPieces)
      /\ sent \in Seq(Frame) /\ finished \subseteq Seq(AllPieces)
  BY DEF Types, BufferInv, Neat
<1>2. Neat(buf') => BufferInv' /\ buf' \in Seq(AllPieces)
  BY DEF Neat, BufferInv
<1>3. \A d \in AllPieces : <<d>> \in Seq(AllPieces) /\ Neat(<< >>) /\ << >> \in Seq(AllPieces)
                             /\ (d.size \in 1..BUF_LEN => Neat(<<d>>))
  <2> SUFFICES ASSUME NEW d \in AllPieces
               PROVE  <<d>> \in Seq(AllPieces) /\ Neat(<< >>) /\ << >> \in Seq(AllPieces)
                        /\ (d.size \in 1..BUF_LEN => Neat(<<d>>))
    OBVIOUS
  <2>1. PICK e : e = << >>
    OBVIOUS
  <2>2. Neat(e) /\ <<d>> \in Seq(AllPieces)
    BY <2>1, EmptyIs
  <2>3. d.size \in Nat /\ BUF_LEN \in Nat
    BY PiecesAre
  <2>4. d.size \in 1..BUF_LEN => Fits(e, d) /\ Copied(e, d) = <<d>>
    <3>1. (Fits(e, d) <=> d.size <= BUF_LEN) /\ Copied(e, d) = IF d.size = 0 THEN e ELSE <<d>>
      BY <2>1, <2>2, NeatIs
    <3> QED BY <2>3, <3>1
  <2>5. d.size \in 1..BUF_LEN => Neat(<<d>>)
    BY <2>2, <2>4, NeatIs
  <2> QED BY <2>2, <2>5, EmptyIs
<1>4. \A b \in Seq(AllPieces) : Of(Null, b) \in Frame /\ Of(0, b) \in Frame /\ Of(1, b) \in Frame
  BY OfIs
<1>5. \A s \in Seq(Frame), f \in Frame : Append(s, f) \in Seq(Frame)
  BY AppendProperties
<1>6. Neat(<< >>) /\ << >> \in Seq(AllPieces)
  BY EmptyIs
<1>7. CASE Quiet
  <2>1. /\ (buf' = buf \/ buf' = << >>) /\ (pieces' = pieces \/ pieces' = << >>)
        /\ sent' = sent /\ finished' = finished
    BY <1>7 DEF Quiet
  <2>2. Neat(buf')
    BY <1>1, <1>6, <2>1
  <2> QED BY <1>1, <1>2, <1>6, <2>1, <2>2
<1>8. CASE RunCommand
  <2>0. finished' = finished
    BY <1>8 DEF RunCommand
  <2>1. CASE buf' = << >> /\ sent' = sent /\ pieces' = << >>
    BY <1>1, <1>2, <1>6, <2>0, <2>1
  <2>2. ASSUME NEW d \in AllPieces, pieces' = <<d>>,
               \/ buf' = << >> /\ sent' = sent
               \/ buf' = <<d>> /\ sent' = sent /\ d.size \in 1..BUF_LEN
               \/ buf' = << >> /\ sent' = Append(sent, Of(Null, <<d>>))
        PROVE  Neat(buf') /\ pieces' \in Seq(AllPieces) /\ sent' \in Seq(Frame)
    BY <1>1, <1>3, <1>4, <1>5, <1>6, <2>2
  <2> QED BY <1>1, <1>2, <1>8, <2>0, <2>1, <2>2, RunSends
<1>9. CASE FinishCommand \/ TickFinish
  <2>1. Finish
    BY <1>9 DEF FinishCommand, TickFinish
  <2>2. pieces' = << >> /\ Neat(buf') /\ sent' \in {sent, Append(sent, Of(1, buf))}
        /\ finished' \in {finished, finished \cup {pieces}}
    BY <2>1, FinishSends
  <2> QED BY <1>1, <1>2, <1>4, <1>5, <1>6, <2>2
<1>10. ASSUME NEW size \in Sizes, TickWrite(size)
       PROVE  Neat(buf') /\ pieces' \in Seq(AllPieces) /\ sent' \in Seq(Frame) /\ finished' = finished
  <2>0. finished' = finished
    BY <1>10 DEF TickWrite
  <2>1. PICK d : TickWrote(d)
    BY <1>10, TickSends
  <2>2. d \in AllPieces /\ Neat(buf') /\ pieces' \in {<< >>, Append(pieces, d)}
    BY <2>1 DEF TickWrote
  <2>3. sent' \in {sent, Append(sent, Of(Null, <<d>>)), Append(sent, Of(0, buf)),
                   Append(Append(sent, Of(0, buf)), Of(Null, <<d>>))}
    BY <2>1 DEF TickWrote
  <2>4. Append(pieces, d) \in Seq(AllPieces)
    BY <1>1, <2>2, AppendProperties
  <2>5. Of(Null, <<d>>) \in Frame /\ Of(0, buf) \in Frame
    BY <1>1, <1>3, <1>4, <2>2
  <2> QED BY <1>1, <1>5, <1>6, <2>0, <2>2, <2>3, <2>4, <2>5
<1>11. CASE SendQueued
  <2>1. finished' = finished /\ pieces' = pieces
    BY <1>11 DEF SendQueued, history
  <2>2. Neat(buf') /\ \/ sent' = sent
                      \/ queue \in AllPieces /\ sent' = Append(sent, Of(1, <<queue>>))
                      \/ queue \in AllPieces /\ sent' = Append(sent, Of(Null, <<queue>>))
    BY <1>11, QueuedSends
  <2> QED BY <1>1, <1>2, <1>3, <1>4, <1>5, <2>1, <2>2
<1> QED BY <1>1, <1>2, <1>7, <1>8, <1>9, <1>10, <1>11, Sending

\* What is queued was taken.
LEMMA AcceptedNext ==
    ASSUME Types, BufferInv, [Next]_vars
    PROVE  accepted' \subseteq AllPieces /\ queue' \in accepted' \cup {Null}
<1>1. accepted \subseteq AllPieces /\ queue \in accepted \cup {Null}
  BY DEF Types
<1>2. CASE SendQueued /\ accepted' = accepted
  <2>1. queue' = queue \/ queue' = Null
    BY <1>2, QueuedSends
  <2> QED BY <1>1, <1>2, <2>1
<1>3. ASSUME NEW size \in Sizes, TickQueue(size)
      PROVE  accepted' \subseteq AllPieces /\ queue' \in accepted' \cup {Null}
  <2>1. PICK d : d = Piece("queue", ticks', 1, size)
    OBVIOUS
  <2>2. PICK ok \in BOOLEAN : /\ queue' = IF ok THEN d ELSE queue
                              /\ accepted' = IF ok THEN accepted \cup {d} ELSE accepted
    BY <1>3, <2>1 DEF TickQueue, packet_queue
  <2>3. d \in AllPieces
    <3>1. ticks' \in 1..MaxWork
      <4>1. ticks \in Nat /\ Len(arrived) \in Nat /\ MaxWork \in Nat
        BY LenProperties, EventLoopAssumption DEF Types
      <4> QED BY <1>3, <4>1 DEF TickQueue
    <3>2. size \in Nat
      BY EventLoopAssumption
    <3> QED BY <2>1, <3>1, <3>2, PieceIs, PiecesAre
  <2> QED BY <1>1, <2>2, <2>3
<1> QED BY <1>1, <1>2, <1>3, Queueing

\* A sequence with one value more.
LEMMA LongerSeq ==
    ASSUME NEW s, IsSeq(s), NEW x
    PROVE  LET t == Append(s, x) IN
           /\ IsSeq(t) /\ Len(s) \in Nat /\ DOMAIN s = 1..Len(s) /\ DOMAIN t = 1..(Len(s) + 1)
           /\ Len(t) = Len(s) + 1 /\ t[Len(s) + 1] = x /\ t # << >>
           /\ \A k \in 1..Len(s) : t[k] = s[k]
           /\ \A k \in DOMAIN t : k \in DOMAIN s \/ k = Len(s) + 1
<1>1. PICK S : s \in Seq(S)
  BY DEF IsSeq
<1>2. PICK R : R = S \cup {x}
  OBVIOUS
<1>3. s \in Seq(R) /\ x \in R
  BY <1>1, <1>2, SMT
<1>4. PICK t : t = Append(s, x)
  OBVIOUS
<1>5. /\ t \in Seq(R) /\ Len(t) = Len(s) + 1 /\ t[Len(s) + 1] = x /\ t # << >>
      /\ \A k \in 1..Len(s) : t[k] = s[k]
  BY <1>3, <1>4, AppendProperties
<1>6. Len(s) \in Nat /\ DOMAIN s = 1..Len(s) /\ DOMAIN t = 1..Len(t)
  BY <1>3, <1>5, LenProperties
<1>7. \A k \in DOMAIN t : k \in DOMAIN s \/ k = Len(s) + 1
  <2>1. PICK n : n = Len(s)
    OBVIOUS
  <2>2. n \in Nat /\ DOMAIN s = 1..n /\ DOMAIN t = 1..(n + 1)
    BY <1>5, <1>6, <2>1
  <2> QED BY <2>1, <2>2
<1> QED BY <1>4, <1>5, <1>6, <1>7 DEF IsSeq

\* The command that is being done arrived.
LEMMA TakenIs ==
    ASSUME Types, InboxInv, pc \in {"start", "command", "finish"}
    PROVE  /\ command.id \in 1..Taken /\ command.id \in 1..Len(arrived) /\ IsCommand(command.id)
           /\ command.id \in 1..MaxWork
<1>1. command.id \in 1..Taken /\ IsCommand(command.id)
  BY DEF InboxInv, IsTaken
<1>2. Taken \in Nat /\ Len(arrived) \in Nat /\ Taken <= Len(arrived)
  <2>1. arrived \in Seq(Arrival) /\ inbox \in Seq(AllFrames) /\ Len(inbox) <= Len(arrived)
    BY DEF Types, InboxInv
  <2>2. Len(arrived) \in Nat /\ Len(inbox) \in Nat
    BY <2>1, LenProperties
  <2> QED BY <2>1, <2>2 DEF Taken
<1>3. Len(arrived) <= MaxWork /\ MaxWork \in Nat
  BY <1>2, EventLoopAssumption DEF Types
<1> QED BY <1>1, <1>2, <1>3

\* What a command adds to what was done and to the table.
LEMMA RunIs ==
    ASSUME Types, InboxInv, RunCommand
    PROVE  \E x : /\ done' = Append(done, x) /\ x.id = command.id /\ x.call = arrived[command.id].does
                  /\ x.result \in Ids \cup {0} /\ x.target = Target(x.call)
                  /\ x.call.op = "sm_load" => x.reply = TwoBytes(x.result)
                  /\ IF x.result = 0 THEN sms' = sms
                     ELSE /\ x.call.op = "sm_load" /\ Table!Found(x.result) = {}
                          /\ x.call.bytes[2] \in Modules
                          /\ sms' = Append(sms, [id |-> x.result, module |-> x.call.bytes[2]])
<1>1. pc = "command"
  BY DEF RunCommand
<1>2. PICK c : c = arrived[command.id].does
  OBVIOUS
<1>3. PICK result \in Results(c) :
         /\ IF result = 0 THEN sms' = sms ELSE Table!Register(result, c.bytes[2])
         /\ done' = Append(done, [id |-> command.id, call |-> c, result |-> result,
                                  target |-> Target(c), reply |-> Reply(c, result)])
  BY <1>2 DEF RunCommand
<1>4. result \in Ids \cup {0} /\ (result # 0 => c.op = "sm_load" /\ c.ok)
  BY <1>3 DEF Results
<1>5. PICK x : x = [id |-> command.id, call |-> c, result |-> result,
                    target |-> Target(c), reply |-> Reply(c, result)]
  OBVIOUS
<1>6. /\ x.id = command.id /\ x.call = c /\ x.result = result /\ x.target = Target(c)
      /\ x.reply = Reply(c, result)
  BY <1>5
<1>7. c.op = "sm_load" => Reply(c, result) = TwoBytes(result)
  BY DEF Reply, TwoBytes
<1>8. ASSUME result # 0
      PROVE  /\ Table!Found(result) = {} /\ c.bytes[2] \in Modules
             /\ sms' = Append(sms, [id |-> result, module |-> c.bytes[2]])
  <2>1. PICK cmd : cmd = arrived[command.id].frame.cmd
    OBVIOUS
  <2>2. IF cmd = Null THEN ~c.ok ELSE cmd \in Requests /\ AsAsked(c, cmd)
    BY <1>1, <1>2, <2>1, TakenIs, CommandIs
  <2>3. cmd \in Requests /\ c.op = cmd.op /\ c.bytes = cmd.bytes /\ cmd.op = "sm_load"
    BY <1>4, <1>8, <2>2 DEF AsAsked
  <2>4. cmd.bytes[2] \in Modules
    BY <2>3, EventLoopAssumption
  <2> QED BY <1>3, <1>8, <2>3, <2>4 DEF Table!Register
<1>9. /\ done' = Append(done, x) /\ x.id = command.id /\ x.call = arrived[command.id].does
      /\ x.result \in Ids \cup {0} /\ x.target = Target(x.call)
      /\ x.call.op = "sm_load" => x.reply = TwoBytes(x.result)
  BY <1>2, <1>3, <1>4, <1>5, <1>6, <1>7
<1>10. IF x.result = 0 THEN sms' = sms
       ELSE /\ x.call.op = "sm_load" /\ Table!Found(x.result) = {}
            /\ x.call.bytes[2] \in Modules
            /\ sms' = Append(sms, [id |-> x.result, module |-> x.call.bytes[2]])
  BY <1>3, <1>4, <1>6, <1>8
<1> QED BY <1>9, <1>10

\* Everything keeps its type.
LEMMA TypesNext ==
    ASSUME Types, BufferInv, InboxInv, BuildInv, [Next]_vars
    PROVE  Types' /\ BufferInv'
<1>1. IsSeq(done') /\ sms' \in Seq([id : Ids, module : Modules])
  <2>0. IsSeq(done) /\ sms \in Seq([id : Ids, module : Modules])
    BY DEF Types
  <2>1. CASE UNCHANGED <<done, sms>>
    BY <2>0, <2>1
  <2>2. CASE RunCommand
    <3>1. PICK x : /\ done' = Append(done, x)
                   /\ x.result \in Ids \cup {0}
                   /\ IF x.result = 0 THEN sms' = sms
                      ELSE /\ x.call.bytes[2] \in Modules
                           /\ sms' = Append(sms, [id |-> x.result, module |-> x.call.bytes[2]])
      BY <2>2, RunIs
    <3>2. IsSeq(done')
      BY <2>0, <3>1, LongerSeq
    <3>3. ASSUME x.result # 0
          PROVE  sms' \in Seq([id : Ids, module : Modules])
      <4>1. PICK y : y = [id |-> x.result, module |-> x.call.bytes[2]]
        OBVIOUS
      <4>2. PICK R : R = [id : Ids, module : Modules]
        OBVIOUS
      <4>3. y \in R /\ sms \in Seq(R) /\ sms' = Append(sms, y)
        BY <2>0, <3>1, <3>3, <4>1, <4>2
      <4>4. sms' \in Seq(R)
        BY <4>3, AppendProperties
      <4> QED BY <4>2, <4>4
    <3> QED BY <2>0, <3>1, <3>2, <3>3
  <2> QED BY <2>1, <2>2, Doing
<1>2. /\ arrived' \in Seq(Arrival) /\ ticks' \in Nat /\ Len(arrived)' + ticks' <= MaxWork
      /\ pc' \in {"poll", "get", "start", "command", "finish", "tick", "write", "queued"}
      /\ pc' = "write" => ticks' # 0
  BY CountsNext
<1>3. inbox' \in Seq(AllFrames) /\ {received_packet, command}' \subseteq AllFrames \cup {Null}
  BY FramesNext
<1>4. /\ BufferInv' /\ buf' \in Seq(AllPieces) /\ pieces' \in Seq(AllPieces)
      /\ sent' \in Seq(Frame) /\ finished' \subseteq Seq(AllPieces)
  BY PiecesNext
<1>5. accepted' \subseteq AllPieces /\ queue' \in accepted' \cup {Null}
  BY AcceptedNext
<1> QED BY <1>1, <1>2, <1>3, <1>4, <1>5 DEF Types

\* What was done is in the order of arrival.
LEMMA DoneNext ==
    ASSUME Types, InboxInv, DoneInv, [Next]_vars
    PROVE  DoneInv'
<1>1. ASSUME NEW n, Begun(n)
      PROVE  n \in 1..Len(arrived)
  <2>1. n \in 1..Taken
    BY <1>1, TakenIs DEF Begun, Before
  <2>2. Taken \in Nat /\ Len(arrived) \in Nat /\ Taken <= Len(arrived)
    BY Takes
  <2> QED BY <2>1, <2>2
<1>2. ASSUME NEW k \in DOMAIN done
      PROVE
             /\ Begun(done[k].id) /\ IsCommand(done[k].id) /\ done[k].id \in 1..Len(arrived)
             /\ done[k].call = arrived[done[k].id].does
  BY <1>1 DEF DoneInv
<1>3. ASSUME NEW n, NEW x, Begun(n), IsCommand(n), x = arrived[n].does
      PROVE  IsCommand(n)' /\ x = arrived'[n].does
  <2>1. n \in 1..Len(arrived)
    BY <1>1, <1>3
  <2>2. IsCommand(n)' /\ arrived'[n] = arrived[n]
    BY <1>3, <2>1, CommandStays
  <2> QED BY <1>3, <2>2
<1>4. CASE done' = done
  <2>1. ASSUME NEW k \in DOMAIN done'
        PROVE  /\ Begun(done[k].id)' /\ IsCommand(done[k].id)'
               /\ done'[k].call = arrived'[done'[k].id].does
    <3>1. PICK x : x = done[k]
      OBVIOUS
    <3>2. x = done'[k] /\ Begun(x.id) /\ IsCommand(x.id) /\ x.call = arrived[x.id].does
      BY <1>4, <3>1 DEF DoneInv
    <3>3. PICK n : n = x.id
      OBVIOUS
    <3>4. Begun(n)' /\ IsCommand(n)' /\ x.call = arrived'[n].does
      BY <1>3, <3>2, <3>3, Onward
    <3> QED BY <3>2, <3>3, <3>4
  <2>2. \A k, l \in DOMAIN done' : k < l => done'[k].id < done'[l].id
    BY <1>4 DEF DoneInv
  <2> QED BY <2>1, <2>2 DEF DoneInv
<1>5. CASE RunCommand
  <2>1. PICK x : done' = Append(done, x) /\ x.id = command.id /\ x.call = arrived[command.id].does
    BY <1>5, RunIs
  <2>2. pc = "command" /\ pc' = "finish" /\ command' = command
    BY <1>5 DEF RunCommand
  <2>3. PICK m : m = Len(done)
    OBVIOUS
  <2>4. /\ m \in Nat /\ DOMAIN done = 1..m /\ done'[m + 1] = x
        /\ \A k \in DOMAIN done : done'[k] = done[k]
        /\ \A k \in DOMAIN done' : k \in DOMAIN done \/ k = m + 1
    BY <2>1, <2>3, LongerSeq DEF Types
  <2>5. PICK n : n = command.id
    OBVIOUS
  <2>6. n \in 1..Taken /\ IsCommand(n) /\ n \in 1..Len(arrived) /\ n \in Nat
    BY <2>2, <2>5, TakenIs
  <2>7. Begun(n)' /\ IsCommand(n)' /\ x.call = arrived'[n].does
    <3>1. IsCommand(n)' /\ arrived'[n] = arrived[n]
      BY <2>6, CommandStays
    <3> QED BY <2>1, <2>2, <2>5, <3>1 DEF Begun
  <2>8. ASSUME NEW k \in DOMAIN done
        PROVE  done[k].id < n /\ done[k].id \in Nat
    <3>1. Begun(done[k].id)
      BY DEF DoneInv
    <3>2. Before(done[k].id)
      BY <2>2, <3>1 DEF Begun
    <3> QED BY <2>2, <2>5, <3>2 DEF Before
  <2>9. ASSUME NEW k \in DOMAIN done'
        PROVE  /\ Begun(done[k].id)' /\ IsCommand(done[k].id)'
               /\ done'[k].call = arrived'[done'[k].id].does
    <3>1. CASE k = m + 1
      <4>1. done'[k] = x
        BY <2>4, <3>1
      <4> QED BY <2>1, <2>5, <2>7, <4>1
    <3>2. CASE k \in DOMAIN done
      <4>1. PICK y : y = done[k]
        OBVIOUS
      <4>2. y = done'[k] /\ Begun(y.id) /\ IsCommand(y.id) /\ y.call = arrived[y.id].does
        BY <2>4, <3>2, <4>1 DEF DoneInv
      <4>3. PICK i : i = y.id
        OBVIOUS
      <4>4. Begun(i)' /\ IsCommand(i)' /\ y.call = arrived'[i].does
        BY <1>3, <4>2, <4>3, Onward
      <4> QED BY <4>2, <4>3, <4>4
    <3> QED BY <2>4, <3>1, <3>2
  <2>10. ASSUME NEW k \in DOMAIN done', NEW l \in DOMAIN done', k < l
         PROVE  done'[k].id < done'[l].id
    <3>1. k \in DOMAIN done
      BY <2>4, <2>10
    <3>2. CASE l = m + 1
      BY <2>1, <2>4, <2>5, <2>8, <3>1, <3>2
    <3>3. CASE l \in DOMAIN done
      BY <2>4, <2>10, <3>1, <3>3 DEF DoneInv
    <3> QED BY <2>4, <3>2, <3>3
  <2> QED BY <2>9, <2>10 DEF DoneInv
<1> QED BY <1>4, <1>5, Doing

-----------------------------------------------------------------------------
(* What is sent. *)

\* The pieces of the packet that a step may send, and frames of them.
New(d) == Current(d) \/ (pc = "queued" /\ queue # Null /\ d = queue)
NewFrames ==
    {f \in Frame : /\ f.data # << >>
                   /\ \A i \in DOMAIN f.data : /\ New(f.data[i])
                                               /\ IsReply(f.data[i]) => Len(f.data) = 1}

\* They are of one packet.
LEMMA NewSame ==
    ASSUME NEW d, NEW e, New(d), New(e)
    PROVE  SamePacket(d, e)
BY DEF New, Current, SamePacket

\* A piece by itself is such a frame.
LEMMA OneNew ==
    ASSUME NEW d \in AllPieces, New(d), NEW h \in {0, 1, Null}
    PROVE  Of(h, <<d>>) \in NewFrames
<1>1. <<d>> \in Seq(AllPieces) /\ Len(<<d>>) = 1 /\ <<d>> # << >>
  OBVIOUS
<1>2. \A i \in DOMAIN <<d>> : <<d>>[i] = d
  OBVIOUS
<1>3. PICK b : b = <<d>>
  OBVIOUS
<1>4. Of(h, b) \in Frame /\ Of(h, b).data = b
  BY <1>1, <1>3, OfIs
<1>5. b # << >> /\ \A i \in DOMAIN b : New(b[i]) /\ (IsReply(b[i]) => Len(b) = 1)
  BY <1>1, <1>2, <1>3
<1> QED BY <1>3, <1>4, <1>5 DEF NewFrames

\* And so is what is in the buffer.
LEMMA BufferNew ==
    ASSUME Types, BuildInv, pc \in {"finish", "write"}, buf # << >>, NEW h \in {0, 1}
    PROVE  Of(h, buf) \in NewFrames
<1>1. PICK b : b = buf
  OBVIOUS
<1>2. b \in Seq(AllPieces) /\ b # << >> /\ \A i \in DOMAIN b : Current(b[i])
  BY <1>1 DEF Types, BuildInv
<1>3. Len(b) \in Nat /\ Len(b) # 0
  BY <1>2, SMT
<1>4. pc = "finish" => Len(b) = 1
  <2>1. pc = "finish" => Len(b) <= 1
    BY <1>1 DEF BuildInv
  <2>2. PICK n : n = Len(b)
    OBVIOUS
  <2>3. n \in Nat /\ n # 0 /\ (pc = "finish" => n <= 1)
    BY <1>3, <2>1, <2>2
  <2>4. pc = "finish" => n = 1
    BY <2>3
  <2> QED BY <2>2, <2>4
<1>5. \A i \in DOMAIN b : IsReply(b[i]) => pc = "finish"
  BY <1>2 DEF Current, IsReply
<1>6. Of(h, b) \in Frame /\ Of(h, b).data = b
  BY <1>2, OfIs
<1> QED BY <1>1, <1>2, <1>4, <1>5, <1>6 DEF NewFrames, New

\* What the loop sends are such frames.
LEMMA Grows ==
    ASSUME Types, BufferInv, InboxInv, BuildInv, [Next]_vars
    PROVE  \/ sent' = sent
           \/ /\ RunCommand \/ FinishCommand \/ TickFinish \/ SendQueued
                 \/ \E size \in Sizes : TickWrite(size)
              /\ Grown(sent, sent', NewFrames)
<1>1. CASE RunCommand
  <2>1. pc = "command"
    BY <1>1 DEF RunCommand
  <2>2. ASSUME NEW d \in AllPieces, d.from = "reply", d.id = command.id,
               sent' = Append(sent, Of(Null, <<d>>))
        PROVE  Grown(sent, sent', NewFrames)
    <3>1. New(d)
      BY <2>1, <2>2 DEF New, Current
    <3> QED BY <2>2, <3>1, OneNew DEF Grown
  <2> QED BY <1>1, <2>2, RunSends
<1>2. CASE FinishCommand \/ TickFinish
  <2>1. Finish /\ pc \in {"finish", "write"}
    BY <1>2 DEF FinishCommand, TickFinish
  <2>2. sent' = sent \/ (buf # << >> /\ sent' = Append(sent, Of(1, buf)))
    BY <2>1, FinishSends
  <2> QED BY <1>2, <2>1, <2>2, BufferNew DEF Grown
<1>3. CASE SendQueued
  <2>1. pc = "queued"
    BY <1>3 DEF SendQueued
  <2>2. \/ sent' = sent
        \/ queue \in AllPieces /\ sent' = Append(sent, Of(1, <<queue>>))
        \/ queue \in AllPieces /\ sent' = Append(sent, Of(Null, <<queue>>))
    BY <1>3, QueuedSends
  <2>3. ASSUME queue \in AllPieces
        PROVE  Of(1, <<queue>>) \in NewFrames /\ Of(Null, <<queue>>) \in NewFrames
    <3>1. queue # Null
      BY <2>3, PiecesAre
    <3>2. New(queue)
      BY <2>1, <3>1 DEF New
    <3> QED BY <2>3, <3>2, OneNew
  <2> QED BY <1>3, <2>2, <2>3 DEF Grown
<1>4. ASSUME NEW size \in Sizes, TickWrite(size)
      PROVE  sent' = sent \/ Grown(sent, sent', NewFrames)
  <2>1. PICK d : TickWrote(d)
    BY <1>4, TickSends
  <2>2. d \in AllPieces /\ pc = "write" /\ New(d)
    BY <2>1 DEF TickWrote, New, Current
  <2>3. Of(Null, <<d>>) \in NewFrames
    BY <2>2, OneNew
  <2>4. buf # << >> => Of(0, buf) \in NewFrames
    BY <2>2, BufferNew
  <2>5. \/ sent' = sent
        \/ sent' = Append(sent, Of(Null, <<d>>))
        \/ buf # << >> /\ sent' = Append(sent, Of(0, buf))
        \/ buf # << >> /\ sent' = Append(Append(sent, Of(0, buf)), Of(Null, <<d>>))
    BY <2>1 DEF TickWrote
  <2> QED BY <2>3, <2>4, <2>5 DEF Grown
<1>5. Quiet => sent' = sent
  BY DEF Quiet
<1> QED BY <1>1, <1>2, <1>3, <1>4, <1>5, Sending

\* From then on it is known.
LEMMA NewKnown ==
    ASSUME Types, BufferInv, InboxInv, QueueInv, [Next]_vars, NEW d \in AllPieces, New(d),
           \/ RunCommand \/ FinishCommand \/ TickFinish \/ SendQueued
           \/ \E size \in Sizes : TickWrite(size)
    PROVE  Known(d)'
<1>1. ticks \in Nat /\ d.id \in Nat
  BY PiecesAre DEF Types
<1>2. CASE RunCommand
  <2>1. pc = "command" /\ pc' = "finish" /\ command' = command
    BY <1>2 DEF RunCommand
  <2>2. d.from = "reply" /\ d.id = command'.id
    BY <2>1 DEF New, Current
  <2> QED BY <2>1, <2>2 DEF Known, Begun
<1>3. CASE FinishCommand
  <2>1. pc = "finish" /\ pc' = "tick" /\ inbox' = inbox /\ arrived' = arrived
    BY <1>3 DEF FinishCommand
  <2>2. d.from = "reply" /\ d.id = command.id
    BY <2>1 DEF New, Current
  <2>3. d.id \in 1..Taken /\ Taken' = Taken
    BY <2>1, <2>2, TakenIs DEF Taken
  <2>4. Before(d.id)'
    BY <2>1, <2>3 DEF Before
  <2> QED BY <2>2, <2>4 DEF Known, Over
<1>4. CASE TickFinish
  <2>1. pc = "write" /\ pc' = "tick" /\ ticks' = ticks
    BY <1>4 DEF TickFinish
  <2> QED BY <1>1, <2>1 DEF Known, Over, New, Current
<1>5. CASE SendQueued
  <2>1. pc = "queued" /\ ticks' = ticks
    BY <1>5 DEF SendQueued, history
  <2>2. d = queue /\ queue # Null
    BY <2>1 DEF New, Current
  <2>3. d.from = "queue" /\ d.id <= ticks
    BY <2>2 DEF QueueInv, Types
  <2> QED BY <2>1, <2>3 DEF Known
<1>6. ASSUME NEW size \in Sizes, TickWrite(size)
      PROVE  Known(d)'
  <2>1. pc = "write" /\ ticks' = ticks
    BY <1>6 DEF TickWrite
  <2>2. d.from = "tick" /\ d.id = ticks
    BY <2>1 DEF New, Current
  <2>3. PICK e : TickWrote(e)
    BY <1>6, TickSends
  <2>4. (pc' = "write" /\ pieces' # << >>) \/ pc' = "tick"
    <3>1. e \in AllPieces /\ pieces \in Seq(AllPieces)
      BY <2>3 DEF TickWrote, Types
    <3>2. Append(pieces, e) # << >>
      BY <3>1, AppendProperties
    <3> QED BY <2>3, <3>2 DEF TickWrote
  <2> QED BY <1>1, <2>1, <2>2, <2>4 DEF Known, Over
<1> QED BY <1>2, <1>3, <1>4, <1>5, <1>6

\* A frame on the line stays as it should be.
LEMMA ProperStays ==
    ASSUME Types, InboxInv, [Next]_vars, NEW f \in Frame, Proper(f)
    PROVE  Proper(f)'
<1>1. f.data \in Seq(AllPieces)
  BY DEF Frame
<1>2. \A i \in DOMAIN f.data : f.data[i] \in AllPieces
  BY <1>1, LenProperties
<1>3. \A i \in DOMAIN f.data : Known(f.data[i])'
  BY <1>2, Onward DEF Proper
<1> QED BY <1>3 DEF Proper

\* A new one is as it should be.
LEMMA ProperNew ==
    ASSUME Types, BufferInv, InboxInv, QueueInv, [Next]_vars, NEW f \in NewFrames,
           \/ RunCommand \/ FinishCommand \/ TickFinish \/ SendQueued
           \/ \E size \in Sizes : TickWrite(size)
    PROVE  Proper(f)'
<1>1. /\ f.data \in Seq(AllPieces) /\ f.data # << >>
      /\ \A i \in DOMAIN f.data : New(f.data[i]) /\ (IsReply(f.data[i]) => Len(f.data) = 1)
  BY DEF NewFrames, Frame
<1>2. \A i \in DOMAIN f.data : f.data[i] \in AllPieces
  BY <1>1, LenProperties
<1>3. \A i \in DOMAIN f.data : Known(f.data[i])'
  BY <1>1, <1>2, NewKnown
<1>4. 1 \in DOMAIN f.data
  <2>1. PICK b : b = f.data
    OBVIOUS
  <2>2. 1 \in DOMAIN b
    BY <1>1, <2>1, SMT
  <2> QED BY <2>1, <2>2
<1>5. \A i \in DOMAIN f.data : SamePacket(f.data[1], f.data[i])
  BY <1>1, <1>4, NewSame
<1> QED BY <1>1, <1>3, <1>5 DEF Proper

\* The first piece of a frame.
LEMMA LeadIs ==
    ASSUME NEW f \in Frame, f.data # << >>
    PROVE  1 \in DOMAIN f.data /\ f.data[1] \in AllPieces
<1>1. PICK b : b = f.data
  OBVIOUS
<1>2. b \in Seq(AllPieces) /\ b # << >>
  BY <1>1 DEF Frame
<1>3. 1 \in DOMAIN b
  BY <1>2, SMT
<1>4. b[1] \in AllPieces
  BY <1>2, <1>3, LenProperties
<1> QED BY <1>1, <1>3, <1>4

\* The replies on the line are in the order of arrival.
LEMMA RisingNext ==
    ASSUME Types, BufferInv, InboxInv, SentInv, BuildInv, QueueInv, [Next]_vars
    PROVE  Rising(sent')
<1>1. sent \in Seq(Frame) /\ Rising(sent)
  BY DEF Types, SentInv
<1>2. ASSUME NEW d \in AllPieces, NEW h \in {0, 1, Null}, d.from = "reply" => pc \in {"command", "finish"},
             \A k \in DOMAIN sent : IsReply(sent[k].data[1]) /\ IsReply(d)
                                       => sent[k].data[1].id < d.id
      PROVE  Rising(Append(sent, Of(h, <<d>>)))
  <2>1. PICK b : b = <<d>>
    OBVIOUS
  <2>2. b \in Seq(AllPieces) /\ b[1] = d
    BY <2>1
  <2>3. PICK f : f = Of(h, b)
    OBVIOUS
  <2>4. f \in Frame /\ f.data[1] = d
    BY <2>2, <2>3, OfIs
  <2> QED BY <1>1, <1>2, <2>1, <2>3, <2>4, RisingAppend
<1>3. CASE RunCommand
  <2>1. pc = "command"
    BY <1>3 DEF RunCommand
  <2>2. ASSUME NEW k \in DOMAIN sent, IsReply(sent[k].data[1])
        PROVE  sent[k].data[1].id < command.id
    <3>1. sent[k] \in Frame /\ Proper(sent[k])
      BY <1>1, LenProperties DEF SentInv
    <3>2. PICK d : d = sent[k].data[1]
      OBVIOUS
    <3>3. Known(d) /\ d.from = "reply"
      BY <2>2, <3>1, <3>2, LeadIs DEF Proper, IsReply
    <3>4. Before(d.id)
      BY <2>1, <3>3 DEF Known, Over, Begun
    <3> QED BY <2>1, <3>2, <3>4 DEF Before
  <2>3. \/ sent' = sent
        \/ \E d \in AllPieces : d.id = command.id /\ sent' = Append(sent, Of(Null, <<d>>))
    BY <1>3, RunSends
  <2> QED BY <1>1, <1>2, <2>1, <2>2, <2>3
<1>4. CASE FinishCommand
  <2>1. pc = "finish" /\ Finish
    BY <1>4 DEF FinishCommand
  <2>2. sent' = sent \/ (buf # << >> /\ sent' = Append(sent, Of(1, buf)))
    BY <2>1, FinishSends
  <2>3. ASSUME buf # << >>
        PROVE  Rising(Append(sent, Of(1, buf)))
    <3>1. PICK b, f : b = buf /\ f = Of(1, b)
      OBVIOUS
    <3>2. b \in Seq(AllPieces) /\ b # << >>
      BY <2>3, <3>1 DEF Types
    <3>3. f \in Frame /\ f.data = b
      BY <3>1, <3>2, OfIs
    <3>4. b[1].id = command.id
      <4>1. 1 \in DOMAIN b
        BY <3>2, <3>3, LeadIs
      <4>2. Current(b[1])
        BY <2>1, <3>1, <4>1 DEF BuildInv
      <4> QED BY <2>1, <4>2 DEF Current
    <3>5. \A k \in DOMAIN sent : IsReply(sent[k].data[1]) => sent[k].data[1].id < command.id
      BY <2>1, <2>3 DEF BuildInv
    <3> QED BY <1>1, <3>1, <3>3, <3>4, <3>5, RisingAppend
  <2> QED BY <1>1, <2>2, <2>3
<1>5. CASE TickFinish \/ SendQueued \/ \E size \in Sizes : TickWrite(size)
  <2>1. pc \in {"write", "queued"}
    BY <1>5 DEF TickFinish, SendQueued, TickWrite
  <2>2. sent' = sent \/ Grown(sent, sent', NewFrames)
    BY Grows
  <2>3. ASSUME NEW f \in NewFrames
        PROVE  ~IsReply(f.data[1])
    <3>1. f \in Frame /\ f.data # << >> /\ \A i \in DOMAIN f.data : New(f.data[i])
      BY DEF NewFrames
    <3>2. New(f.data[1])
      BY <3>1, LeadIs
    <3>3. queue # Null => queue.from = "queue"
      BY DEF QueueInv, Types
    <3> QED BY <2>1, <3>2, <3>3 DEF New, Current, IsReply
  <2>4. NewFrames \subseteq Frame
    BY DEF NewFrames
  <2> QED BY <1>1, <2>2, <2>3, <2>4, RisingGrown
<1>6. Quiet => sent' = sent
  BY DEF Quiet
<1> QED BY <1>1, <1>3, <1>4, <1>5, <1>6, Sending

\* What was sent is as it should be.
LEMMA SentNext ==
    ASSUME Types, BufferInv, InboxInv, SentInv, BuildInv, QueueInv, [Next]_vars
    PROVE  SentInv'
<1>1. sent \in Seq(Frame) /\ \A k \in DOMAIN sent : Proper(sent[k])
  BY DEF Types, SentInv
<1>2. ASSUME NEW k \in DOMAIN sent
      PROVE  sent[k] \in Frame /\ \A f : f = sent[k] => Proper(f)'
  <2>1. sent[k] \in Frame
    BY <1>1, LenProperties
  <2> QED BY <1>1, <2>1, ProperStays
<1>3. Rising(sent')
  BY RisingNext
<1>4. ASSUME NEW k \in DOMAIN sent'
      PROVE  Proper(sent[k])'
  <2>1. CASE sent' = sent
    <3>1. PICK f : f = sent'[k]
      OBVIOUS
    <3>2. Proper(f)'
      BY <1>2, <2>1, <3>1
    <3> QED BY <3>1, <3>2
  <2>2. CASE /\ RunCommand \/ FinishCommand \/ TickFinish \/ SendQueued
                \/ \E size \in Sizes : TickWrite(size)
             /\ Grown(sent, sent', NewFrames)
    <3>1. NewFrames \subseteq Frame
      BY DEF NewFrames
    <3>2. PICK f : f = sent'[k]
      OBVIOUS
    <3>3. (k \in DOMAIN sent /\ f = sent[k]) \/ f \in NewFrames
      BY <1>1, <2>2, <3>1, <3>2, GrownIs
    <3>4. Proper(f)'
      BY <1>2, <2>2, <3>3, ProperNew
    <3> QED BY <3>2, <3>4
  <2> QED BY <2>1, <2>2, Grows
<1> QED BY <1>3, <1>4 DEF SentInv

-----------------------------------------------------------------------------
(* The packet in progress. *)

\* What the frames with pieces of the packet of d hold; and a packet that is
\* split between them and the buffer.
Held(s, d) == Flatten(Datas(With(s, d)))
Halves(s, b, p) ==
    /\ b # << >>
    /\ Held(s, p[1]) \o b = p
    /\ \A k \in DOMAIN With(s, p[1]) : With(s, p[1])[k].header = 0

\* In the words of the invariant.
LEMMA SplitIs ==
    /\ Split(pieces) <=> Halves(sent, buf, pieces)
    /\ Split(pieces)' <=> Halves(sent', buf', pieces')
    /\ \A d : FramesWith(d) = With(sent, d)
    /\ \A d : FramesWith(d)' = With(sent', d)
<1>1. \A d : FramesWith(d) = With(sent, d) /\ FramesWith(d)' = With(sent', d)
  BY DEF FramesWith, With
<1>2. Split(pieces) <=> Halves(sent, buf, pieces)
  BY DEF Split, Halves, Held, FramesWith, With
<1>3. Split(pieces)' <=> Halves(sent', buf', pieces')
  BY DEF Split, Halves, Held, FramesWith, With
<1> QED BY <1>1, <1>2, <1>3

\* The frames of a packet are frames, and hold pieces.
LEMMA HeldType ==
    ASSUME NEW s \in Seq(Frame), NEW d
    PROVE  With(s, d) \in Seq(Frame) /\ Held(s, d) \in Seq(AllPieces)
<1>1. PICK w : w = With(s, d)
  OBVIOUS
<1>2. w \in Seq(Frame)
  BY <1>1, KeepType DEF With
<1>3. PICK n : n = Len(w)
  OBVIOUS
<1>4. n \in Nat /\ DOMAIN w = 1..n /\ \A k \in 1..n : w[k] \in Frame
  BY <1>2, <1>3, LenProperties
<1>5. \A k \in 1..n : w[k].data \in Seq(AllPieces)
  BY <1>4 DEF Frame
<1>6. PICK T : T = Seq(AllPieces)
  OBVIOUS
<1>7. PICK z : z = Datas(w)
  OBVIOUS
<1>8. z \in [1..n -> T]
  BY <1>4, <1>5, <1>6, <1>7 DEF Datas
<1>9. z \in Seq(T)
  BY <1>4, <1>8, SMT
<1>10. Flatten(z) \in Seq(AllPieces)
  BY <1>6, <1>9, FlattenType
<1> QED BY <1>1, <1>2, <1>7, <1>10 DEF Held

\* The first piece of a sequence stays the first.
LEMMA LeadStays ==
    ASSUME NEW S, NEW p \in Seq(S), p # << >>, NEW d \in S
    PROVE  Append(p, d)[1] = p[1] /\ p[1] \in S /\ Append(p, d) # << >>
<1>1. PICK n : n = Len(p)
  OBVIOUS
<1>2. n \in Nat /\ 1 \in 1..n /\ p[1] \in S
  BY <1>1, SMT
<1>3. PICK q : q = Append(p, d)
  OBVIOUS
<1>4. \A k \in 1..n : q[k] = p[k]
  BY <1>1, <1>3, AppendProperties
<1>5. q # << >>
  BY <1>3, AppendProperties
<1> QED BY <1>2, <1>3, <1>4, <1>5

\* Adding at the end of the second of two parts.
LEMMA ConcatAppend ==
    ASSUME NEW S, NEW a \in Seq(S), NEW b \in Seq(S), NEW d \in S
    PROVE  /\ a \o Append(b, d) = Append(a \o b, d)
           /\ a \o <<d>> = Append(a, d)
           /\ << >> \o <<d>> = <<d>> /\ Append(<< >>, d) = <<d>>
BY SMT

\* No frames hold nothing.
LEMMA EmptyFrames == Flatten(Datas(<< >>)) = << >>
<1>1. << >> \in Seq({0}) /\ 0 \in {0}
  OBVIOUS
<1> QED BY <1>1, HeldAppend

\* The first piece is in the buffer.
LEMMA SplitFirst ==
    ASSUME NEW s, NEW d \in AllPieces, With(s, d) = << >>
    PROVE  Halves(s, <<d>>, <<d>>)
<1>1. <<d>>[1] = d /\ <<d>> # << >> /\ << >> \o <<d>> = <<d>>
  BY ConcatAppend
<1>2. Held(s, d) = << >>
  BY EmptyFrames DEF Held
<1>3. \A k \in DOMAIN With(s, d) : With(s, d)[k].header = 0
  <2>1. DOMAIN With(s, d) = {}
    BY SMT
  <2> QED BY <2>1
<1>4. PICK p : p = <<d>>
  OBVIOUS
<1>5. p[1] = d /\ p # << >> /\ Held(s, d) \o p = p
  BY <1>1, <1>2, <1>4
<1>6. Halves(s, p, p)
  BY <1>3, <1>5 DEF Halves
<1> QED BY <1>4, <1>6

\* One more is copied.
LEMMA SplitCopied ==
    ASSUME NEW s \in Seq(Frame), NEW p \in Seq(AllPieces), NEW b \in Seq(AllPieces), p # << >>,
           NEW d \in AllPieces, Halves(s, b, p)
    PROVE  Halves(s, Append(b, d), Append(p, d))
<1>1. Append(p, d)[1] = p[1] /\ p[1] \in AllPieces
  BY LeadStays
<1>2. PICK h : h = Held(s, p[1])
  OBVIOUS
<1>3. h \in Seq(AllPieces)
  BY <1>2, HeldType
<1>4. h \o b = p
  BY <1>2 DEF Halves
<1>5. h \o Append(b, d) = Append(p, d)
  BY <1>3, <1>4, ConcatAppend
<1>6. Append(b, d) # << >>
  BY AppendProperties
<1> QED BY <1>1, <1>2, <1>5, <1>6 DEF Halves

\* Or is copied after the buffer was sent.
LEMMA SplitFlushed ==
    ASSUME NEW s \in Seq(Frame), NEW p \in Seq(AllPieces), NEW b \in Seq(AllPieces), p # << >>,
           NEW d \in AllPieces, Halves(s, b, p), Has(Of(0, b), p[1])
    PROVE  Halves(Append(s, Of(0, b)), <<d>>, Append(p, d))
<1>1. Append(p, d)[1] = p[1] /\ p[1] \in AllPieces
  BY LeadStays
<1>2. PICK h, e, f, w : h = Held(s, p[1]) /\ e = p[1] /\ f = Of(0, b) /\ w = With(s, e)
  OBVIOUS
<1>3. h \in Seq(AllPieces) /\ w \in Seq(Frame) /\ f \in Frame /\ f.data = b /\ f.header = 0
  BY <1>2, HeldType, OfIs
<1>4. h \o b = p /\ \A k \in DOMAIN w : w[k].header = 0
  BY <1>2 DEF Halves
<1>5. With(Append(s, f), e) = Append(w, f)
  BY <1>2, <1>3, WithAppend
<1>6. Flatten(Datas(Append(w, f))) = h \o f.data
  <2>1. h = Flatten(Datas(w))
    BY <1>2 DEF Held
  <2> QED BY <1>3, <2>1, HeldAppend
<1>7. Held(Append(s, f), e) = p
  BY <1>3, <1>4, <1>5, <1>6 DEF Held
<1>8. p \o <<d>> = Append(p, d) /\ <<d>> # << >>
  BY ConcatAppend
<1>9. \A k \in DOMAIN Append(w, f) : Append(w, f)[k].header = 0
  <2>1. \A k \in DOMAIN Append(w, f) : \/ k \in DOMAIN w /\ Append(w, f)[k] = w[k]
                                       \/ Append(w, f)[k] = f
    BY <1>3, LonerIs
  <2> QED BY <1>3, <1>4, <2>1
<1>10. PICK q, t : q = Append(p, d) /\ t = Append(s, f)
  OBVIOUS
<1>11. Halves(t, <<d>>, q)
  <2>1. q[1] = e /\ With(t, e) = Append(w, f) /\ Held(t, e) = p
    BY <1>1, <1>2, <1>5, <1>7, <1>10
  <2>2. <<d>> # << >> /\ p \o <<d>> = q
    BY <1>8, <1>10
  <2>3. Held(t, q[1]) \o <<d>> = q
    BY <2>1, <2>2
  <2>4. \A k \in DOMAIN With(t, q[1]) : With(t, q[1])[k].header = 0
    BY <1>9, <2>1
  <2> QED BY <2>2, <2>3, <2>4 DEF Halves
<1> QED BY <1>2, <1>10, <1>11

\* Of a packet that is not known nothing is on the line.
LEMMA UnknownNone ==
    ASSUME Types, SentInv, NEW d, \A e \in AllPieces : Known(e) => ~SamePacket(d, e)
    PROVE  With(sent, d) = << >>
<1>1. sent \in Seq(Frame)
  BY DEF Types
<1>2. ASSUME NEW k \in DOMAIN sent
      PROVE  ~Has(sent[k], d)
  <2>1. PICK f : f = sent[k]
    OBVIOUS
  <2>2. f \in Frame /\ Proper(f)
    BY <1>1, <2>1, LenProperties DEF SentInv
  <2>3. f.data \in Seq(AllPieces)
    BY <2>2 DEF Frame
  <2>4. \A i \in DOMAIN f.data : f.data[i] \in AllPieces /\ Known(f.data[i])
    BY <2>2, <2>3, LenProperties DEF Proper
  <2> QED BY <2>1, <2>4 DEF Has
<1> QED BY <1>1, <1>2, WithNone

\* The parts of BuildInv in the next state.
LEMMA Building ==
    ASSUME pc' \in {"command", "finish", "write"} =>
              /\ \A k \in DOMAIN buf' : Current(buf[k])'
              /\ \A k \in DOMAIN pieces' : Current(pieces[k])'
              /\ pieces' = << >> => buf' = << >>
              /\ pc' = "command" => pieces' = << >>
              /\ pc' = "finish" =>
                    /\ Len(buf') <= 1
                    /\ buf' # << >> => \A k \in DOMAIN sent' :
                          IsReply(sent'[k].data[1]) => sent'[k].data[1].id < command'.id
              /\ pieces' # << >> /\ Fitting(pieces') => Halves(sent', buf', pieces')
    PROVE  BuildInv'
BY SplitIs DEF BuildInv, IsReply

\* A command begins the packet of its reply.
LEMMA RunBuilds ==
    ASSUME Types, BufferInv, InboxInv, SentInv, BuildInv, RunCommand
    PROVE  BuildInv'
<1>1. pc = "command" /\ pc' = "finish" /\ command' = command
  BY DEF RunCommand
<1>2. CASE buf' = << >> /\ sent' = sent /\ pieces' = << >>
  <2>1. Len(<< >>) <= 1 /\ DOMAIN << >> = {}
    BY SMT
  <2> QED BY <1>1, <1>2, <2>1, Building
<1>3. ASSUME NEW d \in AllPieces, d.from = "reply", d.id = command.id, pieces' = <<d>>,
             \/ buf' = << >> /\ d.size \notin 1..BUF_LEN
             \/ buf' = <<d>> /\ sent' = sent
      PROVE  BuildInv'
  <2>1. PICK b : b = <<d>>
    OBVIOUS
  <2>2. Len(b) = 1 /\ b # << >> /\ \A k \in DOMAIN b : b[k] = d
    BY <2>1
  <2>3. 1 \in DOMAIN b
    BY <2>1
  <2>4. Current(d)'
    BY <1>1, <1>3 DEF Current
  <2>5. \A k \in DOMAIN pieces' : Current(pieces[k])'
    <3>1. \A k \in DOMAIN pieces' : pieces'[k] = d
      BY <1>3, <2>1, <2>2
    <3> QED BY <2>4, <3>1
  <2>6. CASE buf' = << >> /\ d.size \notin 1..BUF_LEN
    <3>1. ~Fitting(pieces')
      <4>1. ~Fitting(b)
        BY <2>2, <2>3, <2>6 DEF Fitting
      <4> QED BY <1>3, <2>1, <4>1
    <3>2. Len(<< >>) <= 1 /\ DOMAIN << >> = {}
      BY SMT
    <3> QED BY <1>1, <2>5, <2>6, <3>1, <3>2, Building
  <2>7. CASE buf' = <<d>> /\ sent' = sent
    <3>1. ASSUME NEW e \in AllPieces, Known(e), e.from = "reply"
          PROVE  e.id < command.id
      <4>1. Before(e.id)
        BY <1>1, <3>1 DEF Known, Over, Begun
      <4> QED BY <1>1, <4>1 DEF Before
    <3>2. ASSUME NEW k \in DOMAIN sent', IsReply(sent'[k].data[1])
          PROVE  sent'[k].data[1].id < command'.id
      <4>1. PICK f : f = sent[k]
        OBVIOUS
      <4>2. f \in Frame /\ Proper(f)
        BY <2>7, <4>1, LenProperties DEF SentInv, Types
      <4>3. Known(f.data[1]) /\ f.data[1] \in AllPieces
        BY <4>2, LeadIs DEF Proper
      <4> QED BY <1>1, <2>7, <3>1, <3>2, <4>1, <4>3 DEF IsReply
    <3>3. With(sent, d) = << >>
      <4>1. command.id \in Nat
        BY <1>1, TakenIs DEF InboxInv
      <4>2. \A e \in AllPieces : Known(e) => ~SamePacket(d, e)
        BY <1>3, <3>1, <4>1, PiecesAre DEF SamePacket
      <4> QED BY <4>2, UnknownNone
    <3>4. Halves(sent', buf', pieces')
      BY <1>3, <2>7, <3>3, SplitFirst
    <3>5. \A k \in DOMAIN buf' : Current(buf[k])'
      <4>1. \A k \in DOMAIN buf' : buf'[k] = d
        BY <2>1, <2>2, <2>7
      <4> QED BY <2>4, <4>1
    <3>6. Len(buf') <= 1 /\ pieces' # << >>
      BY <1>3, <2>1, <2>2, <2>7
    <3> QED BY <1>1, <2>5, <3>2, <3>4, <3>5, <3>6, Building
  <2> QED BY <1>3, <2>6, <2>7
<1>4. \A d \in AllPieces : d.size > BUF_LEN => d.size \notin 1..BUF_LEN
  BY PiecesAre
<1> QED BY <1>2, <1>3, <1>4, RunSends

\* A sequence that is not empty has a first place.
LEMMA LonePlace ==
    ASSUME NEW S, NEW s \in Seq(S), s # << >>
    PROVE  1 \in DOMAIN s
BY SMT

\* The callback continues its own.
LEMMA TickBuilds ==
    ASSUME Types, BufferInv, SentInv, BuildInv, NEW size \in Sizes, TickWrite(size)
    PROVE  BuildInv'
<1>1. PICK d : TickWrote(d)
  BY TickSends
<1>2. pc = "write" /\ d \in AllPieces /\ d.from = "tick" /\ d.id = ticks /\ ticks \in Nat
  BY <1>1 DEF TickWrote, Types
<1>3. ticks' = ticks
  BY DEF TickWrite
<1>4. CASE pc' = "tick"
  BY <1>4 DEF BuildInv
<1>5. CASE /\ pc' = "write" /\ pieces' = Append(pieces, d)
           /\ \/ sent' = sent /\ buf' = (IF d.size = 0 THEN buf ELSE Append(buf, d))
              \/ d.size > BUF_LEN /\ buf' = << >> /\ sent' = Append(sent, Of(Null, <<d>>))
              \/ /\ d.size \in 1..BUF_LEN /\ buf # << >> /\ buf' = <<d>>
                 /\ sent' = Append(sent, Of(0, buf))
              \/ /\ d.size > BUF_LEN /\ buf # << >> /\ buf' = << >>
                 /\ sent' = Append(Append(sent, Of(0, buf)), Of(Null, <<d>>))
  <2>0. buf \in Seq(AllPieces) /\ pieces \in Seq(AllPieces) /\ sent \in Seq(Frame)
    BY DEF Types
  <2>1. /\ \A k \in DOMAIN buf : Current(buf[k])
        /\ \A k \in DOMAIN pieces : Current(pieces[k])
        /\ pieces = << >> => buf = << >>
        /\ pieces # << >> /\ Fitting(pieces) => Halves(sent, buf, pieces)
    BY <1>2, SplitIs DEF BuildInv
  <2>2. \A e : Current(e) => Current(e)'
    BY <1>2, <1>3, <1>5 DEF Current
  <2>3. Current(d) /\ Current(d)'
    BY <1>2, <2>2 DEF Current
  <2>4. ASSUME NEW s \in Seq(AllPieces), \A k \in DOMAIN s : Current(s[k])
        PROVE  \A k \in DOMAIN Append(s, d) : \A e : e = Append(s, d)[k] => Current(e)'
    <3>1. \A k \in DOMAIN Append(s, d) : \/ k \in DOMAIN s /\ Append(s, d)[k] = s[k]
                                         \/ Append(s, d)[k] = d
      BY <1>2, LonerIs
    <3> QED BY <2>2, <2>3, <2>4, <3>1
  <2>5. \A k \in DOMAIN pieces' : Current(pieces[k])'
    BY <1>5, <2>0, <2>1, <2>4
  <2>6. \A k \in DOMAIN buf' : Current(buf[k])'
    <3>1. CASE buf' = << >>
      <4>1. DOMAIN << >> = {}
        BY SMT
      <4> QED BY <3>1, <4>1
    <3>2. CASE buf' = <<d>>
      <4>1. \A k \in DOMAIN <<d>> : <<d>>[k] = d
        OBVIOUS
      <4> QED BY <2>3, <3>2, <4>1
    <3>3. CASE buf' = Append(buf, d)
      BY <2>0, <2>1, <2>4, <3>3
    <3>4. CASE buf' = buf
      BY <2>1, <2>2, <3>4
    <3> QED BY <1>5, <3>1, <3>2, <3>3, <3>4
  <2>7. pieces' # << >>
    BY <1>2, <1>5, <2>0, AppendProperties
  <2>8. ASSUME Fitting(pieces')
        PROVE  Halves(sent', buf', pieces') 
    <3>1. PICK q : q = Append(pieces, d)
      OBVIOUS
    <3>2. /\ \A k \in DOMAIN pieces : k \in DOMAIN q /\ q[k] = pieces[k]
          /\ \E k \in DOMAIN q : q[k] = d
      <4>1. PICK n : n = Len(pieces)
        OBVIOUS
      <4>2. n \in Nat /\ DOMAIN pieces = 1..n /\ DOMAIN q = 1..(n + 1) /\ q[n + 1] = d
            /\ n + 1 \in 1..(n + 1)
        BY <1>2, <2>0, <3>1, <4>1, LonerIs, SMT
      <4>3. \A k \in 1..n : q[k] = pieces[k]
        BY <1>2, <2>0, <3>1, <4>1, AppendProperties
      <4> QED BY <4>2, <4>3
    <3>3. Fitting(pieces) /\ d.size \in 1..BUF_LEN
      BY <1>5, <2>8, <3>1, <3>2 DEF Fitting
    <3>4. \/ sent' = sent /\ buf' = Append(buf, d)
          \/ buf # << >> /\ buf' = <<d>> /\ sent' = Append(sent, Of(0, buf))
      BY <1>5, <3>3, PiecesAre
    <3>5. CASE pieces = << >>
      <4>1. buf = << >>
        BY <2>1, <3>5
      <4>2. Append(<< >>, d) = <<d>>
        BY <1>2
      <4>3. With(sent, d) = << >>
        <5>1. ASSUME NEW e \in AllPieces, Known(e)
              PROVE  ~SamePacket(d, e)
          BY <1>2, <3>5, <5>1, PiecesAre DEF Known, Over, SamePacket
        <5> QED BY <5>1, UnknownNone
      <4>4. Halves(sent, <<d>>, <<d>>)
        BY <1>2, <4>3, SplitFirst
      <4> QED BY <1>5, <3>4, <3>5, <4>1, <4>2, <4>4
    <3>6. CASE pieces # << >>
      <4>1. Halves(sent, buf, pieces)
        BY <2>1, <3>3, <3>6
      <4>2. CASE sent' = sent /\ buf' = Append(buf, d)
        BY <1>2, <1>5, <2>0, <3>6, <4>1, <4>2, SplitCopied
      <4>3. CASE buf # << >> /\ buf' = <<d>> /\ sent' = Append(sent, Of(0, buf))
        <5>1. PICK e, f : e = pieces[1] /\ f = Of(0, buf)
          OBVIOUS
        <5>2. f.data = buf
          BY <5>1, OfIs
        <5>3. 1 \in DOMAIN buf /\ 1 \in DOMAIN pieces
          BY <2>0, <3>6, <4>3, LonePlace
        <5>4. Current(e) /\ Current(buf[1])
          BY <2>1, <5>1, <5>3
        <5>5. SamePacket(e, buf[1])
          BY <5>4, NewSame DEF New
        <5>6. Has(f, e)
          BY <5>2, <5>3, <5>5 DEF Has
        <5> QED BY <1>2, <1>5, <2>0, <3>6, <4>1, <4>3, <5>1, <5>6, SplitFlushed
      <4> QED BY <3>4, <4>2, <4>3
    <3> QED BY <3>5, <3>6
  <2> QED BY <1>5, <2>5, <2>6, <2>7, <2>8, Building
<1> QED BY <1>1, <1>4, <1>5 DEF TickWrote

\* The others begin one, end one, or leave it alone.
LEMMA BuildNext ==
    ASSUME Types, BufferInv, InboxInv, SentInv, BuildInv, [Next]_vars
    PROVE  BuildInv'
<1>1. CASE FinishCommand \/ TickFinish
  BY <1>1 DEF FinishCommand, TickFinish, BuildInv
<1>2. CASE SendQueued
  BY <1>2 DEF SendQueued, BuildInv
<1>3. CASE Quiet
  <2>1. sent' = sent
    BY <1>3 DEF Quiet
  <2>2. CASE buf' = buf /\ pieces' = pieces /\ UNCHANGED <<pc, command, ticks>>
    <3>1. \A e : Current(e)' <=> Current(e)
      BY <2>2 DEF Current
    <3>2. \A k \in DOMAIN buf' : Current(buf[k])' <=> Current(buf[k])
      BY <2>2 DEF Current
    <3>3. \A k \in DOMAIN pieces' : Current(pieces[k])' <=> Current(pieces[k])
      BY <2>2 DEF Current
    <3> QED BY <2>1, <2>2, <3>2, <3>3, SplitIs, Building DEF BuildInv
  <2>3. CASE pc' \notin {"command", "finish", "write"}
    BY <2>3 DEF BuildInv
  <2>4. CASE buf' = << >> /\ pieces' = << >> /\ pc' \in {"command", "write"}
    <3>1. DOMAIN << >> = {}
      BY SMT
    <3> QED BY <2>4, <3>1, Building
  <2> QED BY <1>3, <2>2, <2>3, <2>4 DEF Quiet
<1>4. CASE RunCommand
  BY <1>4, RunBuilds
<1>5. CASE \E size \in Sizes : TickWrite(size)
  BY <1>5, TickBuilds
<1> QED BY <1>1, <1>2, <1>3, <1>4, <1>5, Sending

-----------------------------------------------------------------------------
(* The packets that were finished. *)

\* A packet that is on the line as it was written, in the frames of s.
Whole(s, p) ==
    /\ Held(s, p[1]) = p
    /\ \A k \in DOMAIN With(s, p[1]) :
           With(s, p[1])[k].header = (IF k = Len(With(s, p[1])) THEN 1 ELSE 0)

\* In the words of the invariant.
LEMMA WholeNow ==
    /\ FinishedWhole <=> \A p \in finished : p # << >> /\ Fitting(p) => Whole(sent, p)
    /\ FinishedWhole' <=> \A p \in finished' : p # << >> /\ Fitting(p) => Whole(sent', p)
BY DEF FinishedWhole, Whole, Held, Datas, FramesWith, With

\* A packet of which nothing new is sent has the frames that it had.
LEMMA WithStays ==
    ASSUME Types, BufferInv, InboxInv, BuildInv, [Next]_vars,
           NEW d, \A e \in AllPieces : New(e) => ~SamePacket(d, e)
    PROVE  With(sent', d) = With(sent, d)
<1>1. sent \in Seq(Frame) /\ NewFrames \subseteq Frame
  BY DEF Types, NewFrames
<1>2. ASSUME NEW f \in NewFrames
      PROVE  ~Has(f, d)
  <2>1. f.data \in Seq(AllPieces) /\ \A i \in DOMAIN f.data : New(f.data[i])
    BY DEF NewFrames, Frame
  <2>2. \A i \in DOMAIN f.data : f.data[i] \in AllPieces
    BY <2>1, LenProperties
  <2> QED BY <2>1, <2>2 DEF Has
<1> QED BY <1>1, <1>2, Grows, WithGrown

\* One that is over is none of those that are sent.
LEMMA OverOld ==
    ASSUME Types, InboxInv, QueueInv, NEW d \in AllPieces, Over(d), NEW e \in AllPieces, New(e)
    PROVE  ~SamePacket(d, e)
<1>1. ticks \in Nat /\ d.id \in Nat /\ e.id \in Nat
  BY PiecesAre DEF Types
<1>2. CASE Current(e)
  BY <1>1, <1>2 DEF Current, Over, Before, SamePacket
<1>3. CASE queue # Null /\ e = queue
  <2>1. e.from = "queue"
    BY <1>3 DEF QueueInv, Types
  <2> QED BY <2>1 DEF Over, SamePacket
<1> QED BY <1>2, <1>3 DEF New

\* One that is finished is over.
LEMMA FinishedOver ==
    ASSUME Types, InboxInv, FinishCommand \/ TickFinish, NEW d \in AllPieces, Current(d)
    PROVE  Over(d)'
<1>1. ticks \in Nat /\ d.id \in Nat
  BY PiecesAre DEF Types
<1>2. CASE FinishCommand
  <2>1. pc = "finish" /\ pc' = "tick" /\ inbox' = inbox /\ arrived' = arrived
    BY <1>2 DEF FinishCommand
  <2>2. d.from = "reply" /\ d.id = command.id
    BY <2>1 DEF Current
  <2>3. d.id \in 1..Taken /\ Taken' = Taken
    BY <2>1, <2>2, TakenIs DEF Taken
  <2> QED BY <2>1, <2>2, <2>3 DEF Before, Over
<1>3. CASE TickFinish
  <2>1. pc = "write" /\ pc' = "tick" /\ ticks' = ticks
    BY <1>3 DEF TickFinish
  <2> QED BY <1>1, <2>1 DEF Over, Current
<1> QED BY <1>2, <1>3

\* The last frame makes it whole.
LEMMA WholeNew ==
    ASSUME NEW s \in Seq(Frame), NEW p \in Seq(AllPieces), NEW b \in Seq(AllPieces), p # << >>,
           Halves(s, b, p), Has(Of(1, b), p[1])
    PROVE  Whole(Append(s, Of(1, b)), p)
<1>1. PICK h, e, f, w : h = Held(s, p[1]) /\ e = p[1] /\ f = Of(1, b) /\ w = With(s, e)
  OBVIOUS
<1>2. h \in Seq(AllPieces) /\ w \in Seq(Frame) /\ f \in Frame /\ f.data = b /\ f.header = 1
  BY <1>1, HeldType, OfIs
<1>3. h \o b = p /\ \A k \in DOMAIN w : w[k].header = 0
  BY <1>1 DEF Halves
<1>4. With(Append(s, f), e) = Append(w, f)
  BY <1>1, <1>2, WithAppend
<1>5. Held(Append(s, f), e) = p
  <2>1. h = Flatten(Datas(w))
    BY <1>1 DEF Held
  <2>2. Flatten(Datas(Append(w, f))) = h \o f.data
    BY <1>2, <2>1, HeldAppend
  <2> QED BY <1>2, <1>3, <1>4, <2>2 DEF Held
<1>6. PICK v, n : v = Append(w, f) /\ n = Len(w)
  OBVIOUS
<1>7. /\ n \in Nat /\ DOMAIN w = 1..n /\ Len(v) = n + 1
      /\ \A k \in DOMAIN v : (k \in DOMAIN w /\ v[k] = w[k]) \/ (k = n + 1 /\ v[k] = f)
  BY <1>2, <1>6, LonerIs, AppendProperties
<1>8. \A k \in DOMAIN v : v[k].header = (IF k = Len(v) THEN 1 ELSE 0)
  <2> TAKE k \in DOMAIN v
  <2>1. k \in DOMAIN w => k # n + 1
    BY <1>7
  <2> QED BY <1>2, <1>3, <1>7, <2>1
<1>9. PICK t : t = Append(s, f)
  OBVIOUS
<1>10. With(t, p[1]) = v /\ Held(t, p[1]) = p
  BY <1>1, <1>4, <1>5, <1>6, <1>9
<1>11. Whole(t, p)
  BY <1>8, <1>10 DEF Whole
<1> QED BY <1>1, <1>9, <1>11

\* What was finished stays whole.
LEMMA FinishedNext ==
    ASSUME Types, BufferInv, InboxInv, BuildInv, FinishedInv, QueueInv, [Next]_vars
    PROVE  FinishedInv'
<1>1. /\ finished \subseteq Seq(AllPieces) /\ pieces \in Seq(AllPieces) /\ buf \in Seq(AllPieces)
      /\ sent \in Seq(Frame)
  BY DEF Types
<1>2. ASSUME NEW p \in finished, p # << >>
      PROVE  Over(p[1])' /\ (Fitting(p) => Whole(sent', p))
  <2>1. p \in Seq(AllPieces)
    BY <1>1
  <2>2. 1 \in DOMAIN p
    BY <1>2, <2>1, LonePlace
  <2>3. PICK d : d = p[1]
    OBVIOUS
  <2>4. d \in AllPieces /\ Over(d)
    BY <1>2, <2>1, <2>2, <2>3, LenProperties DEF FinishedInv
  <2>5. Over(d)'
    BY <2>4, Onward
  <2>6. With(sent', d) = With(sent, d)
    BY <2>4, OverOld, WithStays
  <2>7. Fitting(p) => Whole(sent, p)
    BY <1>2, WholeNow DEF FinishedInv
  <2>8. Fitting(p) => Whole(sent', p)
    BY <2>3, <2>6, <2>7 DEF Whole, Held
  <2> QED BY <2>3, <2>5, <2>8
<1>3. CASE finished' = finished
  BY <1>2, <1>3, WholeNow DEF FinishedInv
<1>4. CASE FinishCommand \/ TickFinish
  <2>1. Finish /\ pc \in {"finish", "write"}
    BY <1>4 DEF FinishCommand, TickFinish
  <2>2. \/ finished' = finished
        \/ /\ finished' = finished \cup {pieces}
           /\ \/ buf = << >>
              \/ buf # << >> /\ sent' = Append(sent, Of(1, buf))
    BY <2>1, FinishSends
  <2>3. PICK p : p = pieces
    OBVIOUS
  <2>4. ASSUME p # << >>
        PROVE  1 \in DOMAIN p /\ p[1] \in AllPieces /\ Current(p[1])
    <3>1. 1 \in DOMAIN p
      BY <1>1, <2>3, <2>4, LonePlace
    <3> QED BY <1>1, <2>1, <2>3, <3>1, LenProperties DEF BuildInv
  <2>5. p # << >> => Over(p[1])'
    BY <1>4, <2>4, FinishedOver
  <2>6. ASSUME p # << >>, Fitting(p), buf = << >> \/ sent' = Append(sent, Of(1, buf))
        PROVE  Whole(sent', p)
    <3>1. Halves(sent, buf, p)
      BY <2>1, <2>3, <2>6, SplitIs DEF BuildInv
    <3>2. buf # << >> /\ sent' = Append(sent, Of(1, buf))
      BY <2>6, <3>1 DEF Halves
    <3>3. 1 \in DOMAIN buf
      BY <1>1, <3>2, LonePlace
    <3>4. Current(buf[1])
      BY <2>1, <3>3 DEF BuildInv
    <3>5. SamePacket(p[1], buf[1])
      BY <2>4, <2>6, <3>4, NewSame DEF New
    <3>6. Has(Of(1, buf), p[1])
      BY <3>3, <3>5, OfIs DEF Has
    <3> QED BY <1>1, <2>3, <2>6, <3>1, <3>2, <3>6, WholeNew
  <2>7. CASE /\ finished' = finished \cup {pieces}
             /\ buf = << >> \/ sent' = Append(sent, Of(1, buf))
    <3>1. \A q \in finished' : q \in finished \/ q = p
      BY <2>3, <2>7
    <3> QED BY <1>2, <2>5, <2>6, <2>7, <3>1, WholeNow DEF FinishedInv
  <2> QED BY <1>3, <2>2, <2>7
<1>5. CASE RunCommand \/ SendQueued \/ \E size \in Sizes : TickWrite(size)
  BY <1>3, <1>5 DEF RunCommand, SendQueued, history, TickWrite
<1>6. CASE Quiet
  BY <1>3, <1>6 DEF Quiet
<1> QED BY <1>4, <1>5, <1>6, Sending

-----------------------------------------------------------------------------
(* The queue. *)

\* The frames of a packet that was queued, while it is and when it is sent.
Sent(s, q, d) == With(s, d) = IF q = d THEN << >> ELSE <<Of(1, <<d>>)>>

\* In the words of the invariant.
LEMMA OnceNow ==
    /\ QueuedOnce <=> \A d \in accepted : d.size \in 1..BUF_LEN => Sent(sent, queue, d)
    /\ QueuedOnce' <=> \A d \in accepted' : d.size \in 1..BUF_LEN => Sent(sent', queue', d)
BY DEF QueuedOnce, Sent, Of, FramesWith, With

\* The loop sends it, or does not.
LEMMA SendKeepsQueue ==
    ASSUME Types, BufferInv, QueueInv, SendQueued
    PROVE  QueueInv'
<1>1. accepted' = accepted /\ ticks' = ticks
  BY DEF SendQueued, history
<1>2. sent \in Seq(Frame) /\ accepted \subseteq AllPieces /\ queue \in accepted \cup {Null}
  BY DEF Types
<1>3. \A d \in accepted : d.size \in 1..BUF_LEN => Sent(sent, queue, d)
  BY OnceNow DEF QueueInv
<1>4. CASE sent' = sent /\ queue' = queue
  BY <1>1, <1>3, <1>4, OnceNow DEF QueueInv
<1>5. CASE queue \in AllPieces /\ queue' = Null
  <2>1. PICK q : q = queue
    OBVIOUS
  <2>2. q \in accepted /\ q \in AllPieces
    BY <1>2, <1>5, <2>1, PiecesAre
  <2>3. PICK w : w = Append(<< >>, Of(1, <<q>>))
    OBVIOUS
  <2>4. w = <<Of(1, <<q>>)>>
    BY <2>3
  <2>5. ASSUME NEW d \in accepted, d # q
        PROVE  ~SamePacket(d, q)
    BY <2>2, <2>5 DEF QueueInv, SamePacket
  <2>6. SamePacket(q, q)
    BY DEF SamePacket
  <2>7. ASSUME NEW h \in {0, 1, Null}, NEW d
        PROVE  With(Append(sent, Of(h, <<q>>)), d)
                 = IF SamePacket(d, q) THEN Append(With(sent, d), Of(h, <<q>>)) ELSE With(sent, d)
    <3>1. PICK b, f : b = <<q>> /\ f = Of(h, b)
      OBVIOUS
    <3>2. b \in Seq(AllPieces) /\ DOMAIN b = {1} /\ b[1] = q
      BY <2>2, <3>1
    <3>3. f \in Frame /\ f.data = b
      BY <3>1, <3>2, OfIs
    <3>4. Has(f, d) <=> SamePacket(d, q)
      BY <3>2, <3>3 DEF Has
    <3>5. With(Append(sent, f), d) = IF Has(f, d) THEN Append(With(sent, d), f) ELSE With(sent, d)
      BY <1>2, <3>3, WithAppend
    <3> QED BY <3>1, <3>4, <3>5
  <2>8. ASSUME NEW d \in accepted, d # q, d.size \in 1..BUF_LEN,
               \/ sent' = sent
               \/ sent' = Append(sent, Of(1, <<q>>))
               \/ sent' = Append(sent, Of(Null, <<q>>))
        PROVE  Sent(sent', queue', d)
    <3>1. With(sent', d) = With(sent, d)
      BY <2>5, <2>7, <2>8
    <3>2. queue' # d /\ queue # d
      BY <1>2, <1>5, <2>1, <2>8, PiecesAre
    <3> QED BY <1>3, <2>8, <3>1, <3>2 DEF Sent
  <2>9. ASSUME q.size \in 1..BUF_LEN, sent' = Append(sent, Of(1, <<q>>))
        PROVE  Sent(sent', queue', q)
    <3>1. With(sent, q) = << >>
      BY <1>3, <2>1, <2>2, <2>9 DEF Sent
    <3>2. With(sent', q) = Append(With(sent, q), Of(1, <<q>>))
      BY <2>6, <2>7, <2>9
    <3>3. With(sent', q) = w
      BY <2>3, <3>1, <3>2
    <3>4. queue' # q
      BY <1>5, <2>2, PiecesAre
    <3> QED BY <2>4, <3>3, <3>4 DEF Sent
  <2>10. \/ sent' = sent /\ q.size = 0
         \/ sent' = Append(sent, Of(1, <<q>>)) /\ q.size \in 1..BUF_LEN
         \/ sent' = Append(sent, Of(Null, <<q>>)) /\ q.size > BUF_LEN
    <3>1. \/ sent' = sent /\ queue' = queue
          \/ sent' = sent /\ queue.size = 0
          \/ sent' = Append(sent, Of(1, <<queue>>)) /\ queue.size \in 1..BUF_LEN
          \/ sent' = Append(sent, Of(Null, <<queue>>)) /\ queue.size > BUF_LEN
      BY QueuedSends
    <3>2. queue' # queue
      BY <1>5, PiecesAre
    <3> QED BY <2>1, <3>1, <3>2
  <2>11. q.size \in 1..BUF_LEN => q.size # 0 /\ ~(q.size > BUF_LEN)
    BY PiecesAre
  <2>12. \A d \in accepted' : d.size \in 1..BUF_LEN => Sent(sent', queue', d)
    BY <1>1, <2>8, <2>9, <2>10, <2>11
  <2> QED BY <1>1, <2>12, OnceNow DEF QueueInv
<1> QED BY <1>4, <1>5, QueuedSends

\* What the callback queues has a number of its own.
LEMMA QueuesNew ==
    ASSUME Types, SentInv, QueueInv, NEW size \in Sizes, TickQueue(size)
    PROVE  QueueInv'
<1>1. PICK d : d = Piece("queue", ticks', 1, size)
  OBVIOUS
<1>2. PICK ok \in BOOLEAN : /\ ok => queue = Null
                            /\ queue' = IF ok THEN d ELSE queue
                            /\ accepted' = IF ok THEN accepted \cup {d} ELSE accepted
  BY <1>1 DEF TickQueue, packet_queue
<1>3. sent' = sent /\ ticks' = ticks + 1
  BY DEF TickQueue, packet_queue
<1>4. ticks \in Nat /\ accepted \subseteq AllPieces /\ queue \in accepted \cup {Null}
  BY DEF Types
<1>5. \A e \in accepted : e.from = "queue" /\ e.id <= ticks /\ e.id \in Nat /\ e # Null
  BY <1>4, PiecesAre DEF QueueInv
<1>6. d.from = "queue" /\ d.id = ticks + 1
  BY <1>1, <1>3 DEF Piece
<1>7. \A e \in accepted : e.id # d.id /\ e # d /\ e.id <= ticks + 1
  BY <1>4, <1>5, <1>6
<1>8. \A e \in accepted : e.size \in 1..BUF_LEN => Sent(sent, queue, e)
  BY OnceNow DEF QueueInv
<1>9. CASE ~ok
  <2>1. \A e \in accepted' : e.from = "queue" /\ e.id <= ticks'
    BY <1>2, <1>3, <1>4, <1>5, <1>9
  <2> QED BY <1>2, <1>3, <1>8, <1>9, <2>1, OnceNow DEF QueueInv
<1>10. CASE ok
  <2>1. queue = Null /\ queue' = d /\ accepted' = accepted \cup {d}
    BY <1>2, <1>10
  <2>2. With(sent, d) = << >>
    <3>1. \A e \in AllPieces : Known(e) => ~SamePacket(d, e)
      BY <1>4, <1>6, PiecesAre DEF Known, Over, SamePacket
    <3> QED BY <3>1, UnknownNone
  <2>3. Sent(sent', queue', d)
    BY <1>3, <2>1, <2>2 DEF Sent
  <2>4. \A e \in accepted : e.size \in 1..BUF_LEN => Sent(sent', queue', e)
    BY <1>3, <1>5, <1>7, <1>8, <2>1 DEF Sent
  <2>5. QueuedOnce'
    BY <2>1, <2>3, <2>4, OnceNow
  <2>6. \A e \in accepted' : e.from = "queue" /\ e.id <= ticks'
    BY <1>3, <1>4, <1>5, <1>6, <1>7, <2>1
  <2>7. \A e, f \in accepted' : e.id = f.id => e = f
    BY <1>7, <2>1 DEF QueueInv
  <2> QED BY <2>5, <2>6, <2>7 DEF QueueInv
<1> QED BY <1>9, <1>10

\* What was queued is sent once.
LEMMA QueueNext ==
    ASSUME Types, BufferInv, InboxInv, SentInv, BuildInv, QueueInv, [Next]_vars
    PROVE  QueueInv'
<1>1. CASE SendQueued
  BY <1>1, SendKeepsQueue
<1>2. CASE \E size \in Sizes : TickQueue(size)
  BY <1>2, QueuesNew
<1>3. CASE UNCHANGED <<queue, accepted>> /\ ~SendQueued
  <2>1. ticks \in Nat /\ ticks' \in Nat /\ ticks <= ticks'
    <3>1. ticks \in Nat
      BY DEF Types
    <3>2. (\E f \in Incoming : FrameArrives(f)) \/ Poll \/ GetCommand => ticks' = ticks
      BY DEF FrameArrives, Poll, GetCommand, history
    <3>3. Goes => ticks' = ticks \/ ticks' = ticks + 1
      BY DEF Goes
    <3> QED BY <3>1, <3>2, <3>3, Control DEF Types
  <2>2. ASSUME NEW d \in accepted
        PROVE  With(sent', d) = With(sent, d)
    <3>1. CASE sent' = sent
      BY <3>1
    <3>2. CASE sent' # sent
      <4>1. RunCommand \/ FinishCommand \/ TickFinish \/ \E size \in Sizes : TickWrite(size)
        BY <1>3, <3>2, Grows
      <4>2. pc # "queued"
        BY <4>1 DEF RunCommand, FinishCommand, TickFinish, TickWrite
      <4>3. \A e \in AllPieces : New(e) => ~SamePacket(d, e)
        BY <4>2 DEF New, Current, SamePacket, QueueInv
      <4> QED BY <4>3, WithStays
    <3> QED BY <3>1, <3>2
  <2>3. \A d \in accepted' : d.size \in 1..BUF_LEN => Sent(sent', queue', d)
    BY <1>3, <2>2, OnceNow DEF QueueInv, Sent
  <2>4. \A d \in accepted' : d.from = "queue" /\ d.id <= ticks'
    BY <1>3, <2>1, PiecesAre DEF QueueInv, Types
  <2> QED BY <1>3, <2>3, <2>4, OnceNow DEF QueueInv
<1> QED BY <1>1, <1>2, <1>3, Queueing

-----------------------------------------------------------------------------
(* The table of modules. *)

\* Ids are numbers of their own, what is in the table was registered by a load,
\* a load registered what it says, and a module that was reached was loaded.
Single(s) == \A n, m \in DOMAIN s : s[n].id = s[m].id => n = m
Registered(s, dn) == \A n \in DOMAIN s : \E k \in DOMAIN dn : dn[k].result = s[n].id
Loads(s, d) ==
    /\ d.call.op = "sm_load" => d.reply = TwoBytes(d.result)
    /\ d.result \in Ids \cup {0}
    /\ d.result # 0 => /\ d.call.op = "sm_load"
                       /\ \E n \in DOMAIN s : s[n].id = d.result /\ s[n].module = d.call.bytes[2]
Reached(dn, k) ==
    dn[k].target # {} => \E j \in 1..(k - 1) :
                            dn[j].result # 0 /\ dn[j].result = dn[k].call.numbers[1]
TableOf(s, dn) ==
    /\ Single(s) /\ Registered(s, dn)
    /\ \A k \in DOMAIN dn : /\ Loads(s, dn[k]) /\ Reached(dn, k)
                            /\ \A l \in (k + 1)..Len(dn) : Answered(dn[k], dn[l])

\* In the words of the invariant.
LEMMA TableNow ==
    (TableInv <=> TableOf(sms, done)) /\ (TableInv' <=> TableOf(sms', done'))
BY DEF TableInv, TableOf, Single, Registered, Loads, Reached

\* The number that is answered stands for the module.
LEMMA AnsweredNew ==
    ASSUME Types, NEW d, NEW x, Single(sms), Loads(sms, d), x.target = Target(x.call)
    PROVE  Answered(d, x)
<1> SUFFICES ASSUME d.call.op = "sm_load", d.reply # <<0, 0>>,
                    x.call.op \in {"sm_call_id", "sm_get_by_id"}, x.call.ok,
                    x.call.numbers[1] = Number(d.reply)
             PROVE  x.target = {d.call.bytes[2]}
  BY DEF Answered
<1>1. PICK r : r = d.result
  OBVIOUS
<1>2. d.reply = TwoBytes(r) /\ r \in Ids \cup {0}
  BY <1>1 DEF Loads
<1>3. r # 0
  <2>1. 0 \div 256 = 0 /\ 0 % 256 = 0
    OBVIOUS
  <2>2. TwoBytes(0) = <<0, 0>>
    BY <2>1 DEF TwoBytes
  <2> QED BY <1>2, <2>2
<1>4. r \in Numbers
  BY <1>2, <1>3, EventLoopAssumption
<1>5. x.call.numbers[1] = r
  BY <1>2, <1>4, TwoBytesAre DEF Number
<1>6. PICK n \in DOMAIN sms : sms[n].id = r /\ sms[n].module = d.call.bytes[2]
  BY <1>1, <1>3 DEF Loads
<1>7. {j \in DOMAIN sms : sms[j].id = r} = {n}
  BY <1>6 DEF Single
<1>8. Table!Found(r) = {d.call.bytes[2]}
  BY <1>6, <1>7 DEF Table!Found
<1>9. x.target = Table!Found(r)
  BY <1>5 DEF Target
<1> QED BY <1>8, <1>9

\* A module that is reached is in the table.
LEMMA ReachedNew ==
    ASSUME Types, NEW x, Registered(sms, done), x.target = Target(x.call), x.target # {}
    PROVE  \E j \in DOMAIN done : done[j].result # 0 /\ done[j].result = x.call.numbers[1]
<1>1. PICK r : r = x.call.numbers[1]
  OBVIOUS
<1>2. Table!Found(r) # {}
  BY <1>1 DEF Target
<1>3. PICK n \in DOMAIN sms : sms[n].id = r
  BY <1>2 DEF Table!Found
<1>4. r # 0
  <2>1. PICK R : R = [id : Ids, module : Modules]
    OBVIOUS
  <2>2. sms \in Seq(R)
    BY <2>1 DEF Types
  <2>3. sms[n] \in R
    BY <2>2, LenProperties
  <2>4. r \in Ids
    BY <1>3, <2>1, <2>3
  <2> QED BY <2>4, EventLoopAssumption
<1> QED BY <1>1, <1>3, <1>4 DEF Registered

\* A load adds a module to the table that is not in it.
LEMMA RegisterNext ==
    ASSUME NEW S, NEW s \in Seq(S), NEW y \in S, Single(s), \A n \in DOMAIN s : s[n].id # y.id
    PROVE  /\ Single(Append(s, y))
           /\ \A d : Loads(s, d) => Loads(Append(s, y), d)
           /\ \E n \in DOMAIN Append(s, y) : Append(s, y)[n] = y
           /\ \A n \in DOMAIN Append(s, y) : \/ n \in DOMAIN s /\ Append(s, y)[n] = s[n]
                                             \/ Append(s, y)[n] = y
<1>1. PICK t, m : t = Append(s, y) /\ m = Len(s)
  OBVIOUS
<1>2. /\ m \in Nat /\ DOMAIN s = 1..m /\ DOMAIN t = 1..(m + 1) /\ t[m + 1] = y
      /\ \A n \in DOMAIN t : (n \in DOMAIN s /\ t[n] = s[n]) \/ (n = m + 1 /\ t[n] = y)
  BY <1>1, LonerIs
<1>3. \A n \in DOMAIN s : n \in DOMAIN t /\ t[n] = s[n]
  BY <1>1, <1>2, AppendProperties
<1>4. m + 1 \in DOMAIN t
  BY <1>2
<1>5. Single(t)
  BY <1>2 DEF Single
<1>6. \A d : Loads(s, d) => Loads(t, d)
  <2> SUFFICES ASSUME NEW d, Loads(s, d)
               PROVE  Loads(t, d)
    OBVIOUS
  <2>1. d.result # 0 => \E n \in DOMAIN t : t[n].id = d.result /\ t[n].module = d.call.bytes[2]
    BY <1>3 DEF Loads
  <2> QED BY <2>1 DEF Loads
<1> QED BY <1>1, <1>2, <1>4, <1>5, <1>6

\* The table and what was done stay in step.
LEMMA TableNext ==
    ASSUME Types, InboxInv, TableInv, [Next]_vars
    PROVE  TableInv'
<1>1. TableOf(sms, done) /\ IsSeq(done) /\ sms \in Seq([id : Ids, module : Modules])
  BY TableNow DEF Types
<1>2. CASE UNCHANGED <<done, sms>>
  BY <1>1, <1>2, TableNow
<1>3. CASE RunCommand
  <2>1. PICK x : /\ done' = Append(done, x)
                 /\ x.result \in Ids \cup {0} /\ x.target = Target(x.call)
                 /\ x.call.op = "sm_load" => x.reply = TwoBytes(x.result)
                 /\ IF x.result = 0 THEN sms' = sms
                    ELSE /\ x.call.op = "sm_load" /\ Table!Found(x.result) = {}
                         /\ x.call.bytes[2] \in Modules
                         /\ sms' = Append(sms, [id |-> x.result, module |-> x.call.bytes[2]])
    BY <1>3, RunIs
  <2>2. PICK m, t : m = Len(done) /\ t = done'
    OBVIOUS
  <2>3. /\ m \in Nat /\ DOMAIN done = 1..m /\ DOMAIN t = 1..(m + 1) /\ Len(t) = m + 1
        /\ t[m + 1] = x /\ \A k \in 1..m : t[k] = done[k]
        /\ \A k \in DOMAIN t : k \in DOMAIN done \/ k = m + 1
    BY <1>1, <2>1, <2>2, LongerSeq
  <2>4. PICK s : s = sms'
    OBVIOUS
  <2>5. /\ Single(s) /\ (\A d : Loads(sms, d) => Loads(s, d)) /\ Loads(s, x)
        /\ \A n \in DOMAIN s : (n \in DOMAIN sms /\ s[n] = sms[n]) \/ s[n].id = x.result
    <3>1. CASE x.result = 0
      <4>1. s = sms
        BY <2>1, <2>4, <3>1
      <4> QED BY <1>1, <2>1, <3>1, <4>1 DEF TableOf, Loads
    <3>2. CASE x.result # 0
      <4>1. PICK R, y : R = [id : Ids, module : Modules] /\ y = [id |-> x.result, module |-> x.call.bytes[2]]
        OBVIOUS
      <4>2. y \in R /\ sms \in Seq(R) /\ s = Append(sms, y) /\ y.id = x.result /\ y.module = x.call.bytes[2]
        BY <1>1, <2>1, <2>4, <3>2, <4>1
      <4>3. \A n \in DOMAIN sms : sms[n].id # y.id
        <5>1. Table!Found(x.result) = {}
          BY <2>1, <3>2
        <5> QED BY <4>2, <5>1 DEF Table!Found
      <4>4. Single(sms)
        BY <1>1 DEF TableOf
      <4>5. /\ Single(s) /\ (\A d : Loads(sms, d) => Loads(s, d))
            /\ \E n \in DOMAIN s : s[n] = y
            /\ \A n \in DOMAIN s : (n \in DOMAIN sms /\ s[n] = sms[n]) \/ s[n] = y
        BY <4>2, <4>3, <4>4, RegisterNext
      <4>6. Loads(s, x)
        BY <2>1, <3>2, <4>2, <4>5 DEF Loads
      <4> QED BY <4>2, <4>5, <4>6
    <3> QED BY <3>1, <3>2
  <2>6. /\ Single(sms) /\ Registered(sms, done)
        /\ \A k \in 1..m : /\ Loads(sms, done[k]) /\ Reached(done, k)
                           /\ \A l \in (k + 1)..m : Answered(done[k], done[l])
    BY <1>1, <2>2, <2>3 DEF TableOf
  <2>7. Registered(s, t)
    <3>1. ASSUME NEW n \in DOMAIN s
          PROVE  \E k \in DOMAIN t : t[k].result = s[n].id
      <4>1. m + 1 \in DOMAIN t
        BY <2>3
      <4>2. CASE s[n].id = x.result
        BY <2>3, <4>1, <4>2
      <4>3. CASE n \in DOMAIN sms /\ s[n] = sms[n]
        <5>1. PICK k \in DOMAIN done : done[k].result = sms[n].id
          BY <2>6, <4>3 DEF Registered
        <5>2. k \in DOMAIN t /\ t[k] = done[k]
          BY <2>3
        <5> QED BY <4>3, <5>1, <5>2
      <4> QED BY <2>5, <4>2, <4>3
    <3> QED BY <3>1 DEF Registered
  <2>8. ASSUME NEW k \in 1..m
        PROVE  /\ Loads(s, t[k]) /\ Reached(t, k)
               /\ \A l \in (k + 1)..(m + 1) : Answered(t[k], t[l])
    <3>1. t[k] = done[k]
      BY <2>3
    <3>2. Loads(s, t[k])
      BY <2>5, <2>6, <3>1
    <3>3. Reached(t, k)
      <4>1. Reached(done, k)
        BY <2>6
      <4>2. \A j \in 1..(k - 1) : t[j] = done[j]
        <5>1. \A j \in 1..(k - 1) : j \in 1..m
          BY <2>3
        <5> QED BY <2>3, <5>1
      <4> QED BY <3>1, <4>1, <4>2 DEF Reached
    <3>4. ASSUME NEW l \in (k + 1)..(m + 1)
          PROVE  Answered(t[k], t[l])
      <4>1. CASE l = m + 1
        <5>1. Answered(done[k], x)
          BY <2>1, <2>6, AnsweredNew
        <5> QED BY <2>3, <3>1, <4>1, <5>1
      <4>2. CASE l # m + 1
        <5>1. l \in (k + 1)..m /\ l \in 1..m
          BY <2>3, <4>2
        <5>2. Answered(done[k], done[l])
          BY <2>6, <5>1
        <5> QED BY <2>3, <3>1, <5>1, <5>2
      <4> QED BY <4>1, <4>2
    <3> QED BY <3>2, <3>3, <3>4
  <2>9. /\ Loads(s, t[m + 1]) /\ Reached(t, m + 1)
        /\ \A l \in ((m + 1) + 1)..(m + 1) : Answered(t[m + 1], t[l])
    <3>1. Reached(t, m + 1)
      <4>1. ASSUME x.target # {}
            PROVE  \E j \in 1..((m + 1) - 1) : t[j].result # 0 /\ t[j].result = x.call.numbers[1]
        <5>1. PICK j \in DOMAIN done : done[j].result # 0 /\ done[j].result = x.call.numbers[1]
          BY <2>1, <2>6, <4>1, ReachedNew
        <5>2. j \in 1..((m + 1) - 1) /\ t[j] = done[j]
          BY <2>3
        <5> QED BY <5>1, <5>2
      <4> QED BY <2>3, <4>1 DEF Reached
    <3>2. ((m + 1) + 1)..(m + 1) = {}
      BY <2>3
    <3> QED BY <2>3, <2>5, <3>1, <3>2
  <2>10. \A k \in DOMAIN t : /\ Loads(s, t[k]) /\ Reached(t, k)
                             /\ \A l \in (k + 1)..Len(t) : Answered(t[k], t[l])
    <3> TAKE k \in DOMAIN t
    <3>1. k \in 1..m \/ k = m + 1
      BY <2>3
    <3> QED BY <2>3, <2>8, <2>9, <3>1
  <2>11. TableOf(s, t)
    BY <2>5, <2>7, <2>10 DEF TableOf
  <2> QED BY <2>2, <2>4, <2>11, TableNow
<1> QED BY <1>2, <1>3, Doing

-----------------------------------------------------------------------------
(* The theorems. *)

\* Nothing has happened yet.
LEMMA InitInv ==
    ASSUME Init
    PROVE  Inv
<1>1. /\ buf = << >> /\ queue = Null /\ received_packet = Null /\ inbox = << >> /\ sent = << >>
      /\ pc = "poll" /\ command = Null /\ sms = << >> /\ arrived = << >> /\ done = << >>
      /\ ticks = 0 /\ pieces = << >> /\ finished = {} /\ accepted = {}
  BY DEF Init, PacketInit, Table!Init
<1>2. /\ DOMAIN << >> = {} /\ Len(<< >>) = 0 /\ \A S : << >> \in Seq(S)
      /\ 1..0 = {}
  BY SMT
<1>3. MaxWork \in Nat /\ Size(<< >>) = 0 /\ BUF_LEN \in Nat
  BY EventLoopAssumption, EmptyIs, PiecesAre
<1>4. Types
  <2>1. IsSeq(done)
    BY <1>1, <1>2 DEF IsSeq
  <2>2. /\ arrived \in Seq(Arrival) /\ Len(arrived) = 0 /\ inbox \in Seq(AllFrames)
        /\ buf \in Seq(AllPieces) /\ pieces \in Seq(AllPieces) /\ sent \in Seq(Frame)
        /\ sms \in Seq([id : Ids, module : Modules])
    BY <1>1, <1>2
  <2>3. ticks \in Nat /\ Len(arrived) + ticks <= MaxWork
    BY <1>1, <1>3, <2>2
  <2> QED BY <1>1, <2>1, <2>2, <2>3 DEF Types
<1>5. BufferInv
  BY <1>1, <1>2, <1>3 DEF BufferInv
<1>6. InboxInv
  <2>1. Len(inbox) = 0 /\ Len(arrived) = 0
    BY <1>1, <1>2
  <2>2. \A k \in 1..Len(inbox) : FALSE
    BY <1>2, <2>1
  <2>3. Len(inbox) <= Len(arrived)
    BY <2>1
  <2> QED BY <1>1, <2>2, <2>3 DEF InboxInv
<1>7. DoneInv
  BY <1>1, <1>2 DEF DoneInv
<1>8. SentInv
  BY <1>1, <1>2 DEF SentInv, Rising
<1>9. BuildInv
  BY <1>1 DEF BuildInv
<1>10. FinishedInv
  BY <1>1 DEF FinishedInv, FinishedWhole
<1>11. QueueInv
  BY <1>1 DEF QueueInv, QueuedOnce
<1>12. TableInv
  BY <1>1, <1>2 DEF TableInv
<1> QED BY <1>4, <1>5, <1>6, <1>7, <1>8, <1>9, <1>10, <1>11, <1>12 DEF Inv

\* The inductive invariant holds whatever commands, frames, modules and sizes
\* there are, and however the calls that send turn out.
THEOREM Invariant == Spec => []Inv
<1>1. Init => Inv
  BY InitInv
<1>2. Inv /\ [Next]_vars => Inv'
  <2> SUFFICES ASSUME Inv, [Next]_vars
               PROVE  Inv'
    OBVIOUS
  <2>1. /\ Types /\ BufferInv /\ InboxInv /\ DoneInv /\ SentInv /\ BuildInv /\ FinishedInv
        /\ QueueInv /\ TableInv
    BY DEF Inv
  <2>2. Types' /\ BufferInv'
    BY <2>1, TypesNext
  <2>3. InboxInv'
    BY <2>1, InboxNext
  <2>4. DoneInv'
    BY <2>1, DoneNext
  <2>5. SentInv'
    BY <2>1, SentNext
  <2>6. BuildInv'
    BY <2>1, BuildNext
  <2>7. FinishedInv'
    BY <2>1, FinishedNext
  <2>8. QueueInv'
    BY <2>1, QueueNext
  <2>9. TableInv'
    BY <2>1, TableNext
  <2> QED BY <2>2, <2>3, <2>4, <2>5, <2>6, <2>7, <2>8, <2>9 DEF Inv
<1> QED BY <1>1, <1>2, PTL DEF Spec

\* What a command that was done did is what the frame holds.
LEMMA DoneIs ==
    ASSUME Types, InboxInv, DoneInv, NEW k \in DOMAIN done
    PROVE  LET d == done[k]  cmd == arrived[d.id].frame.cmd IN
           /\ d.call.inside
           /\ IF cmd = Null THEN ~d.call.ok ELSE AsAsked(d.call, cmd)
<1>1. PICK n : n = done[k].id
  OBVIOUS
<1>2. Begun(n) /\ IsCommand(n) /\ done[k].call = arrived[n].does
  BY <1>1 DEF DoneInv
<1>3. n \in 1..Len(arrived)
  <2>1. n \in 1..Taken
    BY <1>2, TakenIs DEF Begun, Before
  <2>2. Taken \in Nat /\ Len(arrived) \in Nat /\ Taken <= Len(arrived)
    <3>1. arrived \in Seq(Arrival) /\ inbox \in Seq(AllFrames) /\ Len(inbox) <= Len(arrived)
      BY DEF Types, InboxInv
    <3>2. Len(arrived) \in Nat /\ Len(inbox) \in Nat
      BY <3>1, LenProperties
    <3> QED BY <3>1, <3>2 DEF Taken
  <2> QED BY <2>1, <2>2
<1> QED BY <1>1, <1>2, <1>3, CommandIs

\* The types are right: the send buffer never holds more than it has room for
\* (packet.c:22-35), and no handler reads a byte behind its packet.
THEOREM TypeCorrect == Spec => []TypeOK
<1>1. Inv => TypeOK
  <2> SUFFICES ASSUME Inv
               PROVE  TypeOK
    OBVIOUS
  <2>1. Types /\ BufferInv /\ InboxInv /\ DoneInv
    BY DEF Inv
  <2>2. /\ buf \in Seq(AllPieces) /\ Size(buf) <= BUF_LEN /\ queue \in AllPieces \cup {Null}
        /\ {received_packet, command} \subseteq AllFrames \cup {Null} /\ inbox \in Seq(AllFrames)
        /\ pc \in {"poll", "get", "start", "command", "finish", "tick", "write", "queued"}
    BY <2>1 DEF Types, BufferInv
  <2>3. sent \in Seq([header : {0, 1, Null}, data : Seq(AllPieces)])
    BY <2>1 DEF Types, Frame
  <2>4. \A k \in DOMAIN done : done[k].call.inside
    BY <2>1, DoneIs
  <2>5. \A k \in DOMAIN sms : sms[k].id \in Ids
    <3>1. PICK R : R = [id : Ids, module : Modules]
      OBVIOUS
    <3>2. sms \in Seq(R)
      BY <2>1, <3>1 DEF Types
    <3>3. \A k \in DOMAIN sms : sms[k] \in R
      BY <3>2, LenProperties
    <3> QED BY <3>1, <3>3
  <2>6. /\ pc = "get" => received_packet # Null
        /\ pc \in {"start", "command", "finish"} <=> command # Null
    BY <2>1 DEF InboxInv
  <2> QED BY <2>2, <2>3, <2>4, <2>5, <2>6 DEF TypeOK
<1> QED BY <1>1, Invariant, PTL

\* A packet whose packet_finish succeeded is on the line as it was written,
\* whatever the buffer held before it, and whichever sends failed.
THEOREM PacketsWhole == Spec => []FinishedWhole
<1>1. Inv => FinishedWhole
  BY DEF Inv, FinishedInv
<1> QED BY <1>1, Invariant, PTL

\* A packet that packet_queue took is sent once, in a frame of its own, and is
\* in the queue until then.
THEOREM QueueOnce == Spec => []QueuedOnce
<1>1. Inv => QueuedOnce
  BY DEF Inv, QueueInv
<1> QED BY <1>1, Invariant, PTL

\* Commands are done in the order in which they arrived, none twice, and their
\* replies are on the line in that order.
THEOREM CommandsInOrder == Spec => []InOrder
<1>1. Inv => InOrder
  <2> SUFFICES ASSUME Inv
               PROVE  InOrder
    OBVIOUS
  <2>1. \A k, l \in DOMAIN done : k < l => done[k].id < done[l].id
    BY DEF Inv, DoneInv
  <2>2. sent \in Seq(Frame) /\ (\A k \in DOMAIN sent : Proper(sent[k])) /\ Rising(sent)
    BY DEF Inv, Types, SentInv
  <2>3. ASSUME NEW k \in DOMAIN sent, NEW i \in DOMAIN sent[k].data, IsReply(sent[k].data[i])
        PROVE  i = 1
    <3>1. PICK b : b = sent[k].data
      OBVIOUS
    <3>2. sent[k] \in Frame /\ Proper(sent[k])
      BY <2>2, LenProperties
    <3>3. b \in Seq(AllPieces) /\ Len(b) = 1
      BY <2>3, <3>1, <3>2 DEF Proper, Frame
    <3>4. DOMAIN b = 1..1
      BY <3>3, LenProperties
    <3> QED BY <3>1, <3>4
  <2>4. ASSUME NEW k \in DOMAIN sent, NEW l \in DOMAIN sent, NEW i \in DOMAIN sent[k].data,
               NEW j \in DOMAIN sent[l].data, k < l \/ (k = l /\ i < j),
               IsReply(sent[k].data[i]), IsReply(sent[l].data[j])
        PROVE  sent[k].data[i].id < sent[l].data[j].id
    <3>1. i = 1 /\ j = 1
      BY <2>3, <2>4
    <3> QED BY <2>2, <2>4, <3>1 DEF Rising
  <2> QED BY <2>1, <2>4 DEF InOrder
<1> QED BY <1>1, Invariant, PTL

\* The node does what the host asked for, nothing if the host asked for
\* nothing, and a module is reached by the number that its load returned.
THEOREM CommandsCarriedOut == Spec => []CarriedOut
<1>1. Inv => CarriedOut
  <2> SUFFICES ASSUME Inv
               PROVE  CarriedOut
    OBVIOUS
  <2>1. Types /\ InboxInv /\ DoneInv /\ TableInv
    BY DEF Inv
  <2>2. ASSUME NEW k \in DOMAIN done
        PROVE  LET d == done[k]  cmd == arrived[d.id].frame.cmd IN
               /\ IF cmd = Null THEN ~d.call.ok ELSE AsAsked(d.call, cmd)
               /\ \A l \in (k + 1)..Len(done) : Answered(d, done[l])
               /\ d.target # {} =>
                      \E j \in 1..(k - 1) : done[j].result # 0 /\ done[j].result = d.call.numbers[1]
    <3>1. LET d == done[k]  cmd == arrived[d.id].frame.cmd IN
          IF cmd = Null THEN ~d.call.ok ELSE AsAsked(d.call, cmd)
      BY <2>1, DoneIs
    <3>2. /\ \A l \in (k + 1)..Len(done) : Answered(done[k], done[l])
          /\ done[k].target # {} =>
                \E j \in 1..(k - 1) : done[j].result # 0 /\ done[j].result = done[k].call.numbers[1]
      BY <2>1 DEF TableInv
    <3> QED BY <3>1, <3>2
  <2> QED BY <2>2 DEF CarriedOut
<1> QED BY <1>1, Invariant, PTL
=============================================================================
