----------------------------- MODULE CobsProofs -----------------------------
(***************************************************************************)
(* Proofs about Cobs, for messages of any length over bytes of any number  *)
(* of values: both functions stay in their buffers, the encoder writes no  *)
(* zero byte, and decoding what was encoded gives the message back.        *)
(***************************************************************************)
EXTENDS Cobs, TLAPS, SequenceTheorems

\* The encoder's position: a block is open, not full, and counts its bytes.
\* Of the len bytes read, those in full blocks cost one byte more.
EncoderInv ==
    pc = "encode" =>
        /\ encoding = TRUE /\ src = message
        /\ code_ptr \in 1..Len(dst)
        /\ dst[code_ptr] \in 1..(MaxCode - 1)
        /\ \A k \in 1..Len(dst) : dst[k] # 0
        /\ Len(dst) >= s
        /\ (Len(dst) - s) * (MaxCode - 1) + dst[code_ptr] <= s

\* The decoder's: within a block it has read the code and written no byte for
\* it yet.  The encoder's pointer is not used any more.
DecoderInv ==
    /\ DecodeInBounds
    /\ pc = "copy" => Len(dst) + 2 <= s
    /\ pc # "encode" => code_ptr = 0

BoundInv == TypeOK /\ EncoderInv /\ DecoderInv

-----------------------------------------------------------------------------
(* Sequences of bytes. *)

\* The parts of an extended output.
LEMMA Extended ==
    ASSUME NEW t \in Seq(Byte), NEW b \in Byte
    PROVE  /\ Append(t, b) \in Seq(Byte) /\ Append(t, b) # << >>
           /\ Len(Append(t, b)) = Len(t) + 1 /\ Len(t) \in Nat
           /\ \A k \in 1..Len(t) : Append(t, b)[k] = t[k]
           /\ Append(t, b)[Len(t) + 1] = b
           /\ \A k \in 1..(Len(t) + 1) : k = Len(t) + 1 \/ k \in 1..Len(t)
<1>1. Len(t) \in Nat
  BY LenProperties
<1>2. \A n \in Nat : \A k \in 1..(n + 1) : k = n + 1 \/ k \in 1..n
  BY SMT
<1> QED BY <1>1, <1>2, AppendProperties

\* The output after a byte was copied and counted.
LEMMA CopiedIs ==
    ASSUME TypeOK, code_ptr \in 1..Len(dst), dst[code_ptr] < MaxCode, NEW b \in Byte
    PROVE  /\ Copied(b) \in Seq(Byte) /\ Len(Copied(b)) = Len(dst) + 1 /\ Len(dst) \in Nat
           /\ dst[code_ptr] \in Nat
           /\ Copied(b)[code_ptr] = dst[code_ptr] + 1
           /\ Copied(b)[Len(dst) + 1] = b
           /\ \A k \in 1..Len(dst) : k # code_ptr => Copied(b)[k] = dst[k]
           /\ \A k \in 1..(Len(dst) + 1) : k = Len(dst) + 1 \/ k \in 1..Len(dst)
<1>1. dst \in Seq(Byte) /\ dst[code_ptr] \in Byte
  BY ElementOfSeq DEF TypeOK
<1>2. dst[code_ptr] + 1 \in Byte /\ dst[code_ptr] \in Nat
  BY <1>1, CobsAssumption, SMT DEF Byte
<1> PICK t : t = [dst EXCEPT ![code_ptr] = dst[code_ptr] + 1]
  OBVIOUS
<1>3. /\ t \in Seq(Byte) /\ Len(t) = Len(dst)
      /\ \A j \in 1..Len(dst) : t[j] = IF j = code_ptr THEN dst[code_ptr] + 1 ELSE dst[j]
  BY <1>1, <1>2, ExceptSeq
<1>4. Copied(b) = Append(t, b)
  BY DEF Copied
<1>5. /\ Append(t, b) \in Seq(Byte) /\ Len(Append(t, b)) = Len(t) + 1 /\ Len(t) \in Nat
      /\ \A k \in 1..Len(t) : Append(t, b)[k] = t[k]
      /\ Append(t, b)[Len(t) + 1] = b
      /\ \A k \in 1..(Len(t) + 1) : k = Len(t) + 1 \/ k \in 1..Len(t)
  BY <1>3, Extended
<1> QED BY <1>2, <1>3, <1>4, <1>5

-----------------------------------------------------------------------------
(* Types and bounds, action by action. *)

\* Nothing was read, and nothing but the first code was written.
LEMMA InitBound == Init => BoundInv
<1> SUFFICES ASSUME Init PROVE BoundInv
  OBVIOUS
<1>1. 0 \in Byte /\ 1 \in Byte /\ MaxCode \in Nat /\ 1 \in 1..(MaxCode - 1) /\ 0 \in 0..MaxCode
  BY CobsAssumption, SMT DEF Byte
<1>2. /\ << >> \in Seq(Byte) /\ Len(<< >>) = 0 /\ <<1>> \in Seq(Byte) /\ Len(<<1>>) = 1
      /\ <<1>>[1] = 1
  BY <1>1, SMT
<1>3. \A t \in Seq(Byte) : Len(t) \in Nat
  BY LenProperties
<1>4. message \in Seq(Byte) /\ src \in Seq(Byte) /\ dst \in Seq(Byte)
  BY <1>2, CobsAssumption DEF Init
<1>5. TypeOK
  <2>1. s \in Nat \ {0} /\ s <= Len(src) + 1
    BY <1>3, <1>4, SMT DEF Init
  <2>2. code_ptr \in 0..Len(dst)
    BY <1>2, SMT DEF Init
  <2> QED BY <1>1, <1>4, <2>1, <2>2 DEF Init, TypeOK
<1>6. EncoderInv
  <2> SUFFICES ASSUME pc = "encode" PROVE EncoderInv
    BY DEF EncoderInv
  <2>1. dst = <<1>> /\ code_ptr = 1 /\ s = 1 /\ src = message /\ encoding = TRUE
    BY DEF Init
  <2>2. (1 - 1) * (MaxCode - 1) + 1 <= 1 /\ 1 >= 1 /\ 1 \in 1..1 /\ \A k \in 1..1 : k = 1
    BY <1>1, SMT
  <2> QED BY <1>1, <1>2, <2>1, <2>2 DEF EncoderInv
<1>7. DecoderInv
  <2>1. pc # "encode" => dst = << >> /\ s = 1 /\ code_ptr = 0 /\ pc # "copy"
    BY DEF Init
  <2> QED BY <1>2, <1>3, <1>4, <2>1, SMT DEF DecoderInv, DecodeInBounds
<1> QED BY <1>5, <1>6, <1>7 DEF BoundInv

\* A zero ends the block; the next one is open.
LEMMA EncodeZeroBound ==
    ASSUME BoundInv, EncodeZero
    PROVE  BoundInv'
<1> USE DEF EncodeZero
<1>1. /\ TypeOK /\ EncoderInv /\ dst \in Seq(Byte) /\ src \in Seq(Byte) /\ 1 \in Byte
      /\ MaxCode \in Nat /\ MaxCode > 1 /\ s \in Nat /\ Len(src) \in Nat
  BY CobsAssumption, LenProperties, SMT DEF BoundInv, TypeOK, Byte
<1> DEFINE n == Len(dst)
<1>2. /\ dst' \in Seq(Byte) /\ Len(dst') = n + 1 /\ n \in Nat
      /\ dst'[n + 1] = 1 /\ \A k \in 1..n : dst'[k] = dst[k]
      /\ \A k \in 1..(n + 1) : k = n + 1 \/ k \in 1..n
  BY <1>1, Extended
<1>3. /\ encoding = TRUE /\ src = message /\ n >= s
      /\ (n - s) * (MaxCode - 1) + dst[code_ptr] <= s
      /\ dst[code_ptr] \in Nat /\ dst[code_ptr] >= 1
      /\ \A k \in 1..n : dst[k] # 0
  BY <1>1, SMT DEF EncoderInv
<1>4. TypeOK'
  <2>1. s + 1 \in Nat \ {0} /\ s + 1 <= Len(src) + 1
    BY <1>1, SMT DEF AtEnd
  <2>2. n + 1 \in 0..(n + 1)
    BY <1>2, SMT
  <2> QED BY <1>1, <1>2, <2>1, <2>2 DEF TypeOK
<1>5. (n + 1 - (s + 1)) * (MaxCode - 1) + 1 <= s + 1
  <2> PICK x \in Int : x = (n - s) * (MaxCode - 1)
    BY <1>1, <1>2, SMT
  <2>1. n + 1 - (s + 1) = n - s
    BY <1>1, <1>2, SMT
  <2>2. x + 1 <= s + 1
    BY <1>1, <1>3, SMT
  <2> QED BY <2>1, <2>2
<1>6. EncoderInv'
  <2>1. n + 1 \in 1..(n + 1) /\ 1 \in 1..(MaxCode - 1) /\ n + 1 >= s + 1 /\ 1 # 0
    BY <1>1, <1>2, <1>3, SMT
  <2> QED BY <1>2, <1>3, <1>5, <2>1 DEF EncoderInv
<1> QED BY <1>4, <1>6 DEF BoundInv, DecoderInv, DecodeInBounds

\* Any other byte is copied and counted; a full block is followed by an open one.
LEMMA EncodeByteBound ==
    ASSUME BoundInv, EncodeByte
    PROVE  BoundInv'
<1> USE DEF EncodeByte
<1>1. /\ TypeOK /\ EncoderInv /\ dst \in Seq(Byte) /\ src \in Seq(Byte) /\ 1 \in Byte
      /\ MaxCode \in Nat /\ MaxCode > 1 /\ s \in Nat /\ s > 0 /\ s <= Len(src) /\ Len(src) \in Nat
  BY CobsAssumption, LenProperties, SMT DEF BoundInv, TypeOK, Byte, AtEnd
<1> DEFINE n == Len(dst)
           c == dst[code_ptr]
           b == src[s]
<1>2. /\ encoding = TRUE /\ src = message /\ n >= s
      /\ (n - s) * (MaxCode - 1) + c <= s
      /\ code_ptr \in 1..n /\ c \in 1..(MaxCode - 1)
      /\ \A k \in 1..n : dst[k] # 0
  BY <1>1 DEF EncoderInv
<1>3. b \in Byte /\ b # 0
  <2>1. s \in 1..Len(src)
    BY <1>1, SMT
  <2> QED BY <1>1, <2>1, ElementOfSeq
<1>4. c \in Nat /\ c >= 1 /\ c < MaxCode
  BY <1>1, <1>2, SMT
<1> PICK t : t = Copied(b)
  OBVIOUS
<1>5. /\ t \in Seq(Byte) /\ Len(t) = n + 1 /\ n \in Nat
      /\ t[code_ptr] = c + 1 /\ t[n + 1] = b
      /\ \A k \in 1..n : k # code_ptr => t[k] = dst[k]
      /\ \A k \in 1..(n + 1) : k = n + 1 \/ k \in 1..n
  BY <1>1, <1>2, <1>3, <1>4, CopiedIs
<1>6. s + 1 \in Nat \ {0} /\ s + 1 <= Len(src) + 1 /\ code_ptr \in 1..(n + 1) /\ c + 1 # 0
  BY <1>1, <1>2, <1>4, <1>5, SMT
<1>7. \A k \in 1..(n + 1) : t[k] # 0
  BY <1>2, <1>3, <1>5, <1>6
<1> HIDE DEF c, n, b
<1>8. CASE ~BlockFull /\ dst' = t /\ code_ptr' = code_ptr
  <2>1. c + 1 # MaxCode
    BY <1>8 DEF BlockFull, c
  <2>2. c + 1 \in 1..(MaxCode - 1)
    BY <1>1, <1>4, <2>1, SMT
  <2>3. n + 1 >= s + 1 /\ (n + 1 - (s + 1)) * (MaxCode - 1) + (c + 1) <= s + 1
    <3> PICK x \in Int : x = (n - s) * (MaxCode - 1)
      BY <1>1, <1>5, SMT
    <3>1. n + 1 - (s + 1) = n - s
      BY <1>1, <1>5, SMT
    <3>2. x + (c + 1) <= s + 1 /\ n + 1 >= s + 1
      BY <1>1, <1>2, <1>4, <1>5, SMT
    <3> QED BY <3>1, <3>2
  <2>4. EncoderInv'
    BY <1>2, <1>5, <1>6, <1>7, <1>8, <2>2, <2>3 DEF EncoderInv
  <2>5. TypeOK'
    <3>1. code_ptr \in 0..(n + 1)
      BY <1>6, SMT
    <3> QED BY <1>1, <1>5, <1>6, <1>8, <3>1 DEF TypeOK
  <2> QED BY <2>4, <2>5 DEF BoundInv, DecoderInv, DecodeInBounds
<1>9. CASE BlockFull /\ dst' = Append(t, 1) /\ code_ptr' = n + 2
  <2>1. c + 1 = MaxCode
    BY <1>9 DEF BlockFull, c
  <2> PICK u : u = Append(t, 1)
    OBVIOUS
  <2>2. /\ u \in Seq(Byte) /\ Len(u) = n + 2
        /\ u[n + 2] = 1 /\ \A k \in 1..(n + 1) : u[k] = t[k]
        /\ \A k \in 1..(n + 2) : k = n + 2 \/ k \in 1..(n + 1)
    <3>1. /\ u \in Seq(Byte) /\ Len(u) = Len(t) + 1 /\ Len(t) \in Nat
          /\ \A k \in 1..Len(t) : u[k] = t[k]
          /\ u[Len(t) + 1] = 1
          /\ \A k \in 1..(Len(t) + 1) : k = Len(t) + 1 \/ k \in 1..Len(t)
      BY <1>1, <1>5, Extended
    <3>2. (n + 1) + 1 = n + 2
      BY <1>5, SMT
    <3> QED BY <1>5, <3>1, <3>2
  <2>3. \A k \in 1..(n + 2) : u[k] # 0
    <3>1. 1 # 0
      BY SMT
    <3> QED BY <1>7, <2>2, <3>1
  <2>4. n + 2 >= s + 1 /\ (n + 2 - (s + 1)) * (MaxCode - 1) + 1 <= s + 1
    <3> PICK m \in Int : m = MaxCode - 1
      BY <1>1, SMT
    <3> PICK d \in Int : d = n - s
      BY <1>1, <1>5, SMT
    <3>1. n + 2 - (s + 1) = d + 1
      BY <1>1, <1>5, SMT
    <3>2. (d + 1) * m = d * m + m
      BY SMT
    <3> PICK x \in Int : x = d * m
      BY SMT
    <3>3. x + c <= s
      BY <1>2
    <3>4. x + m + 1 <= s + 1 /\ n + 2 >= s + 1
      BY <1>1, <1>2, <1>4, <1>5, <2>1, <3>3, SMT
    <3> QED BY <3>1, <3>2, <3>4
  <2>5. EncoderInv'
    <3>1. n + 2 \in 1..(n + 2) /\ 1 \in 1..(MaxCode - 1)
      BY <1>1, <1>5, SMT
    <3>2. dst' = u /\ code_ptr' = n + 2 /\ s' = s + 1
      BY <1>9
    <3>3. Len(dst') = n + 2 /\ dst'[n + 2] = 1 /\ \A k \in 1..(n + 2) : dst'[k] # 0
      BY <2>2, <2>3, <3>2
    <3>4. encoding' = TRUE /\ src' = message'
      BY <1>2
    <3>5. dst'[code_ptr'] = 1 /\ code_ptr' \in 1..Len(dst')
      BY <3>1, <3>2, <3>3
    <3>6. Len(dst') >= s' /\ (Len(dst') - s') * (MaxCode - 1) + dst'[code_ptr'] <= s'
      <4>1. s' = s + 1 /\ Len(dst') = n + 2 /\ dst'[code_ptr'] = 1
        BY <3>2, <3>3, <3>5
      <4>2. Len(dst') - s' = n + 2 - (s + 1)
        BY <1>1, <1>5, <4>1, SMT
      <4> HIDE DEF EncodeByte
      <4>3. (Len(dst') - s') * (MaxCode - 1) + dst'[code_ptr'] <= s'
        BY <2>4, <4>1, <4>2, Zenon
      <4>4. Len(dst') >= s'
        BY <2>4, <4>1
      <4> QED BY <4>3, <4>4
    <3>7. \A k \in 1..Len(dst') : dst'[k] # 0
      BY <3>3
    <3> QED BY <3>1, <3>4, <3>5, <3>6, <3>7 DEF EncoderInv
  <2>6. TypeOK'
    <3>1. n + 2 \in 0..(n + 2)
      BY <1>5, SMT
    <3> QED BY <1>1, <1>6, <1>9, <2>2, <3>1 DEF TypeOK
  <2> QED BY <2>5, <2>6 DEF BoundInv, DecoderInv, DecodeInBounds
<1> QED BY <1>8, <1>9 DEF n, b

\* What was written is decoded.
LEMMA EncodeEndBound ==
    ASSUME BoundInv, EncodeEnd
    PROVE  BoundInv'
<1> USE DEF EncodeEnd
<1>1. << >> \in Seq(Byte) /\ Len(<< >>) = 0 /\ 0 \in 0..0 /\ 1 \in Nat \ {0} /\ 0 < 1
  BY SMT
<1>2. Len(dst) \in Nat /\ 1 <= Len(dst) + 1 /\ 0 <= Len(dst)
  <2>1. Len(dst) \in Nat
    BY LenProperties DEF BoundInv, TypeOK
  <2> QED BY <2>1, SMT
<1>3. TypeOK'
  BY <1>1, <1>2 DEF BoundInv, TypeOK
<1>4. DecoderInv'
  BY <1>1, <1>2 DEF DecoderInv, DecodeInBounds
<1> QED BY <1>3, <1>4 DEF BoundInv, EncoderInv

\* The decoder takes a code that is legal, or refuses.
LEMMA DecodeCodeBound ==
    ASSUME BoundInv, DecodeCode
    PROVE  BoundInv'
<1> USE DEF DecodeCode
<1>1. /\ TypeOK /\ dst \in Seq(Byte) /\ src \in Seq(Byte) /\ Len(dst) \in Nat /\ Len(src) \in Nat
      /\ MaxCode \in Nat /\ MaxCode > 1 /\ s \in Nat /\ s > 0 /\ s <= Len(src)
      /\ Len(dst) < s /\ Len(dst) <= Len(src)
  BY CobsAssumption, LenProperties, SMT DEF BoundInv, DecoderInv, DecodeInBounds, TypeOK, AtEnd
<1>2. src[s] \in Byte
  <2>1. s \in 1..Len(src)
    BY <1>1, SMT
  <2> QED BY <1>1, <2>1, ElementOfSeq
<1>3. CASE pc' = "rejected" /\ UNCHANGED <<s, code, i>>
  BY <1>1, <1>3 DEF BoundInv, TypeOK, EncoderInv, DecoderInv, DecodeInBounds
<1>4. CASE ~Illegal(src[s]) /\ code' = src[s] /\ s' = s + 1 /\ i' = 1 /\ pc' = "copy"
  <2> PICK c : c = src[s]
    OBVIOUS
  <2>1. c \in Nat /\ c # 0 /\ s + c <= Len(src) + 1 /\ c <= MaxCode
    BY <1>1, <1>2, <1>4, CobsAssumption, SMT DEF Illegal, Byte
  <2>2. /\ s + 1 \in Nat \ {0} /\ s + 1 <= Len(src) + 1 /\ 1 \in 0..MaxCode
        /\ Len(dst) < s + 1 /\ Len(dst) + 2 <= s + 1 /\ 1 <= c /\ 1 >= 1
        /\ (s + 1) + (c - 1) <= Len(src) + 1
    BY <1>1, <2>1, SMT
  <2>3. TypeOK'
    BY <1>1, <1>2, <1>4, <2>2 DEF TypeOK
  <2>4. DecoderInv'
    BY <1>1, <1>4, <2>2 DEF BoundInv, DecoderInv, DecodeInBounds
  <2> QED BY <1>4, <2>3, <2>4 DEF BoundInv, EncoderInv
<1> QED BY <1>3, <1>4

\* A byte of the block is copied, or refused.
LEMMA DecodeByteBound ==
    ASSUME BoundInv, DecodeByte
    PROVE  BoundInv'
<1> USE DEF DecodeByte
<1>1. /\ TypeOK /\ dst \in Seq(Byte) /\ src \in Seq(Byte) /\ Len(dst) \in Nat /\ Len(src) \in Nat
      /\ MaxCode \in Nat /\ code \in Nat /\ code <= MaxCode /\ i \in Nat /\ s \in Nat /\ s > 0
      /\ Len(dst) + 2 <= s /\ Len(dst) <= Len(src)
      /\ i >= 1 /\ i < code /\ s + (code - i) <= Len(src) + 1
  BY CobsAssumption, LenProperties, SMT DEF BoundInv, DecoderInv, DecodeInBounds, TypeOK, Byte
<1>2. CASE pc' = "rejected" /\ UNCHANGED <<s, dst, i>>
  BY <1>1, <1>2 DEF BoundInv, TypeOK, EncoderInv, DecoderInv, DecodeInBounds
<1>3. CASE dst' = Append(dst, src[s]) /\ s' = s + 1 /\ i' = i + 1 /\ pc' = pc
  <2>1. s \in 1..Len(src)
    BY <1>1, SMT
  <2>2. src[s] \in Byte
    BY <1>1, <2>1, ElementOfSeq
  <2>3. dst' \in Seq(Byte) /\ Len(dst') = Len(dst) + 1
    BY <1>1, <1>3, <2>2, Extended
  <2>4. /\ s + 1 \in Nat \ {0} /\ s + 1 <= Len(src) + 1 /\ i + 1 \in 0..MaxCode
        /\ Len(dst) + 1 < s + 1 /\ (Len(dst) + 1) + 2 <= s + 1 /\ i + 1 <= code /\ i + 1 >= 1
        /\ (s + 1) + (code - (i + 1)) <= Len(src) + 1 /\ Len(dst) + 1 <= Len(src)
    BY <1>1, SMT
  <2>5. TypeOK'
    <3>1. code_ptr \in 0..(Len(dst) + 1)
      BY <1>1, SMT DEF TypeOK
    <3> QED BY <1>1, <1>3, <2>3, <2>4, <3>1 DEF TypeOK
  <2>6. DecoderInv'
    BY <1>1, <1>3, <2>3, <2>4 DEF BoundInv, DecoderInv, DecodeInBounds
  <2> QED BY <1>3, <2>5, <2>6 DEF BoundInv, EncoderInv
<1> QED BY <1>2, <1>3

\* What a block's end writes: at most one byte.
LEMMA BlockEndIs ==
    ASSUME dst \in Seq(Byte)
    PROVE  dst \o BlockZero = IF code # MaxCode THEN Append(dst, 0) ELSE dst
<1>1. 0 \in Byte
  BY CobsAssumption, SMT DEF Byte
<1> QED BY <1>1, AppendIsConcat, ConcatEmptySeq DEF BlockZero

\* The block ends.
LEMMA DecodeBlockEndBound ==
    ASSUME BoundInv, DecodeBlockEnd
    PROVE  BoundInv'
<1> USE DEF DecodeBlockEnd
<1>1. /\ TypeOK /\ dst \in Seq(Byte) /\ Len(dst) \in Nat /\ Len(src) \in Nat /\ s \in Nat
      /\ s <= Len(src) + 1 /\ Len(dst) + 2 <= s /\ Len(dst) <= Len(src) /\ 0 \in Byte
  BY CobsAssumption, LenProperties, SMT DEF BoundInv, DecoderInv, DecodeInBounds, TypeOK, Byte
<1>2. dst' \in Seq(Byte) /\ (Len(dst') = Len(dst) + 1 \/ Len(dst') = Len(dst))
  BY <1>1, BlockEndIs, Extended
<1>3. Len(dst') \in Nat /\ Len(dst') < s /\ Len(dst') <= Len(src) /\ code_ptr \in 0..Len(dst')
  BY <1>1, <1>2, SMT DEF TypeOK
<1>4. TypeOK'
  BY <1>1, <1>2, <1>3 DEF TypeOK
<1>5. DecoderInv'
  BY <1>3 DEF BoundInv, DecoderInv, DecodeInBounds
<1> QED BY <1>4, <1>5 DEF BoundInv, EncoderInv

\* The last zero is dropped.
LEMMA DecodeEndBound ==
    ASSUME BoundInv, DecodeEnd
    PROVE  BoundInv'
<1> USE DEF DecodeEnd
<1>1. /\ TypeOK /\ dst \in Seq(Byte) /\ Len(dst) \in Nat /\ Len(src) \in Nat /\ s \in Nat
      /\ Len(dst) < s /\ Len(dst) <= Len(src)
  BY LenProperties, SMT DEF BoundInv, DecoderInv, DecodeInBounds, TypeOK
<1>2. CASE dst' = dst
  BY <1>1, <1>2 DEF BoundInv, TypeOK, EncoderInv, DecoderInv, DecodeInBounds
<1>3. CASE dst' # dst
  <2>1. dst # << >> /\ dst' = SubSeq(dst, 1, Len(dst) - 1)
    BY <1>3
  <2>2. Len(dst) # 0
    BY <1>1, <2>1, EmptySeq
  <2> PICK n \in Nat : n = Len(dst) - 1
    BY <1>1, <2>2, SMT
  <2>3. n < s /\ n <= Len(src) /\ 1..n \subseteq 1..Len(dst) /\ n <= Len(dst) /\ n + 1 = Len(dst)
    BY <1>1, SMT
  <2>4. \A k \in 1..n : dst[k] \in Byte
    BY <1>1, <2>3, ElementOfSeq
  <2>5. dst' \in Seq(Byte) /\ Len(dst') = n
    BY <2>1, <2>4, SubSeqProperties, <1>1, <2>3, SMT
  <2>6. TypeOK'
    <3>1. code_ptr \in 0..n
      BY SMT DEF BoundInv, DecoderInv
    <3> QED BY <1>1, <2>5, <3>1 DEF TypeOK
  <2>7. DecoderInv'
    BY <2>3, <2>5 DEF BoundInv, DecoderInv, DecodeInBounds
  <2> QED BY <2>6, <2>7 DEF BoundInv, EncoderInv
<1> QED BY <1>2, <1>3

\* Every step keeps the bounds.
LEMMA NextBound == BoundInv /\ [Next]_vars => BoundInv'
<1> SUFFICES ASSUME BoundInv, [Next]_vars PROVE BoundInv'
  OBVIOUS
<1>1. CASE Next
  BY <1>1, EncodeZeroBound, EncodeByteBound, EncodeEndBound, DecodeCodeBound, DecodeByteBound,
     DecodeBlockEndBound, DecodeEndBound DEF Next
<1>2. CASE UNCHANGED vars
  BY <1>2 DEF vars, BoundInv, TypeOK, EncoderInv, DecoderInv, DecodeInBounds
<1> QED BY <1>1, <1>2

\* What fits as often as that in a length fits as often as division says.
LEMMA DivBounds ==
    ASSUME NEW l \in Nat, NEW m \in Nat, m > 0, NEW f \in Nat, f * m <= l
    PROVE  f <= l \div m
<1> PICK q \in Int, r \in Int : q = l \div m /\ r = l % m
  BY SMT
<1>1. l = m * q + r /\ 0 <= r /\ r < m
  BY SMT
<1>2. ASSUME f > q PROVE FALSE
  <2> PICK d \in Nat : f = q + 1 + d
    <3>1. f - q - 1 \in Nat /\ f = q + 1 + (f - q - 1)
      BY <1>2, SMT
    <3> QED BY <3>1
  <2>1. f * m = m * q + m + d * m
    BY SMT
  <2>2. d * m \in Nat
    BY SMT
  <2> PICK x \in Int, y \in Int : x = m * q /\ y = d * m
    BY SMT
  <2>3. x + m + y <= l /\ l = x + r /\ y >= 0
    BY <1>1, <2>1, <2>2
  <2> QED BY <1>1, <2>3, SMT
<1> QED BY <1>2, SMT

\* The encoder's output fits the buffer: each full block, at MaxCode - 1 bytes
\* of the message, costs one byte more, and the first code is one.
LEMMA BoundFits == BoundInv => EncodingFramed
<1> SUFFICES ASSUME BoundInv, pc = "encode"
             PROVE  /\ Len(dst) <= cobs_max_encoded_len(Len(message))
                    /\ \A k \in 1..Len(dst) : dst[k] # 0
  BY DEF EncodingFramed
<1>1. /\ src = message /\ \A k \in 1..Len(dst) : dst[k] # 0
      /\ Len(dst) >= s /\ (Len(dst) - s) * (MaxCode - 1) + dst[code_ptr] <= s
      /\ dst[code_ptr] \in 1..(MaxCode - 1)
  BY DEF BoundInv, EncoderInv
<1>2. /\ Len(dst) \in Nat /\ Len(message) \in Nat /\ MaxCode \in Nat /\ MaxCode > 1
      /\ s \in Nat /\ s <= Len(message) + 1
  BY <1>1, CobsAssumption, LenProperties DEF BoundInv, TypeOK
<1>3. Len(dst) >= s
  BY <1>1
<1> PICK f \in Nat : f = Len(dst) - s
  BY <1>2, <1>3, SMT
<1> PICK m \in Nat : m = MaxCode - 1 /\ m > 0
  BY <1>2, SMT
<1> PICK x \in Int : x = f * m
  BY SMT
<1>4. x + dst[code_ptr] <= s
  BY <1>1
<1>5. x <= Len(message)
  BY <1>1, <1>2, <1>4, SMT
<1>6. f <= Len(message) \div m
  BY <1>2, <1>5, DivBounds
<1> PICK q \in Int : q = Len(message) \div m
  BY <1>2, SMT
<1>7. Len(dst) <= Len(message) + q + 1
  BY <1>2, <1>6, SMT
<1> QED BY <1>1, <1>7 DEF cobs_max_encoded_len

-----------------------------------------------------------------------------
(* What an encoding is, said without the steps that make it. *)

\* e is an encoding of the first n bytes of m.  H holds the places of the
\* codes in e, cp is the last of them, and at[h] says how many bytes of m come
\* before the block at h.  A block holds non-zero bytes of m; unless it is full,
\* the byte of m after it is a zero, which the encoding leaves out.
Blocks(e, m, n, H, at, cp) ==
    /\ 1 \in H /\ at[1] = 0
    /\ cp \in H /\ cp + e[cp] = Len(e) + 1 /\ at[cp] + e[cp] = n + 1
    /\ \A h \in H : h \in 1..Len(e) /\ at[h] \in Nat /\ e[h] \in 1..MaxCode
    /\ \A h \in H : at[h] + e[h] <= n + 1 /\ h <= cp
    /\ \A h \in H : \A k \in 1..(e[h] - 1) : e[h + k] # 0 /\ e[h + k] = m[at[h] + k]
    /\ \A h \in H : h # cp =>
          /\ h + e[h] \in H /\ h + e[h] <= cp
          /\ e[h] = MaxCode => at[h + e[h]] + 1 = at[h] + e[h]
          /\ e[h] # MaxCode => at[h + e[h]] = at[h] + e[h] /\ m[at[h] + e[h]] = 0

\* g continues e by one byte; the place c may differ.
Longer(g, e, b, c) ==
    /\ Len(g) = Len(e) + 1 /\ g[Len(e) + 1] = b
    /\ \A k \in 1..Len(e) : k # c => g[k] = e[k]

\* The last block takes another byte.
LEMMA BlockGrows ==
    ASSUME NEW e \in Seq(Byte), NEW m, NEW n \in Nat, NEW H, NEW at, NEW cp, Blocks(e, m, n, H, at, cp),
           NEW b, b = m[n + 1], b # 0, e[cp] < MaxCode,
           NEW g, Longer(g, e, b, cp), g[cp] = e[cp] + 1
    PROVE  Blocks(g, m, n + 1, H, at, cp)
<1> PICK l \in Nat : l = Len(e)
  BY LenProperties
<1>1. /\ 1 \in H /\ at[1] = 0 /\ cp \in H /\ cp + e[cp] = l + 1 /\ at[cp] + e[cp] = n + 1
      /\ \A h \in H : h \in 1..l /\ at[h] \in Nat /\ e[h] \in 1..MaxCode
      /\ \A h \in H : at[h] + e[h] <= n + 1 /\ h <= cp
      /\ \A h \in H : \A k \in 1..(e[h] - 1) : e[h + k] # 0 /\ e[h + k] = m[at[h] + k]
      /\ \A h \in H : h # cp => h + e[h] \in H /\ h + e[h] <= cp
      /\ \A h \in H : h # cp /\ e[h] = MaxCode => at[h + e[h]] + 1 = at[h] + e[h]
      /\ \A h \in H : h # cp /\ e[h] # MaxCode => at[h + e[h]] = at[h] + e[h] /\ m[at[h] + e[h]] = 0
  BY DEF Blocks
<1>2. Len(g) = l + 1 /\ g[l + 1] = b /\ \A k \in 1..l : k # cp => g[k] = e[k]
  BY DEF Longer
<1>3. /\ cp \in 1..l /\ at[cp] \in Nat /\ e[cp] \in Nat /\ e[cp] >= 1 /\ MaxCode \in Nat
      /\ g[cp] = e[cp] + 1
  BY <1>1, CobsAssumption, SMT
<1>4. \A h \in H : h # cp => g[h] = e[h]
  BY <1>1, <1>2
<1>5. \A h \in H : h \in 1..(l + 1) /\ at[h] \in Nat /\ g[h] \in 1..MaxCode
  <2> TAKE h \in H
  <2>1. h \in 1..l /\ at[h] \in Nat /\ e[h] \in 1..MaxCode
    BY <1>1
  <2>2. e[cp] + 1 \in 1..MaxCode /\ h \in 1..(l + 1)
    BY <1>3, <2>1, SMT
  <2> QED BY <1>3, <1>4, <2>1, <2>2
<1>6. \A h \in H : at[h] + g[h] <= n + 1 + 1 /\ h <= cp
  <2> TAKE h \in H
  <2>1. h <= cp /\ at[h] \in Nat /\ e[h] \in 1..MaxCode /\ at[h] + e[h] <= n + 1
    BY <1>1
  <2>2. g[h] = e[h] \/ g[h] = e[h] + 1
    BY <1>3, <1>4
  <2> QED BY <1>3, <2>1, <2>2, SMT
<1>7. ASSUME NEW h \in H, NEW k \in 1..(g[h] - 1)
      PROVE  g[h + k] # 0 /\ g[h + k] = m[at[h] + k]
  <2>1. h \in 1..l /\ at[h] \in Nat /\ e[h] \in 1..MaxCode
    BY <1>1
  <2>2. CASE h # cp
    <3>1. g[h] = e[h] /\ h + e[h] <= cp
      BY <1>1, <1>4, <2>2
    <3>2. h + k \in 1..l /\ h + k # cp /\ k \in 1..(e[h] - 1)
      BY <1>3, <2>1, <3>1, SMT
    <3> QED BY <1>1, <1>2, <3>2
  <2>3. CASE h = cp /\ k # e[cp]
    <3>1. k \in 1..(e[cp] - 1) /\ cp + k \in 1..l /\ cp + k # cp
      BY <1>1, <1>3, <2>3, SMT
    <3> QED BY <1>1, <1>2, <2>3, <3>1
  <2>4. CASE h = cp /\ k = e[cp]
    BY <1>1, <1>2, <2>4
  <2> QED BY <2>2, <2>3, <2>4
<1>8. cp + g[cp] = (l + 1) + 1 /\ at[cp] + g[cp] = (n + 1) + 1
  <2>1. \A x, y, z \in Nat : x + y = z + 1 => x + (y + 1) = (z + 1) + 1
    BY SMT
  <2>2. cp + e[cp] = l + 1 /\ at[cp] + e[cp] = n + 1
    BY <1>1
  <2>3. cp \in Nat
    BY <1>3, SMT
  <2>4. cp + (e[cp] + 1) = (l + 1) + 1
    BY <1>3, <2>1, <2>2, <2>3
  <2>5. at[cp] + (e[cp] + 1) = (n + 1) + 1
    BY <1>3, <2>1, <2>2
  <2> QED BY <1>3, <2>4, <2>5, Zenon
<1> QED BY <1>1, <1>2, <1>4, <1>5, <1>6, <1>7, <1>8 DEF Blocks

\* A new block is open after a full one, or after a zero.
LEMMA BlockOpens ==
    ASSUME NEW e \in Seq(Byte), NEW m, NEW n \in Nat, NEW H, NEW at, NEW cp, Blocks(e, m, n, H, at, cp),
           NEW g, Longer(g, e, 1, 0),
           NEW p, \/ e[cp] = MaxCode /\ p = n
                  \/ e[cp] # MaxCode /\ p = n + 1 /\ m[n + 1] = 0
    PROVE  \E K, to : Blocks(g, m, p, K, to, Len(e) + 1)
<1> PICK l \in Nat : l = Len(e)
  BY LenProperties
<1>1. /\ 1 \in H /\ at[1] = 0 /\ cp \in H /\ cp + e[cp] = l + 1 /\ at[cp] + e[cp] = n + 1
      /\ \A h \in H : h \in 1..l /\ at[h] \in Nat /\ e[h] \in 1..MaxCode
      /\ \A h \in H : at[h] + e[h] <= n + 1 /\ h <= cp
      /\ \A h \in H : \A k \in 1..(e[h] - 1) : e[h + k] # 0 /\ e[h + k] = m[at[h] + k]
      /\ \A h \in H : h # cp => h + e[h] \in H /\ h + e[h] <= cp
      /\ \A h \in H : h # cp /\ e[h] = MaxCode => at[h + e[h]] + 1 = at[h] + e[h]
      /\ \A h \in H : h # cp /\ e[h] # MaxCode => at[h + e[h]] = at[h] + e[h] /\ m[at[h] + e[h]] = 0
  BY DEF Blocks
<1>2. Len(g) = l + 1 /\ g[l + 1] = 1 /\ \A k \in 1..l : g[k] = e[k]
  <2>1. \A k \in 1..l : k # 0
    BY SMT
  <2> QED BY <2>1 DEF Longer
<1>3. /\ p \in Nat /\ n <= p /\ MaxCode \in Nat /\ 1 \in 1..MaxCode /\ l + 1 \in 1..(l + 1)
      /\ cp \in 1..l /\ l + 1 \notin 1..l
  BY <1>1, CobsAssumption, SMT
<1> PICK K : K = H \cup {l + 1}
  OBVIOUS
<1> PICK to : to = [h \in K |-> IF h = l + 1 THEN p ELSE at[h]]
  OBVIOUS
<1>4. to[l + 1] = p /\ l + 1 \in K
  OBVIOUS
<1>5. \A h \in H : h \in K /\ h # l + 1 /\ to[h] = at[h] /\ g[h] = e[h]
  BY <1>1, <1>2, <1>3
<1>6. \A h \in K : h = l + 1 \/ h \in H
  OBVIOUS
<1>7. \A h \in K : h \in 1..(l + 1) /\ to[h] \in Nat /\ g[h] \in 1..MaxCode
  <2> TAKE h \in K
  <2>1. CASE h = l + 1
    BY <1>2, <1>3, <1>4, <2>1
  <2>2. CASE h \in H
    <3>1. h \in 1..l /\ at[h] \in Nat /\ e[h] \in 1..MaxCode
      BY <1>1, <2>2
    <3>2. h \in 1..(l + 1)
      BY <3>1, SMT
    <3> QED BY <1>5, <2>2, <3>1, <3>2
  <2> QED BY <1>6, <2>1, <2>2
<1>8. \A h \in K : to[h] + g[h] <= p + 1 /\ h <= l + 1
  <2> TAKE h \in K
  <2>1. CASE h = l + 1
    BY <1>2, <1>3, <1>4, <2>1, SMT
  <2>2. CASE h \in H
    <3>1. h \in 1..l /\ at[h] \in Nat /\ e[h] \in 1..MaxCode /\ at[h] + e[h] <= n + 1
      BY <1>1, <2>2
    <3>2. at[h] + e[h] <= p + 1 /\ h <= l + 1
      BY <1>3, <3>1, SMT
    <3> QED BY <1>5, <2>2, <3>2
  <2> QED BY <1>6, <2>1, <2>2
<1>9. ASSUME NEW h \in K, NEW k \in 1..(g[h] - 1)
      PROVE  g[h + k] # 0 /\ g[h + k] = m[to[h] + k]
  <2>1. h \in H
    <3>1. 1..(1 - 1) = {}
      BY SMT
    <3> QED BY <1>2, <1>6, <3>1
  <2>2. /\ h \in 1..l /\ e[h] \in 1..MaxCode /\ k \in 1..(e[h] - 1)
        /\ (h = cp \/ h + e[h] <= cp) /\ cp + e[cp] = l + 1
    BY <1>1, <1>5, <2>1
  <2>3. h + k \in 1..l
    BY <1>3, <2>2, SMT
  <2>4. e[h + k] # 0 /\ e[h + k] = m[at[h] + k]
    BY <1>1, <2>1, <2>2
  <2> QED BY <1>2, <1>5, <2>1, <2>3, <2>4
<1>10. ASSUME NEW h \in K, h # l + 1
       PROVE  /\ h + g[h] \in K /\ h + g[h] <= l + 1
              /\ g[h] = MaxCode => to[h + g[h]] + 1 = to[h] + g[h]
              /\ g[h] # MaxCode => to[h + g[h]] = to[h] + g[h] /\ m[to[h] + g[h]] = 0
  <2>1. h \in H /\ g[h] = e[h] /\ to[h] = at[h]
    BY <1>5, <1>6, <1>10
  <2>2. CASE h = cp
    <3>1. h + e[h] = l + 1 /\ at[h] + e[h] = n + 1
      BY <1>1, <2>2
    <3>2. l + 1 <= l + 1
      BY SMT
    <3> QED BY <1>4, <2>1, <2>2, <3>1, <3>2
  <2>3. CASE h # cp
    <3>1. /\ h + e[h] \in H /\ h + e[h] <= cp
          /\ e[h] = MaxCode => at[h + e[h]] + 1 = at[h] + e[h]
          /\ e[h] # MaxCode => at[h + e[h]] = at[h] + e[h] /\ m[at[h] + e[h]] = 0
      BY <1>1, <2>1, <2>3
    <3>2. h + e[h] \in K /\ to[h + e[h]] = at[h + e[h]] /\ h + e[h] \in 1..l
      BY <1>1, <1>5, <3>1
    <3>3. h + e[h] <= l + 1
      BY <3>2, SMT
    <3> QED BY <2>1, <3>1, <3>2, <3>3
  <2> QED BY <2>2, <2>3
<1>11. /\ 1 \in K /\ to[1] = 0 /\ (l + 1) + g[l + 1] = (l + 1) + 1 /\ to[l + 1] + g[l + 1] = p + 1
  BY <1>1, <1>2, <1>4, <1>5
<1>12. Blocks(g, m, p, K, to, l + 1)
  BY <1>2, <1>4, <1>7, <1>8, <1>9, <1>10, <1>11 DEF Blocks
<1> QED BY <1>12

-----------------------------------------------------------------------------
(* The round trip. *)

\* The output encodes what was read.
Encodes ==
    pc = "encode" => \E n, H, at : n \in Nat /\ s = n + 1 /\ Blocks(dst, message, n, H, at, code_ptr)

\* The message with the zero that the last block seems to end with.
Padded(k) == IF k = Len(message) + 1 THEN 0 ELSE message[k]

\* The decoder follows the blocks: between two of them it is at a code and has
\* written all that comes before the block, within one it has written the
\* bytes of the block it has read.
Follows(H, at, cp) ==
    /\ Blocks(src, message, Len(message), H, at, cp) /\ src[cp] # MaxCode
    /\ pc # "rejected"
    /\ \A k \in 1..Len(dst) : dst[k] = Padded(k)
    /\ pc = "decode" => \/ s \in H /\ Len(dst) = at[s]
                        \/ AtEnd /\ Len(dst) = Len(message) + 1
    /\ pc = "copy" => \E h \in H : /\ code = src[h] /\ s = h + i /\ i \in 1..code
                                   /\ Len(dst) + 1 = at[h] + i
    /\ pc = "done" => dst = message

Decodes == encoding /\ pc # "encode" => \E H, at, cp : Follows(H, at, cp)

TripInv == Encodes /\ Decodes

\* The first block is open and counts no byte.
LEMMA InitTrip == Init => TripInv
<1> SUFFICES ASSUME Init PROVE TripInv
  OBVIOUS
<1>1. Decodes
  BY DEF Init, Decodes
<1>2. ASSUME pc = "encode" PROVE \E n, H, at : n \in Nat /\ s = n + 1 /\ Blocks(dst, message, n, H, at, code_ptr)
  <2>1. dst = <<1>> /\ code_ptr = 1 /\ s = 1
    BY <1>2 DEF Init
  <2> PICK at : at = [h \in {1} |-> 0]
    OBVIOUS
  <2>2. at[1] = 0 /\ 1 \in {1}
    OBVIOUS
  <2>3. /\ 0 \in Nat /\ 1 = 0 + 1 /\ 1 + 1 = 1 + 1 /\ 0 + 1 <= 0 + 1 /\ 1 <= 1 /\ 1 \in 1..1
        /\ 1..(1 - 1) = {} /\ 1 \in 1..MaxCode
    BY CobsAssumption, SMT
  <2>4. Len(dst) = 1 /\ dst[1] = 1
    BY <2>1, SMT
  <2>5. Blocks(dst, message, 0, {1}, at, 1)
    BY <2>2, <2>3, <2>4, Zenon DEF Blocks
  <2> QED BY <2>1, <2>3, <2>5
<1> QED BY <1>1, <1>2 DEF TripInv, Encodes

\* What the encoder's steps know of the output and of the byte they read.
LEMMA EncoderFacts ==
    ASSUME BoundInv, TripInv, pc = "encode", ~AtEnd
    PROVE  /\ dst \in Seq(Byte) /\ Len(dst) \in Nat /\ src = message /\ encoding = TRUE
           /\ code_ptr \in 1..Len(dst) /\ dst[code_ptr] # MaxCode /\ dst[code_ptr] < MaxCode
           /\ src[s] \in Byte /\ 0 \in Byte /\ 1 \in Byte
           /\ \E n, H, at : n \in Nat /\ s = n + 1 /\ Blocks(dst, message, n, H, at, code_ptr)
<1>1. /\ dst \in Seq(Byte) /\ src \in Seq(Byte) /\ Len(dst) \in Nat /\ Len(src) \in Nat
      /\ src = message /\ encoding = TRUE /\ s \in Nat /\ s > 0
      /\ code_ptr \in 1..Len(dst) /\ dst[code_ptr] \in 1..(MaxCode - 1)
  BY LenProperties, SMT DEF BoundInv, TypeOK, EncoderInv
<1>2. s \in 1..Len(src)
  BY <1>1, SMT DEF AtEnd
<1>3. 0 \in Byte /\ 1 \in Byte /\ dst[code_ptr] < MaxCode
  BY <1>1, CobsAssumption, SMT DEF Byte
<1>4. dst[code_ptr] # MaxCode
  BY <1>1, CobsAssumption, SMT
<1> QED BY <1>1, <1>2, <1>3, <1>4, ElementOfSeq DEF TripInv, Encodes

\* A zero ends the block.
LEMMA EncodeZeroTrip ==
    ASSUME BoundInv, TripInv, EncodeZero
    PROVE  TripInv'
<1> USE DEF EncodeZero
<1>1. /\ dst \in Seq(Byte) /\ Len(dst) \in Nat /\ src = message /\ encoding = TRUE
      /\ dst[code_ptr] # MaxCode /\ src[s] \in Byte /\ 1 \in Byte
      /\ \E n, H, at : n \in Nat /\ s = n + 1 /\ Blocks(dst, message, n, H, at, code_ptr)
  BY EncoderFacts
<1> PICK n, H, at : n \in Nat /\ s = n + 1 /\ Blocks(dst, message, n, H, at, code_ptr)
  BY <1>1
<1> PICK u : u = Append(dst, 1)
  OBVIOUS
<1>2. Longer(u, dst, 1, 0)
  BY <1>1, Extended DEF Longer
<1>3. message[n + 1] = 0
  BY <1>1
<1>4. \E K, to : Blocks(u, message, n + 1, K, to, Len(dst) + 1)
  BY <1>1, <1>2, <1>3, BlockOpens
<1>5. n + 1 \in Nat /\ s + 1 = (n + 1) + 1
  BY SMT
<1> QED BY <1>4, <1>5 DEF TripInv, Encodes, Decodes

\* A byte is copied; after the byte that fills the block a new one is open.
LEMMA EncodeByteTrip ==
    ASSUME BoundInv, TripInv, EncodeByte
    PROVE  TripInv'
<1> USE DEF EncodeByte
<1>1. /\ dst \in Seq(Byte) /\ Len(dst) \in Nat /\ src = message /\ encoding = TRUE
      /\ code_ptr \in 1..Len(dst) /\ dst[code_ptr] < MaxCode /\ src[s] \in Byte /\ 1 \in Byte
      /\ \E n, H, at : n \in Nat /\ s = n + 1 /\ Blocks(dst, message, n, H, at, code_ptr)
  BY EncoderFacts
<1> PICK n, H, at : n \in Nat /\ s = n + 1 /\ Blocks(dst, message, n, H, at, code_ptr)
  BY <1>1
<1> PICK t : t = Copied(src[s])
  OBVIOUS
<1>2. /\ t \in Seq(Byte) /\ Len(t) = Len(dst) + 1 /\ t[code_ptr] = dst[code_ptr] + 1
      /\ Longer(t, dst, src[s], code_ptr)
  BY <1>1, CopiedIs DEF Longer, BoundInv
<1>3. Blocks(t, message, n + 1, H, at, code_ptr)
  BY <1>1, <1>2, BlockGrows
<1>4. n + 1 \in Nat /\ s + 1 = (n + 1) + 1 /\ Len(t) + 1 = Len(dst) + 2
  BY <1>1, <1>2, SMT
<1>5. CASE ~BlockFull /\ dst' = t /\ code_ptr' = code_ptr
  BY <1>3, <1>4, <1>5 DEF TripInv, Encodes, Decodes
<1>6. CASE BlockFull /\ dst' = Append(t, 1) /\ code_ptr' = Len(dst) + 2
  <2>1. t[code_ptr] = MaxCode
    BY <1>2, <1>6 DEF BlockFull
  <2> PICK u : u = Append(t, 1)
    OBVIOUS
  <2>2. Longer(u, t, 1, 0)
    BY <1>1, <1>2, Extended DEF Longer
  <2>3. \E K, to : Blocks(u, message, n + 1, K, to, Len(t) + 1)
    BY <1>2, <1>3, <1>4, <2>1, <2>2, BlockOpens
  <2> QED BY <1>4, <1>6, <2>3 DEF TripInv, Encodes, Decodes
<1> QED BY <1>5, <1>6

\* The decoder starts at the first code of an encoding of the whole message.
LEMMA EncodeEndTrip ==
    ASSUME BoundInv, TripInv, EncodeEnd
    PROVE  TripInv'
<1> USE DEF EncodeEnd
<1>1. /\ message \in Seq(Byte) /\ Len(message) \in Nat /\ src = message /\ s \in Nat
      /\ s <= Len(message) + 1 /\ s > Len(message) /\ dst[code_ptr] \in 1..(MaxCode - 1)
  BY LenProperties DEF BoundInv, TypeOK, EncoderInv, AtEnd
<1>2. dst[code_ptr] # MaxCode
  BY <1>1, CobsAssumption, SMT
<1> PICK n, H, at : n \in Nat /\ s = n + 1 /\ Blocks(dst, message, n, H, at, code_ptr)
  BY DEF TripInv, Encodes
<1>3. n = Len(message)
  BY <1>1, SMT
<1>4. 1 \in H /\ at[1] = 0
  BY DEF Blocks
<1>5. Len(<< >>) = 0 /\ 1..0 = {}
  BY SMT
<1> PICK cp : cp = code_ptr
  OBVIOUS
<1>6. src' = dst /\ message' = message /\ dst' = << >> /\ s' = 1 /\ pc' = "decode"
  OBVIOUS
<1>7. Follows(H, at, cp)'
  BY <1>2, <1>3, <1>4, <1>5, <1>6 DEF Follows
<1> QED BY <1>6, <1>7 DEF TripInv, Encodes, Decodes

\* What the decoder's steps know of the block at h.
LEMMA BlockFacts ==
    ASSUME BoundInv, NEW H, NEW at, NEW cp, Follows(H, at, cp), NEW h \in H
    PROVE  /\ h \in 1..Len(src) /\ at[h] \in Nat /\ src[h] \in 1..MaxCode
           /\ h + src[h] <= Len(src) + 1 /\ at[h] + src[h] <= Len(message) + 1
           /\ \A k \in 1..(src[h] - 1) : src[h + k] # 0 /\ src[h + k] = message[at[h] + k]
           /\ src[h] = MaxCode => h + src[h] \in H /\ at[h + src[h]] + 1 = at[h] + src[h]
           /\ src[h] # MaxCode =>
                 /\ Padded(at[h] + src[h]) = 0
                 /\ \/ h + src[h] \in H /\ at[h + src[h]] = at[h] + src[h]
                    \/ h + src[h] = Len(src) + 1 /\ at[h] + src[h] = Len(message) + 1
           /\ message \in Seq(Byte) /\ Len(message) \in Nat /\ Len(src) \in Nat /\ Len(dst) \in Nat
<1>1. Blocks(src, message, Len(message), H, at, cp) /\ src[cp] # MaxCode
  BY DEF Follows
<1>2. message \in Seq(Byte) /\ Len(message) \in Nat /\ Len(src) \in Nat /\ Len(dst) \in Nat
  BY LenProperties DEF BoundInv, TypeOK
<1>3. h \in 1..Len(src) /\ at[h] \in Nat /\ src[h] \in 1..MaxCode
      /\ at[h] + src[h] <= Len(message) + 1
  BY <1>1 DEF Blocks
<1>4. \A k \in 1..(src[h] - 1) : src[h + k] # 0 /\ src[h + k] = message[at[h] + k]
  BY <1>1 DEF Blocks
<1>5. CASE h = cp
  <2>1. h + src[h] = Len(src) + 1 /\ at[h] + src[h] = Len(message) + 1
    BY <1>1, <1>5 DEF Blocks
  <2>2. Padded(at[h] + src[h]) = 0
    BY <2>1 DEF Padded
  <2>3. h + src[h] <= Len(src) + 1
    BY <1>2, <2>1, SMT
  <2> QED BY <1>1, <1>2, <1>3, <1>4, <1>5, <2>1, <2>2, <2>3
<1>6. CASE h # cp
  <2>1. /\ h + src[h] \in H
        /\ src[h] = MaxCode => at[h + src[h]] + 1 = at[h] + src[h]
        /\ src[h] # MaxCode => at[h + src[h]] = at[h] + src[h] /\ message[at[h] + src[h]] = 0
    BY <1>1, <1>6 DEF Blocks
  <2>2. h + src[h] \in 1..Len(src)
    BY <1>1, <2>1 DEF Blocks
  <2>3. h + src[h] <= Len(src) + 1
    BY <1>2, <2>2, SMT
  <2>4. src[h] # MaxCode => Padded(at[h] + src[h]) = 0
    BY <2>1 DEF Padded
  <2> QED BY <1>2, <1>3, <1>4, <2>1, <2>3, <2>4
<1> QED BY <1>5, <1>6

\* The decoder finds a code that is legal.
LEMMA DecodeCodeTrip ==
    ASSUME BoundInv, TripInv, DecodeCode
    PROVE  TripInv'
<1> USE DEF DecodeCode
<1> SUFFICES ASSUME encoding PROVE \E H, at, cp : Follows(H, at, cp)'
  BY DEF TripInv, Encodes, Decodes
<1> PICK H, at, cp : Follows(H, at, cp)
  BY DEF TripInv, Decodes
<1>1. s \in H /\ Len(dst) = at[s]
  BY DEF Follows
<1>2. /\ s \in 1..Len(src) /\ at[s] \in Nat /\ src[s] \in 1..MaxCode /\ s + src[s] <= Len(src) + 1
      /\ Len(src) \in Nat
  BY <1>1, BlockFacts
<1>3. /\ src[s] # 0 /\ ~(s + src[s] > Len(src) + 1) /\ 1 \in 1..src[s] /\ at[s] + 1 = at[s] + 1
  BY <1>2, CobsAssumption, SMT
<1>4. ~Illegal(src[s])
  BY <1>3 DEF Illegal
<1>5. /\ code' = src[s] /\ s' = s + 1 /\ i' = 1 /\ pc' = "copy" /\ src' = src /\ dst' = dst
      /\ message' = message
  BY <1>4
<1>6. \E h \in H : /\ code' = src'[h] /\ s' = h + i' /\ i' \in 1..code'
                   /\ Len(dst') + 1 = at[h] + i'
  BY <1>1, <1>3, <1>5
<1>7. Follows(H, at, cp)'
  BY <1>5, <1>6 DEF Follows, Padded
<1> QED BY <1>7

\* The bytes of the block are bytes of the message, none of them zero.
LEMMA DecodeByteTrip ==
    ASSUME BoundInv, TripInv, DecodeByte
    PROVE  TripInv'
<1> USE DEF DecodeByte
<1> SUFFICES ASSUME encoding PROVE \E H, at, cp : Follows(H, at, cp)'
  BY DEF TripInv, Encodes, Decodes
<1> PICK H, at, cp : Follows(H, at, cp)
  BY DEF TripInv, Decodes
<1> PICK h \in H : code = src[h] /\ s = h + i /\ i \in 1..code /\ Len(dst) + 1 = at[h] + i
  BY DEF Follows
<1>1. /\ h \in 1..Len(src) /\ at[h] \in Nat /\ code \in 1..MaxCode /\ MaxCode \in Nat
      /\ at[h] + code <= Len(message) + 1
      /\ \A k \in 1..(code - 1) : src[h + k] # 0 /\ src[h + k] = message[at[h] + k]
      /\ Len(message) \in Nat /\ Len(src) \in Nat /\ Len(dst) \in Nat
  <2>1. /\ h \in 1..Len(src) /\ at[h] \in Nat /\ src[h] \in 1..MaxCode
        /\ at[h] + src[h] <= Len(message) + 1
        /\ \A k \in 1..(src[h] - 1) : src[h + k] # 0 /\ src[h + k] = message[at[h] + k]
        /\ Len(message) \in Nat /\ Len(src) \in Nat /\ Len(dst) \in Nat
    BY BlockFacts
  <2>2. src[h] = code /\ MaxCode \in Nat
    BY CobsAssumption
  <2> QED BY <2>1, <2>2, Zenon
<1>2. /\ i \in 1..(code - 1) /\ i + 1 \in 1..code /\ at[h] + i \in 1..Len(message)
      /\ at[h] + i # Len(message) + 1 /\ s + 1 = h + (i + 1)
      /\ (Len(dst) + 1) + 1 = at[h] + (i + 1)
  <2> PICK a \in Nat, c \in Nat, l \in Nat, m \in Nat :
           a = at[h] /\ c = code /\ l = Len(dst) /\ m = Len(message)
    BY <1>1, SMT
  <2>1. i < c /\ i \in 1..c /\ a + c <= m + 1 /\ l + 1 = a + i /\ s = h + i /\ h \in Nat
    BY <1>1, SMT
  <2> HIDE DEF DecodeByte
  <2>2. i \in 1..(c - 1) /\ i + 1 \in 1..c
    BY <2>1, SMT
  <2>3. a + i \in 1..m /\ a + i # m + 1
    BY <2>1, SMT
  <2>4. s + 1 = h + (i + 1) /\ (l + 1) + 1 = a + (i + 1)
    BY <2>1, SMT
  <2> QED BY <2>2, <2>3, <2>4, Zenon
<1>3. src[s] # 0 /\ src[s] = message[at[h] + i]
  BY <1>1, <1>2
<1>4. /\ dst' = Append(dst, src[s]) /\ s' = s + 1 /\ i' = i + 1 /\ pc' = "copy" /\ src' = src
      /\ message' = message /\ code' = code
  BY <1>3
<1>5. dst \in Seq(Byte) /\ src[s] \in Byte
  <2>1. at[h] + i \in 1..Len(message)
    BY <1>2
  <2> QED BY <1>3, <2>1, ElementOfSeq DEF BoundInv, TypeOK
<1>6. /\ Len(dst') = Len(dst) + 1 /\ dst'[Len(dst) + 1] = src[s]
      /\ \A k \in 1..Len(dst) : dst'[k] = dst[k]
      /\ \A k \in 1..(Len(dst) + 1) : k = Len(dst) + 1 \/ k \in 1..Len(dst)
  BY <1>4, <1>5, Extended
<1>7. Padded(Len(dst) + 1) = src[s]
  BY <1>2, <1>3 DEF Padded
<1>8. \A k \in 1..Len(dst') : dst'[k] = Padded(k)'
  BY <1>4, <1>6, <1>7 DEF Follows, Padded
<1>9. \E x \in H : /\ code' = src'[x] /\ s' = x + i' /\ i' \in 1..code'
                   /\ Len(dst') + 1 = at[x] + i'
  BY <1>2, <1>4, <1>6
<1>10. Follows(H, at, cp)'
  BY <1>4, <1>8, <1>9 DEF Follows
<1> QED BY <1>10

\* The block ends with the zero that ended it, or was full.
LEMMA DecodeBlockEndTrip ==
    ASSUME BoundInv, TripInv, DecodeBlockEnd
    PROVE  TripInv'
<1> USE DEF DecodeBlockEnd
<1> SUFFICES ASSUME encoding PROVE \E H, at, cp : Follows(H, at, cp)'
  BY DEF TripInv, Encodes, Decodes
<1> PICK H, at, cp : Follows(H, at, cp)
  BY DEF TripInv, Decodes
<1> PICK h \in H : code = src[h] /\ s = h + i /\ i \in 1..code /\ Len(dst) + 1 = at[h] + i
  BY DEF Follows
<1>1. /\ h \in 1..Len(src) /\ at[h] \in Nat /\ code \in 1..MaxCode /\ MaxCode \in Nat
      /\ code = MaxCode => h + code \in H /\ at[h + code] + 1 = at[h] + code
      /\ code # MaxCode =>
            /\ Padded(at[h] + code) = 0
            /\ \/ h + code \in H /\ at[h + code] = at[h] + code
               \/ h + code = Len(src) + 1 /\ at[h] + code = Len(message) + 1
      /\ Len(message) \in Nat /\ Len(src) \in Nat /\ Len(dst) \in Nat
  <2>1. /\ h \in 1..Len(src) /\ at[h] \in Nat /\ src[h] \in 1..MaxCode
        /\ src[h] = MaxCode => h + src[h] \in H /\ at[h + src[h]] + 1 = at[h] + src[h]
        /\ src[h] # MaxCode =>
              /\ Padded(at[h] + src[h]) = 0
              /\ \/ h + src[h] \in H /\ at[h + src[h]] = at[h] + src[h]
                 \/ h + src[h] = Len(src) + 1 /\ at[h] + src[h] = Len(message) + 1
        /\ Len(message) \in Nat /\ Len(src) \in Nat /\ Len(dst) \in Nat
    BY BlockFacts
  <2>2. src[h] = code /\ MaxCode \in Nat
    BY CobsAssumption
  <2> QED BY <2>1, <2>2, Zenon
<1>2. i = code /\ s = h + code
  <2>1. i = code
    <3>1. code \in 1..MaxCode /\ MaxCode \in Nat /\ i \in 1..code /\ i >= code
      BY <1>1
    <3> QED BY <3>1, SMT
  <2> QED BY <2>1
<1>3. dst \in Seq(Byte) /\ 0 \in Byte
  BY CobsAssumption, SMT DEF BoundInv, TypeOK, Byte
<1>4. pc' = "decode" /\ src' = src /\ message' = message /\ s' = s
  OBVIOUS
<1>5. CASE code = MaxCode
  <2>1. dst' = dst
    BY <1>3, <1>5, BlockEndIs
  <2>2. h + code \in H /\ at[h + code] \in Nat
    BY <1>1, <1>5, BlockFacts
  <2>3. Len(dst) = at[h + code]
    BY <1>1, <1>2, <1>5, <2>2, SMT
  <2>4. Follows(H, at, cp)'
    BY <1>2, <1>4, <2>1, <2>2, <2>3 DEF Follows, Padded
  <2> QED BY <2>4
<1>6. CASE code # MaxCode
  <2>1. dst' = Append(dst, 0)
    BY <1>3, <1>6, BlockEndIs
  <2>2. /\ Len(dst') = Len(dst) + 1 /\ dst'[Len(dst) + 1] = 0
        /\ \A k \in 1..Len(dst) : dst'[k] = dst[k]
        /\ \A k \in 1..(Len(dst) + 1) : k = Len(dst) + 1 \/ k \in 1..Len(dst)
    BY <1>3, <2>1, Extended
  <2>3. Len(dst') = at[h] + code /\ Padded(Len(dst) + 1) = 0
    BY <1>1, <1>2, <1>6, <2>2
  <2>4. \A k \in 1..Len(dst') : dst'[k] = Padded(k)'
    BY <1>4, <2>2, <2>3 DEF Follows, Padded
  <2>5. \/ s \in H /\ Len(dst') = at[s]
        \/ s = Len(src) + 1 /\ Len(dst') = Len(message) + 1
    BY <1>1, <1>2, <1>6, <2>3
  <2>6. Len(src) + 1 > Len(src)
    BY <1>1, SMT
  <2>7. Follows(H, at, cp)'
    BY <1>4, <2>4, <2>5, <2>6 DEF Follows, AtEnd
  <2> QED BY <2>7
<1> QED BY <1>5, <1>6

\* The zero of the last block is dropped: what is left is the message.
LEMMA DecodeEndTrip ==
    ASSUME BoundInv, TripInv, DecodeEnd
    PROVE  TripInv'
<1> USE DEF DecodeEnd
<1> SUFFICES ASSUME encoding PROVE \E H, at, cp : Follows(H, at, cp)'
  BY DEF TripInv, Encodes, Decodes
<1> PICK H, at, cp : Follows(H, at, cp)
  BY DEF TripInv, Decodes
<1>1. /\ message \in Seq(Byte) /\ dst \in Seq(Byte) /\ Len(message) \in Nat /\ Len(src) \in Nat
      /\ s > Len(src)
  BY LenProperties DEF BoundInv, TypeOK, AtEnd
<1>2. s \notin H
  <2>1. s \notin 1..Len(src)
    BY <1>1, SMT
  <2> QED BY <2>1, BlockFacts
<1>3. Len(dst) = Len(message) + 1 /\ \A k \in 1..Len(dst) : dst[k] = Padded(k)
  BY <1>2 DEF Follows
<1> PICK n \in Nat : n = Len(message)
  BY <1>1
<1>4. n + 1 \in 1..(n + 1) /\ n + 1 # 0 /\ (n + 1) - 1 = n
      /\ \A k \in 1..n : k \in 1..(n + 1) /\ k # n + 1
  BY SMT
<1>5. dst[Len(dst)] = 0 /\ dst # << >>
  BY <1>1, <1>3, <1>4, EmptySeq DEF Padded
<1>6. dst' = SubSeq(dst, 1, n)
  BY <1>3, <1>4, <1>5
<1>7. \A k \in 1..n : dst[k] = message[k] /\ dst[k] \in Byte
  BY <1>1, <1>3, <1>4, ElementOfSeq DEF Padded
<1>8. dst' \in Seq(Byte) /\ Len(dst') = n /\ \A k \in 1..n : dst'[k] = dst[k]
  <2>1. /\ SubSeq(dst, 1, n) \in Seq(Byte)
        /\ Len(SubSeq(dst, 1, n)) = IF 1 <= n THEN n - 1 + 1 ELSE 0
        /\ \A k \in 1..(n - 1 + 1) : SubSeq(dst, 1, n)[k] = dst[1 + k - 1]
    BY <1>7, SubSeqProperties, SMT
  <2>2. (IF 1 <= n THEN n - 1 + 1 ELSE 0) = n /\ n - 1 + 1 = n /\ \A k \in 1..n : 1 + k - 1 = k
    BY SMT
  <2> QED BY <1>6, <2>1, <2>2
<1>9. dst' = message
  BY <1>1, <1>7, <1>8, SeqEqual
<1>10. \A k \in 1..Len(dst') : dst'[k] = Padded(k)'
  BY <1>4, <1>9 DEF Padded
<1>11. Follows(H, at, cp)'
  BY <1>9, <1>10 DEF Follows
<1> QED BY <1>11

IInv == BoundInv /\ TripInv

\* Every step keeps the round trip.
LEMMA NextTrip == IInv /\ [Next]_vars => TripInv'
<1> SUFFICES ASSUME BoundInv, TripInv, [Next]_vars PROVE TripInv'
  BY DEF IInv
<1>1. CASE Next
  <2>1. ASSUME EncodeZero PROVE TripInv'
    BY <2>1, EncodeZeroTrip
  <2>2. ASSUME EncodeByte PROVE TripInv'
    BY <2>2, EncodeByteTrip
  <2>3. ASSUME EncodeEnd PROVE TripInv'
    BY <2>3, EncodeEndTrip
  <2>4. ASSUME DecodeCode PROVE TripInv'
    BY <2>4, DecodeCodeTrip
  <2>5. ASSUME DecodeByte PROVE TripInv'
    BY <2>5, DecodeByteTrip
  <2>6. ASSUME DecodeBlockEnd PROVE TripInv'
    BY <2>6, DecodeBlockEndTrip
  <2>7. ASSUME DecodeEnd PROVE TripInv'
    BY <2>7, DecodeEndTrip
  <2> QED BY <1>1, <2>1, <2>2, <2>3, <2>4, <2>5, <2>6, <2>7 DEF Next
<1>2. CASE UNCHANGED vars
  BY <1>2 DEF vars, TripInv, Encodes, Decodes, Follows, Padded, AtEnd
<1> QED BY <1>1, <1>2

\* The inductive invariant of cobs_encode and cobs_decode: types and bounds,
\* and the blocks that the output or the input is made of.
THEOREM Invariant == Spec => []IInv
<1>1. Init => IInv
  BY InitBound, InitTrip DEF IInv
<1>2. IInv /\ [Next]_vars => IInv'
  BY NextBound, NextTrip DEF IInv
<1> QED BY <1>1, <1>2, PTL DEF Spec

\* The pointers and counters of both loops keep their types.
THEOREM TypeCorrect == Spec => []TypeOK
<1>1. IInv => TypeOK
  BY DEF IInv, BoundInv
<1> QED BY <1>1, Invariant, PTL

\* cobs_encode writes no zero byte and no byte beyond cobs_max_encoded_len.
THEOREM EncodingFits == Spec => []EncodingFramed
<1>1. IInv => EncodingFramed
  BY BoundFits DEF IInv
<1> QED BY <1>1, Invariant, PTL

\* cobs_decode reads inside its input and writes no more than it has read,
\* whatever the input.
THEOREM DecodingFits == Spec => []DecodeInBounds
<1>1. IInv => DecodeInBounds
  BY DEF IInv, BoundInv, DecoderInv
<1> QED BY <1>1, Invariant, PTL

\* cobs_decode accepts what cobs_encode wrote and gives the message back.
THEOREM MessageComesBack == Spec => []RoundTrip
<1>1. IInv => RoundTrip
  BY DEF IInv, BoundInv, TypeOK, TripInv, Decodes, Follows, RoundTrip
<1> QED BY <1>1, Invariant, PTL
=============================================================================
