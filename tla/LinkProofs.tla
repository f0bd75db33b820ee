----------------------------- MODULE LinkProofs -----------------------------
(***************************************************************************)
(* Proofs about Link for every buffer growth, set of frame lengths and     *)
(* number of frames and losses: who owns the receiver's memory, in which   *)
(* order the bytes come out, and that a frame nothing happened to comes    *)
(* out as it was sent.                                                     *)
(*                                                                         *)
(* The one function in which malloc may not fail is realloc_buffer: when   *)
(* it fails it keeps the pointer to what it has freed, and none of this is *)
(* true any more (see PartialFrameHasBuffer in Link).                      *)
(***************************************************************************)
EXTENDS Link, SubsequenceProofs, SequenceTheorems, FiniteSetTheorems

GrowthSucceeds == "realloc_buffer" \notin OomSites

RawByte == [frame : Nat, place : Nat]
Frame == [frame : Nat, data : Nat]
Element == [block : Nat, frame : Frame, content : Seq(RawByte)]

\* What is in the queues and histories; the bytes are those of the first n
\* frames.
Sent(bytes, n) ==
    /\ bytes \in Seq(RawByte)
    /\ \A k \in 1..Len(bytes) : bytes[k].frame \in 1..n
DataInv ==
    /\ lens \in Seq(EncodedLens)
    /\ Sent(unsent, Len(lens)) /\ Sent(rx, Len(lens)) /\ Sent(content, Len(lens))
    /\ damaged \cup starved \subseteq 1..Len(lens)
    /\ frames_head \in Seq(Element)
    /\ delivered \in Seq(Seq(RawByte))
    /\ IsFiniteSet(heap)
    /\ buffer \in Nat \cup {Null} /\ buffer_len \in Nat
    /\ {frame, held} \subseteq Frame \cup {Null}

\* What the control state says of the pointers.
Finishing == {"decode", "enqueue", "error"}
Filling == {"continue", "read", "finish"} \cup Finishing
ControlInv ==
    /\ pc \in {"idle", "flush", "return"} \cup Filling
    /\ op \in {"available", "get_next"}
    /\ Len(content) <= buffer_len
    /\ pc = "read" => rx # << >> /\ Len(content) < buffer_len
    /\ pc = "flush" => buffer = Null
    /\ pc \in Filling => buffer # Null
    /\ buffer # Null => buffer_len > 0
    /\ buffer = Null => content = << >>
    /\ pc \in {"finish"} \cup Finishing => content # << >>
    /\ pc \in Finishing <=> frame # Null
    /\ pc # "idle" => held = Null

BoundInv == Len(lens) <= MaxFrames /\ losses \in 0..MaxLosses

TypeInv == DataInv /\ ControlInv /\ BoundInv

-----------------------------------------------------------------------------
(* The receiver's memory. *)

\* A block that malloc returns was not allocated.
LEMMA FreshIs ==
    ASSUME NEW S, IsFiniteSet(S)
    PROVE  Fresh(S) \in Nat /\ Fresh(S) \notin S
<1> DEFINE n == Cardinality(S) + 1
           R == {b \in 1..n : b \notin S}
<1>1. Cardinality(S) \in Nat
  BY FS_CardinalityType
<1>2. R # {}
  <2> SUFFICES ASSUME 1..n \subseteq S PROVE FALSE
    BY <1>1, SMT
  <2>1. Cardinality(1..n) <= Cardinality(S)
    BY FS_Subset
  <2>2. Cardinality(1..n) = n
    <3>1. 1 \in Int /\ n \in Int /\ 1 <= n /\ n - 1 + 1 = n
      BY <1>1, SMT
    <3>2. Cardinality(1..n) = n - 1 + 1
      <4> HIDE DEF n
      <4>1. Cardinality(1..n) = IF 1 > n THEN 0 ELSE n - 1 + 1
        BY <3>1, FS_Interval
      <4> QED BY <3>1, <4>1, SMT
    <3> QED BY <3>1, <3>2
  <2> QED BY <1>1, <2>1, <2>2, SMT
<1>3. R \subseteq Nat
  BY <1>1, SMT
<1>4. PICK m \in R : \A x \in R : m <= x
  BY <1>2, <1>3, Least
<1>5. \A c \in 1..(m - 1) : c \in S
  <2>1. \A c \in 1..(m - 1) : c \in 1..n /\ ~(m <= c)
    BY <1>1, <1>3, <1>4, SMT
  <2> QED BY <1>4, <2>1
<1>6. \E b \in 1..n : b \notin S /\ \A c \in 1..(b - 1) : c \in S
  BY <1>4, <1>5
<1>7. Fresh(S) \in 1..n /\ Fresh(S) \notin S
  BY <1>6 DEF Fresh
<1> QED BY <1>1, <1>7, SMT

\* Two calls in a row return two blocks.
LEMMA Fresh2Is ==
    ASSUME IsFiniteSet(heap)
    PROVE  /\ Fresh2[1] \in Nat /\ Fresh2[2] \in Nat
           /\ Fresh2[1] \notin heap /\ Fresh2[2] \notin heap
           /\ Fresh2[1] # Fresh2[2]
           /\ IsFiniteSet(heap \cup {Fresh2[1], Fresh2[2]})
<1> DEFINE b == Fresh(heap)
           c == Fresh(heap \cup {b})
<1>1. b \in Nat /\ b \notin heap
  BY FreshIs
<1>2. IsFiniteSet(heap \cup {b})
  BY FS_AddElement
<1>3. c \in Nat /\ c \notin heap \cup {b}
  BY <1>2, FreshIs
<1>4. Fresh2[1] = b /\ Fresh2[2] = c
  BY DEF Fresh2
<1> HIDE DEF b, c
<1>5. IsFiniteSet((heap \cup {b}) \cup {c})
  BY <1>2, FS_AddElement
<1>6. (heap \cup {b}) \cup {c} = heap \cup {b, c}
  OBVIOUS
<1> QED BY <1>1, <1>3, <1>4, <1>5, <1>6

\* Freeing blocks leaves finitely many.
LEMMA FreedFinite == ASSUME IsFiniteSet(heap), NEW R PROVE IsFiniteSet(heap \ R)
<1>1. heap \ R \subseteq heap
  OBVIOUS
<1> QED BY <1>1, FS_Subset

-----------------------------------------------------------------------------
(* Sequences of bytes. *)

\* Nothing is a sequence of bytes of whatever frames.
LEMMA SentNothing == ASSUME NEW n PROVE Sent(<< >>, n)
<1>1. << >> \in Seq(RawByte) /\ 1..Len(<< >>) = {}
  BY SMT
<1> QED BY <1>1 DEF Sent

\* The parts of an extended sequence.
LEMMA AppendIs ==
    ASSUME NEW S, NEW s \in Seq(S), NEW e \in S
    PROVE  /\ Append(s, e) \in Seq(S)
           /\ Len(Append(s, e)) = Len(s) + 1 /\ Len(s) \in Nat
           /\ \A k \in 1..Len(s) : Append(s, e)[k] = s[k]
           /\ Append(s, e)[Len(s) + 1] = e
           /\ Append(s, e) # << >>
           /\ \A k \in 1..(Len(s) + 1) : k = Len(s) + 1 \/ k \in 1..Len(s)
<1>1. /\ Append(s, e) \in Seq(S)
      /\ Len(Append(s, e)) = Len(s) + 1 /\ Len(s) \in Nat
      /\ \A k \in 1..Len(s) : Append(s, e)[k] = s[k]
      /\ Append(s, e)[Len(s) + 1] = e
  BY SMT
<1>2. \A n \in Nat : \A k \in 1..(n + 1) : k = n + 1 \/ k \in 1..n
  BY SMT
<1>3. Append(s, e) # << >>
  BY <1>1, SMT
<1> QED BY <1>1, <1>2, <1>3

\* The parts of a sequence without its head.
LEMMA TailIs ==
    ASSUME NEW S, NEW s \in Seq(S), s # << >>
    PROVE  /\ Head(s) \in S /\ Head(s) = s[1] /\ 1 \in 1..Len(s)
           /\ Tail(s) \in Seq(S)
           /\ Len(Tail(s)) = Len(s) - 1 /\ Len(s) \in Nat /\ Len(s) > 0
           /\ \A k \in 1..Len(Tail(s)) : Tail(s)[k] = s[k + 1] /\ k + 1 \in 1..Len(s)
BY SMT

\* A byte more.
LEMMA SentAppend ==
    ASSUME NEW n, NEW s, Sent(s, n), NEW b \in RawByte, b.frame \in 1..n
    PROVE  Sent(Append(s, b), n)
BY AppendIs DEF Sent

\* A byte less.
LEMMA SentTail ==
    ASSUME NEW n, NEW s, Sent(s, n), s # << >>
    PROVE  Head(s) \in RawByte /\ Head(s).frame \in 1..n /\ Sent(Tail(s), n)
BY TailIs DEF Sent

\* One frame more is sent.
LEMMA SentMore ==
    ASSUME NEW n \in Nat, NEW s, Sent(s, n)
    PROVE  Sent(s, n + 1)
<1>1. \A x \in 1..n : x \in 1..(n + 1)
  BY SMT
<1> QED BY <1>1 DEF Sent

\* The frames a sequence of bytes has bytes of.
LEMMA FramesIn ==
    ASSUME NEW n, NEW s, Sent(s, n)
    PROVE  Frames(s) \subseteq 1..n
<1>1. DOMAIN s = 1..Len(s)
  BY LenProperties DEF Sent
<1> QED BY <1>1 DEF Sent, Frames

-----------------------------------------------------------------------------
(* Types and control state, action by action. *)

\* Nothing was sent, received or allocated at first.
LEMMA InitType == Init => TypeInv
<1> SUFFICES ASSUME Init PROVE TypeInv
  OBVIOUS
<1> USE DEF Init
<1>1. /\ << >> \in Seq(EncodedLens) /\ << >> \in Seq(Element) /\ << >> \in Seq(Seq(RawByte))
      /\ Len(<< >>) = 0 /\ 0 \in Nat /\ 0 <= 0
  BY SMT
<1>2. IsFiniteSet({})
  BY FS_EmptySet
<1>3. DataInv
  BY <1>1, <1>2, SentNothing DEF DataInv
<1>4. ControlInv
  BY <1>1 DEF ControlInv, Filling, Finishing
<1>5. BoundInv
  BY <1>1, LinkAssumption, SMT DEF BoundInv
<1> QED BY <1>3, <1>4, <1>5 DEF TypeInv

\* The bytes of the next frame are ready to be written.
LEMMA SendType ==
    ASSUME TypeInv, NEW len \in EncodedLens, link_send_frame(len)
    PROVE  TypeInv'
<1> USE DEF link_send_frame, partial, caller
<1> DEFINE n == Len(lens)
<1>1. /\ lens' \in Seq(EncodedLens) /\ Len(lens') = n + 1 /\ n \in Nat
  BY AppendIs DEF TypeInv, DataInv
<1>2. Sent(unsent', n + 1)
  <2>1. len \in Nat
    BY LinkAssumption
  <2> DEFINE byte(k) == [frame |-> n + 1, place |-> k - 1]
  <2>2. \A k \in 1..(len + 2) : byte(k) \in RawByte /\ byte(k).frame \in 1..(n + 1)
    <3>1. \A k \in 1..(len + 2) : k - 1 \in Nat
      BY <2>1, SMT
    <3>2. n + 1 \in Nat /\ n + 1 \in 1..(n + 1)
      BY <1>1, SMT
    <3> QED BY <3>1, <3>2 DEF RawByte
  <2>3. len + 2 \in Nat
    BY <2>1, SMT
  <2>4. unsent' = [k \in 1..(len + 2) |-> byte(k)]
    OBVIOUS
  <2> HIDE DEF byte
  <2>5. unsent' \in Seq(RawByte)
    BY <2>2, <2>3, <2>4, IsASeq
  <2>6. DOMAIN unsent' = 1..Len(unsent')
    BY <2>5, LenProperties
  <2> QED BY <2>2, <2>4, <2>5, <2>6 DEF Sent
<1>3. Sent(rx, n + 1) /\ Sent(content, n + 1)
  BY <1>1, SentMore DEF TypeInv, DataInv
<1>4. damaged \cup starved \subseteq 1..(n + 1)
  <2>1. \A x \in 1..n : x \in 1..(n + 1)
    BY <1>1, SMT
  <2> QED BY <2>1 DEF TypeInv, DataInv
<1>5. DataInv'
  BY <1>1, <1>2, <1>3, <1>4 DEF TypeInv, DataInv
<1>6. ControlInv'
  BY DEF TypeInv, ControlInv
<1>7. BoundInv'
  BY <1>1, LinkAssumption, SMT DEF TypeInv, BoundInv
<1> QED BY <1>5, <1>6, <1>7 DEF TypeInv

\* A byte arrives, or is lost.
LEMMA WriteType ==
    ASSUME TypeInv, Write
    PROVE  TypeInv'
<1> USE DEF Write, partial, caller
<1>1. /\ Head(unsent) \in RawByte /\ Head(unsent).frame \in 1..Len(lens)
      /\ Sent(unsent', Len(lens)) /\ Sent(rx, Len(lens))
  BY SentTail DEF TypeInv, DataInv
<1>2. Sent(rx', Len(lens)) /\ (rx # << >> => rx' # << >>)
  <2>1. CASE rx' = rx
    BY <1>1, <2>1
  <2>2. CASE rx' = Append(rx, Head(unsent))
    <3>1. rx' # << >>
      BY <1>1, <2>2, AppendIs DEF Sent
    <3> QED BY <1>1, <2>2, <3>1, SentAppend
  <2> QED BY <2>1, <2>2
<1>3. DataInv'
  <2>1. damaged' \cup starved \subseteq 1..Len(lens)
    BY <1>1 DEF TypeInv, DataInv
  <2> QED BY <1>1, <1>2, <2>1 DEF TypeInv, DataInv
<1>4. ControlInv'
  BY <1>2 DEF TypeInv, ControlInv
<1>5. BoundInv'
  BY LinkAssumption, SMT DEF TypeInv, BoundInv
<1> QED BY <1>3, <1>4, <1>5 DEF TypeInv

\* The steps that allocate nothing and read at most a byte that they drop.
LEMMA ScanType ==
    ASSUME TypeInv, link_frames_available \/ link_get_next_frame \/ Flush \/ NoMoreBytes \/ Decode
    PROVE  TypeInv'
<1> USE DEF line, partial, caller
<1>1. CASE link_frames_available \/ link_get_next_frame
  <2>1. PICK o \in {"available", "get_next"} : Call(o)
    BY <1>1 DEF link_frames_available, link_get_next_frame
  <2> USE <2>1 DEF Call
  <2>2. DataInv' /\ BoundInv'
    BY DEF TypeInv, DataInv, BoundInv
  <2>3. ControlInv'
    BY DEF TypeInv, ControlInv, Filling, Finishing
  <2> QED BY <2>2, <2>3 DEF TypeInv
<1>2. CASE Flush
  <2> USE <1>2 DEF Flush
  <2>1. Sent(rx', Len(lens))
    BY SentTail DEF TypeInv, DataInv
  <2>2. DataInv' /\ BoundInv'
    BY <2>1 DEF TypeInv, DataInv, BoundInv
  <2>3. ControlInv'
    BY DEF TypeInv, ControlInv, Filling, Finishing
  <2> QED BY <2>2, <2>3 DEF TypeInv
<1>3. CASE NoMoreBytes
  <2> USE <1>3 DEF NoMoreBytes
  <2>2. DataInv' /\ BoundInv'
    BY DEF TypeInv, DataInv, BoundInv
  <2>3. ControlInv'
    BY DEF TypeInv, ControlInv, Filling, Finishing
  <2> QED BY <2>2, <2>3 DEF TypeInv
<1>4. CASE Decode
  <2> USE <1>4 DEF Decode
  <2>1. pc' \in {"enqueue", "error"}
    OBVIOUS
  <2>2. DataInv' /\ BoundInv'
    BY DEF TypeInv, DataInv, BoundInv
  <2>3. ControlInv'
    BY <2>1 DEF TypeInv, ControlInv, Filling, Finishing
  <2> QED BY <2>2, <2>3 DEF TypeInv
<1> QED BY <1>1, <1>2, <1>3, <1>4

\* A frame starts: its buffer is new, or there is none.
LEMMA StartType ==
    ASSUME TypeInv, start_new_frame
    PROVE  TypeInv'
<1> USE DEF start_new_frame, line, caller
<1>1. /\ Sent(rx', Len(lens)) /\ Head(rx).frame \in 1..Len(lens) /\ Sent(content', Len(lens))
  BY SentTail, SentNothing DEF TypeInv, DataInv
<1>2. Len(<< >>) = 0 /\ INIT_FRAME_LEN \in Nat /\ INIT_FRAME_LEN > 0 /\ 0 \in Nat /\ 0 <= 0
      /\ 0 <= INIT_FRAME_LEN
  BY LinkAssumption, SMT
<1>3. Fresh(heap) \in Nat /\ Fresh(heap) # Null
  BY FreshIs, LinkAssumption DEF TypeInv, DataInv
<1>4. IsFiniteSet(heap')
  <2>1. IsFiniteSet(heap) /\ IsFiniteSet(heap \cup {buffer'})
    BY FS_AddElement DEF TypeInv, DataInv
  <2>2. heap' = heap \/ heap' = heap \cup {buffer'}
    OBVIOUS
  <2> QED BY <2>1, <2>2
<1>5. DataInv' /\ BoundInv'
  BY <1>1, <1>2, <1>3, <1>4 DEF TypeInv, DataInv, BoundInv
<1>6. ControlInv'
  BY <1>2, <1>3 DEF TypeInv, ControlInv, Filling, Finishing
<1> QED BY <1>5, <1>6 DEF TypeInv

\* The buffer grows: there is room in the new one.
LEMMA GrowType ==
    ASSUME GrowthSucceeds, TypeInv, realloc_buffer
    PROVE  TypeInv'
<1> USE DEF realloc_buffer, line, caller
<1>1. /\ buffer' = Fresh(heap) /\ heap' = (heap \ {buffer}) \cup {buffer'}
      /\ buffer_len' = NewLen /\ pc' = "read" /\ content' = content /\ starved' = starved
  BY DEF GrowthSucceeds, OutOfMemory
<1>2. NewLen \in Nat /\ NewLen > buffer_len /\ NewLen > 0
  <2>1. buffer_len \in Nat /\ buffer_len > 0
    BY DEF TypeInv, DataInv, ControlInv, Filling
  <2> QED BY <2>1, LinkAssumption, SMT DEF NewLen
<1>3. Fresh(heap) \in Nat /\ Fresh(heap) # Null
  BY FreshIs, LinkAssumption DEF TypeInv, DataInv
<1>4. IsFiniteSet(heap')
  BY <1>1, FreedFinite, FS_AddElement DEF TypeInv, DataInv
<1>5. DataInv' /\ BoundInv'
  BY <1>1, <1>2, <1>3, <1>4 DEF TypeInv, DataInv, BoundInv
<1>6. Len(content) < NewLen /\ Len(content) <= NewLen
  <2>1. Len(content) \in Nat /\ Len(content) <= buffer_len /\ buffer_len \in Nat
    BY LenProperties DEF TypeInv, DataInv, ControlInv, Sent
  <2> QED BY <1>2, <2>1, SMT
<1>7. ControlInv'
  BY <1>1, <1>2, <1>3, <1>6 DEF TypeInv, ControlInv, Filling, Finishing
<1> QED BY <1>5, <1>7 DEF TypeInv

\* A byte is stored: there is room for it.
LEMMA ReadType ==
    ASSUME TypeInv, ReadByte
    PROVE  TypeInv'
<1> USE DEF ReadByte, line, caller
<1>1. rx # << >> /\ Len(content) < buffer_len /\ Len(content) \in Nat /\ buffer_len \in Nat
  <2>1. Len(content) \in Nat /\ Len(content) <= buffer_len /\ buffer_len \in Nat
    BY LenProperties DEF TypeInv, DataInv, ControlInv, Sent
  <2>2. Len(content) < buffer_len
    BY <2>1, SMT DEF TypeInv, ControlInv
  <2> QED BY <2>1, <2>2 DEF TypeInv, ControlInv
<1>2. Sent(rx', Len(lens)) /\ Head(rx) \in RawByte /\ Head(rx).frame \in 1..Len(lens)
  BY <1>1, SentTail DEF TypeInv, DataInv
<1>3. buffer # Null /\ frame = Null /\ held = Null
  BY DEF TypeInv, ControlInv, Filling, Finishing
<1>4. CASE IsZero(Head(rx))
  <2>1. content' = content /\ pc' = IF content = << >> THEN "continue" ELSE "finish"
    BY <1>4
  <2>2. DataInv' /\ BoundInv'
    BY <1>2, <2>1 DEF TypeInv, DataInv, BoundInv
  <2>3. ControlInv'
    BY <1>3, <2>1 DEF TypeInv, ControlInv, Filling, Finishing
  <2> QED BY <2>2, <2>3 DEF TypeInv
<1>5. CASE ~IsZero(Head(rx))
  <2>1. content' = Append(content, Head(rx)) /\ pc' = "continue"
    BY <1>5
  <2>2. Sent(content', Len(lens)) /\ Len(content') = Len(content) + 1
    BY <1>2, <2>1, SentAppend, AppendIs DEF TypeInv, DataInv, Sent
  <2>3. DataInv' /\ BoundInv'
    BY <1>2, <2>1, <2>2 DEF TypeInv, DataInv, BoundInv
  <2>4. Len(content') <= buffer_len
    BY <1>1, <2>2, SMT
  <2>5. ControlInv'
    BY <1>3, <2>1, <2>4 DEF TypeInv, ControlInv, Filling, Finishing
  <2> QED BY <2>3, <2>5 DEF TypeInv
<1> QED BY <1>4, <1>5

\* finish_frame allocates the frame and its data, or keeps the buffer.
LEMMA NewFrameType ==
    ASSUME TypeInv, new_frame
    PROVE  TypeInv'
<1> USE DEF new_frame, line, caller, partial
<1>1. CASE /\ frame' = [frame |-> Fresh2[1], data |-> Fresh2[2]]
           /\ heap' = heap \cup {Fresh2[1], Fresh2[2]}
           /\ pc' = "decode" /\ starved' = starved
  <2>1. frame' \in Frame /\ frame' # Null /\ IsFiniteSet(heap')
    BY <1>1, Fresh2Is, LinkAssumption DEF Frame, TypeInv, DataInv
  <2>2. DataInv' /\ BoundInv'
    BY <1>1, <2>1 DEF TypeInv, DataInv, BoundInv
  <2>3. ControlInv'
    BY <1>1, <2>1 DEF TypeInv, ControlInv, Filling, Finishing
  <2> QED BY <2>2, <2>3 DEF TypeInv
<1>2. CASE /\ pc' = "return" /\ starved' = starved \cup Frames(content)
           /\ UNCHANGED <<frame, heap>>
  <2>1. Frames(content) \subseteq 1..Len(lens)
    BY FramesIn DEF TypeInv, DataInv
  <2>2. DataInv' /\ BoundInv'
    BY <1>2, <2>1 DEF TypeInv, DataInv, BoundInv
  <2>3. ControlInv'
    BY <1>2 DEF TypeInv, ControlInv, Filling, Finishing
  <2> QED BY <2>2, <2>3 DEF TypeInv
<1> QED BY <1>1, <1>2

\* The frame is enqueued and the buffer freed, or there is no memory for it.
LEMMA EnqueueType ==
    ASSUME TypeInv, enqueue_frame
    PROVE  TypeInv'
<1> USE DEF enqueue_frame, line, caller
<1> DEFINE b == Fresh(heap)
           e == [block |-> b, frame |-> frame, content |-> content]
<1>1. CASE /\ frames_head' = Append(frames_head, e) /\ FreeBuffer(heap \cup {b})
           /\ frame' = Null /\ pc' = "return" /\ starved' = starved
  <2> USE <1>1 DEF FreeBuffer
  <2>1. b \in Nat /\ IsFiniteSet(heap \cup {b})
    BY FreshIs, FS_AddElement DEF TypeInv, DataInv
  <2>2. IsFiniteSet(heap')
    <3>1. heap' \subseteq heap \cup {b}
      OBVIOUS
    <3> QED BY <2>1, <3>1, FS_Subset
  <2>3. frame \in Frame /\ content \in Seq(RawByte)
    BY DEF TypeInv, ControlInv, DataInv, Finishing, Sent
  <2>4. e \in Element
    BY <2>1, <2>3 DEF Element
  <2> HIDE DEF e
  <2>5. frames_head' \in Seq(Element)
    BY <2>4, AppendIs DEF TypeInv, DataInv
  <2>6. Sent(content', Len(lens)) /\ Len(<< >>) = 0 /\ 0 <= 0 /\ 0 \in Nat
    BY SentNothing, SMT
  <2>7. DataInv' /\ BoundInv'
    BY <2>2, <2>5, <2>6 DEF TypeInv, DataInv, BoundInv
  <2>8. ControlInv'
    BY <2>6 DEF TypeInv, ControlInv, Filling, Finishing
  <2> QED BY <2>7, <2>8 DEF TypeInv
<1>2. CASE /\ pc' = "error" /\ starved' = starved \cup Frames(content)
           /\ UNCHANGED <<heap, partial, frame, frames_head>>
  <2>1. Frames(content) \subseteq 1..Len(lens)
    BY FramesIn DEF TypeInv, DataInv
  <2>2. DataInv' /\ BoundInv'
    BY <1>2, <2>1 DEF TypeInv, DataInv, BoundInv, partial
  <2>3. ControlInv'
    BY <1>2 DEF TypeInv, ControlInv, Filling, Finishing, partial
  <2> QED BY <2>2, <2>3 DEF TypeInv
<1> QED BY <1>1, <1>2 DEF Enqueued

\* The frame and the buffer are freed.
LEMMA ErrorType ==
    ASSUME TypeInv, Error
    PROVE  TypeInv'
<1> USE DEF Error, FreeBuffer, line, caller
<1>1. IsFiniteSet(heap')
  <2>1. heap' \subseteq heap
    OBVIOUS
  <2> QED BY <2>1, FS_Subset DEF TypeInv, DataInv
<1>2. Sent(content', Len(lens)) /\ Len(<< >>) = 0 /\ 0 <= 0 /\ 0 \in Nat
  BY SentNothing, SMT
<1>3. DataInv' /\ BoundInv'
  BY <1>1, <1>2 DEF TypeInv, DataInv, BoundInv
<1>4. ControlInv'
  BY <1>2 DEF TypeInv, ControlInv, Filling, Finishing
<1> QED BY <1>3, <1>4 DEF TypeInv

\* The caller gets the first frame of the list.
LEMMA ReturnType ==
    ASSUME TypeInv, Return
    PROVE  TypeInv'
<1> USE DEF Return, line, partial
<1>1. CASE op = "get_next" /\ dequeue_frame
  <2> USE <1>1 DEF dequeue_frame
  <2>1. Head(frames_head) \in Element /\ frames_head' \in Seq(Element)
    BY TailIs DEF TypeInv, DataInv
  <2>2. held' \in Frame /\ Head(frames_head).content \in Seq(RawByte)
    BY <2>1 DEF Element
  <2>3. delivered' \in Seq(Seq(RawByte))
    BY <2>2, AppendIs DEF TypeInv, DataInv
  <2>4. IsFiniteSet(heap')
    BY FreedFinite DEF TypeInv, DataInv
  <2>5. DataInv' /\ BoundInv'
    BY <2>1, <2>2, <2>3, <2>4 DEF TypeInv, DataInv, BoundInv
  <2>6. ControlInv'
    BY DEF TypeInv, ControlInv, Filling, Finishing
  <2> QED BY <2>5, <2>6 DEF TypeInv
<1>2. CASE UNCHANGED <<held, delivered, heap, frames_head>>
  <2>1. DataInv' /\ BoundInv'
    BY <1>2 DEF TypeInv, DataInv, BoundInv
  <2>2. ControlInv'
    BY <1>2 DEF TypeInv, ControlInv, Filling, Finishing
  <2> QED BY <2>1, <2>2 DEF TypeInv
<1> QED BY <1>1, <1>2

\* The caller frees the frame.
LEMMA FreeType ==
    ASSUME TypeInv, link_free_frame
    PROVE  TypeInv'
<1> USE DEF link_free_frame, line, partial
<1>1. IsFiniteSet(heap')
  BY FreedFinite DEF TypeInv, DataInv
<1>2. DataInv' /\ BoundInv'
  BY <1>1 DEF TypeInv, DataInv, BoundInv
<1>3. ControlInv'
  BY DEF TypeInv, ControlInv, Filling, Finishing
<1> QED BY <1>2, <1>3 DEF TypeInv

\* Every step keeps the types and what the control state says.
LEMMA NextType == GrowthSucceeds /\ TypeInv /\ [Next]_vars => TypeInv'
<1> SUFFICES ASSUME GrowthSucceeds, TypeInv, [Next]_vars PROVE TypeInv'
  OBVIOUS
<1>1. CASE Sender
  BY <1>1, SendType, WriteType DEF Sender
<1>2. CASE Receiver
  BY <1>2, ScanType, StartType, GrowType, ReadType, NewFrameType, EnqueueType, ErrorType,
     ReturnType, FreeType DEF Receiver
<1>3. CASE UNCHANGED vars
  <2> USE <1>3 DEF vars, line, partial, caller
  <2>1. DataInv' /\ BoundInv'
    BY DEF TypeInv, DataInv, BoundInv
  <2>2. ControlInv'
    BY DEF TypeInv, ControlInv
  <2> QED BY <2>1, <2>2 DEF TypeInv
<1> QED BY <1>1, <1>2, <1>3 DEF Next

\* The model's own type invariant.
LEMMA TypeOKHolds == TypeInv => TypeOK
<1> SUFFICES ASSUME TypeInv PROVE TypeOK
  OBVIOUS
<1> USE DEF TypeInv, DataInv, ControlInv, BoundInv
<1>1. \A s : Sent(s, Len(lens)) => s \in Seq(Bytes)
  <2> SUFFICES ASSUME NEW s, Sent(s, Len(lens)) PROVE s \in Seq(Bytes)
    OBVIOUS
  <2>1. s \in Seq(RawByte) /\ Len(s) \in Nat /\ s \in [1..Len(s) -> RawByte]
    BY LenProperties DEF Sent
  <2>2. \A k \in 1..Len(s) : s[k] \in Bytes
    <3>1. \A x \in RawByte : x.frame \in 1..Len(lens) => x \in Bytes
      BY DEF RawByte, Bytes
    <3> QED BY <2>1, <3>1 DEF Sent
  <2>3. s = [k \in 1..Len(s) |-> s[k]]
    BY <2>1
  <2>4. [k \in 1..Len(s) |-> s[k]] \in Seq(Bytes)
    <3> HIDE DEF Bytes
    <3> QED BY <2>1, <2>2, IsASeq
  <2> QED BY <2>3, <2>4
<1>2. \A k \in DOMAIN frames_head : frames_head[k].frame \in FrameBlocks
  <2>1. \A k \in DOMAIN frames_head : frames_head[k] \in Element
    BY ElementOfSeq, LenProperties
  <2> QED BY <2>1 DEF Element, FrameBlocks, Frame
<1>3. {frame, held} \subseteq FrameBlocks
  BY DEF FrameBlocks, Frame
<1> QED BY <1>1, <1>2, <1>3, LinkAssumption, SMT DEF TypeOK, Filling, Finishing

-----------------------------------------------------------------------------
(* Who owns the receiver's blocks. *)

Buf == {buffer} \ {Null}
Listed(e) == Blocks(e.frame) \cup {e.block}
AllListed(q) == UNION {Listed(q[k]) : k \in DOMAIN q}
Apart(q) ==
    /\ \A k, l \in DOMAIN q : k # l => Listed(q[k]) \cap Listed(q[l]) = {}
    /\ \A k \in DOMAIN q : q[k].block \notin Blocks(q[k].frame)

\* What the receiver points to is what it allocated, and no block is pointed
\* to twice.
Parted(blocks, B, F, H, L) ==
    /\ blocks = B \cup F \cup H \cup L
    /\ B \cap F = {} /\ B \cap H = {} /\ F \cap H = {}
    /\ L \cap (B \cup F \cup H) = {}
OwnInv ==
    /\ Parted(heap, Buf, Blocks(frame), Blocks(held), AllListed(frames_head))
    /\ Apart(frames_head)

\* A list that grows at its end.
LEMMA ListedAppend ==
    ASSUME NEW q \in Seq(Element), NEW e \in Element, Apart(q),
           Listed(e) \cap AllListed(q) = {}, e.block \notin Blocks(e.frame)
    PROVE  Apart(Append(q, e)) /\ AllListed(Append(q, e)) = AllListed(q) \cup Listed(e)
<1> DEFINE n == Len(q)
           r == Append(q, e)
<1>1. /\ Len(r) = n + 1 /\ r[n + 1] = e /\ \A k \in 1..n : r[k] = q[k]
      /\ \A k \in 1..(n + 1) : k = n + 1 \/ k \in 1..n
      /\ r \in Seq(Element) /\ n \in Nat
  BY AppendIs
<1>2. DOMAIN q = 1..n /\ DOMAIN r = 1..(n + 1)
  BY <1>1, LenProperties
<1>3. n + 1 \in 1..(n + 1) /\ \A k \in 1..n : k \in 1..(n + 1) /\ k # n + 1
  BY <1>1, SMT
<1> HIDE DEF r, n
<1>4. \A k \in 1..n : Listed(q[k]) \subseteq AllListed(q)
  BY <1>2 DEF AllListed
<1>5. ASSUME NEW k \in DOMAIN r, NEW l \in DOMAIN r, k # l
      PROVE  Listed(r[k]) \cap Listed(r[l]) = {}
  <2>1. CASE k \in 1..n /\ l \in 1..n
    BY <1>1, <1>2, <1>5, <2>1 DEF Apart
  <2>2. CASE k = n + 1 /\ l \in 1..n
    BY <1>1, <1>4, <2>2
  <2>3. CASE k \in 1..n /\ l = n + 1
    BY <1>1, <1>4, <2>3
  <2> QED BY <1>1, <1>2, <1>5, <2>1, <2>2, <2>3
<1>6. \A k \in DOMAIN r : r[k].block \notin Blocks(r[k].frame)
  BY <1>1, <1>2 DEF Apart
<1>7. AllListed(r) = AllListed(q) \cup Listed(e)
  <2>1. ASSUME NEW x \in AllListed(r)
        PROVE  x \in AllListed(q) \cup Listed(e)
    BY <1>1, <1>2 DEF AllListed
  <2>2. ASSUME NEW x \in AllListed(q) \cup Listed(e)
        PROVE  x \in AllListed(r)
    <3>1. CASE x \in Listed(e)
      BY <1>1, <1>2, <1>3, <3>1 DEF AllListed
    <3>2. CASE x \in AllListed(q)
      BY <1>1, <1>2, <1>3, <3>2 DEF AllListed
    <3> QED BY <3>1, <3>2
  <2> QED BY <2>1, <2>2
<1> QED BY <1>5, <1>6, <1>7 DEF Apart, r

\* A list that loses its first element.
LEMMA ListedTail ==
    ASSUME NEW q \in Seq(Element), q # << >>, Apart(q)
    PROVE  /\ Apart(Tail(q))
           /\ AllListed(q) = Listed(Head(q)) \cup AllListed(Tail(q))
           /\ Listed(Head(q)) \cap AllListed(Tail(q)) = {}
           /\ Head(q).block \notin Blocks(Head(q).frame)
<1> DEFINE n == Len(q)
           r == Tail(q)
<1>1. /\ Head(q) = q[1] /\ 1 \in 1..n /\ Len(r) = n - 1 /\ n \in Nat /\ n > 0
      /\ \A k \in 1..Len(r) : r[k] = q[k + 1] /\ k + 1 \in 1..n
      /\ r \in Seq(Element)
  BY TailIs
<1>2. DOMAIN q = 1..n /\ DOMAIN r = 1..Len(r)
  BY <1>1, LenProperties
<1> HIDE DEF r
<1>3. /\ \A k \in 1..Len(r) : k + 1 # 1
      /\ \A k, l \in 1..Len(r) : k # l => k + 1 # l + 1
      /\ \A k \in 1..n : k = 1 \/ (k - 1 \in 1..Len(r) /\ (k - 1) + 1 = k)
  BY <1>1, SMT
<1>4. Apart(r)
  <2>1. ASSUME NEW k \in DOMAIN r, NEW l \in DOMAIN r, k # l
        PROVE  Listed(r[k]) \cap Listed(r[l]) = {}
    <3>1. r[k] = q[k + 1] /\ r[l] = q[l + 1] /\ k + 1 \in DOMAIN q /\ l + 1 \in DOMAIN q
      BY <1>1, <1>2
    <3>2. k + 1 # l + 1
      BY <1>2, <1>3, <2>1
    <3> QED BY <3>1, <3>2 DEF Apart
  <2>2. ASSUME NEW k \in DOMAIN r
        PROVE  r[k].block \notin Blocks(r[k].frame)
    <3>1. r[k] = q[k + 1] /\ k + 1 \in DOMAIN q
      BY <1>1, <1>2
    <3> QED BY <3>1 DEF Apart
  <2> QED BY <2>1, <2>2 DEF Apart
<1>5. Listed(q[1]) \cap AllListed(r) = {}
  <2> SUFFICES ASSUME NEW k \in DOMAIN r PROVE Listed(q[1]) \cap Listed(r[k]) = {}
    BY DEF AllListed
  <2> QED BY <1>1, <1>2, <1>3 DEF Apart
<1>6. AllListed(q) = Listed(q[1]) \cup AllListed(r)
  <2>1. ASSUME NEW x \in AllListed(q)
        PROVE  x \in Listed(q[1]) \cup AllListed(r)
    <3>1. PICK k \in DOMAIN q : x \in Listed(q[k])
      BY <2>1 DEF AllListed
    <3>2. CASE k = 1
      BY <3>1, <3>2
    <3>3. CASE k # 1
      <4>1. k - 1 \in DOMAIN r /\ r[k - 1] = q[k]
        BY <1>1, <1>2, <1>3, <3>3
      <4> QED BY <3>1, <4>1 DEF AllListed
    <3> QED BY <3>2, <3>3
  <2>2. ASSUME NEW x \in Listed(q[1]) \cup AllListed(r)
        PROVE  x \in AllListed(q)
    BY <1>1, <1>2 DEF AllListed
  <2> QED BY <2>1, <2>2
<1> QED BY <1>1, <1>2, <1>4, <1>5, <1>6 DEF Apart, r

\* A step that leaves the pointers and the blocks alone.
LEMMA OwnSame ==
    ASSUME OwnInv, UNCHANGED <<heap, buffer, frame, held, frames_head>>
    PROVE  OwnInv'
<1>1. /\ Buf' = Buf /\ Blocks(frame)' = Blocks(frame) /\ Blocks(held)' = Blocks(held)
      /\ AllListed(frames_head)' = AllListed(frames_head)
      /\ Apart(frames_head)' <=> Apart(frames_head)
  BY DEF Buf, AllListed, Listed, Apart, Blocks
<1> QED BY <1>1 DEF OwnInv, Parted

\* The new block is the buffer's.
LEMMA OwnStart ==
    ASSUME TypeInv, OwnInv, start_new_frame
    PROVE  OwnInv'
<1> USE DEF start_new_frame, line, caller
<1>1. CASE UNCHANGED <<buffer, heap>>
  BY <1>1, OwnSame
<1>2. CASE buffer' = Fresh(heap) /\ heap' = heap \cup {buffer'}
  <2>1. buffer' \notin heap /\ buffer' # Null
    BY <1>2, FreshIs, LinkAssumption DEF TypeInv, DataInv
  <2>2. Buf = {} /\ Buf' = {buffer'}
    BY <2>1 DEF TypeInv, ControlInv, Buf
  <2>3. /\ Blocks(frame)' = Blocks(frame) /\ Blocks(held)' = Blocks(held)
        /\ AllListed(frames_head)' = AllListed(frames_head)
        /\ Apart(frames_head)' <=> Apart(frames_head)
    BY DEF Blocks, AllListed, Listed, Apart
  <2>4. Parted(heap', Buf', Blocks(frame), Blocks(held), AllListed(frames_head))
    BY <1>2, <2>1, <2>2 DEF OwnInv, Parted
  <2> QED BY <2>3, <2>4 DEF OwnInv
<1> QED BY <1>1, <1>2

\* The new block takes the place of the old one.
LEMMA OwnGrow ==
    ASSUME GrowthSucceeds, TypeInv, OwnInv, realloc_buffer
    PROVE  OwnInv'
<1> USE DEF realloc_buffer, line, caller
<1>1. buffer' = Fresh(heap) /\ heap' = (heap \ {buffer}) \cup {buffer'}
  BY DEF GrowthSucceeds, OutOfMemory
<1>2. buffer' \notin heap /\ buffer' # Null
  BY <1>1, FreshIs, LinkAssumption DEF TypeInv, DataInv
<1>3. Buf = {buffer} /\ Buf' = {buffer'}
  BY <1>2 DEF TypeInv, ControlInv, Filling, Buf
<1>4. /\ Blocks(frame)' = Blocks(frame) /\ Blocks(held)' = Blocks(held)
      /\ AllListed(frames_head)' = AllListed(frames_head)
      /\ Apart(frames_head)' <=> Apart(frames_head)
  BY DEF Blocks, AllListed, Listed, Apart
<1>5. Parted(heap', Buf', Blocks(frame), Blocks(held), AllListed(frames_head))
  BY <1>1, <1>2, <1>3 DEF OwnInv, Parted
<1> QED BY <1>4, <1>5 DEF OwnInv

\* The new blocks are the frame's.
LEMMA OwnNewFrame ==
    ASSUME TypeInv, TypeInv', OwnInv, new_frame
    PROVE  OwnInv'
<1> USE DEF new_frame, line, caller, partial
<1>1. CASE UNCHANGED <<frame, heap>>
  BY <1>1, OwnSame
<1>2. CASE /\ frame' = [frame |-> Fresh2[1], data |-> Fresh2[2]]
           /\ heap' = heap \cup {Fresh2[1], Fresh2[2]} /\ pc' = "decode"
  <2>1. Fresh2[1] \notin heap /\ Fresh2[2] \notin heap
    BY Fresh2Is DEF TypeInv, DataInv
  <2>2. Blocks(frame) = {}
    BY DEF TypeInv, ControlInv, Finishing, Blocks
  <2>3. Blocks(frame)' = {Fresh2[1], Fresh2[2]}
    BY <1>2 DEF TypeInv, ControlInv, Finishing, Blocks
  <2>4. /\ Buf' = Buf /\ Blocks(held)' = Blocks(held)
        /\ AllListed(frames_head)' = AllListed(frames_head)
        /\ Apart(frames_head)' <=> Apart(frames_head)
    BY DEF Buf, Blocks, AllListed, Listed, Apart
  <2>5. Parted(heap', Buf, Blocks(frame)', Blocks(held), AllListed(frames_head))
    BY <1>2, <2>1, <2>2, <2>3 DEF OwnInv, Parted
  <2> QED BY <2>4, <2>5 DEF OwnInv
<1> QED BY <1>1, <1>2

\* The frame's blocks go to the list, with the block of its element; the
\* buffer's is freed.
LEMMA OwnEnqueue ==
    ASSUME TypeInv, OwnInv, enqueue_frame
    PROVE  OwnInv'
<1> USE DEF enqueue_frame, line, caller
<1> DEFINE b == Fresh(heap)
           e == [block |-> b, frame |-> frame, content |-> content]
<1>1. CASE UNCHANGED <<heap, partial, frame, frames_head>>
  BY <1>1, OwnSame DEF partial
<1>2. CASE /\ frames_head' = Append(frames_head, e) /\ FreeBuffer(heap \cup {b})
           /\ frame' = Null
  <2> USE <1>2 DEF FreeBuffer
  <2>1. b \in Nat /\ b \notin heap
    BY FreshIs DEF TypeInv, DataInv
  <2>2. e \in Element
    <3>1. frame \in Frame /\ content \in Seq(RawByte)
      BY DEF TypeInv, ControlInv, DataInv, Finishing, Sent
    <3> QED BY <2>1, <3>1 DEF Element
  <2>3. Listed(e) = Blocks(frame) \cup {b} /\ e.block = b /\ e.frame = frame
    BY DEF Listed
  <2>4. frames_head \in Seq(Element)
    BY DEF TypeInv, DataInv
  <2> HIDE DEF e, b
  <2>5. /\ Apart(frames_head')
        /\ AllListed(frames_head') = AllListed(frames_head) \cup Listed(e)
    <3>1. Listed(e) \cap AllListed(frames_head) = {} /\ e.block \notin Blocks(e.frame)
      BY <2>1, <2>3 DEF OwnInv, Parted
    <3> QED BY <2>2, <2>4, <3>1, ListedAppend DEF OwnInv, e, b
  <2>6. buffer # Null /\ Buf = {buffer} /\ Buf' = {} /\ Blocks(frame)' = {} /\ Blocks(held)' = Blocks(held)
    BY DEF TypeInv, ControlInv, Filling, Finishing, Buf, Blocks
  <2>7. /\ AllListed(frames_head)' = AllListed(frames_head')
        /\ Apart(frames_head)' <=> Apart(frames_head')
    BY DEF AllListed, Apart, Listed, Blocks
  <2>8. heap' = (heap \cup {b}) \ {buffer}
    BY DEF b
  <2>9. Parted(heap', {}, {}, Blocks(held), AllListed(frames_head'))
    BY <2>1, <2>3, <2>5, <2>6, <2>8 DEF OwnInv, Parted
  <2> QED BY <2>5, <2>6, <2>7, <2>9 DEF OwnInv
<1> QED BY <1>1, <1>2 DEF Enqueued

\* The frame's blocks and the buffer's are freed.
LEMMA OwnError ==
    ASSUME TypeInv, OwnInv, Error
    PROVE  OwnInv'
<1> USE DEF Error, FreeBuffer, line, caller
<1>1. Buf = {buffer} /\ Buf' = {} /\ Blocks(frame)' = {} /\ Blocks(held)' = Blocks(held)
  BY DEF TypeInv, ControlInv, Filling, Finishing, Buf, Blocks
<1>2. /\ AllListed(frames_head)' = AllListed(frames_head)
      /\ Apart(frames_head)' <=> Apart(frames_head)
  BY DEF Blocks, AllListed, Listed, Apart
<1>3. heap' = (heap \ Blocks(frame)) \ {buffer}
  OBVIOUS
<1>4. Parted(heap', {}, {}, Blocks(held), AllListed(frames_head))
  BY <1>1, <1>3 DEF OwnInv, Parted
<1> QED BY <1>1, <1>2, <1>4 DEF OwnInv

\* The first frame of the list is the caller's; its element is freed.
LEMMA OwnReturn ==
    ASSUME TypeInv, TypeInv', OwnInv, Return
    PROVE  OwnInv'
<1> USE DEF Return, line, partial
<1>1. CASE UNCHANGED <<held, delivered, heap, frames_head>>
  BY <1>1, OwnSame
<1>2. CASE dequeue_frame
  <2> USE <1>2 DEF dequeue_frame
  <2> DEFINE e == Head(frames_head)
  <2>1. frames_head \in Seq(Element) /\ Apart(frames_head)
    BY DEF TypeInv, DataInv, OwnInv
  <2>2. /\ Apart(frames_head')
        /\ AllListed(frames_head) = Listed(e) \cup AllListed(frames_head')
        /\ Listed(e) \cap AllListed(frames_head') = {}
        /\ e.block \notin Blocks(e.frame)
    BY <2>1, ListedTail
  <2>3. /\ AllListed(frames_head)' = AllListed(frames_head')
        /\ Apart(frames_head)' <=> Apart(frames_head')
    BY DEF AllListed, Apart, Listed, Blocks
  <2>4. Blocks(held) = {} /\ Blocks(held)' = Blocks(e.frame) /\ Listed(e) = Blocks(e.frame) \cup {e.block}
    BY DEF TypeInv, ControlInv, Blocks, Listed
  <2>5. Buf' = Buf /\ Blocks(frame)' = Blocks(frame) /\ heap' = heap \ {e.block}
    BY DEF Buf, Blocks
  <2> HIDE DEF e
  <2>6. Parted(heap', Buf, Blocks(frame), Blocks(e.frame), AllListed(frames_head'))
    BY <2>2, <2>4, <2>5 DEF OwnInv, Parted
  <2> QED BY <2>2, <2>3, <2>4, <2>5, <2>6 DEF OwnInv
<1> QED BY <1>1, <1>2

\* The caller's blocks are freed.
LEMMA OwnFree ==
    ASSUME TypeInv, OwnInv, link_free_frame
    PROVE  OwnInv'
<1> USE DEF link_free_frame, line, partial
<1>1. /\ Buf' = Buf /\ Blocks(frame)' = Blocks(frame) /\ Blocks(held)' = {}
      /\ heap' = heap \ Blocks(held)
      /\ AllListed(frames_head)' = AllListed(frames_head)
      /\ Apart(frames_head)' <=> Apart(frames_head)
  BY DEF Buf, Blocks, AllListed, Listed, Apart
<1>2. Parted(heap', Buf, Blocks(frame), {}, AllListed(frames_head))
  BY <1>1 DEF OwnInv, Parted
<1> QED BY <1>1, <1>2 DEF OwnInv

\* Nothing is allocated at first.
LEMMA InitOwn == Init => OwnInv
<1> SUFFICES ASSUME Init PROVE OwnInv
  OBVIOUS
<1>1. DOMAIN << >> = {}
  BY SMT
<1> QED BY <1>1 DEF Init, OwnInv, Parted, Buf, Blocks, AllListed, Apart

\* No step leaks a block, frees one twice or keeps a pointer to one it freed.
LEMMA NextOwn == GrowthSucceeds /\ TypeInv /\ TypeInv' /\ OwnInv /\ [Next]_vars => OwnInv'
<1> SUFFICES ASSUME GrowthSucceeds, TypeInv, TypeInv', OwnInv, [Next]_vars PROVE OwnInv'
  OBVIOUS
<1>1. CASE Sender
  BY <1>1, OwnSame DEF Sender, link_send_frame, Write, partial, caller
<1>2. CASE link_frames_available \/ link_get_next_frame \/ Flush \/ NoMoreBytes \/ Decode \/ ReadByte
  BY <1>2, OwnSame DEF link_frames_available, link_get_next_frame, Call, Flush, NoMoreBytes, Decode,
     ReadByte, partial, caller
<1>3. CASE UNCHANGED vars
  BY <1>3, OwnSame DEF vars, partial, caller
<1> QED BY <1>1, <1>2, <1>3, OwnStart, OwnGrow, OwnNewFrame, OwnEnqueue, OwnError, OwnReturn,
           OwnFree DEF Next, Receiver

\* The model's own statement of it.
LEMMA OwnershipHolds == TypeInv /\ OwnInv => Ownership
<1> SUFFICES ASSUME TypeInv, OwnInv PROVE Ownership
  OBVIOUS
<1> DEFINE n == Len(frames_head)
           three == << Buf, Blocks(frame), Blocks(held) >>
           list == [k \in Queued |-> Listed(frames_head[k])]
           S == SUBSET UNION {Buf, Blocks(frame), Blocks(held), AllListed(frames_head)}
<1>1. n \in Nat /\ Queued = 1..n
  BY LenProperties DEF TypeInv, DataInv, Queued
<1>2. three \in Seq(S) /\ Len(three) = 3 /\ three[1] = Buf /\ three[2] = Blocks(frame)
      /\ three[3] = Blocks(held)
  <2>1. Buf \in S /\ Blocks(frame) \in S /\ Blocks(held) \in S
    OBVIOUS
  <2> HIDE DEF S
  <2> QED BY <2>1, SMT
<1>3. list \in Seq(S) /\ Len(list) = n /\ \A k \in 1..n : list[k] = Listed(frames_head[k])
  <2>1. \A k \in 1..n : Listed(frames_head[k]) \in S
    BY <1>1 DEF AllListed, Queued
  <2> HIDE DEF S
  <2>2. list \in Seq(S)
    BY <1>1, <2>1, IsASeq
  <2>3. DOMAIN list = 1..n /\ DOMAIN list = 1..Len(list) /\ Len(list) \in Nat
    BY <1>1, <2>2, LenProperties
  <2>4. \A a, b \in Nat : 1..a = 1..b => a = b
    BY SMT
  <2>5. Len(list) = n
    BY <1>1, <2>3, <2>4
  <2> QED BY <1>1, <2>2, <2>5
<1>4. Owned = three \o list
  BY DEF Owned, Buf, Listed
<1> HIDE DEF three, list, S
<1>5. /\ Owned \in Seq(S) /\ Len(Owned) = 3 + n
      /\ \A i \in 1..(3 + n) : Owned[i] = IF i <= 3 THEN three[i] ELSE list[i - 3]
  <2>0. three \in Seq(S) /\ list \in Seq(S)
    BY <1>2, <1>3
  <2>1. /\ three \o list \in Seq(S) /\ Len(three \o list) = Len(three) + Len(list)
        /\ \A i \in 1..(Len(three) + Len(list)) :
              (three \o list)[i] = IF i <= Len(three) THEN three[i] ELSE list[i - Len(three)]
    BY <2>0, ConcatProperties
  <2> QED BY <1>2, <1>3, <1>4, <2>1
<1>6. DOMAIN Owned = 1..(3 + n)
  BY <1>5, LenProperties
<1>7. \A i \in 1..(3 + n) :
          \/ i = 1 /\ Owned[i] = Buf
          \/ i = 2 /\ Owned[i] = Blocks(frame)
          \/ i = 3 /\ Owned[i] = Blocks(held)
          \/ i - 3 \in 1..n /\ Owned[i] = Listed(frames_head[i - 3])
  <2>1. \A i \in 1..(3 + n) : \/ i = 1 /\ i <= 3
                              \/ i = 2 /\ i <= 3
                              \/ i = 3 /\ i <= 3
                              \/ ~(i <= 3) /\ i - 3 \in 1..n
    BY <1>1, SMT
  <2> QED BY <1>2, <1>3, <1>5, <2>1
<1>8. /\ 1 \in 1..(3 + n) /\ 2 \in 1..(3 + n) /\ 3 \in 1..(3 + n)
      /\ \A k \in 1..n : k + 3 \in 1..(3 + n) /\ k + 3 # 1 /\ k + 3 # 2 /\ k + 3 # 3
                         /\ (k + 3) - 3 = k
      /\ \A i, j \in 1..(3 + n) : i # j => i - 3 # j - 3
  BY <1>1, SMT
<1>9. \A k \in 1..n : Owned[k + 3] = Listed(frames_head[k])
  BY <1>7, <1>8
<1>10. Owned[1] = Buf /\ Owned[2] = Blocks(frame) /\ Owned[3] = Blocks(held)
  <2>1. 1 <= 3 /\ 2 <= 3 /\ 3 <= 3
    BY SMT
  <2> QED BY <1>2, <1>5, <1>8, <2>1
<1>11. ASSUME NEW x
       PROVE  x \in heap <=> \E i \in 1..(3 + n) : x \in Owned[i]
  <2>1. x \in heap <=> \/ x \in Buf \/ x \in Blocks(frame) \/ x \in Blocks(held)
                       \/ \E k \in 1..n : x \in Listed(frames_head[k])
    BY <1>1 DEF OwnInv, Parted, AllListed, Queued
  <2> QED BY <1>7, <1>8, <1>9, <1>10, <2>1
<1>12. heap = UNION {Owned[i] : i \in DOMAIN Owned}
  BY <1>6, <1>11
<1>13. ASSUME NEW i \in 1..(3 + n), NEW j \in 1..(3 + n), i # j
       PROVE  Owned[i] \cap Owned[j] = {}
  <2>1. \A k \in 1..n : /\ Listed(frames_head[k]) \cap Buf = {}
                        /\ Listed(frames_head[k]) \cap Blocks(frame) = {}
                        /\ Listed(frames_head[k]) \cap Blocks(held) = {}
    BY <1>1 DEF OwnInv, Parted, AllListed, Queued
  <2>2. \A k, l \in 1..n : k # l => Listed(frames_head[k]) \cap Listed(frames_head[l]) = {}
    BY <1>1 DEF OwnInv, Apart, Queued
  <2>3. /\ Buf \cap Blocks(frame) = {} /\ Buf \cap Blocks(held) = {}
        /\ Blocks(frame) \cap Blocks(held) = {}
    BY DEF OwnInv, Parted
  <2>4. \A A, B : A \cap B = {} => B \cap A = {}
    OBVIOUS
  <2>5. CASE i - 3 \in 1..n /\ Owned[i] = Listed(frames_head[i - 3])
    <3>1. CASE j - 3 \in 1..n /\ Owned[j] = Listed(frames_head[j - 3])
      BY <1>8, <1>13, <2>2, <2>5, <3>1
    <3> QED BY <1>7, <2>1, <2>5, <3>1
  <2>6. CASE j - 3 \in 1..n /\ Owned[j] = Listed(frames_head[j - 3])
    BY <1>7, <2>1, <2>4, <2>5, <2>6
  <2> QED BY <1>7, <1>13, <2>3, <2>4, <2>5, <2>6
<1> QED BY <1>6, <1>12, <1>13 DEF Ownership

-----------------------------------------------------------------------------
(* The order of the bytes. *)

\* Every byte of s was sent before every byte of t.
Precedes(s, t) == \A m \in 1..Len(s), n \in 1..Len(t) : Before(s[m], t[n])
Ascends(s) == \A m, n \in 1..Len(s) : m < n => Before(s[m], s[n])

\* What was received (C), is being received (c), has arrived (r) and is still
\* to be written (u) is in the order in which it was sent, and of the first n
\* frames.
Ordered(C, c, r, u, n) ==
    /\ C \in Seq(Seq(RawByte)) /\ Sent(c, n) /\ Sent(r, n) /\ Sent(u, n)
    /\ \A k \in 1..Len(C) :
          /\ Sent(C[k], n) /\ Ascends(C[k])
          /\ \A l \in 1..Len(C) : k < l => Precedes(C[k], C[l])
          /\ Precedes(C[k], c) /\ Precedes(C[k], r) /\ Precedes(C[k], u)
    /\ Ascends(c) /\ Precedes(c, r) /\ Precedes(c, u)
    /\ Ascends(r) /\ Precedes(r, u)
    /\ Ascends(u)

OrderInv == Ordered(Contents, content, rx, unsent, Len(lens))

\* Nothing is in order with everything.
LEMMA NothingPrecedes ==
    ASSUME NEW s
    PROVE  Precedes(s, << >>) /\ Precedes(<< >>, s) /\ Ascends(<< >>)
<1>1. 1..Len(<< >>) = {}
  BY SMT
<1> QED BY <1>1 DEF Precedes, Ascends

\* A byte more at the end of the later sequence.
LEMMA PrecedesAppend ==
    ASSUME NEW s \in Seq(RawByte), NEW t \in Seq(RawByte), NEW b \in RawByte,
           Precedes(s, t), \A m \in 1..Len(s) : Before(s[m], b)
    PROVE  Precedes(s, Append(t, b))
<1> DEFINE u == Append(t, b)
<1>1. /\ Len(u) = Len(t) + 1 /\ \A k \in 1..Len(t) : u[k] = t[k]
      /\ u[Len(t) + 1] = b /\ \A k \in 1..(Len(t) + 1) : k = Len(t) + 1 \/ k \in 1..Len(t)
  BY AppendIs
<1> HIDE DEF u
<1>2. Precedes(s, u)
  BY <1>1 DEF Precedes
<1> QED BY <1>2 DEF u

\* A byte more at the end of the earlier sequence.
LEMMA AppendPrecedes ==
    ASSUME NEW s \in Seq(RawByte), NEW t \in Seq(RawByte), NEW b \in RawByte,
           Precedes(s, t), \A n \in 1..Len(t) : Before(b, t[n])
    PROVE  Precedes(Append(s, b), t)
<1> DEFINE u == Append(s, b)
<1>1. /\ Len(u) = Len(s) + 1 /\ \A k \in 1..Len(s) : u[k] = s[k]
      /\ u[Len(s) + 1] = b /\ \A k \in 1..(Len(s) + 1) : k = Len(s) + 1 \/ k \in 1..Len(s)
  BY AppendIs
<1> HIDE DEF u
<1>2. Precedes(u, t)
  BY <1>1 DEF Precedes
<1> QED BY <1>2 DEF u

\* A byte more at the end of one in order.
LEMMA AscendsAppend ==
    ASSUME NEW s \in Seq(RawByte), NEW b \in RawByte,
           Ascends(s), \A m \in 1..Len(s) : Before(s[m], b)
    PROVE  Ascends(Append(s, b))
<1> DEFINE u == Append(s, b)
<1>1. /\ Len(u) = Len(s) + 1 /\ \A k \in 1..Len(s) : u[k] = s[k] /\ Len(s) \in Nat
      /\ u[Len(s) + 1] = b /\ \A k \in 1..(Len(s) + 1) : k = Len(s) + 1 \/ k \in 1..Len(s)
  BY AppendIs
<1>2. Len(s) \in Nat
  BY AppendIs
<1> HIDE DEF u
<1>3. \A m, n \in 1..(Len(s) + 1) : m < n => m \in 1..Len(s)
  BY <1>2, SMT
<1>4. Ascends(u)
  <2> SUFFICES ASSUME NEW m \in 1..Len(u), NEW n \in 1..Len(u), m < n
               PROVE  Before(u[m], u[n])
    BY DEF Ascends
  <2>1. m \in 1..Len(s) /\ u[m] = s[m]
    BY <1>1, <1>3
  <2>2. CASE n = Len(s) + 1
    BY <1>1, <2>1, <2>2
  <2>3. CASE n \in 1..Len(s)
    BY <1>1, <2>1, <2>3 DEF Ascends
  <2> QED BY <1>1, <2>2, <2>3
<1> QED BY <1>4 DEF u

\* Without the first byte of the later sequence.
LEMMA PrecedesTail ==
    ASSUME NEW s, NEW t \in Seq(RawByte), t # << >>, Precedes(s, t)
    PROVE  Precedes(s, Tail(t)) /\ \A m \in 1..Len(s) : Before(s[m], Head(t))
<1> DEFINE u == Tail(t)
<1>1. /\ Head(t) = t[1] /\ 1 \in 1..Len(t)
      /\ \A k \in 1..Len(u) : u[k] = t[k + 1] /\ k + 1 \in 1..Len(t)
  BY TailIs
<1> HIDE DEF u
<1>2. Precedes(s, u)
  BY <1>1 DEF Precedes
<1> QED BY <1>1, <1>2 DEF Precedes, u

\* Without the first byte of the earlier sequence.
LEMMA TailPrecedes ==
    ASSUME NEW s, NEW t \in Seq(RawByte), t # << >>, Precedes(t, s)
    PROVE  Precedes(Tail(t), s) /\ \A m \in 1..Len(s) : Before(Head(t), s[m])
<1> DEFINE u == Tail(t)
<1>1. /\ Head(t) = t[1] /\ 1 \in 1..Len(t)
      /\ \A k \in 1..Len(u) : u[k] = t[k + 1] /\ k + 1 \in 1..Len(t)
  BY TailIs
<1> HIDE DEF u
<1>2. Precedes(u, s)
  BY <1>1 DEF Precedes
<1> QED BY <1>1, <1>2 DEF Precedes, u

\* One in order without its first byte.
LEMMA AscendsTail ==
    ASSUME NEW t \in Seq(RawByte), t # << >>, Ascends(t)
    PROVE  Ascends(Tail(t)) /\ \A n \in 1..Len(Tail(t)) : Before(Head(t), Tail(t)[n])
<1> DEFINE u == Tail(t)
<1>1. /\ Head(t) = t[1] /\ 1 \in 1..Len(t)
      /\ \A k \in 1..Len(u) : u[k] = t[k + 1] /\ k + 1 \in 1..Len(t)
      /\ Len(u) = Len(t) - 1 /\ Len(t) \in Nat
  BY TailIs
<1> HIDE DEF u
<1>2. \A m, n \in 1..Len(u) : (m < n => m + 1 < n + 1) /\ 1 < n + 1
  BY <1>1, SMT
<1>3. Ascends(u)
  <2> SUFFICES ASSUME NEW m \in 1..Len(u), NEW n \in 1..Len(u), m < n
               PROVE  Before(u[m], u[n])
    BY DEF Ascends
  <2>1. u[m] = t[m + 1] /\ u[n] = t[n + 1] /\ m + 1 < n + 1
    BY <1>1, <1>2
  <2> QED BY <1>1, <2>1 DEF Ascends
<1>4. \A n \in 1..Len(u) : Before(Head(t), u[n])
  BY <1>1, <1>2 DEF Ascends
<1> QED BY <1>3, <1>4 DEF u

\* The received frames, in the caller's hands and in the list.
ContentsOf(q) == [k \in DOMAIN q |-> q[k].content]
\* The contents of the frames in a list.
LEMMA ContentsOfIs ==
    ASSUME NEW q \in Seq(Element)
    PROVE  /\ ContentsOf(q) \in Seq(Seq(RawByte)) /\ Len(ContentsOf(q)) = Len(q)
           /\ \A k \in 1..Len(q) : ContentsOf(q)[k] = q[k].content
<1> DEFINE n == Len(q)
           c == [k \in 1..n |-> q[k].content]
<1>1. n \in Nat /\ DOMAIN q = 1..n
  BY LenProperties
<1>2. \A k \in 1..n : q[k].content \in Seq(RawByte)
  <2>1. \A k \in 1..n : q[k] \in Element
    BY ElementOfSeq
  <2> QED BY <2>1 DEF Element
<1>3. c \in Seq(Seq(RawByte))
  BY <1>1, <1>2, IsASeq
<1>4. DOMAIN c = 1..n /\ DOMAIN c = 1..Len(c) /\ Len(c) \in Nat
  BY <1>3, LenProperties
<1>5. \A a, b \in Nat : 1..a = 1..b => a = b
  BY SMT
<1>6. Len(c) = n
  BY <1>1, <1>4, <1>5
<1>7. ContentsOf(q) = c
  BY <1>1 DEF ContentsOf
<1> QED BY <1>3, <1>6, <1>7

\* The received frames, element by element.
LEMMA ContentsIs ==
    ASSUME TypeInv
    PROVE  /\ Contents = delivered \o ContentsOf(frames_head)
           /\ Contents \in Seq(Seq(RawByte))
           /\ Len(Contents) = Len(delivered) + Len(frames_head)
           /\ \A i \in 1..(Len(delivered) + Len(frames_head)) :
                 Contents[i] = IF i <= Len(delivered) THEN delivered[i]
                               ELSE frames_head[i - Len(delivered)].content
<1> DEFINE c == ContentsOf(frames_head)
           d == delivered
<1>1. /\ c \in Seq(Seq(RawByte)) /\ Len(c) = Len(frames_head)
      /\ \A k \in 1..Len(frames_head) : c[k] = frames_head[k].content
  BY ContentsOfIs DEF TypeInv, DataInv
<1>2. d \in Seq(Seq(RawByte)) /\ Len(d) \in Nat /\ Len(frames_head) \in Nat
  BY LenProperties DEF TypeInv, DataInv
<1>3. Contents = d \o c
  BY DEF Contents, ContentsOf, Queued
<1> HIDE DEF c, d
<1>4. /\ d \o c \in Seq(Seq(RawByte)) /\ Len(d \o c) = Len(d) + Len(c)
      /\ \A i \in 1..(Len(d) + Len(c)) :
            (d \o c)[i] = IF i <= Len(d) THEN d[i] ELSE c[i - Len(d)]
  BY <1>1, <1>2, ConcatProperties
<1>5. \A i \in 1..(Len(d) + Len(frames_head)) : ~(i <= Len(d)) => i - Len(d) \in 1..Len(frames_head)
  BY <1>2, SMT
<1> QED BY <1>1, <1>3, <1>4, <1>5 DEF c, d

\* The same after a step.
LEMMA ContentsIsPrime ==
    ASSUME TypeInv'
    PROVE  /\ Contents' \in Seq(Seq(RawByte))
           /\ Len(Contents') = Len(delivered') + Len(frames_head')
           /\ \A i \in 1..(Len(delivered') + Len(frames_head')) :
                 Contents'[i] = IF i <= Len(delivered') THEN delivered'[i]
                                ELSE frames_head'[i - Len(delivered')].content
<1> DEFINE c == ContentsOf(frames_head')
           d == delivered'
           q == frames_head'
<1>1. /\ c \in Seq(Seq(RawByte)) /\ Len(c) = Len(q)
      /\ \A k \in 1..Len(q) : c[k] = q[k].content
  BY ContentsOfIs DEF TypeInv, DataInv
<1>2. d \in Seq(Seq(RawByte)) /\ Len(d) \in Nat /\ Len(q) \in Nat
  BY LenProperties DEF TypeInv, DataInv
<1>3. Contents' = d \o c
  BY DEF Contents, ContentsOf, Queued
<1> HIDE DEF c, d, q
<1>4. /\ d \o c \in Seq(Seq(RawByte)) /\ Len(d \o c) = Len(d) + Len(c)
      /\ \A i \in 1..(Len(d) + Len(c)) :
            (d \o c)[i] = IF i <= Len(d) THEN d[i] ELSE c[i - Len(d)]
  BY <1>1, <1>2, ConcatProperties
<1>5. \A i \in 1..(Len(d) + Len(q)) : ~(i <= Len(d)) => i - Len(d) \in 1..Len(q)
  BY <1>2, SMT
<1> QED BY <1>1, <1>3, <1>4, <1>5 DEF c, d, q

\* A frame that is enqueued is one more received frame.
LEMMA ContentsEnqueue ==
    ASSUME TypeInv, TypeInv', NEW e \in Element, frames_head' = Append(frames_head, e),
           delivered' = delivered
    PROVE  Contents' = Append(Contents, e.content)
<1> DEFINE x == Len(delivered)
           y == Len(frames_head)
           c == Append(Contents, e.content)
<1>1. frames_head \in Seq(Element) /\ delivered \in Seq(Seq(RawByte)) /\ x \in Nat /\ y \in Nat
  BY LenProperties DEF TypeInv, DataInv
<1>2. Len(frames_head') = y + 1 /\ frames_head'[y + 1] = e /\ \A k \in 1..y : frames_head'[k] = frames_head[k]
  BY <1>1, AppendIs
<1>3. /\ Contents \in Seq(Seq(RawByte)) /\ Len(Contents) = x + y
      /\ \A i \in 1..(x + y) : Contents[i] = IF i <= x THEN delivered[i] ELSE frames_head[i - x].content
  BY ContentsIs
<1>4. /\ Contents' \in Seq(Seq(RawByte)) /\ Len(Contents') = x + (y + 1)
      /\ \A i \in 1..(x + (y + 1)) :
            Contents'[i] = IF i <= x THEN delivered[i] ELSE frames_head'[i - x].content
  BY <1>2, ContentsIsPrime
<1>5. /\ c \in Seq(Seq(RawByte)) /\ Len(c) = x + y + 1 /\ c[x + y + 1] = e.content
      /\ \A k \in 1..(x + y) : c[k] = Contents[k]
  <2>1. e.content \in Seq(RawByte)
    BY DEF Element
  <2> QED BY <1>3, <2>1, AppendIs
<1>6. \A i \in 1..(x + (y + 1)) :
          \/ i \in 1..(x + y) /\ (i <= x \/ i - x \in 1..y)
          \/ i = x + y + 1 /\ ~(i <= x) /\ i - x = y + 1
  <2>1. \A a, b \in Nat : \A i \in 1..(a + (b + 1)) :
            \/ i \in 1..(a + b) /\ (i <= a \/ i - a \in 1..b)
            \/ i = a + b + 1 /\ ~(i <= a) /\ i - a = b + 1
    BY SMT
  <2> QED BY <1>1, <2>1
<1> HIDE DEF c, x, y
<1>7. \A i \in 1..Len(Contents') : Contents'[i] = c[i]
  <2> SUFFICES ASSUME NEW i \in 1..(x + (y + 1)) PROVE Contents'[i] = c[i]
    BY <1>4
  <2>1. CASE i \in 1..(x + y) /\ i <= x
    BY <1>3, <1>4, <1>5, <2>1
  <2>2. CASE i \in 1..(x + y) /\ ~(i <= x) /\ i - x \in 1..y
    BY <1>2, <1>3, <1>4, <1>5, <2>2 DEF y
  <2>3. CASE i = x + y + 1 /\ ~(i <= x) /\ i - x = y + 1
    <3>1. Contents'[i] = frames_head'[y + 1].content
      BY <1>4, <2>3
    <3> QED BY <1>2, <1>5, <2>3, <3>1 DEF y
  <2> QED BY <1>6, <2>1, <2>2, <2>3
<1>8. x + (y + 1) = x + y + 1
  BY <1>1, SMT
<1>9. Contents' = c
  BY <1>4, <1>5, <1>7, <1>8, SeqEqual
<1> QED BY <1>9 DEF c

\* A frame that the caller gets was received before.
LEMMA ContentsDequeue ==
    ASSUME TypeInv, TypeInv', dequeue_frame
    PROVE  Contents' = Contents
<1> USE DEF dequeue_frame
<1> DEFINE x == Len(delivered)
           y == Len(frames_head)
           e == Head(frames_head)
<1>1. frames_head \in Seq(Element) /\ delivered \in Seq(Seq(RawByte)) /\ x \in Nat /\ y \in Nat
  BY LenProperties DEF TypeInv, DataInv
<1>2. /\ e \in Element /\ e = frames_head[1] /\ Len(frames_head') = y - 1 /\ y > 0
      /\ \A k \in 1..Len(frames_head') : frames_head'[k] = frames_head[k + 1]
  BY <1>1, TailIs
<1>3. /\ Len(delivered') = x + 1 /\ delivered'[x + 1] = e.content
      /\ \A k \in 1..x : delivered'[k] = delivered[k]
  <2>1. e.content \in Seq(RawByte)
    BY <1>2 DEF Element
  <2> QED BY <1>1, <2>1, AppendIs
<1>4. /\ Contents \in Seq(Seq(RawByte)) /\ Len(Contents) = x + y
      /\ \A i \in 1..(x + y) : Contents[i] = IF i <= x THEN delivered[i] ELSE frames_head[i - x].content
  BY ContentsIs
<1>5. /\ Contents' \in Seq(Seq(RawByte)) /\ Len(Contents') = (x + 1) + (y - 1)
      /\ \A i \in 1..((x + 1) + (y - 1)) :
            Contents'[i] = IF i <= x + 1 THEN delivered'[i] ELSE frames_head'[i - (x + 1)].content
  BY <1>2, <1>3, ContentsIsPrime
<1>6. /\ (x + 1) + (y - 1) = x + y
      /\ \A i \in 1..(x + y) :
          \/ i \in 1..x /\ i <= x /\ i <= x + 1
          \/ i = x + 1 /\ i <= x + 1 /\ ~(i <= x) /\ i - x = 1
          \/ /\ ~(i <= x) /\ ~(i <= x + 1)
             /\ i - (x + 1) \in 1..(y - 1) /\ (i - (x + 1)) + 1 = i - x
  BY <1>1, <1>2, SMT
<1> HIDE DEF e, x, y
<1>7. \A i \in 1..Len(Contents') : Contents'[i] = Contents[i]
  <2> SUFFICES ASSUME NEW i \in 1..(x + y) PROVE Contents'[i] = Contents[i]
    BY <1>5, <1>6
  <2>1. CASE i \in 1..x /\ i <= x /\ i <= x + 1
    BY <1>3, <1>4, <1>5, <1>6, <2>1
  <2>2. CASE i = x + 1 /\ i <= x + 1 /\ ~(i <= x) /\ i - x = 1
    <3>1. Contents'[i] = delivered'[x + 1]
      BY <1>5, <1>6, <2>2
    <3>2. Contents[i] = frames_head[1].content
      BY <1>4, <2>2
    <3> QED BY <1>2, <1>3, <3>1, <3>2
  <2>3. CASE /\ ~(i <= x) /\ ~(i <= x + 1)
             /\ i - (x + 1) \in 1..(y - 1) /\ (i - (x + 1)) + 1 = i - x
    <3>1. Contents'[i] = frames_head'[i - (x + 1)].content
      BY <1>5, <1>6, <2>3
    <3>2. frames_head'[i - (x + 1)] = frames_head[i - x]
      BY <1>2, <2>3
    <3>3. Contents[i] = frames_head[i - x].content
      BY <1>4, <2>3
    <3> QED BY <3>1, <3>2, <3>3
  <2> QED BY <1>6, <2>1, <2>2, <2>3
<1> QED BY <1>4, <1>5, <1>6, <1>7, SeqEqual

\* The frame that is being received is dropped.
LEMMA OrderedDrop ==
    ASSUME NEW C, NEW c, NEW r, NEW u, NEW n, Ordered(C, c, r, u, n)
    PROVE  Ordered(C, << >>, r, u, n)
BY NothingPrecedes, SentNothing DEF Ordered

\* A byte that arrived is read and forgotten.
LEMMA OrderedSkip ==
    ASSUME NEW C, NEW c, NEW r, NEW u, NEW n, Ordered(C, c, r, u, n), r # << >>
    PROVE  Ordered(C, c, Tail(r), u, n)
<1>1. r \in Seq(RawByte) /\ Sent(Tail(r), n)
  BY SentTail DEF Ordered, Sent
<1>2. \A s : Precedes(s, r) => Precedes(s, Tail(r))
  BY <1>1, PrecedesTail
<1>3. Precedes(Tail(r), u) /\ Ascends(Tail(r))
  BY <1>1, TailPrecedes, AscendsTail DEF Ordered
<1> QED BY <1>1, <1>2, <1>3 DEF Ordered

\* A byte that arrived is stored in the buffer.
LEMMA OrderedRead ==
    ASSUME NEW C, NEW c, NEW r, NEW u, NEW n, Ordered(C, c, r, u, n), r # << >>
    PROVE  Ordered(C, Append(c, Head(r)), Tail(r), u, n)
<1> DEFINE b == Head(r)
           t == Tail(r)
           d == Append(c, b)
<1>1. r \in Seq(RawByte) /\ c \in Seq(RawByte) /\ u \in Seq(RawByte) /\ C \in Seq(Seq(RawByte))
  BY DEF Ordered, Sent
<1>2. Sent(t, n) /\ t \in Seq(RawByte) /\ b \in RawByte /\ b.frame \in 1..n
  BY SentTail DEF Ordered, Sent
<1>3. Sent(d, n)
  BY <1>2, SentAppend DEF Ordered
<1>4. \A s : Precedes(s, r) => Precedes(s, t) /\ \A m \in 1..Len(s) : Before(s[m], b)
  BY <1>1, PrecedesTail
<1>5. /\ Precedes(t, u) /\ Ascends(t)
      /\ \A m \in 1..Len(u) : Before(b, u[m])
      /\ \A m \in 1..Len(t) : Before(b, t[m])
  BY <1>1, TailPrecedes, AscendsTail DEF Ordered
<1> HIDE DEF b, t
<1>6. Ascends(d) /\ Precedes(d, t) /\ Precedes(d, u)
  <2>1. Precedes(c, t) /\ Precedes(c, u) /\ Ascends(c) /\ \A m \in 1..Len(c) : Before(c[m], b)
    BY <1>4 DEF Ordered
  <2>2. Ascends(d)
    BY <1>1, <1>2, <2>1, AscendsAppend
  <2>3. Precedes(d, t)
    BY <1>1, <1>2, <1>5, <2>1, AppendPrecedes
  <2>4. Precedes(d, u)
    BY <1>1, <1>2, <1>5, <2>1, AppendPrecedes
  <2> QED BY <2>2, <2>3, <2>4
<1>7. ASSUME NEW k \in 1..Len(C)
      PROVE  Precedes(C[k], d) /\ Precedes(C[k], t)
  <2>1. /\ C[k] \in Seq(RawByte) /\ Precedes(C[k], c) /\ Precedes(C[k], t)
        /\ \A m \in 1..Len(C[k]) : Before(C[k][m], b)
    BY <1>4 DEF Ordered, Sent
  <2> DEFINE s == C[k]
  <2> HIDE DEF s
  <2>2. Precedes(s, d)
    BY <1>1, <1>2, <2>1, PrecedesAppend DEF s
  <2> QED BY <2>1, <2>2 DEF s
<1> HIDE DEF d
<1>8. Ordered(C, d, t, u, n)
  BY <1>2, <1>3, <1>5, <1>6, <1>7 DEF Ordered
<1> QED BY <1>8 DEF d, b, t

\* The next byte that is written is lost.
LEMMA OrderedLose ==
    ASSUME NEW C, NEW c, NEW r, NEW u, NEW n, Ordered(C, c, r, u, n), u # << >>
    PROVE  Ordered(C, c, r, Tail(u), n)
<1>1. u \in Seq(RawByte) /\ Sent(Tail(u), n)
  BY SentTail DEF Ordered, Sent
<1>2. \A s : Precedes(s, u) => Precedes(s, Tail(u))
  BY <1>1, PrecedesTail
<1>3. Ascends(Tail(u))
  BY <1>1, AscendsTail DEF Ordered
<1> QED BY <1>1, <1>2, <1>3 DEF Ordered

\* It arrives.
LEMMA OrderedArrive ==
    ASSUME NEW C, NEW c, NEW r, NEW u, NEW n, Ordered(C, c, r, u, n), u # << >>
    PROVE  Ordered(C, c, Append(r, Head(u)), Tail(u), n)
<1> DEFINE b == Head(u)
           t == Tail(u)
           d == Append(r, b)
<1>1. r \in Seq(RawByte) /\ c \in Seq(RawByte) /\ u \in Seq(RawByte) /\ C \in Seq(Seq(RawByte))
  BY DEF Ordered, Sent
<1>2. Sent(t, n) /\ t \in Seq(RawByte) /\ b \in RawByte /\ b.frame \in 1..n
  BY SentTail DEF Ordered, Sent
<1>3. Sent(d, n)
  BY <1>2, SentAppend DEF Ordered
<1>4. \A s : Precedes(s, u) => Precedes(s, t) /\ \A m \in 1..Len(s) : Before(s[m], b)
  BY <1>1, PrecedesTail
<1>5. /\ Ascends(t)
      /\ \A m \in 1..Len(t) : Before(b, t[m])
  BY <1>1, AscendsTail DEF Ordered
<1> HIDE DEF b, t
<1>6. Ascends(d) /\ Precedes(d, t)
  <2>1. Precedes(r, t) /\ Ascends(r) /\ \A m \in 1..Len(r) : Before(r[m], b)
    BY <1>4 DEF Ordered
  <2>2. Ascends(d)
    BY <1>1, <1>2, <2>1, AscendsAppend
  <2>3. Precedes(d, t)
    BY <1>1, <1>2, <1>5, <2>1, AppendPrecedes
  <2> QED BY <2>2, <2>3
<1>7. ASSUME NEW s \in Seq(RawByte), Precedes(s, r), Precedes(s, u)
      PROVE  Precedes(s, d) /\ Precedes(s, t)
  <2>1. Precedes(s, t) /\ \A m \in 1..Len(s) : Before(s[m], b)
    BY <1>4, <1>7
  <2> QED BY <1>1, <1>2, <1>7, <2>1, PrecedesAppend
<1>8. Precedes(c, d) /\ Precedes(c, t)
  BY <1>1, <1>7 DEF Ordered
<1>9. \A k \in 1..Len(C) : Precedes(C[k], d) /\ Precedes(C[k], t)
  BY <1>7 DEF Ordered, Sent
<1> HIDE DEF d
<1>10. Ordered(C, c, d, t, n)
  BY <1>2, <1>3, <1>5, <1>6, <1>8, <1>9 DEF Ordered
<1> QED BY <1>10 DEF d, b, t

\* The frame that is being received is received.
LEMMA OrderedKeep ==
    ASSUME NEW C, NEW c, NEW r, NEW u, NEW n, Ordered(C, c, r, u, n)
    PROVE  Ordered(Append(C, c), << >>, r, u, n)
<1> DEFINE D == Append(C, c)
           m == Len(C)
<1>1. c \in Seq(RawByte) /\ C \in Seq(Seq(RawByte))
  BY DEF Ordered, Sent
<1>2. /\ D \in Seq(Seq(RawByte)) /\ Len(D) = m + 1 /\ m \in Nat
      /\ D[m + 1] = c /\ \A k \in 1..m : D[k] = C[k]
      /\ \A k \in 1..(m + 1) : k = m + 1 \/ k \in 1..m
  BY <1>1, AppendIs
<1>3. \A k, l \in 1..(m + 1) : k < l => k \in 1..m
  BY <1>2, SMT
<1> HIDE DEF D, m
<1>4. ASSUME NEW k \in 1..Len(D)
      PROVE  /\ Sent(D[k], n) /\ Ascends(D[k])
             /\ \A l \in 1..Len(D) : k < l => Precedes(D[k], D[l])
             /\ Precedes(D[k], << >>) /\ Precedes(D[k], r) /\ Precedes(D[k], u)
  <2>1. /\ Sent(D[k], n) /\ Ascends(D[k]) /\ Precedes(D[k], r) /\ Precedes(D[k], u)
    BY <1>2 DEF Ordered, m
  <2>2. ASSUME NEW l \in 1..Len(D), k < l
        PROVE  Precedes(D[k], D[l])
    <3>1. k \in 1..m /\ D[k] = C[k]
      BY <1>2, <1>3, <2>2
    <3>2. CASE l = m + 1
      BY <1>2, <3>1, <3>2 DEF Ordered, m
    <3>3. CASE l \in 1..m
      BY <1>2, <2>2, <3>1, <3>3 DEF Ordered, m
    <3> QED BY <1>2, <3>2, <3>3
  <2> QED BY <2>1, <2>2, NothingPrecedes
<1>5. Ordered(D, << >>, r, u, n)
  BY <1>2, <1>4, NothingPrecedes, SentNothing DEF Ordered
<1> QED BY <1>5 DEF D

\* The bytes of one more frame are to be written.
LEMMA OrderedSend ==
    ASSUME NEW C, NEW c, NEW r, NEW n \in Nat, Ordered(C, c, r, << >>, n), NEW len \in Nat
    PROVE  Ordered(C, c, r, [k \in 1..(len + 2) |-> [frame |-> n + 1, place |-> k - 1]], n + 1)
<1> DEFINE byte(k) == [frame |-> n + 1, place |-> k - 1]
           u == [k \in 1..(len + 2) |-> byte(k)]
<1>1. /\ len + 2 \in Nat /\ n + 1 \in Nat /\ n + 1 \in 1..(n + 1)
      /\ \A k \in 1..(len + 2) : k - 1 \in Nat
      /\ \A j, k \in 1..(len + 2) : j < k => j - 1 < k - 1
      /\ \A j \in 1..n : j < n + 1
  BY SMT
<1>2. u \in Seq(RawByte)
  <2>1. \A k \in 1..(len + 2) : byte(k) \in RawByte
    BY <1>1 DEF RawByte
  <2> HIDE DEF byte
  <2> QED BY <1>1, <2>1, IsASeq
<1>3. DOMAIN u = 1..Len(u)
  <2> HIDE DEF u
  <2> QED BY <1>2, LenProperties
<1>4. \A k \in 1..Len(u) : k \in 1..(len + 2) /\ u[k] = byte(k)
  BY <1>3
<1>5. \A k \in 1..Len(u) : u[k].frame = n + 1 /\ u[k].place = k - 1
  <2> SUFFICES ASSUME NEW k \in 1..Len(u) PROVE byte(k).frame = n + 1 /\ byte(k).place = k - 1
    BY <1>4
  <2> QED OBVIOUS
<1> HIDE DEF byte, u
<1>6. Sent(u, n + 1)
  BY <1>1, <1>2, <1>5 DEF Sent
<1>7. Ascends(u)
  BY <1>1, <1>4, <1>5 DEF Ascends, Before
<1>8. \A s : Sent(s, n) => Precedes(s, u)
  <2>1. \A s : Sent(s, n) => \A m \in 1..Len(s) : s[m].frame < n + 1
    BY <1>1 DEF Sent
  <2> QED BY <1>5, <2>1 DEF Precedes, Before
<1>9. \A s : Sent(s, n) => Sent(s, n + 1)
  BY SentMore
<1>10. Ordered(C, c, r, u, n + 1)
  BY <1>6, <1>7, <1>8, <1>9 DEF Ordered
<1> QED BY <1>10 DEF u, byte

\* Nothing was sent at first.
LEMMA InitOrder == Init => OrderInv
<1> SUFFICES ASSUME Init PROVE OrderInv
  OBVIOUS
<1> USE DEF Init
<1>1. Contents = << >> \o ContentsOf(<< >>)
  BY DEF Contents, ContentsOf, Queued
<1>2. << >> \in Seq(Seq(RawByte)) /\ 1..Len(<< >>) = {} /\ << >> \in Seq(Element)
  BY SMT
<1>3. Contents = << >>
  <2>1. TypeInv
    BY InitType
  <2>2. Contents \in Seq(Seq(RawByte)) /\ Len(Contents) = Len(<< >>) + Len(<< >>)
    BY <2>1, ContentsIs
  <2>3. Len(Contents) = 0
    BY <2>2, SMT
  <2>4. 1..0 = {} /\ Len(<< >>) = 0
    BY SMT
  <2> QED BY <1>2, <2>2, <2>3, <2>4, SeqEqual
<1> QED BY <1>2, <1>3, NothingPrecedes, SentNothing DEF OrderInv, Ordered

\* No step moves a byte past another or copies one.
LEMMA NextOrder ==
    GrowthSucceeds /\ TypeInv /\ TypeInv' /\ OrderInv /\ [Next]_vars => OrderInv'
<1> SUFFICES ASSUME GrowthSucceeds, TypeInv, TypeInv', OrderInv, [Next]_vars PROVE OrderInv'
  OBVIOUS
<1> USE DEF OrderInv, partial, caller, line
<1>1. ASSUME UNCHANGED <<delivered, frames_head>>
      PROVE  Contents' = Contents
  BY <1>1 DEF Contents, Queued
<1>2. ASSUME NEW len \in EncodedLens, link_send_frame(len)
      PROVE  OrderInv'
  <2>1. Len(lens') = Len(lens) + 1 /\ Len(lens) \in Nat
    BY <1>2, AppendIs DEF link_send_frame, TypeInv, DataInv
  <2>2. len \in Nat
    BY LinkAssumption
  <2>3. Ordered(Contents, content, rx, unsent', Len(lens) + 1)
    BY <1>2, <2>1, <2>2, OrderedSend DEF link_send_frame
  <2> QED BY <1>1, <1>2, <2>1, <2>3 DEF link_send_frame
<1>3. CASE Write
  <2>1. CASE rx' = Append(rx, Head(unsent))
    BY <1>1, <1>3, <2>1, OrderedArrive DEF Write
  <2>2. CASE rx' = rx
    BY <1>1, <1>3, <2>2, OrderedLose DEF Write
  <2> QED BY <1>3, <2>1, <2>2 DEF Write
<1>4. CASE \/ link_frames_available \/ link_get_next_frame \/ NoMoreBytes \/ Decode
           \/ new_frame \/ link_free_frame
  BY <1>1, <1>4 DEF link_frames_available, link_get_next_frame, Call, NoMoreBytes, Decode,
     new_frame, link_free_frame
<1>5. CASE realloc_buffer
  <2>1. content' = content
    BY <1>5 DEF realloc_buffer, GrowthSucceeds, OutOfMemory
  <2> QED BY <1>1, <1>5, <2>1 DEF realloc_buffer
<1>6. CASE Flush
  BY <1>1, <1>6, OrderedSkip DEF Flush
<1>7. CASE start_new_frame
  <2>1. Ordered(Contents, << >>, rx', unsent, Len(lens))
    BY <1>7, OrderedSkip, OrderedDrop DEF start_new_frame
  <2> QED BY <1>1, <1>7, <2>1 DEF start_new_frame
<1>8. CASE ReadByte
  <2>0. rx # << >>
    BY <1>8 DEF ReadByte, TypeInv, ControlInv
  <2>1. CASE content' = content
    BY <1>1, <1>8, <2>0, <2>1, OrderedSkip DEF ReadByte
  <2>2. CASE content' = Append(content, Head(rx))
    BY <1>1, <1>8, <2>0, <2>2, OrderedRead DEF ReadByte
  <2> QED BY <1>8, <2>1, <2>2 DEF ReadByte
<1>9. CASE enqueue_frame
  <2>1. CASE UNCHANGED <<heap, partial, frame, frames_head>>
    BY <1>1, <1>9, <2>1 DEF enqueue_frame
  <2>2. CASE /\ frames_head' = Append(frames_head, [block |-> Fresh(heap), frame |-> frame,
                                                    content |-> content])
             /\ content' = << >>
    <3> DEFINE e == [block |-> Fresh(heap), frame |-> frame, content |-> content]
    <3>1. e \in Element /\ e.content = content
      <4>1. frame \in Frame /\ content \in Seq(RawByte) /\ Fresh(heap) \in Nat
        BY <1>9, FreshIs DEF enqueue_frame, TypeInv, ControlInv, DataInv, Finishing, Sent
      <4> QED BY <4>1 DEF Element
    <3>2. frames_head' = Append(frames_head, e) /\ delivered' = delivered
      BY <1>9, <2>2 DEF enqueue_frame
    <3> HIDE DEF e
    <3>3. Contents' = Append(Contents, content)
      BY <3>1, <3>2, ContentsEnqueue
    <3>4. Ordered(Append(Contents, content), << >>, rx, unsent, Len(lens))
      BY OrderedKeep
    <3> QED BY <1>9, <2>2, <3>3, <3>4 DEF enqueue_frame
  <2> QED BY <1>9, <2>1, <2>2 DEF enqueue_frame, Enqueued, FreeBuffer
<1>10. CASE Error
  <2>1. Ordered(Contents, << >>, rx, unsent, Len(lens))
    BY OrderedDrop
  <2> QED BY <1>1, <1>10, <2>1 DEF Error, FreeBuffer
<1>11. CASE Return
  <2>1. CASE dequeue_frame
    <3>1. Contents' = Contents
      BY <2>1, ContentsDequeue
    <3> QED BY <1>11, <3>1 DEF Return
  <2>2. CASE UNCHANGED <<held, delivered, heap, frames_head>>
    BY <1>1, <1>11, <2>2 DEF Return
  <2> QED BY <1>11, <2>1, <2>2 DEF Return
<1>12. CASE UNCHANGED vars
  BY <1>1, <1>12 DEF vars
<1> QED BY <1>2, <1>3, <1>4, <1>5, <1>6, <1>7, <1>8, <1>9, <1>10, <1>11, <1>12
        DEF Next, Sender, Receiver

\* The model's own statement of it.
LEMMA InOrderHolds == TypeInv /\ OrderInv => InOrder
<1> SUFFICES ASSUME TypeInv, OrderInv PROVE InOrder
  OBVIOUS
<1> DEFINE n == Len(Contents)
           all == Append(Contents, content)
<1>1. content \in Seq(RawByte) /\ Contents \in Seq(Seq(RawByte))
  BY DEF OrderInv, Ordered, Sent
<1>2. /\ all \in Seq(Seq(RawByte)) /\ Len(all) = n + 1 /\ n \in Nat
      /\ all[n + 1] = content /\ \A k \in 1..n : all[k] = Contents[k]
      /\ \A k \in 1..(n + 1) : k = n + 1 \/ k \in 1..n
  BY <1>1, AppendIs
<1>3. Ordered(all, << >>, rx, unsent, Len(lens))
  BY OrderedKeep DEF OrderInv
<1> HIDE DEF all
<1>4. DOMAIN all = 1..Len(all) /\ \A k \in DOMAIN all : DOMAIN all[k] = 1..Len(all[k])
  <2>1. DOMAIN all = 1..Len(all)
    BY <1>2, LenProperties
  <2>2. \A k \in 1..Len(all) : all[k] \in Seq(RawByte)
    BY <1>2, ElementOfSeq
  <2> QED BY <2>1, <2>2, LenProperties
<1>5. ASSUME NEW k \in DOMAIN all, NEW l \in DOMAIN all,
             NEW i \in DOMAIN all[k], NEW j \in DOMAIN all[l],
             k < l \/ (k = l /\ i < j)
      PROVE  Before(all[k][i], all[l][j])
  BY <1>3, <1>4, <1>5 DEF Ordered, Precedes, Ascends
<1> QED BY <1>5 DEF InOrder, all

-----------------------------------------------------------------------------
(* Frames as they were sent. *)

\* The bytes that the receiver has not read yet, arrived or not.
Stream == rx \o unsent

After(b) == [frame |-> b.frame, place |-> b.place + 1]

\* Of a frame that lost no byte, each byte follows the one before it, up to the
\* zero byte at its end.
Joined(s, L, D) ==
    \A i \in 1..Len(s) :
        /\ i > 1 /\ s[i].frame \notin D => s[i].place = 0 \/ s[i] = After(s[i - 1])
        /\ s[i].frame \notin D /\ s[i].place <= L[s[i].frame]
              => i + 1 \in 1..Len(s) /\ s[i + 1] = After(s[i])

\* The next byte is a zero byte or the first of a frame, if that lost none.
Starts(s, L, D) ==
    s # << >> /\ s[1].frame \notin D /\ s[1].place <= L[s[1].frame] => s[1].place <= 1

\* The buffer holds the first bytes of a frame whose next byte is the next to
\* be read, or, when its end was found, all of them.
FirstOf(c, f) == \A k \in 1..Len(c) : c[k] = [frame |-> f, place |-> k]
Ended(p) == p \in {"finish"} \cup Finishing
PrefixOf(c, s, L, p, f) ==
    /\ FirstOf(c, f)
    /\ Ended(p) => Len(c) = L[f]
    /\ ~Ended(p) => /\ Len(c) <= L[f] /\ s # << >>
                    /\ s[1] = [frame |-> f, place |-> Len(c) + 1]
Prefix(c, s, L, B, p) ==
    c # << >> /\ Frames(c) \cap B = {} =>
        \E f \in 1..Len(L) : PrefixOf(c, s, L, p, f)

\* FramesAsSent, of the frames C.
EncodingOf(L, f) == [k \in 1..L[f] |-> [frame |-> f, place |-> k]]
Intact(C, L, B) ==
    \A k \in 1..Len(C) : Frames(C[k]) \cap B = {} =>
        \E f \in 1..Len(L) : C[k] = EncodingOf(L, f)

JoinInv == Joined(Stream, lens, damaged)
UnsentInv == \A k \in 1..Len(unsent) : unsent[k].frame = Len(lens)
StartInv == buffer # Null /\ content = << >> => Starts(Stream, lens, damaged)
PrefixInv == Prefix(content, Stream, lens, damaged \cup starved, pc)
IntactInv == Intact(Contents, lens, damaged \cup starved)

WholeInv == JoinInv /\ UnsentInv /\ StartInv /\ PrefixInv /\ IntactInv

\* The parts of the stream.
LEMMA ConcatIs ==
    ASSUME NEW r \in Seq(RawByte), NEW u \in Seq(RawByte)
    PROVE  /\ r \o u \in Seq(RawByte) /\ Len(r \o u) = Len(r) + Len(u)
           /\ Len(r) \in Nat /\ Len(u) \in Nat
           /\ \A i \in 1..Len(r) : (r \o u)[i] = r[i]
           /\ \A i \in 1..Len(u) : (r \o u)[Len(r) + i] = u[i]
<1> DEFINE m == Len(r)
           n == Len(u)
<1>1. m \in Nat /\ n \in Nat
  BY LenProperties
<1>2. /\ r \o u \in Seq(RawByte) /\ Len(r \o u) = m + n
      /\ \A i \in 1..(m + n) : (r \o u)[i] = IF i <= m THEN r[i] ELSE u[i - m]
  BY ConcatProperties
<1>3. /\ \A i \in 1..m : i \in 1..(m + n) /\ i <= m
      /\ \A i \in 1..n : m + i \in 1..(m + n) /\ ~(m + i <= m) /\ (m + i) - m = i
  BY <1>1, SMT
<1> HIDE DEF m, n
<1> QED BY <1>1, <1>2, <1>3 DEF m, n

\* The stream, byte by byte.
LEMMA StreamIs ==
    ASSUME TypeInv
    PROVE  /\ rx \in Seq(RawByte) /\ unsent \in Seq(RawByte)
           /\ Stream \in Seq(RawByte) /\ Len(Stream) = Len(rx) + Len(unsent)
           /\ Len(rx) \in Nat /\ Len(unsent) \in Nat
           /\ \A i \in 1..Len(rx) : Stream[i] = rx[i]
           /\ \A i \in 1..Len(unsent) : Stream[Len(rx) + i] = unsent[i]
           /\ \A i \in 1..Len(Stream) : Stream[i] \in RawByte /\ Stream[i].frame \in 1..Len(lens)
<1>1. rx \in Seq(RawByte) /\ unsent \in Seq(RawByte)
  BY DEF TypeInv, DataInv, Sent
<1>2. /\ Stream \in Seq(RawByte) /\ Len(Stream) = Len(rx) + Len(unsent)
      /\ Len(rx) \in Nat /\ Len(unsent) \in Nat
      /\ \A i \in 1..Len(rx) : Stream[i] = rx[i]
      /\ \A i \in 1..Len(unsent) : Stream[Len(rx) + i] = unsent[i]
  BY <1>1, ConcatIs DEF Stream
<1>3. \A i \in 1..Len(Stream) :
          i \in 1..Len(rx) \/ (i - Len(rx) \in 1..Len(unsent) /\ Len(rx) + (i - Len(rx)) = i)
  <2>1. \A a, b \in Nat : \A i \in 1..(a + b) : i \in 1..a \/ (i - a \in 1..b /\ a + (i - a) = i)
    BY SMT
  <2> QED BY <1>2, <2>1
<1>4. ASSUME NEW i \in 1..Len(Stream)
      PROVE  Stream[i] \in RawByte /\ Stream[i].frame \in 1..Len(lens)
  <2>1. Stream[i] \in RawByte
    BY <1>2, ElementOfSeq
  <2>2. Stream[i].frame \in 1..Len(lens)
    <3>1. CASE i \in 1..Len(rx)
      BY <1>2, <3>1 DEF TypeInv, DataInv, Sent
    <3>2. CASE i - Len(rx) \in 1..Len(unsent) /\ Len(rx) + (i - Len(rx)) = i
      <4>1. Stream[i] = unsent[i - Len(rx)]
        BY <1>2, <3>2
      <4> QED BY <3>2, <4>1 DEF TypeInv, DataInv, Sent
    <3> QED BY <1>3, <3>1, <3>2
  <2> QED BY <2>1, <2>2
<1> QED BY <1>1, <1>2, <1>4

\* The receiver reads a byte.
LEMMA StreamRead ==
    ASSUME TypeInv, rx # << >>, rx' = Tail(rx), unsent' = unsent
    PROVE  Stream # << >> /\ Stream' = Tail(Stream) /\ Stream[1] = Head(rx)
<1>1. /\ rx \in Seq(RawByte) /\ unsent \in Seq(RawByte) /\ Stream \in Seq(RawByte)
      /\ Len(Stream) = Len(rx) + Len(unsent) /\ Len(rx) \in Nat /\ Len(unsent) \in Nat
      /\ \A i \in 1..Len(rx) : Stream[i] = rx[i]
      /\ \A i \in 1..Len(unsent) : Stream[Len(rx) + i] = unsent[i]
  BY StreamIs
<1> DEFINE m == Len(rx)
           n == Len(unsent)
           t == Tail(rx)
           s == t \o unsent
           w == Tail(Stream)
<1>2. /\ t \in Seq(RawByte) /\ Len(t) = m - 1 /\ Head(rx) = rx[1] /\ m > 0 /\ 1 \in 1..m
      /\ \A i \in 1..Len(t) : t[i] = rx[i + 1] /\ i + 1 \in 1..m
  BY <1>1, TailIs
<1>3. Stream[1] = Head(rx) /\ Stream # << >>
  <2>1. Len(Stream) > 0 /\ Len(<< >>) = 0
    BY <1>1, <1>2, SMT
  <2>2. Stream # << >>
    BY <2>1, SMT
  <2> QED BY <1>1, <1>2, <2>2
<1>4. /\ w \in Seq(RawByte) /\ Len(w) = (m + n) - 1
      /\ \A i \in 1..Len(w) : w[i] = Stream[i + 1]
  BY <1>1, <1>3, TailIs
<1> HIDE DEF t, w
<1>5. /\ s \in Seq(RawByte) /\ Len(s) = (m - 1) + n
      /\ \A i \in 1..(m - 1) : s[i] = t[i]
      /\ \A i \in 1..n : s[(m - 1) + i] = unsent[i]
  <2>1. /\ s \in Seq(RawByte) /\ Len(s) = Len(t) + n
        /\ \A i \in 1..Len(t) : s[i] = t[i]
        /\ \A i \in 1..n : s[Len(t) + i] = unsent[i]
    BY <1>1, <1>2, ConcatIs
  <2> HIDE DEF s
  <2> QED BY <1>2, <2>1
<1> HIDE DEF s
<1>6. /\ (m - 1) + n = (m + n) - 1
      /\ \A i \in 1..((m - 1) + n) :
            \/ i \in 1..(m - 1) /\ i + 1 \in 1..m
            \/ i - (m - 1) \in 1..n /\ (m - 1) + (i - (m - 1)) = i /\ m + (i - (m - 1)) = i + 1
  BY <1>1, <1>2, SMT
<1>7. \A i \in 1..Len(s) : s[i] = w[i]
  <2> SUFFICES ASSUME NEW i \in 1..((m - 1) + n) PROVE s[i] = Stream[i + 1]
    BY <1>4, <1>5, <1>6
  <2>1. CASE i \in 1..(m - 1) /\ i + 1 \in 1..m
    BY <1>1, <1>2, <1>5, <2>1
  <2>2. CASE i - (m - 1) \in 1..n /\ (m - 1) + (i - (m - 1)) = i /\ m + (i - (m - 1)) = i + 1
    <3>1. s[i] = unsent[i - (m - 1)]
      BY <1>5, <2>2
    <3>2. Stream[i + 1] = unsent[i - (m - 1)]
      BY <1>1, <2>2
    <3> QED BY <3>1, <3>2
  <2> QED BY <1>6, <2>1, <2>2
<1>8. s = w
  BY <1>4, <1>5, <1>6, <1>7, SeqEqual
<1> QED BY <1>3, <1>8 DEF Stream, s, t, w

\* A byte arrives: it was the first of those to be written.
LEMMA StreamArrive ==
    ASSUME TypeInv, unsent # << >>, rx' = Append(rx, Head(unsent)), unsent' = Tail(unsent)
    PROVE  Stream' = Stream
<1> DEFINE b == Head(unsent)
           t == Tail(unsent)
<1>1. rx \in Seq(RawByte) /\ b \in RawByte /\ t \in Seq(RawByte)
  BY TailIs DEF TypeInv, DataInv, Sent
<1>2. unsent = <<b>> \o t
  <2>1. unsent \in Seq(RawByte) /\ unsent # << >>
    BY DEF TypeInv, DataInv, Sent
  <2>2. b = unsent[1] /\ Len(t) = Len(unsent) - 1 /\ Len(unsent) \in Nat
        /\ \A i \in 1..Len(t) : t[i] = unsent[i + 1]
    BY <2>1, TailIs
  <2> DEFINE o == <<b>>
             u == o \o t
  <2>3. o \in Seq(RawByte) /\ Len(o) = 1 /\ o[1] = b
    BY <1>1, SMT
  <2> HIDE DEF o, t, b
  <2>4. /\ u \in Seq(RawByte) /\ Len(u) = 1 + Len(t) /\ Len(t) \in Nat
        /\ \A i \in 1..1 : u[i] = o[i]
        /\ \A i \in 1..Len(t) : u[1 + i] = t[i]
    <3>1. /\ u \in Seq(RawByte) /\ Len(u) = Len(o) + Len(t) /\ Len(t) \in Nat
          /\ \A i \in 1..Len(o) : u[i] = o[i]
          /\ \A i \in 1..Len(t) : u[Len(o) + i] = t[i]
      BY <1>1, <2>3, ConcatIs
    <3> HIDE DEF u
    <3> QED BY <2>3, <3>1
  <2> HIDE DEF u
  <2>5. /\ 1 + Len(t) = Len(unsent) /\ 1 \in 1..1
        /\ \A i \in 1..Len(unsent) :
              i = 1 \/ (i - 1 \in 1..Len(t) /\ 1 + (i - 1) = i /\ (i - 1) + 1 = i)
    BY <2>2, <2>4, SMT
  <2>6. ASSUME NEW i \in 1..Len(unsent)
        PROVE  unsent[i] = u[i]
    <3>1. CASE i = 1
      <4>1. u[1] = o[1]
        BY <2>4, <2>5
      <4> QED BY <2>2, <2>3, <3>1, <4>1
    <3>2. CASE i # 1
      <4> PICK k : k = i - 1
        OBVIOUS
      <4>1. k \in 1..Len(t) /\ 1 + k = i /\ k + 1 = i
        BY <2>5, <3>2
      <4>2. unsent[i] = t[k] /\ u[i] = t[k]
        <5>1. unsent[k + 1] = t[k]
          BY <2>2, <4>1
        <5>2. u[1 + k] = t[k]
          BY <2>4, <4>1
        <5> QED BY <4>1, <5>1, <5>2
      <4> QED BY <4>2
    <3> QED BY <3>1, <3>2
  <2>7. unsent = u
    BY <2>1, <2>4, <2>5, <2>6, SeqEqual
  <2> QED BY <2>7 DEF u, o, t, b
<1> HIDE DEF b, t
<1>3. rx \o (<<b>> \o t) = Append(rx, b) \o t
  <2> DEFINE one == <<b>>
  <2>1. one \in Seq(RawByte)
    BY <1>1, SMT
  <2>2. Append(rx, b) = rx \o one
    BY <1>1, AppendIsConcat
  <2> HIDE DEF one
  <2>3. (rx \o one) \o t = rx \o (one \o t)
    BY <1>1, <2>1, ConcatAssociative
  <2> QED BY <2>2, <2>3 DEF one
<1>4. Stream' = Append(rx, b) \o t
  BY DEF Stream, b, t
<1>5. Stream = rx \o (<<b>> \o t)
  BY <1>2 DEF Stream
<1> QED BY <1>3, <1>4, <1>5

\* The first byte of the rest, and the rest, still follow each other.
LEMMA JoinedTail ==
    ASSUME NEW s \in Seq(RawByte), NEW L, NEW D, s # << >>, Joined(s, L, D)
    PROVE  Joined(Tail(s), L, D)
<1> DEFINE t == Tail(s)
<1>1. /\ t \in Seq(RawByte) /\ Len(t) = Len(s) - 1 /\ Len(s) \in Nat
      /\ \A k \in 1..Len(t) : t[k] = s[k + 1] /\ k + 1 \in 1..Len(s)
  BY TailIs
<1> HIDE DEF t
<1>2. /\ \A i \in 1..Len(t) : i > 1 => i - 1 \in 1..Len(t) /\ (i - 1) + 1 = i /\ (i + 1) - 1 = i
      /\ \A i \in 1..Len(t) : i + 1 > 1
      /\ \A i \in 1..Len(t) : (i + 1) + 1 \in 1..Len(s) => i + 1 \in 1..Len(t)
  BY <1>1, SMT
<1>3. ASSUME NEW i \in 1..Len(t), i > 1, t[i].frame \notin D
      PROVE  t[i].place = 0 \/ t[i] = After(t[i - 1])
  <2>1. t[i] = s[i + 1] /\ t[i - 1] = s[(i + 1) - 1] /\ i + 1 \in 1..Len(s) /\ i + 1 > 1
    BY <1>1, <1>2, <1>3
  <2> QED BY <1>3, <2>1 DEF Joined
<1>4. ASSUME NEW i \in 1..Len(t), t[i].frame \notin D, t[i].place <= L[t[i].frame]
      PROVE  i + 1 \in 1..Len(t) /\ t[i + 1] = After(t[i])
  <2>1. t[i] = s[i + 1] /\ i + 1 \in 1..Len(s)
    BY <1>1
  <2>2. (i + 1) + 1 \in 1..Len(s) /\ s[(i + 1) + 1] = After(s[i + 1])
    BY <1>4, <2>1 DEF Joined
  <2> QED BY <1>1, <1>2, <2>1, <2>2
<1>5. Joined(t, L, D)
  BY <1>3, <1>4 DEF Joined
<1> QED BY <1>5 DEF t

\* After a zero byte comes another one, or the first byte of a frame.
LEMMA StartsAfterZero ==
    ASSUME NEW s \in Seq(RawByte), NEW L, NEW D, s # << >>, Joined(s, L, D),
           \A i \in 1..Len(s) : L[s[i].frame] \in Nat,
           s[1].place = 0 \/ s[1].place > L[s[1].frame]
    PROVE  Starts(Tail(s), L, D)
<1> DEFINE t == Tail(s)
<1> SUFFICES ASSUME t # << >>, t[1].frame \notin D, t[1].place <= L[t[1].frame]
             PROVE  t[1].place <= 1
  BY DEF Starts
<1>1. /\ t \in Seq(RawByte) /\ Len(s) \in Nat /\ 1 \in 1..Len(s)
      /\ \A k \in 1..Len(t) : t[k] = s[k + 1] /\ k + 1 \in 1..Len(s)
  BY TailIs
<1>2. 1 \in 1..Len(t)
  BY <1>1, TailIs
<1> HIDE DEF t
<1>3. t[1] = s[2] /\ 2 \in 1..Len(s) /\ s[2 - 1] = s[1]
  <2>1. 1 + 1 = 2 /\ 2 - 1 = 1
    BY SMT
  <2> QED BY <1>1, <1>2, <2>1
<1>4. s[2].place = 0 \/ s[2] = After(s[1])
  <2>1. 2 > 1
    BY SMT
  <2> QED BY <1>3, <2>1 DEF Joined
<1>5. s[1] \in RawByte /\ s[1].place \in Nat /\ L[s[1].frame] \in Nat
  <2>1. s[1] \in RawByte
    BY <1>1, ElementOfSeq
  <2> QED BY <1>1, <2>1 DEF RawByte
<1>6. CASE s[2] = After(s[1])
  <2>1. s[2].place = s[1].place + 1 /\ s[2].frame = s[1].frame
    BY <1>6 DEF After
  <2>2. s[1].place + 1 <= L[s[1].frame]
    BY <1>3, <2>1
  <2>3. s[1].place = 0
    BY <1>5, <2>2, SMT
  <2>4. t[1].place = 1
    BY <1>3, <2>1, <2>3, SMT
  <2> QED BY <2>4, SMT
<1>7. CASE s[2].place = 0
  BY <1>3, <1>7, SMT
<1> QED BY <1>4, <1>6, <1>7

\* A byte is lost: its frame is no longer one that lost none, and the bytes of
\* no other frame are after it.
LEMMA JoinedLose ==
    ASSUME NEW s \in Seq(RawByte), NEW t \in Seq(RawByte), NEW L, NEW D, NEW f, NEW p \in 1..Len(s),
           Joined(s, L, D), \A i \in p..Len(s) : s[i].frame = f,
           Len(t) = Len(s) - 1,
           \A i \in 1..Len(t) : (i < p => t[i] = s[i]) /\ (~(i < p) => t[i] = s[i + 1])
    PROVE  Joined(t, L, D \cup {f})
<1>1. Len(s) \in Nat /\ p \in Nat /\ p <= Len(s)
  BY SMT
<1>2. ASSUME NEW i \in 1..Len(t), t[i].frame # f
      PROVE  i < p /\ i \in 1..Len(s) /\ t[i] = s[i] /\ (i > 1 => i - 1 \in 1..Len(t) /\ t[i - 1] = s[i - 1])
  <2>1. ~(i < p) => i + 1 \in p..Len(s)
    BY <1>1, SMT
  <2>2. i < p
    <3>1. ~(i < p) => t[i] = s[i + 1]
      OBVIOUS
    <3> QED BY <1>2, <2>1, <3>1
  <2>3. i \in 1..Len(s) /\ (i > 1 => i - 1 \in 1..Len(t) /\ i - 1 < p)
    BY <1>1, <2>2, SMT
  <2> QED BY <2>2, <2>3
<1>3. ASSUME NEW i \in 1..Len(t), i > 1, t[i].frame \notin D \cup {f}
      PROVE  t[i].place = 0 \/ t[i] = After(t[i - 1])
  <2>1. i \in 1..Len(s) /\ t[i] = s[i] /\ t[i - 1] = s[i - 1]
    BY <1>2, <1>3
  <2> QED BY <1>3, <2>1 DEF Joined
<1>4. ASSUME NEW i \in 1..Len(t), t[i].frame \notin D \cup {f}, t[i].place <= L[t[i].frame]
      PROVE  i + 1 \in 1..Len(t) /\ t[i + 1] = After(t[i])
  <2>1. i < p /\ i \in 1..Len(s) /\ t[i] = s[i]
    BY <1>2, <1>4
  <2>2. i + 1 \in 1..Len(s) /\ s[i + 1] = After(s[i])
    BY <1>4, <2>1 DEF Joined
  <2>3. s[i + 1].frame # f
    BY <1>4, <2>1, <2>2 DEF After
  <2>4. i + 1 < p
    <3>1. ~(i + 1 < p) => i + 1 \in p..Len(s)
      BY <1>1, <2>2, SMT
    <3> QED BY <2>3, <3>1
  <2>5. i + 1 \in 1..Len(t)
    BY <1>1, <2>1, <2>4, SMT
  <2> QED BY <2>1, <2>2, <2>4, <2>5
<1> QED BY <1>3, <1>4 DEF Joined

\* The bytes of one more frame, behind a stream whose last byte is the last of
\* its frame.
LEMMA JoinedSend ==
    ASSUME NEW r \in Seq(RawByte), NEW u \in Seq(RawByte), NEW L, NEW M, NEW D,
           NEW n \in Nat, NEW len \in Nat, Joined(r, L, D),
           \A i \in 1..Len(r) : r[i].frame \in 1..n,
           \A f \in 1..n : M[f] = L[f], M[n + 1] = len,
           Len(u) = len + 2, \A k \in 1..(len + 2) : u[k] = [frame |-> n + 1, place |-> k - 1]
    PROVE  Joined(r \o u, M, D)
<1> DEFINE s == r \o u
           m == Len(r)
<1>1. /\ s \in Seq(RawByte) /\ Len(s) = m + (len + 2) /\ m \in Nat
      /\ \A i \in 1..m : s[i] = r[i]
      /\ \A i \in 1..(len + 2) : s[m + i] = u[i]
  <2>1. /\ s \in Seq(RawByte) /\ Len(s) = m + Len(u) /\ m \in Nat
        /\ \A i \in 1..m : s[i] = r[i]
        /\ \A i \in 1..Len(u) : s[m + i] = u[i]
    BY ConcatIs
  <2> HIDE DEF s
  <2> QED BY <2>1
<1> HIDE DEF s, m
<1>2. \A i \in 1..(m + (len + 2)) : i \in 1..m \/ (i - m \in 1..(len + 2) /\ m + (i - m) = i)
  <2>1. \A a, b \in Nat : \A i \in 1..(a + b) : i \in 1..a \/ (i - a \in 1..b /\ a + (i - a) = i)
    BY SMT
  <2>2. len + 2 \in Nat
    BY SMT
  <2> QED BY <1>1, <2>1, <2>2
<1>3. ASSUME NEW i \in 1..m
      PROVE  /\ i > 1 /\ s[i].frame \notin D => s[i].place = 0 \/ s[i] = After(s[i - 1])
             /\ s[i].frame \notin D /\ s[i].place <= M[s[i].frame]
                   => i + 1 \in 1..Len(s) /\ s[i + 1] = After(s[i])
  <2>1. i > 1 => i - 1 \in 1..m
    BY <1>1, SMT
  <2>2. \A j \in 1..m : j \in 1..Len(s)
    BY <1>1, SMT
  <2>3. M[r[i].frame] = L[r[i].frame]
    BY DEF m
  <2> QED BY <1>1, <2>1, <2>2, <2>3 DEF Joined, m
<1>4. ASSUME NEW i, i - m \in 1..(len + 2), m + (i - m) = i
      PROVE  /\ i > 1 /\ s[i].frame \notin D => s[i].place = 0 \/ s[i] = After(s[i - 1])
             /\ s[i].frame \notin D /\ s[i].place <= M[s[i].frame]
                   => i + 1 \in 1..Len(s) /\ s[i + 1] = After(s[i])
  <2> DEFINE k == i - m
  <2>1. s[i] = [frame |-> n + 1, place |-> k - 1]
    <3>1. s[i] = u[k]
      BY <1>1, <1>4
    <3> QED BY <1>4, <3>1
  <2>2. i = m + k /\ k \in 1..(len + 2)
    BY <1>4
  <2> HIDE DEF k
  <2>3. s[i].frame = n + 1 /\ s[i].place = k - 1
    BY <2>1
  <2>4. CASE k = 1
    <3>1. s[i].place = 0
      BY <2>3, <2>4, SMT
    <3>2. i + 1 = m + 2 /\ i + 1 \in 1..Len(s) /\ 2 \in 1..(len + 2)
      BY <1>1, <2>2, <2>4, SMT
    <3>3. s[i + 1] = [frame |-> n + 1, place |-> 2 - 1]
      BY <1>1, <3>2
    <3>4. 2 - 1 = s[i].place + 1
      BY <3>1, SMT
    <3>5. s[i + 1] = After(s[i])
      BY <2>3, <3>3, <3>4 DEF After
    <3> QED BY <3>1, <3>2, <3>5
  <2>5. CASE k # 1
    <3>1. k - 1 \in 1..(len + 2) /\ i - 1 = m + (k - 1) /\ (k - 1) - 1 + 1 = k - 1
      BY <1>1, <2>2, <2>5, SMT
    <3>2. s[i - 1] = [frame |-> n + 1, place |-> (k - 1) - 1]
      BY <1>1, <3>1
    <3>3. s[i] = After(s[i - 1])
      <4>1. s[i - 1].frame = n + 1 /\ s[i - 1].place = (k - 1) - 1
        BY <3>2
      <4> QED BY <2>1, <3>1, <4>1 DEF After
    <3>4. ASSUME k - 1 <= len
          PROVE  i + 1 \in 1..Len(s) /\ s[i + 1] = After(s[i])
      <4>1. k + 1 \in 1..(len + 2) /\ i + 1 = m + (k + 1) /\ i + 1 \in 1..Len(s) /\ (k + 1) - 1 = (k - 1) + 1
        BY <1>1, <2>2, <3>4, SMT
      <4>2. s[i + 1] = [frame |-> n + 1, place |-> (k + 1) - 1]
        BY <1>1, <4>1
      <4> QED BY <2>3, <4>1, <4>2 DEF After
    <3>5. M[s[i].frame] = len
      BY <2>3
    <3> QED BY <2>3, <3>3, <3>4, <3>5
  <2> QED BY <2>4, <2>5
<1>5. Joined(s, M, D)
  BY <1>1, <1>2, <1>3, <1>4 DEF Joined
<1> QED BY <1>5 DEF s

\* A byte read for the buffer has a frame.
LEMMA SomeFrame ==
    ASSUME NEW c \in Seq(RawByte), c # << >>
    PROVE  Frames(c) # {}
<1>1. 1 \in 1..Len(c) /\ DOMAIN c = 1..Len(c)
  BY TailIs, LenProperties
<1> QED BY <1>1 DEF Frames

\* All the bytes of a frame, each in its place, are its encoding.
LEMMA AllOfIt ==
    ASSUME NEW c \in Seq(RawByte), NEW L, NEW f, FirstOf(c, f), Len(c) = L[f]
    PROVE  c = EncodingOf(L, f)
<1>1. c \in [1..Len(c) -> RawByte]
  BY LenProperties
<1>2. c = [k \in 1..Len(c) |-> c[k]]
  BY <1>1
<1>3. [k \in 1..Len(c) |-> c[k]] = [k \in 1..Len(c) |-> [frame |-> f, place |-> k]]
  BY DEF FirstOf
<1> QED BY <1>2, <1>3 DEF EncodingOf

\* More damage and more frames sent leave the received ones as they were sent.
LEMMA IntactMore ==
    ASSUME NEW C, NEW L, NEW M, NEW B, NEW D, Intact(C, L, B), B \subseteq D,
           \A f \in 1..Len(L) : f \in 1..Len(M) /\ M[f] = L[f]
    PROVE  Intact(C, M, D)
<1> SUFFICES ASSUME NEW k \in 1..Len(C), Frames(C[k]) \cap D = {}
             PROVE  \E f \in 1..Len(M) : C[k] = EncodingOf(M, f)
  BY DEF Intact
<1>1. Frames(C[k]) \cap B = {}
  OBVIOUS
<1>2. PICK f \in 1..Len(L) : C[k] = EncodingOf(L, f)
  BY <1>1 DEF Intact
<1>3. EncodingOf(M, f) = EncodingOf(L, f)
  BY DEF EncodingOf
<1> QED BY <1>2, <1>3

\* A frame more is received.
LEMMA IntactKeep ==
    ASSUME NEW C \in Seq(Seq(RawByte)), NEW c \in Seq(RawByte), NEW L, NEW B, Intact(C, L, B),
           Frames(c) \cap B = {} => \E f \in 1..Len(L) : c = EncodingOf(L, f)
    PROVE  Intact(Append(C, c), L, B)
<1> DEFINE D == Append(C, c)
<1>1. /\ Len(D) = Len(C) + 1 /\ D[Len(C) + 1] = c
      /\ \A k \in 1..Len(C) : D[k] = C[k]
      /\ \A k \in 1..(Len(C) + 1) : k = Len(C) + 1 \/ k \in 1..Len(C)
  BY AppendIs
<1> HIDE DEF D
<1>2. Intact(D, L, B)
  BY <1>1 DEF Intact
<1> QED BY <1>2 DEF D

\* Nothing was received at first.
LEMMA InitWhole == Init => WholeInv
<1> SUFFICES ASSUME Init PROVE WholeInv
  OBVIOUS
<1> USE DEF Init
<1>1. 1..Len(<< >>) = {}
  BY SMT
<1>2. TypeInv
  BY InitType
<1>3. 1..Len(Stream) = {}
  <2>1. Len(Stream) = Len(<< >>) + Len(<< >>)
    BY <1>2, StreamIs
  <2> QED BY <2>1, SMT
<1>4. 1..Len(Contents) = {}
  <2>1. Len(Contents) = Len(<< >>) + Len(<< >>)
    BY <1>2, ContentsIs
  <2> QED BY <2>1, SMT
<1>5. JoinInv
  BY <1>3 DEF JoinInv, Joined
<1>6. UnsentInv
  BY <1>1 DEF UnsentInv
<1>7. StartInv /\ PrefixInv
  BY DEF StartInv, PrefixInv, Prefix
<1>8. IntactInv
  BY <1>4 DEF IntactInv, Intact
<1> QED BY <1>5, <1>6, <1>7, <1>8 DEF WholeInv

\* A step that moves no byte, and neither ends nor reopens a frame for which
\* there was memory.
LEMMA WholeSame ==
    ASSUME WholeInv, UNCHANGED <<lens, damaged, rx, unsent, content>>, Contents' = Contents,
           starved \subseteq starved',
           buffer' # Null /\ content = << >> => buffer # Null,
           content # << >> /\ Frames(content) \cap starved' = {} => (Ended(pc') <=> Ended(pc))
    PROVE  WholeInv'
<1> USE DEF WholeInv
<1>1. Stream' = Stream
  BY DEF Stream
<1>2. JoinInv' /\ UnsentInv' /\ StartInv'
  BY <1>1 DEF JoinInv, UnsentInv, StartInv
<1>3. PrefixInv'
  <2> SUFFICES ASSUME content # << >>, Frames(content) \cap (damaged \cup starved') = {}
               PROVE  \E f \in 1..Len(lens) : PrefixOf(content, Stream, lens, pc', f)
    BY <1>1 DEF PrefixInv, Prefix
  <2>1. Frames(content) \cap (damaged \cup starved) = {} /\ Frames(content) \cap starved' = {}
    OBVIOUS
  <2>2. PICK f \in 1..Len(lens) : PrefixOf(content, Stream, lens, pc, f)
    BY <2>1 DEF PrefixInv, Prefix
  <2>3. Ended(pc') <=> Ended(pc)
    BY <2>1
  <2>4. PrefixOf(content, Stream, lens, pc', f)
    BY <2>2, <2>3 DEF PrefixOf
  <2> QED BY <2>4
<1>4. IntactInv'
  BY IntactMore DEF IntactInv
<1> QED BY <1>2, <1>3, <1>4

\* The buffer is given up; what was in it is received or dropped.
LEMMA WholeDrop ==
    ASSUME WholeInv, UNCHANGED <<lens, damaged, rx, unsent, starved>>, content' = << >>,
           buffer' = Null, IntactInv'
    PROVE  WholeInv'
<1> USE DEF WholeInv
<1>1. Stream' = Stream
  BY DEF Stream
<1>2. JoinInv' /\ UnsentInv' /\ StartInv'
  BY <1>1 DEF JoinInv, UnsentInv, StartInv
<1>3. PrefixInv'
  BY DEF PrefixInv, Prefix
<1> QED BY <1>2, <1>3

\* The bytes of one more frame are to be written.
LEMMA WholeSend ==
    ASSUME TypeInv, TypeInv', WholeInv, NEW len \in EncodedLens, link_send_frame(len)
    PROVE  WholeInv'
<1> USE DEF link_send_frame, partial, caller
<1> DEFINE n == Len(lens)
<1>1. /\ Len(lens') = n + 1 /\ n \in Nat /\ lens'[n + 1] = len
      /\ \A f \in 1..n : lens'[f] = lens[f]
  BY AppendIs DEF TypeInv, DataInv
<1>2. len \in Nat
  BY LinkAssumption
<1>3. \A f \in 1..n : f \in 1..(n + 1)
  BY <1>1, SMT
<1>4. rx \in Seq(RawByte) /\ \A i \in 1..Len(rx) : rx[i].frame \in 1..n
  BY DEF TypeInv, DataInv, Sent
<1>5. /\ unsent' \in Seq(RawByte) /\ Len(unsent') = len + 2
      /\ \A k \in 1..(len + 2) : unsent'[k] = [frame |-> n + 1, place |-> k - 1]
  <2>1. unsent' \in Seq(RawByte)
    BY DEF TypeInv, DataInv, Sent
  <2>2. DOMAIN unsent' = 1..(len + 2)
    OBVIOUS
  <2>3. Len(unsent') \in Nat /\ DOMAIN unsent' = 1..Len(unsent')
    BY <2>1, LenProperties
  <2>4. \A a, b \in Nat : 1..a = 1..b => a = b
    BY SMT
  <2>5. len + 2 \in Nat
    BY <1>2, SMT
  <2> QED BY <2>1, <2>2, <2>3, <2>4, <2>5
<1>6. Stream = rx
  <2>1. Stream = rx \o << >>
    BY DEF Stream
  <2> QED BY <1>4, <2>1, ConcatEmptySeq
<1>7. Stream' = rx \o unsent'
  BY DEF Stream
<1>8. JoinInv'
  <2>1. Joined(rx, lens, damaged)
    BY <1>6 DEF WholeInv, JoinInv
  <2>2. Joined(rx \o unsent', lens', damaged)
    <3> DEFINE u == unsent'
               M == lens'
    <3>1. /\ u \in Seq(RawByte) /\ Len(u) = len + 2
          /\ \A k \in 1..(len + 2) : u[k] = [frame |-> n + 1, place |-> k - 1]
          /\ M[n + 1] = len /\ \A f \in 1..n : M[f] = lens[f]
      BY <1>1, <1>5
    <3> HIDE DEF u, M, n
    <3>2. Joined(rx \o u, M, damaged)
      BY <1>1, <1>2, <1>4, <2>1, <3>1, JoinedSend
    <3> QED BY <3>2 DEF u, M
  <2> QED BY <1>7, <2>2 DEF JoinInv
<1>9. /\ Len(Stream') = Len(rx) + (len + 2) /\ Len(rx) \in Nat
      /\ \A i \in 1..Len(rx) : Stream'[i] = rx[i]
      /\ \A i \in 1..(len + 2) : Stream'[Len(rx) + i] = unsent'[i]
      /\ Stream' \in Seq(RawByte)
  <2> DEFINE u == unsent'
             t == rx \o u
  <2> HIDE DEF u
  <2>1. /\ t \in Seq(RawByte) /\ Len(t) = Len(rx) + Len(u) /\ Len(rx) \in Nat
        /\ \A i \in 1..Len(rx) : t[i] = rx[i]
        /\ \A i \in 1..Len(u) : t[Len(rx) + i] = u[i]
    BY <1>4, <1>5, ConcatIs DEF u
  <2> HIDE DEF t
  <2>2. Stream' = t /\ Len(u) = len + 2
    BY <1>5, <1>7 DEF t, u
  <2> QED BY <2>1, <2>2 DEF u
<1>10. rx # << >> => Stream'[1] = rx[1] /\ Stream' # << >> /\ rx[1].frame \in 1..n
  <2> SUFFICES ASSUME rx # << >> PROVE Stream'[1] = rx[1] /\ Stream' # << >> /\ rx[1].frame \in 1..n
    OBVIOUS
  <2>1. 1 \in 1..Len(rx) /\ Len(rx) > 0
    BY <1>4, TailIs
  <2>2. Len(Stream') > 0
    BY <1>2, <1>9, <2>1, SMT
  <2>3. Stream' # << >>
    BY <2>2, SMT
  <2> QED BY <1>4, <1>9, <2>1, <2>3
<1>11. UnsentInv'
  BY <1>1, <1>5 DEF UnsentInv
<1>12. StartInv'
  <2> SUFFICES ASSUME buffer # Null, content = << >>, Stream'[1].frame \notin damaged,
                      Stream'[1].place <= lens'[Stream'[1].frame]
               PROVE  Stream'[1].place <= 1
    BY DEF StartInv, Starts
  <2>1. CASE rx # << >>
    <3>1. lens'[rx[1].frame] = lens[rx[1].frame]
      BY <1>1, <1>10, <2>1
    <3>2. Starts(rx, lens, damaged)
      BY <1>6 DEF WholeInv, StartInv
    <3> QED BY <1>10, <2>1, <3>1, <3>2 DEF Starts
  <2>2. CASE rx = << >>
    <3>1. Len(rx) = 0 /\ 0 + 1 = 1 /\ 1 \in 1..(len + 2) /\ 1 - 1 = 0 /\ 0 <= 1
      BY <1>2, <2>2, SMT
    <3>2. Stream'[1] = [frame |-> n + 1, place |-> 1 - 1]
      BY <1>5, <1>9, <3>1
    <3> QED BY <3>1, <3>2
  <2> QED BY <2>1, <2>2
<1>13. PrefixInv'
  <2> SUFFICES ASSUME content # << >>, Frames(content) \cap (damaged \cup starved) = {}
               PROVE  \E f \in 1..Len(lens') : PrefixOf(content, Stream', lens', pc, f)
    BY DEF PrefixInv, Prefix
  <2>1. PICK f \in 1..n : PrefixOf(content, rx, lens, pc, f)
    BY <1>6 DEF WholeInv, PrefixInv, Prefix
  <2>2. f \in 1..Len(lens') /\ lens'[f] = lens[f]
    BY <1>1, <1>3
  <2>3. PrefixOf(content, Stream', lens', pc, f)
    BY <1>10, <2>1, <2>2 DEF PrefixOf
  <2> QED BY <2>2, <2>3
<1>14. IntactInv'
  <2>1. Contents' = Contents
    BY DEF Contents, Queued
  <2> QED BY <1>1, <1>3, <2>1, IntactMore DEF WholeInv, IntactInv
<1> QED BY <1>8, <1>11, <1>12, <1>13, <1>14 DEF WholeInv

\* The frame whose first bytes are in the buffer has bytes there.
LEMMA HasFirst ==
    ASSUME NEW c \in Seq(RawByte), c # << >>, NEW f, FirstOf(c, f)
    PROVE  f \in Frames(c)
<1>1. 1 \in 1..Len(c) /\ DOMAIN c = 1..Len(c)
  BY TailIs, LenProperties
<1>2. c[1].frame = f
  BY <1>1 DEF FirstOf
<1> QED BY <1>1, <1>2 DEF Frames

\* A byte is written: it arrives, or is lost and its frame is damaged.
LEMMA WholeWrite ==
    ASSUME TypeInv, TypeInv', WholeInv, Write
    PROVE  WholeInv'
<1> USE DEF Write, partial, caller
<1>1. Contents' = Contents
  BY DEF Contents, Queued
<1>2. /\ unsent \in Seq(RawByte) /\ rx \in Seq(RawByte)
      /\ Head(unsent) = unsent[1] /\ 1 \in 1..Len(unsent)
      /\ unsent' \in Seq(RawByte) /\ Len(unsent') = Len(unsent) - 1 /\ Len(unsent) \in Nat
      /\ \A k \in 1..Len(unsent') : unsent'[k] = unsent[k + 1] /\ k + 1 \in 1..Len(unsent)
  BY TailIs DEF TypeInv, DataInv, Sent
<1>3. UnsentInv'
  BY <1>2 DEF WholeInv, UnsentInv
<1>4. CASE rx' = Append(rx, Head(unsent)) /\ damaged' = damaged
  <2>1. Stream' = Stream
    BY <1>4, StreamArrive
  <2>2. JoinInv' /\ StartInv' /\ PrefixInv' /\ IntactInv'
    BY <1>1, <1>4, <2>1 DEF WholeInv, JoinInv, StartInv, PrefixInv, IntactInv
  <2> QED BY <1>3, <2>2 DEF WholeInv
<1>5. CASE rx' = rx /\ damaged' = damaged \cup {Head(unsent).frame}
  <2> DEFINE f == Len(lens)
             p == Len(rx) + 1
             s == Stream
  <2>1. damaged' = damaged \cup {f}
    BY <1>2, <1>5 DEF WholeInv, UnsentInv
  <2>2. /\ s \in Seq(RawByte) /\ Len(s) = Len(rx) + Len(unsent) /\ Len(rx) \in Nat
        /\ \A i \in 1..Len(rx) : s[i] = rx[i]
        /\ \A i \in 1..Len(unsent) : s[Len(rx) + i] = unsent[i]
    BY StreamIs
  <2> PICK t : t = rx \o unsent'
    OBVIOUS
  <2>3. Stream' = t
    BY <1>5 DEF Stream
  <2>4. /\ t \in Seq(RawByte) /\ Len(t) = Len(rx) + Len(unsent')
        /\ \A i \in 1..Len(rx) : t[i] = rx[i]
        /\ \A i \in 1..Len(unsent') : t[Len(rx) + i] = unsent'[i]
    <3> PICK u : u = unsent'
      OBVIOUS
    <3>1. u \in Seq(RawByte) /\ t = rx \o u
      BY <1>2
    <3>2. /\ t \in Seq(RawByte) /\ Len(t) = Len(rx) + Len(u)
          /\ \A i \in 1..Len(rx) : t[i] = rx[i]
          /\ \A i \in 1..Len(u) : t[Len(rx) + i] = u[i]
      BY <1>2, <3>1, ConcatIs
    <3> QED BY <3>2
  <2>5. p \in 1..Len(s) /\ Len(t) = Len(s) - 1 /\ Len(s) \in Nat
    BY <1>2, <2>2, <2>4, SMT
  <2>6. \A i \in p..Len(s) : s[i].frame = f
    <3>1. \A i \in p..Len(s) : i - Len(rx) \in 1..Len(unsent) /\ Len(rx) + (i - Len(rx)) = i
      BY <1>2, <2>2, SMT
    <3>2. \A i \in p..Len(s) : s[i] = unsent[i - Len(rx)]
      BY <2>2, <3>1
    <3> QED BY <3>1, <3>2 DEF WholeInv, UnsentInv
  <2>7. \A i \in 1..Len(t) : (i < p => t[i] = s[i]) /\ (~(i < p) => t[i] = s[i + 1])
    <3>1. \A i \in 1..Len(t) :
              \/ i < p /\ i \in 1..Len(rx)
              \/ /\ ~(i < p) /\ i - Len(rx) \in 1..Len(unsent') /\ Len(rx) + (i - Len(rx)) = i
                 /\ Len(rx) + ((i - Len(rx)) + 1) = i + 1
      BY <1>2, <2>2, <2>4, SMT
    <3> SUFFICES ASSUME NEW i \in 1..Len(t)
                 PROVE  (i < p => t[i] = s[i]) /\ (~(i < p) => t[i] = s[i + 1])
      OBVIOUS
    <3>2. CASE i < p /\ i \in 1..Len(rx)
      BY <2>2, <2>4, <3>2
    <3>3. CASE /\ ~(i < p) /\ i - Len(rx) \in 1..Len(unsent') /\ Len(rx) + (i - Len(rx)) = i
               /\ Len(rx) + ((i - Len(rx)) + 1) = i + 1
      <4>1. t[i] = unsent'[i - Len(rx)]
        BY <2>4, <3>3
      <4>2. unsent'[i - Len(rx)] = unsent[(i - Len(rx)) + 1] /\ (i - Len(rx)) + 1 \in 1..Len(unsent)
        BY <1>2, <3>3
      <4>3. s[i + 1] = unsent[(i - Len(rx)) + 1]
        BY <2>2, <3>3, <4>2
      <4> QED BY <3>3, <4>1, <4>2, <4>3
    <3> QED BY <3>1, <3>2, <3>3
  <2> HIDE DEF p, s, f
  <2>8. Joined(t, lens, damaged \cup {f})
    <3>1. Joined(s, lens, damaged)
      BY DEF WholeInv, JoinInv, s
    <3>2. s \in Seq(RawByte) /\ t \in Seq(RawByte) /\ p \in 1..Len(s) /\ Len(t) = Len(s) - 1
      BY <2>2, <2>4, <2>5
    <3>3. ASSUME NEW q \in Seq(RawByte), NEW w \in Seq(RawByte), NEW g, NEW j \in 1..Len(q),
                 Joined(q, lens, damaged), \A i \in j..Len(q) : q[i].frame = g,
                 Len(w) = Len(q) - 1,
                 \A i \in 1..Len(w) : (i < j => w[i] = q[i]) /\ (~(i < j) => w[i] = q[i + 1])
          PROVE  Joined(w, lens, damaged \cup {g})
      BY <3>3, JoinedLose
    <3> QED BY <2>6, <2>7, <3>1, <3>2, <3>3
  <2>9. t # << >> /\ t[1].frame # f => t[1] = s[1] /\ s # << >>
    <3> SUFFICES ASSUME t # << >>, t[1].frame # f PROVE t[1] = s[1] /\ s # << >>
      OBVIOUS
    <3>1. 1 \in 1..Len(t)
      BY <2>4, TailIs
    <3>2. ~(1 < p) => 1 + 1 \in p..Len(s)
      BY <2>5, <3>1, SMT
    <3>3. 1 < p
      <4>1. ~(1 < p) => t[1] = s[1 + 1]
        BY <2>7, <3>1
      <4> QED BY <2>6, <3>2, <4>1
    <3>4. Len(s) > 0
      BY <2>5, SMT
    <3>5. s # << >>
      BY <3>4, SMT
    <3> QED BY <2>7, <3>1, <3>3, <3>5
  <2>10. s # << >> /\ s[1].frame # f => t[1] = s[1] /\ t # << >>
    <3> SUFFICES ASSUME s # << >>, s[1].frame # f PROVE t[1] = s[1] /\ t # << >>
      OBVIOUS
    <3>1. ~(1 < p) => 1 \in p..Len(s)
      BY <2>5, SMT
    <3>2. 1 < p
      BY <2>6, <3>1
    <3>3. 1 \in 1..Len(t) /\ Len(t) > 0
      BY <2>5, <3>2, SMT
    <3>4. t # << >>
      BY <3>3, SMT
    <3> QED BY <2>7, <3>2, <3>3, <3>4
  <2>11. JoinInv'
    BY <2>1, <2>3, <2>8 DEF JoinInv
  <2>12. StartInv'
    <3> SUFFICES ASSUME buffer # Null, content = << >>, t # << >>, t[1].frame \notin damaged \cup {f},
                        t[1].place <= lens[t[1].frame]
                 PROVE  t[1].place <= 1
      BY <2>1, <2>3 DEF StartInv, Starts
    <3>1. Starts(s, lens, damaged)
      BY DEF WholeInv, StartInv, s
    <3> QED BY <2>9, <3>1 DEF Starts
  <2>13. PrefixInv'
    <3> SUFFICES ASSUME content # << >>, Frames(content) \cap ((damaged \cup {f}) \cup starved) = {}
                 PROVE  \E g \in 1..Len(lens) : PrefixOf(content, t, lens, pc, g)
      BY <2>1, <2>3 DEF PrefixInv, Prefix
    <3>1. Frames(content) \cap (damaged \cup starved) = {}
      OBVIOUS
    <3>2. PICK g \in 1..Len(lens) : PrefixOf(content, s, lens, pc, g)
      BY <3>1 DEF WholeInv, PrefixInv, Prefix, s
    <3>3. g # f
      <4>1. content \in Seq(RawByte) /\ FirstOf(content, g)
        BY <3>2 DEF TypeInv, DataInv, Sent, PrefixOf
      <4>2. g \in Frames(content)
        BY <4>1, HasFirst
      <4> QED BY <4>2
    <3>4. PrefixOf(content, t, lens, pc, g)
      BY <2>10, <3>2, <3>3 DEF PrefixOf
    <3> QED BY <3>4
  <2>14. IntactInv'
    BY <1>1, <2>1, IntactMore DEF WholeInv, IntactInv
  <2> QED BY <1>3, <2>11, <2>12, <2>13, <2>14 DEF WholeInv
<1> QED BY <1>4, <1>5

\* Every byte of the stream is one of a frame that has a length.
LEMMA StreamLens ==
    ASSUME TypeInv
    PROVE  /\ \A i \in 1..Len(Stream) : lens[Stream[i].frame] \in Nat
           /\ \A f \in 1..Len(lens) : lens[f] \in Nat /\ lens[f] > 0
<1>1. \A f \in 1..Len(lens) : lens[f] \in EncodedLens
  BY ElementOfSeq DEF TypeInv, DataInv
<1>2. \A x \in EncodedLens : x \in Nat /\ x > 0
  BY LinkAssumption, SMT
<1> QED BY <1>1, <1>2, StreamIs

\* The receiver skips a byte while it looks for the start of a frame, or finds it.
LEMMA WholeScan ==
    ASSUME TypeInv, TypeInv', WholeInv, Flush \/ start_new_frame
    PROVE  WholeInv'
<1> USE DEF line, partial, caller
<1>1. Contents' = Contents
  BY DEF Contents, Queued, Flush, start_new_frame
<1>2. ASSUME rx # << >>, rx' = Tail(rx), UNCHANGED <<lens, damaged, unsent>>, starved \subseteq starved',
             content' = << >>, buffer' # Null => IsZero(Head(rx))
      PROVE  WholeInv'
  <2>1. Stream # << >> /\ Stream' = Tail(Stream) /\ Stream[1] = Head(rx) /\ Stream \in Seq(RawByte)
    BY <1>2, StreamRead, StreamIs
  <2>2. JoinInv'
    BY <1>2, <2>1, JoinedTail DEF WholeInv, JoinInv
  <2>3. StartInv'
    <3> SUFFICES ASSUME buffer' # Null PROVE Starts(Tail(Stream), lens, damaged)
      BY <1>2, <2>1 DEF StartInv
    <3>1. Stream[1].place = 0 \/ Stream[1].place > lens[Stream[1].frame]
      BY <1>2, <2>1 DEF IsZero
    <3>2. \A i \in 1..Len(Stream) : lens[Stream[i].frame] \in Nat
      BY StreamLens
    <3> QED BY <2>1, <3>1, <3>2, StartsAfterZero DEF WholeInv, JoinInv
  <2>4. UnsentInv' /\ PrefixInv'
    BY <1>2 DEF WholeInv, UnsentInv, PrefixInv, Prefix
  <2>5. IntactInv'
    BY <1>1, <1>2, IntactMore DEF WholeInv, IntactInv
  <2> QED BY <2>2, <2>3, <2>4, <2>5 DEF WholeInv
<1>3. CASE Flush
  <2> USE <1>3 DEF Flush
  <2>1. buffer = Null /\ content = << >>
    BY DEF TypeInv, ControlInv
  <2>2. CASE rx = << >>
    BY <1>1, <2>1, <2>2, WholeSame
  <2>3. CASE rx # << >>
    BY <1>2, <2>1, <2>3
  <2> QED BY <2>2, <2>3
<1>4. CASE start_new_frame
  BY <1>2, <1>4 DEF start_new_frame, StartsFrame
<1> QED BY <1>3, <1>4

\* A byte is stored behind those of its frame, or is the zero byte at its end.
LEMMA WholeRead ==
    ASSUME TypeInv, TypeInv', WholeInv, ReadByte
    PROVE  WholeInv'
<1> USE DEF ReadByte, line, caller
<1> DEFINE b == Head(rx)
           s == Stream
           B == damaged \cup starved
<1>1. /\ rx # << >> /\ buffer # Null /\ ~Ended(pc) /\ Contents' = Contents
      /\ content \in Seq(RawByte) /\ Len(content) \in Nat
  BY LenProperties DEF TypeInv, ControlInv, DataInv, Filling, Finishing, Ended, Contents, Queued, Sent
<1>2. s # << >> /\ Stream' = Tail(s) /\ s[1] = b /\ s \in Seq(RawByte)
  BY <1>1, StreamRead, StreamIs
<1>3. b \in RawByte /\ b.frame \in 1..Len(lens) /\ 1 \in 1..Len(s)
  BY <1>1, <1>2, SentTail, TailIs DEF TypeInv, DataInv
<1>4. lens[b.frame] \in Nat /\ b.place \in Nat
  BY <1>3, StreamLens DEF RawByte
<1>5. JoinInv' /\ UnsentInv'
  BY <1>2, JoinedTail DEF WholeInv, JoinInv, UnsentInv
<1>6. IntactInv'
  BY <1>1 DEF WholeInv, IntactInv
<1>7. CASE IsZero(b) /\ content = << >>
  <2>1. content' = << >>
    BY <1>7
  <2>2. Starts(Tail(s), lens, damaged)
    <3>1. s[1].place = 0 \/ s[1].place > lens[s[1].frame]
      BY <1>2, <1>7 DEF IsZero
    <3>2. \A i \in 1..Len(s) : lens[s[i].frame] \in Nat
      BY StreamLens
    <3>3. Joined(s, lens, damaged)
      BY DEF WholeInv, JoinInv
    <3> HIDE DEF s
    <3> QED BY <1>2, <3>1, <3>2, <3>3, StartsAfterZero
  <2>3. StartInv' /\ PrefixInv'
    BY <1>2, <2>1, <2>2 DEF StartInv, PrefixInv, Prefix
  <2> QED BY <1>5, <1>6, <2>3 DEF WholeInv
<1>8. CASE IsZero(b) /\ content # << >>
  <2>1. content' = content /\ pc' = "finish"
    BY <1>8
  <2>2. PrefixInv'
    <3> SUFFICES ASSUME Frames(content) \cap B = {}
                 PROVE  \E f \in 1..Len(lens) : PrefixOf(content, Tail(s), lens, "finish", f)
      BY <1>2, <2>1 DEF PrefixInv, Prefix
    <3>1. PICK f \in 1..Len(lens) : PrefixOf(content, s, lens, pc, f)
      BY <1>8 DEF WholeInv, PrefixInv, Prefix
    <3>2. Len(content) <= lens[f] /\ b = [frame |-> f, place |-> Len(content) + 1]
      BY <1>1, <1>2, <3>1 DEF PrefixOf
    <3>3. b.frame = f /\ b.place = Len(content) + 1
      BY <3>2
    <3>4. Len(content) = lens[f]
      <4>1. b.place = 0 \/ b.place > lens[f]
        BY <1>8, <3>3 DEF IsZero
      <4>2. lens[f] \in Nat
        BY <1>4, <3>3
      <4> HIDE DEF b
      <4> QED BY <1>1, <3>2, <3>3, <4>1, <4>2, SMT
    <3>5. PrefixOf(content, Tail(s), lens, "finish", f)
      BY <3>1, <3>4 DEF PrefixOf, Ended
    <3> QED BY <3>5
  <2>3. StartInv'
    BY <1>8, <2>1 DEF StartInv
  <2> QED BY <1>5, <1>6, <2>2, <2>3 DEF WholeInv
<1>9. CASE ~IsZero(b)
  <2> PICK c : c = Append(content, b)
    OBVIOUS
  <2>1. content' = c /\ pc' = "continue"
    BY <1>9
  <2>2. /\ c \in Seq(RawByte) /\ Len(c) = Len(content) + 1 /\ c # << >>
        /\ c[Len(content) + 1] = b /\ \A k \in 1..Len(content) : c[k] = content[k]
        /\ \A k \in 1..(Len(content) + 1) : k = Len(content) + 1 \/ k \in 1..Len(content)
    BY <1>1, <1>3, AppendIs
  <2>3. b.frame \in Frames(c) /\ Frames(content) \subseteq Frames(c)
    <3>1. DOMAIN c = 1..(Len(content) + 1) /\ DOMAIN content = 1..Len(content)
      BY <1>1, <2>2, LenProperties
    <3>2. Len(content) + 1 \in 1..(Len(content) + 1) /\ 1..Len(content) \subseteq 1..(Len(content) + 1)
      BY <1>1, SMT
    <3> QED BY <2>2, <3>1, <3>2 DEF Frames
  <2>4. b.place # 0 /\ b.place <= lens[b.frame]
    <3>1. b.place # 0 /\ ~(b.place > lens[b.frame])
      BY <1>9 DEF IsZero
    <3> HIDE DEF b
    <3> QED BY <1>4, <3>1, SMT
  <2>5. PrefixInv'
    <3> SUFFICES ASSUME Frames(c) \cap B = {}
                 PROVE  \E f \in 1..Len(lens) : PrefixOf(c, Tail(s), lens, "continue", f)
      BY <1>2, <2>1 DEF PrefixInv, Prefix
    <3>1. \E f \in 1..Len(lens) : FirstOf(content, f) /\ b = [frame |-> f, place |-> Len(content) + 1]
      <4>1. CASE content # << >>
        <5>1. Frames(content) \cap B = {}
          BY <2>3
        <5>2. PICK f \in 1..Len(lens) : PrefixOf(content, s, lens, pc, f)
          BY <4>1, <5>1 DEF WholeInv, PrefixInv, Prefix
        <5> QED BY <1>1, <1>2, <5>2 DEF PrefixOf
      <4>2. CASE content = << >>
        <5>1. 1..Len(<< >>) = {} /\ Len(<< >>) + 1 = 1
          BY SMT
        <5>2. b.place <= 1
          <6>1. Starts(s, lens, damaged)
            BY <1>1, <4>2 DEF WholeInv, StartInv
          <6> QED BY <1>2, <2>3, <2>4, <6>1 DEF Starts
        <5>3. b.place = 1
          <6> HIDE DEF b
          <6> QED BY <1>4, <2>4, <5>2, SMT
        <5>4. b = [frame |-> b.frame, place |-> 1]
          BY <1>3, <5>3 DEF RawByte
        <5> QED BY <1>3, <4>2, <5>1, <5>4 DEF FirstOf
      <4> QED BY <4>1, <4>2
    <3>2. PICK f \in 1..Len(lens) : FirstOf(content, f) /\ b = [frame |-> f, place |-> Len(content) + 1]
      BY <3>1
    <3>3. b.frame = f /\ b.place = Len(content) + 1
      BY <3>2
    <3>4. FirstOf(c, f)
      BY <2>2, <3>2 DEF FirstOf
    <3>5. 1 + 1 \in 1..Len(s) /\ s[1 + 1] = After(b)
      <4>1. s[1].frame \notin damaged /\ s[1].place <= lens[s[1].frame]
        BY <1>2, <2>3, <2>4
      <4>2. Joined(s, lens, damaged)
        BY DEF WholeInv, JoinInv
      <4>3. 1 + 1 \in 1..Len(s) /\ s[1 + 1] = After(s[1])
        BY <1>3, <4>1, <4>2 DEF Joined
      <4> QED BY <1>2, <4>3
    <3>6. Tail(s) # << >> /\ Tail(s)[1] = s[1 + 1]
      <4> PICK t : t = Tail(s)
        OBVIOUS
      <4>1. Len(t) = Len(s) - 1 /\ Len(s) \in Nat /\ \A k \in 1..Len(t) : t[k] = s[k + 1]
        BY <1>2, TailIs
      <4>2. 1 \in 1..Len(t) /\ Len(t) > 0
        BY <3>5, <4>1, SMT
      <4>3. t # << >>
        BY <4>2, SMT
      <4> QED BY <4>1, <4>2, <4>3
    <3>7. Tail(s)[1] = [frame |-> f, place |-> Len(c) + 1]
      BY <2>2, <3>3, <3>5, <3>6 DEF After
    <3>8. Len(c) <= lens[f]
      BY <2>2, <2>4, <3>3
    <3>9. PrefixOf(c, Tail(s), lens, "continue", f)
      BY <3>4, <3>6, <3>7, <3>8 DEF PrefixOf, Ended, Finishing
    <3> QED BY <3>9
  <2>6. StartInv'
    BY <2>1, <2>2 DEF StartInv
  <2> QED BY <1>5, <1>6, <2>5, <2>6 DEF WholeInv
<1> QED BY <1>7, <1>8, <1>9

\* No step makes a frame that nothing happened to another than was sent.
LEMMA NextWhole ==
    GrowthSucceeds /\ TypeInv /\ TypeInv' /\ WholeInv /\ [Next]_vars => WholeInv'
<1> SUFFICES ASSUME GrowthSucceeds, TypeInv, TypeInv', WholeInv, [Next]_vars PROVE WholeInv'
  OBVIOUS
<1> USE DEF partial, caller, line
<1>1. ASSUME UNCHANGED <<delivered, frames_head>>
      PROVE  Contents' = Contents
  BY <1>1 DEF Contents, Queued
<1>2. content # << >> => Frames(content) # {}
  BY SomeFrame DEF TypeInv, DataInv, Sent
<1>3. CASE Sender
  BY <1>3, WholeSend, WholeWrite DEF Sender
<1>4. CASE link_frames_available \/ link_get_next_frame
  <2>1. PICK o \in {"available", "get_next"} : Call(o)
    BY <1>4 DEF link_frames_available, link_get_next_frame
  <2> QED BY <1>1, <2>1, WholeSame DEF Call, Ended, Finishing
<1>5. CASE Flush \/ start_new_frame
  BY <1>5, WholeScan
<1>6. CASE realloc_buffer
  <2>1. content' = content /\ pc' = "read" /\ starved' = starved /\ buffer # Null
    BY <1>6 DEF realloc_buffer, GrowthSucceeds, OutOfMemory, TypeInv, ControlInv, Filling
  <2> QED BY <1>1, <1>6, <2>1, WholeSame DEF realloc_buffer, Ended, Finishing
<1>7. CASE NoMoreBytes
  BY <1>1, <1>7, WholeSame DEF NoMoreBytes, Ended, Finishing
<1>8. CASE ReadByte
  BY <1>8, WholeRead
<1>9. CASE new_frame
  <2>1. CASE pc' = "decode" /\ starved' = starved
    BY <1>1, <1>9, <2>1, WholeSame DEF new_frame, Ended, Finishing
  <2>2. CASE pc' = "return" /\ starved' = starved \cup Frames(content)
    BY <1>1, <1>2, <1>9, <2>2, WholeSame DEF new_frame
  <2> QED BY <1>9, <2>1, <2>2 DEF new_frame
<1>10. CASE Decode
  BY <1>1, <1>10, WholeSame DEF Decode, Ended, Finishing
<1>11. CASE enqueue_frame
  <2>1. CASE /\ pc' = "error" /\ starved' = starved \cup Frames(content)
             /\ UNCHANGED <<heap, partial, frame, frames_head>>
    BY <1>1, <1>11, <2>1, WholeSame DEF enqueue_frame, Ended, Finishing
  <2>2. CASE /\ frames_head' = Append(frames_head, [block |-> Fresh(heap), frame |-> frame,
                                                    content |-> content])
             /\ content' = << >> /\ buffer' = Null /\ starved' = starved
    <3> DEFINE e == [block |-> Fresh(heap), frame |-> frame, content |-> content]
    <3>1. e \in Element /\ e.content = content
      <4>1. frame \in Frame /\ content \in Seq(RawByte) /\ Fresh(heap) \in Nat
        BY <1>11, FreshIs DEF enqueue_frame, TypeInv, ControlInv, DataInv, Finishing, Sent
      <4> QED BY <4>1 DEF Element
    <3>2. frames_head' = Append(frames_head, e) /\ delivered' = delivered
      BY <1>11, <2>2 DEF enqueue_frame
    <3> HIDE DEF e
    <3>3. Contents' = Append(Contents, content)
      BY <3>1, <3>2, ContentsEnqueue
    <3>4. Contents \in Seq(Seq(RawByte)) /\ content \in Seq(RawByte)
      BY ContentsIs DEF TypeInv, DataInv, Sent
    <3>5. Frames(content) \cap (damaged \cup starved) = {} =>
              \E f \in 1..Len(lens) : content = EncodingOf(lens, f)
      <4> SUFFICES ASSUME Frames(content) \cap (damaged \cup starved) = {}
                   PROVE  \E f \in 1..Len(lens) : content = EncodingOf(lens, f)
        OBVIOUS
      <4>1. content # << >> /\ Ended(pc)
        BY <1>11 DEF enqueue_frame, TypeInv, ControlInv, Finishing, Ended
      <4>2. PICK f \in 1..Len(lens) : PrefixOf(content, Stream, lens, pc, f)
        BY <4>1 DEF WholeInv, PrefixInv, Prefix
      <4> QED BY <3>4, <4>1, <4>2, AllOfIt DEF PrefixOf
    <3>6. Intact(Append(Contents, content), lens, damaged \cup starved)
      BY <3>4, <3>5, IntactKeep DEF WholeInv, IntactInv
    <3>7. IntactInv'
      BY <1>11, <2>2, <3>3, <3>6 DEF IntactInv, enqueue_frame
    <3> QED BY <1>11, <2>2, <3>7, WholeDrop DEF enqueue_frame
  <2> QED BY <1>11, <2>1, <2>2 DEF enqueue_frame, Enqueued, FreeBuffer
<1>12. CASE Error
  <2>1. IntactInv'
    BY <1>1, <1>12 DEF Error, WholeInv, IntactInv
  <2> QED BY <1>12, <2>1, WholeDrop DEF Error, FreeBuffer
<1>13. CASE Return
  <2>1. Contents' = Contents
    BY <1>1, <1>13, ContentsDequeue DEF Return
  <2> QED BY <1>13, <2>1, WholeSame DEF Return, Ended, Finishing
<1>14. CASE link_free_frame
  BY <1>1, <1>14, WholeSame DEF link_free_frame
<1>15. CASE UNCHANGED vars
  BY <1>1, <1>15, WholeSame DEF vars
<1> QED BY <1>3, <1>4, <1>5, <1>6, <1>7, <1>8, <1>9, <1>10, <1>11, <1>12, <1>13, <1>14, <1>15
        DEF Next, Receiver

\* The model's own statement of it.
LEMMA FramesAsSentHolds == TypeInv /\ WholeInv => FramesAsSent
<1> SUFFICES ASSUME TypeInv, WholeInv PROVE FramesAsSent
  OBVIOUS
<1>1. Contents \in Seq(Seq(RawByte))
  BY ContentsIs
<1>2. DOMAIN Contents = 1..Len(Contents)
  BY <1>1, LenProperties
<1>3. \A f : Encoding(f) = EncodingOf(lens, f)
  BY DEF Encoding, EncodingOf
<1> QED BY <1>2, <1>3 DEF FramesAsSent, WholeInv, IntactInv, Intact

-----------------------------------------------------------------------------
(* What always holds. *)

IInv == TypeInv /\ OwnInv /\ OrderInv /\ WholeInv

\* The inductive invariant: the types and what the control state says of the
\* pointers, who owns which block, the order of the bytes, and what is left of
\* a frame in the stream, in the buffer and in the list.
THEOREM Invariant == ASSUME GrowthSucceeds PROVE Spec => []IInv
<1>1. Init => IInv
  BY InitType, InitOwn, InitOrder, InitWhole DEF IInv
<1>2. IInv /\ [Next]_vars => IInv'
  BY NextType, NextOwn, NextOrder, NextWhole DEF IInv
<1> QED BY <1>1, <1>2, PTL DEF Spec

\* Every variable has its type, and there is room in the buffer for the byte
\* that is stored next (link.c:101-118), whatever the buffer grew from.
THEOREM TypeCorrect == ASSUME GrowthSucceeds PROVE Spec => []TypeOK
<1>1. IInv => TypeOK
  BY TypeOKHolds DEF IInv
<1> QED BY <1>1, Invariant, PTL

\* Every allocated block has exactly one owner, on every path of the receiver
\* and whatever other allocation fails (link.c:29-217).
THEOREM OwnershipKept == ASSUME GrowthSucceeds PROVE Spec => []Ownership
<1>1. IInv => Ownership
  BY OwnershipHolds DEF IInv
<1> QED BY <1>1, Invariant, PTL

\* The bytes come out in the order in which they were sent, none of them twice
\* (enqueue_frame and dequeue_frame, link.c:152-183).
THEOREM BytesInOrder == ASSUME GrowthSucceeds PROVE Spec => []InOrder
<1>1. IInv => InOrder
  BY InOrderHolds DEF IInv
<1> QED BY <1>1, Invariant, PTL

\* A received frame that no lost byte and no failed allocation had a part in
\* is one that was sent, whole, wherever the receiver started to listen.
THEOREM FramesWhole == ASSUME GrowthSucceeds PROVE Spec => []FramesAsSent
<1>1. IInv => FramesAsSent
  BY FramesAsSentHolds DEF IInv
<1> QED BY <1>1, Invariant, PTL
=============================================================================
