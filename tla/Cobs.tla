-------------------------------- MODULE Cobs --------------------------------
(***************************************************************************)
(* Consistent overhead byte stuffing, src/link/cobs.c: cobs_encode and     *)
(* cobs_decode, one action per iteration of their loops, writing through   *)
(* dst into buffers of the sizes src/link/link.c gives them.               *)
(*                                                                         *)
(* A behaviour takes one input.  A message is encoded, and its encoding    *)
(* decoded again; anything else the line may carry (Received, never with a *)
(* zero byte in the code's use, but cobs_decode is written for any) goes   *)
(* to the decoder as it is.  The full block's code, 0xff, is MaxCode; a    *)
(* byte is a number up to it.                                              *)
(***************************************************************************)
EXTENDS Naturals, Sequences

CONSTANTS
    MaxCode,   \* the code of a full block, 0xff
    Messages,  \* inputs of cobs_encode
    Received   \* inputs of cobs_decode that no encoder made

Byte == 0..MaxCode

ASSUME CobsAssumption ==
    /\ MaxCode \in Nat /\ MaxCode > 1
    /\ Messages \subseteq Seq(Byte) /\ Received \subseteq Seq(Byte)

VARIABLES
    message,  \* what is being encoded, or was
    encoding, \* whether the bytes decoded come from message
    pc,       \* "encode", "decode", "copy", "done", "rejected"
    src,      \* the input buffer
    s,        \* the pointer src: index of the next byte to read
    dst,      \* what was written to the output buffer so far
    code_ptr, \* encoder: index in dst of the current block's code
    code, i   \* decoder: code of the current block, copy counter

vars == <<message, encoding, pc, src, s, dst, code_ptr, code, i>>

\* *code_ptr = 1 before the encoder's loop.
Init ==
    /\ code = 0 /\ i = 0 /\ s = 1
    /\ \/ /\ message \in Messages
          /\ encoding = TRUE
          /\ pc = "encode"
          /\ src = message
          /\ dst = <<1>> /\ code_ptr = 1
       \/ /\ message = << >>
          /\ encoding = FALSE
          /\ pc = "decode"
          /\ src \in Received
          /\ dst = << >> /\ code_ptr = 0

AtEnd == s > Len(src)

-----------------------------------------------------------------------------
(* cobs_encode. *)

\* A zero ends the block and is not written.
EncodeZero ==
    /\ pc = "encode" /\ ~AtEnd
    /\ src[s] = 0
    /\ dst' = Append(dst, 1)
    /\ code_ptr' = Len(dst) + 1
    /\ s' = s + 1
    /\ UNCHANGED <<message, encoding, pc, src, code, i>>

\* The output after copying byte b and counting it in the block's code.
Copied(b) == Append([dst EXCEPT ![code_ptr] = @ + 1], b)
BlockFull == dst[code_ptr] + 1 = MaxCode

\* Fault: a full block is not closed.
EncodeByteNeverFull ==
    /\ pc = "encode" /\ ~AtEnd
    /\ src[s] # 0
    /\ dst' = Copied(src[s])
    /\ s' = s + 1
    /\ UNCHANGED <<message, encoding, pc, src, code_ptr, code, i>>

\* Any other byte is copied; a full block is followed by a new one.
EncodeByte ==
    /\ pc = "encode" /\ ~AtEnd
    /\ src[s] # 0
    /\ \/ /\ ~BlockFull
          /\ dst' = Copied(src[s])
          /\ UNCHANGED code_ptr
       \/ /\ BlockFull
          /\ dst' = Append(Copied(src[s]), 1)
          /\ code_ptr' = Len(dst) + 2
    /\ s' = s + 1
    /\ UNCHANGED <<message, encoding, pc, src, code, i>>

\* cobs_encode returns; the peer's cobs_decode is called with its output.
EncodeEnd ==
    /\ pc = "encode" /\ AtEnd
    /\ src' = dst
    /\ s' = 1
    /\ dst' = << >> /\ code_ptr' = 0
    /\ pc' = "decode"
    /\ UNCHANGED <<message, encoding, code, i>>

-----------------------------------------------------------------------------
(* cobs_decode. *)

\* Fault: the code may reach one byte past the input.
IllegalByOne(c) == c = 0 \/ s + c > Len(src) + 2

\* A code of 0, or one that reaches past the end of the input.
Illegal(c) == c = 0 \/ s + c > Len(src) + 1

DecodeCode ==
    /\ pc = "decode" /\ ~AtEnd
    /\ \/ /\ Illegal(src[s])
          /\ pc' = "rejected"
          /\ UNCHANGED <<s, code, i>>
       \/ /\ ~Illegal(src[s])
          /\ code' = src[s]
          /\ s' = s + 1
          /\ i' = 1
          /\ pc' = "copy"
    /\ UNCHANGED <<message, encoding, src, dst, code_ptr>>

\* Fault: a zero in the block is neither copied nor refused, and the loop
\* goes nowhere.
DecodeByteStuck ==
    /\ pc = "copy"
    /\ i < code
    /\ src[s] # 0
    /\ dst' = Append(dst, src[s])
    /\ s' = s + 1
    /\ i' = i + 1
    /\ UNCHANGED <<message, encoding, pc, src, code_ptr, code>>

\* One byte of the block; a zero among them is refused.
DecodeByte ==
    /\ pc = "copy"
    /\ i < code
    /\ \/ /\ src[s] = 0
          /\ pc' = "rejected"
          /\ UNCHANGED <<s, dst, i>>
       \/ /\ src[s] # 0
          /\ dst' = Append(dst, src[s])
          /\ s' = s + 1
          /\ i' = i + 1
          /\ UNCHANGED pc
    /\ UNCHANGED <<message, encoding, src, code_ptr, code>>

\* Fault: the zero that ended the block is written after a full block too.
BlockZeroAlways == <<0>>

\* What the end of the block writes: the zero that ended it, none after a
\* full one.
BlockZero == IF code # MaxCode THEN <<0>> ELSE << >>

DecodeBlockEnd ==
    /\ pc = "copy"
    /\ i >= code
    /\ dst' = dst \o BlockZero
    /\ pc' = "decode"
    /\ UNCHANGED <<message, encoding, src, s, code_ptr, code, i>>

\* The last zero is an artefact of the last block and is dropped.
DecodeEnd ==
    /\ pc = "decode" /\ AtEnd
    /\ dst' = IF dst # << >> /\ dst[Len(dst)] = 0
              THEN SubSeq(dst, 1, Len(dst) - 1)
              ELSE dst
    /\ pc' = "done"
    /\ UNCHANGED <<message, encoding, src, s, code_ptr, code, i>>

Returned == pc \in {"done", "rejected"}

Next ==
    \/ EncodeZero \/ EncodeByte \/ EncodeEnd
    \/ DecodeCode \/ DecodeByte \/ DecodeBlockEnd \/ DecodeEnd

\* The functions are sequential code.
Spec == Init /\ [][Next]_vars /\ WF_vars(Next)

-----------------------------------------------------------------------------
(* Properties. *)

\* Fault: the new block after a full one is not provided for.
EncodedLenWithoutBlocks(len) == len + 1

\* The size of the buffer that link_send_frame gives to cobs_encode.
cobs_max_encoded_len(len) == len + len \div (MaxCode - 1) + 1

TypeOK ==
    /\ encoding \in BOOLEAN
    /\ pc \in {"encode", "decode", "copy", "done", "rejected"}
    /\ message \in Seq(Byte) /\ src \in Seq(Byte) /\ dst \in Seq(Byte)
    /\ s \in Nat \ {0} /\ s <= Len(src) + 1
    /\ code_ptr \in 0..Len(dst)
    /\ code \in Byte /\ i \in 0..MaxCode

\* Decoding what was encoded gives the message back, zeros at its end and
\* full blocks included (cobs.c:3-37 against 39-79), and never rejects it.
RoundTrip ==
    encoding => pc # "rejected" /\ (pc = "done" => dst = message)

\* The encoder writes no zero byte, the property the framing of link.c rests
\* on (a zero ends a frame, link.c:109-116), and stays within the buffer that
\* link_send_frame allocated (link.c:262, cobs.c:81-84).
EncodingFramed ==
    pc = "encode" =>
        /\ Len(dst) <= cobs_max_encoded_len(Len(message))
        /\ \A k \in 1..Len(dst) : dst[k] # 0

\* Whatever came in, the decoder reads inside its input (the check "preventing
\* heartbleed-like bugs", cobs.c:49-52) and writes no more bytes than it has
\* read: finish_frame's buffer is as long as the input (link.c:187-192).
DecodeInBounds ==
    ~(pc = "encode") =>
        /\ Len(dst) < s /\ Len(dst) <= Len(src)
        /\ pc = "copy" => i >= 1 /\ i <= code /\ s + (code - i) <= Len(src) + 1

\* Both functions return.
Terminates == <>Returned
=============================================================================
