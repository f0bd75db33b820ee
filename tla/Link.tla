-------------------------------- MODULE Link --------------------------------
(***************************************************************************)
(* The link layer, src/link/link.c: frames over a byte stream.             *)
(*                                                                         *)
(* One node sends with link_send_frame, a byte at a time, into a line that *)
(* may drop bytes (the receiver's UART ring does when it is full); another *)
(* polls link_frames_available and link_get_next_frame.  Bytes arrive      *)
(* between any two steps of the receiver: phy.available and phy.read are   *)
(* fed by an interrupt handler.  Every malloc may fail.                    *)
(*                                                                         *)
(* Module Cobs is about what the bytes of a frame are; here a byte only    *)
(* knows which frame it belongs to and its place there.  A frame is known  *)
(* by the length of its encoding; the encoding of the empty frame is one   *)
(* byte long.                                                              *)
(***************************************************************************)
EXTENDS Naturals, Sequences, FiniteSets

CONSTANTS
    Null,
    INIT_FRAME_LEN,  \* first size of the receive buffer
    MaxDoubled,      \* the buffer doubles below this size, 4096 in the code,
    GrowStep,        \* and grows by this much above, 512 in the code
    EncodedLens,     \* lengths of the encoded frames that may be sent
    OomSites,        \* the functions in which malloc may fail
    MaxFrames,       \* bound: frames sent
    MaxLosses        \* bound: bytes dropped by the line

ASSUME LinkAssumption ==
    /\ Null \notin Nat \cup [frame : Nat, data : Nat]
    /\ {INIT_FRAME_LEN, MaxDoubled, GrowStep} \subseteq Nat \ {0}
    /\ EncodedLens \subseteq Nat \ {0}
    /\ OomSites \subseteq {"start_new_frame", "realloc_buffer", "new_frame",
                           "enqueue_frame"}
    /\ MaxFrames \in Nat /\ MaxLosses \in Nat

VARIABLES
    lens,        \* encoded length of every frame sent so far
    unsent,      \* bytes the link_send_frame in progress has yet to write
    rx,          \* bytes received by the UART and not yet read
    losses, damaged, \* history: bytes lost, frames they were part of
    pc, op,      \* where the receiver is, and in which call
    buffer, buffer_len, content, \* buffer, its size, the buffer_pos bytes in it
    frame,       \* finish_frame's frame
    frames_head, \* the list of received frames
    held,        \* the frame last returned, until it is freed
    heap,        \* the blocks allocated by the receiver
    starved,     \* history: frames being received when malloc failed
    delivered    \* history: contents of the frames returned

line == <<lens, unsent, losses, damaged>>
partial == <<buffer, buffer_len, content>>
caller == <<op, held, delivered>>
vars == <<line, rx, pc, partial, frame, frames_head, caller, heap, starved>>

Init ==
    /\ lens = << >> /\ unsent = << >> /\ rx = << >>
    /\ losses = 0 /\ damaged = {}
    /\ pc = "idle" /\ op = "available"
    /\ buffer = Null /\ buffer_len = 0 /\ content = << >>
    /\ frame = Null /\ frames_head = << >> /\ held = Null
    /\ heap = {} /\ starved = {} /\ delivered = << >>

-----------------------------------------------------------------------------
(* The bytes on the line. *)

\* Bytes 1..lens[f] are the encoding of f, the ones around it are zero bytes.
IsZero(b) == b.place = 0 \/ b.place > lens[b.frame]
Encoding(f) == [k \in 1..lens[f] |-> [frame |-> f, place |-> k]]
Frames(bytes) == {bytes[k].frame : k \in DOMAIN bytes}

\* link_send_frame(frame): its malloc fails before anything was written, or
\* the encoding is written between two zero bytes.
link_send_frame(len) ==
    /\ unsent = << >>
    /\ Len(lens) < MaxFrames
    /\ lens' = Append(lens, len)
    /\ unsent' = [k \in 1..(len + 2) |->
                    [frame |-> Len(lens) + 1, place |-> k - 1]]
    /\ UNCHANGED <<rx, losses, damaged, pc, partial, frame, frames_head,
                   caller, heap, starved>>

\* One phy.write: the byte arrives, or is lost.
Write ==
    /\ unsent # << >>
    /\ \/ /\ rx' = Append(rx, Head(unsent))
          /\ UNCHANGED <<losses, damaged>>
       \/ /\ losses < MaxLosses
          /\ losses' = losses + 1
          /\ damaged' = damaged \cup {Head(unsent).frame}
          /\ UNCHANGED rx
    /\ unsent' = Tail(unsent)
    /\ UNCHANGED <<lens, pc, partial, frame, frames_head, caller, heap,
                   starved>>

-----------------------------------------------------------------------------
(* The receiver's memory. *)

Fresh(blocks) ==
    CHOOSE b \in 1..(Cardinality(blocks) + 1) :
        b \notin blocks /\ \A c \in 1..(b - 1) : c \in blocks

\* The blocks of two malloc calls in a row.
Fresh2 == LET b == Fresh(heap) IN <<b, Fresh(heap \cup {b})>>

OutOfMemory(site) == site \in OomSites

-----------------------------------------------------------------------------
(* read_phy. *)

\* link_frames_available and link_get_next_frame both start with read_phy,
\* which goes on with the partial frame or looks for the start of a new one.
\* The caller frees a frame before it asks for the next (packet.c:189-190).
Call(o) ==
    /\ pc = "idle" /\ held = Null
    /\ op' = o
    /\ pc' = IF rx = << >> THEN "return"
             ELSE IF buffer = Null THEN "flush" ELSE "continue"
    /\ UNCHANGED <<line, rx, partial, frame, frames_head, held, delivered,
                   heap, starved>>

link_frames_available == Call("available")
link_get_next_frame == Call("get_next")

\* Fault: whatever byte is read starts the frame.
AnyByte(b) == TRUE

StartsFrame(b) == IsZero(b)

\* flush_until_null_byte reads a byte that is not zero, or finds no more.
Flush ==
    /\ pc = "flush"
    /\ \/ /\ rx = << >>
          /\ pc' = "return"
          /\ UNCHANGED rx
       \/ /\ rx # << >> /\ ~StartsFrame(Head(rx))
          /\ rx' = Tail(rx)
          /\ UNCHANGED pc
    /\ UNCHANGED <<line, partial, frame, frames_head, caller, heap, starved>>

\* Having read a zero byte, start_new_frame allocates the buffer.
start_new_frame ==
    /\ pc = "flush"
    /\ rx # << >> /\ StartsFrame(Head(rx))
    /\ rx' = Tail(rx)
    /\ \/ /\ buffer' = Fresh(heap)
          /\ heap' = heap \cup {buffer'}
          /\ buffer_len' = INIT_FRAME_LEN
          /\ pc' = "continue"
          /\ UNCHANGED starved
       \/ /\ OutOfMemory("start_new_frame")
          /\ buffer_len' = 0
          /\ pc' = "return"
          /\ starved' = starved \cup {Head(rx).frame}
          /\ UNCHANGED <<buffer, heap>>
    /\ content' = << >>
    /\ UNCHANGED <<line, frame, frames_head, caller>>

-----------------------------------------------------------------------------
(* continue_frame. *)

\* Fault: the new buffer is no larger.
NoGrowth == buffer_len

NewLen == IF buffer_len < MaxDoubled THEN 2 * buffer_len
          ELSE buffer_len + GrowStep

\* On failure the buffer is freed, but not forgotten.
realloc_buffer ==
    /\ pc = "continue"
    /\ rx # << >>
    /\ Len(content) = buffer_len
    /\ \/ /\ buffer' = Fresh(heap)
          /\ heap' = (heap \ {buffer}) \cup {buffer'}
          /\ buffer_len' = NewLen
          /\ pc' = "read"
          /\ UNCHANGED <<content, starved>>
       \/ /\ OutOfMemory("realloc_buffer")
          /\ heap' = heap \ {buffer}
          /\ buffer_len' = 0 /\ content' = << >>
          /\ pc' = "return"
          /\ starved' = starved \cup Frames(content)
          /\ UNCHANGED buffer
    /\ UNCHANGED <<line, rx, frame, frames_head, caller>>

NoMoreBytes ==
    /\ pc = "continue"
    /\ rx = << >>
    /\ pc' = "return"
    /\ UNCHANGED <<line, rx, partial, frame, frames_head, caller, heap,
                   starved>>

\* A zero byte ends the frame, unless nothing of it was read yet.
ReadByte ==
    /\ \/ pc = "read"
       \/ pc = "continue" /\ rx # << >> /\ Len(content) # buffer_len
    /\ rx' = Tail(rx)
    /\ IF IsZero(Head(rx))
       THEN /\ pc' = IF content = << >> THEN "continue" ELSE "finish"
            /\ UNCHANGED content
       ELSE /\ content' = Append(content, Head(rx))
            /\ pc' = "continue"
    /\ UNCHANGED <<line, buffer, buffer_len, frame, frames_head, caller, heap,
                   starved>>

-----------------------------------------------------------------------------
(* finish_frame. *)

\* Fault: free_buffer frees the block and leaves the variables.
FreeBlockOnly(blocks) ==
    /\ heap' = blocks \ {buffer}
    /\ UNCHANGED partial

FreeBuffer(blocks) ==
    /\ heap' = blocks \ {buffer}
    /\ buffer' = Null /\ buffer_len' = 0 /\ content' = << >>

\* The frame and its data are allocated; if either fails the buffer is kept.
new_frame ==
    /\ pc = "finish"
    /\ \/ /\ frame' = [frame |-> Fresh2[1], data |-> Fresh2[2]]
          /\ heap' = heap \cup {Fresh2[1], Fresh2[2]}
          /\ pc' = "decode"
          /\ UNCHANGED starved
       \/ /\ OutOfMemory("new_frame")
          /\ pc' = "return"
          /\ starved' = starved \cup Frames(content)
          /\ UNCHANGED <<frame, heap>>
    /\ UNCHANGED <<line, rx, partial, frames_head, caller>>

\* cobs_decode accepts an encoding, and refuses or accepts anything else; a
\* frame of length zero is not wanted.
Decode ==
    /\ pc = "decode"
    /\ LET sent == \E f \in 1..Len(lens) : content = Encoding(f) IN
       \/ /\ sent => Len(content) > 1
          /\ pc' = "enqueue"
       \/ /\ sent => Len(content) = 1
          /\ pc' = "error"
    /\ UNCHANGED <<line, rx, partial, frame, frames_head, caller, heap,
                   starved>>

\* Fault: the list grows at its head.
EnqueueFirst(element) == <<element>> \o frames_head

Enqueued(element) == Append(frames_head, element)

enqueue_frame ==
    /\ pc = "enqueue"
    /\ \/ LET b == Fresh(heap) IN
          /\ frames_head' = Enqueued([block |-> b, frame |-> frame,
                                      content |-> content])
          /\ FreeBuffer(heap \cup {b})
          /\ frame' = Null
          /\ pc' = "return"
          /\ UNCHANGED starved
       \/ /\ OutOfMemory("enqueue_frame")
          /\ pc' = "error"
          /\ starved' = starved \cup Frames(content)
          /\ UNCHANGED <<heap, partial, frame, frames_head>>
    /\ UNCHANGED <<line, rx, caller>>

\* What link_free_frame frees.
Blocks(f) == IF f = Null THEN {} ELSE {f.frame, f.data}

\* Fault: the buffer is kept when the frame is dropped.
ErrorKeepsBuffer ==
    /\ pc = "error"
    /\ heap' = heap \ Blocks(frame)
    /\ frame' = Null
    /\ pc' = "return"
    /\ UNCHANGED <<line, rx, partial, frames_head, caller, starved>>

Error ==
    /\ pc = "error"
    /\ FreeBuffer(heap \ Blocks(frame))
    /\ frame' = Null
    /\ pc' = "return"
    /\ UNCHANGED <<line, rx, frames_head, caller, starved>>

-----------------------------------------------------------------------------
(* The return to the caller, and the caller's link_free_frame. *)

dequeue_frame ==
    /\ frames_head # << >>
    /\ held' = Head(frames_head).frame
    /\ delivered' = Append(delivered, Head(frames_head).content)
    /\ heap' = heap \ {Head(frames_head).block}
    /\ frames_head' = Tail(frames_head)

Return ==
    /\ pc = "return"
    /\ pc' = "idle"
    /\ \/ op = "get_next" /\ dequeue_frame
       \/ /\ op = "available" \/ frames_head = << >>
          /\ UNCHANGED <<held, delivered, heap, frames_head>>
    /\ UNCHANGED <<line, rx, op, partial, frame, starved>>

link_free_frame ==
    /\ held # Null
    /\ heap' = heap \ Blocks(held)
    /\ held' = Null
    /\ UNCHANGED <<line, rx, pc, op, partial, frame, frames_head, starved,
                   delivered>>

-----------------------------------------------------------------------------
Sender == Write \/ \E len \in EncodedLens : link_send_frame(len)

Receiver ==
    \/ link_frames_available \/ link_get_next_frame
    \/ Flush \/ start_new_frame
    \/ realloc_buffer \/ NoMoreBytes \/ ReadByte
    \/ new_frame \/ Decode \/ enqueue_frame \/ Error
    \/ Return \/ link_free_frame

Next == Sender \/ Receiver

\* The event loop polls for ever and takes the frames it is told of
\* (packet.c:151-154); a link_send_frame that started writes all its bytes.
Fairness == WF_vars(Write) /\ WF_vars(Receiver) /\ SF_vars(link_get_next_frame)

Spec == Init /\ [][Next]_vars /\ Fairness

-----------------------------------------------------------------------------
(* Properties. *)

Bytes == [frame : 1..Len(lens), place : Nat]
FrameBlocks == [frame : Nat, data : Nat] \cup {Null}

\* Types, and the bound that the store buffer[buffer_pos++] = byte
\* (link.c:101-118) needs: there is room, whatever the buffer grew from.
TypeOK ==
    /\ lens \in Seq(EncodedLens) /\ Len(lens) <= MaxFrames
    /\ unsent \in Seq(Bytes) /\ rx \in Seq(Bytes)
    /\ losses \in 0..MaxLosses
    /\ damaged \cup starved \subseteq 1..Len(lens)
    /\ pc \in {"idle", "flush", "continue", "read", "finish", "decode",
               "enqueue", "error", "return"}
    /\ op \in {"available", "get_next"}
    /\ buffer \in Nat \cup {Null} /\ buffer_len \in Nat
    /\ content \in Seq(Bytes)
    /\ Len(content) <= buffer_len
    /\ pc = "read" => Len(content) < buffer_len
    /\ {frame, held} \subseteq FrameBlocks
    /\ \A k \in DOMAIN frames_head : frames_head[k].frame \in FrameBlocks

Queued == DOMAIN frames_head

\* The blocks the receiver has pointers to: its buffer's, those of the frame
\* it is finishing, of the one it returned, and of the frames in the list.
Owned ==
    << {buffer} \ {Null}, Blocks(frame), Blocks(held) >>
    \o [k \in Queued |-> Blocks(frames_head[k].frame)
                             \cup {frames_head[k].block}]

\* Every allocated block has exactly one owner, and every pointer is to an
\* allocated block: nothing leaks, is freed twice or used after it was
\* freed, on any error path of finish_frame (link.c:185-217), when an
\* allocation fails, or when the caller is slow to free its frames.
Ownership ==
    /\ heap = UNION {Owned[k] : k \in DOMAIN Owned}
    /\ \A k, l \in DOMAIN Owned : k # l => Owned[k] \cap Owned[l] = {}

Contents == delivered \o [k \in Queued |-> frames_head[k].content]

\* The bytes given to the caller, those of the frames in the list and those
\* in the buffer are in the order in which they were sent, none of them twice
\* (enqueue_frame and dequeue_frame, link.c:152-183).
Before(a, b) ==
    a.frame < b.frame \/ (a.frame = b.frame /\ a.place < b.place)
InOrder ==
    LET all == Append(Contents, content) IN
    \A k, l \in DOMAIN all : \A m \in DOMAIN all[k], n \in DOMAIN all[l] :
        k < l \/ (k = l /\ m < n) => Before(all[k][m], all[l][n])

\* A received frame that no lost byte and no failed allocation had a part in
\* is one that was sent, whole; wherever the receiver started to listen.
FramesAsSent ==
    \A k \in DOMAIN Contents :
        Frames(Contents[k]) \cap (damaged \cup starved) = {} =>
            \E f \in 1..Len(lens) : Contents[k] = Encoding(f)

\* A frame that arrived undamaged when there was memory, and whose
\* predecessor did too, is delivered (unless it is empty): an error costs at
\* most the frame it hit and the next one, whose first zero byte may be taken
\* for the end of the last (start_new_frame, link.c:42-48).
Unhurt(f) == f \notin damaged \cup starved
Expected == {f \in 1..Len(lens) :
                lens[f] > 1 /\ Unhurt(f) /\ (f > 1 => Unhurt(f - 1))}
Recovers ==
    <>[](\A f \in Expected : \E k \in DOMAIN delivered :
            delivered[k] = Encoding(f))

-----------------------------------------------------------------------------
(* What the code says of itself and does not do. *)

\* has_partial_frame takes a buffer that is not NULL for a partial frame
\* (link.c:124-127); realloc_buffer says it is "discarding frame" when there
\* is no memory (link.c:74), after which there should be none.
PartialFrameHasBuffer == buffer # Null => buffer \in heap

\* continue_frame returns "1 iff the end of the current frame has been found"
\* (link.c:96): the bytes of two frames are never in one, unless a zero byte
\* between them was lost.
NeverMerged ==
    \A k \in DOMAIN Contents :
        Cardinality(Frames(Contents[k])) > 1 =>
            Frames(Contents[k]) \cap damaged # {}
=============================================================================
