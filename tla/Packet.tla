------------------------------- MODULE Packet -------------------------------
(***************************************************************************)
(* The packet layer, src/packet/packet.c: its send buffer, the one packet  *)
(* it queues and the one packet it receives, over the link layer.          *)
(*                                                                         *)
(* The operations are those of packet.h, as actions over the layer's state *)
(* and the link's; module EventLoop is the program that calls them.  What  *)
(* a call that sends may do is a set of outcomes: link.send_frame fails    *)
(* when there is no memory, and then nothing was written.                  *)
(*                                                                         *)
(* Of what is sent only its pieces are kept: a piece is what one           *)
(* packet_write was given, and knows its packet, its place and its size.   *)
(***************************************************************************)
EXTENDS Naturals, Sequences, Totals

CONSTANTS
    Null,
    BUF_LEN  \* size of packet.buf, 512 in the code

ASSUME PacketAssumption == BUF_LEN \in Nat \ {0}

VARIABLES
    buf,             \* the pieces in packet.buf; buf_pos is their size
    queue,           \* the queued piece, or Null
    received_packet, \* the packet received and not yet taken, or Null
    inbox,           \* frames in the link's list
    sent             \* history: the frames given to the link and sent

sendVars == <<buf, sent>>
packetVars == <<buf, queue, received_packet, inbox, sent>>

PacketInit ==
    /\ buf = << >>
    /\ queue = Null /\ received_packet = Null
    /\ inbox = << >> /\ sent = << >>

-----------------------------------------------------------------------------
(* Sending. *)

Size(pieces) == Total([k \in DOMAIN pieces |-> pieces[k].size])

\* The result of a call: the buffer it leaves, the frames it sent, and what
\* it returned.
Outcome(pieces, frames, ok) == [buf |-> pieces, frames |-> frames, ok |-> ok]

\* flush_buffer(finish) on a buffer that holds pieces: an empty one is not
\* sent, not even to finish a packet.
flush_buffer(pieces, finish) ==
    IF Size(pieces) = 0
    THEN {Outcome(pieces, << >>, TRUE)}
    ELSE {Outcome(<< >>, <<[header |-> finish, data |-> pieces]>>, TRUE),
          Outcome(pieces, << >>, FALSE)}

\* Fault: the header's byte is counted as room for data.
FitsWithHeader(pieces, d) == Size(pieces) + d.size <= BUF_LEN + 1

Fits(pieces, d) == Size(pieces) + d.size <= BUF_LEN

\* copy_to_buffer when there is room.
Copied(pieces, d) == IF d.size = 0 THEN pieces ELSE Append(pieces, d)

\* What packet_write does once the buffer was flushed with outcome o: the
\* piece is copied, or sent as a frame of its own, which then has no header.
WriteFlushed(o, d) ==
    IF ~o.ok THEN {o}
    ELSE IF Fits(o.buf, d)
    THEN {[o EXCEPT !.buf = Copied(@, d)]}
    ELSE {[o EXCEPT !.frames = Append(@, [header |-> Null, data |-> <<d>>])],
          [o EXCEPT !.ok = FALSE]}

WriteOutcomes(pieces, d) ==
    IF Fits(pieces, d)
    THEN {Outcome(Copied(pieces, d), << >>, TRUE)}
    ELSE UNION {WriteFlushed(o, d) : o \in flush_buffer(pieces, 0)}

\* packet_start() && packet_write(d) && packet_finish().
WholeOutcomes(d) ==
    UNION {IF ~o.ok THEN {o}
           ELSE {[f EXCEPT !.frames = o.frames \o @] :
                    f \in flush_buffer(o.buf, 1)} : o \in WriteOutcomes(<< >>, d)}

\* A call with outcome o.
Sends(o) ==
    /\ buf' = o.buf
    /\ sent' = sent \o o.frames

\* Fault: what was left in the buffer is not discarded.
StartKeeps == UNCHANGED sendVars

packet_start ==
    /\ buf' = << >>
    /\ UNCHANGED sent

-----------------------------------------------------------------------------
(* The queue. *)

\* packet_queue(d) refuses when a packet is queued or there is no memory.
packet_queue(d, accepted) ==
    /\ accepted => queue = Null
    /\ queue' = IF accepted THEN d ELSE queue
    /\ UNCHANGED <<buf, received_packet, inbox, sent>>

\* Fault: the queued packet is forgotten when it could not be sent.
ForgetAlways(o) == Null

\* The queue after an attempt to send it: on failure, kept for a retry.
QueueAfter(o) == IF o.ok THEN Null ELSE queue

packet_send_queued ==
    /\ IF queue = Null
       THEN UNCHANGED <<buf, sent, queue>>
       ELSE \E o \in WholeOutcomes(queue) :
                Sends(o) /\ queue' = QueueAfter(o)
    /\ UNCHANGED <<received_packet, inbox>>

-----------------------------------------------------------------------------
(* Receiving. *)

\* Fault: a packet of one byte is not taken for one.
IsLongPacket(f) == f.size > 2 /\ f.header = 1

\* A frame of one byte has no room for header and data; of the others only
\* those with header 1, whole packets, are packets.
IsPacket(f) == f.size > 1 /\ f.header = 1

\* packet_available, all of it: its answer is received_packet # Null.  With a
\* packet waiting, or no frame, nothing happens; otherwise the frame leaves
\* the link, and becomes the packet unless it is none or there is no memory.
packet_available ==
    /\ \/ /\ received_packet # Null \/ inbox = << >>
          /\ UNCHANGED <<received_packet, inbox>>
       \/ /\ received_packet = Null /\ inbox # << >>
          /\ inbox' = Tail(inbox)
          /\ received_packet' \in
                 IF IsPacket(Head(inbox)) THEN {Head(inbox), Null} ELSE {Null}
    /\ UNCHANGED <<buf, queue, sent>>

\* Fault: the packet is returned and kept.
GetKeeps == UNCHANGED packetVars

\* The packet now belongs to the caller.
packet_get_next ==
    /\ received_packet' = Null
    /\ UNCHANGED <<buf, queue, inbox, sent>>
=============================================================================
