----------------------------- MODULE EventLoop -----------------------------
(***************************************************************************)
(* The event loop, src/event-loop/event_loop.c, over the packet layer:     *)
(* event_loop_start polls for a packet, handles the command in it, calls   *)
(* the tick callback and sends what is queued, for ever.                   *)
(*                                                                         *)
(* What a command makes the handlers do is in module Commands, and         *)
(* sm_load is known by what it promises, module SmTable, which SmControl   *)
(* implements.  The tick callback is the application's: it may queue       *)
(* packets, and send some of its own the way packet_send_queued does,      *)
(* giving up at the first call that fails.                                 *)
(***************************************************************************)
EXTENDS Packet, Commands, Subsequence

CONSTANTS
    Requests,   \* the commands that the host may send
    Incoming,   \* frames that may arrive: header, data, and the command that
                \* the host encoded there, Null if it encoded none
    Ids,        \* ids that sm_load may give to a module
    Modules,    \* files that sm_load may be given
    Text,       \* for each of them, the public section of the module
    Sizes,      \* sizes of the pieces the tick callback writes and queues
    MaxWork,    \* bound: frames that arrive, and packets the tick callback
                \* sends or queues, in all
    MaxPieces   \* bound: pieces in each of those it sends

\* A packet without a command: it is empty, begins with no command, or ends
\* before the command does.  (Of the bytes of an echo, some are an echo.)
NoRequest(data) ==
    \/ data = << >>
    \/ data[1] \notin CommandBytes
    \/ \E c \in Requests :
          /\ c.op # "packet_write"
          /\ \E n \in 0..(Len(Encode(c)) - 1) : data = SubSeq(Encode(c), 1, n)

ASSUME EventLoopAssumption ==
    /\ MaxWork \in Nat /\ MaxPieces \in Nat /\ Sizes \subseteq Nat
    /\ Ids \subseteq Numbers \ {0} /\ Text \in [Modules -> Seq(Byte)]
    /\ \A c \in Requests :
          /\ HostCommand(c)
          /\ c.op = "sm_load" => c.bytes[2] \in Modules
    /\ \A f \in Incoming :
          /\ f.header \in {0, 1} /\ f.data \in Seq(Byte) /\ Len(f.data) \in Numbers
          /\ f.header = 1 => IF f.cmd = Null THEN NoRequest(f.data)
                             ELSE f.cmd \in Requests /\ f.data = Encode(f.cmd)
    /\ Null \notin [from : {"reply", "tick", "queue"}, id : Nat, part : Nat, size : Nat]

VARIABLES
    pc,       \* "poll", "get", "start", "command", "finish", "tick",
              \* "write" (in the tick callback), "queued"
    command,  \* the packet being done, or Null
    sms,      \* the modules that have been loaded
    arrived,  \* history: the frames that arrived
    oom,      \* history: packets dropped because of OOM
    done,     \* history: the commands done, and what was done
    ticks,    \* number of packets the tick callback started or queued
    pieces,   \* history: what was written to the packet in progress
    finished, \* history: what was written to the packets finished
    accepted  \* history: the pieces that packet_queue took

history == <<arrived, oom, done, ticks, pieces, finished, accepted>>
vars == <<packetVars, pc, command, sms, history>>

Table == INSTANCE SmTable WITH table <- sms

Init ==
    /\ PacketInit
    /\ pc = "poll" /\ command = Null /\ Table!Init
    /\ arrived = << >> /\ oom = {} /\ done = << >>
    /\ ticks = 0 /\ pieces = << >> /\ finished = {} /\ accepted = {}

Piece(from, id, part, size) ==
    [from |-> from, id |-> id, part |-> part, size |-> size]

-----------------------------------------------------------------------------
(* The link receives a frame: it only reads the line when it is asked for  *)
(* frames, in packet_available (link.c:248-258, packet.c:151-154).  What    *)
(* the handlers will do with it, which depends on its bytes only, is kept   *)
(* beside it for RunCommand.                                                *)

FrameArrives(f) ==
    /\ pc = "poll"
    /\ Len(arrived) + ticks < MaxWork
    /\ arrived' = Append(arrived, [frame |-> f, does |-> Dispatch(f.data)])
    /\ inbox' = Append(inbox, [id |-> Len(arrived) + 1, header |-> f.header,
                               size |-> Len(f.data) + 1])
    /\ UNCHANGED <<buf, queue, received_packet, sent, pc, command, sms, oom,
                   done, ticks, pieces, finished, accepted>>

-----------------------------------------------------------------------------
(* event_loop_start and handle_command. *)

Poll ==
    /\ pc = "poll"
    /\ packet_available
    /\ pc' = IF received_packet' # Null THEN "get" ELSE "tick"
    /\ oom' = IF inbox' # inbox /\ IsPacket(Head(inbox)) /\ received_packet' = Null
              THEN oom \cup {Head(inbox).id} ELSE oom
    /\ UNCHANGED <<command, sms, arrived, done, ticks, pieces, finished,
                   accepted>>

GetCommand ==
    /\ pc = "get"
    /\ command' = received_packet
    /\ packet_get_next
    /\ pc' = "start"
    /\ UNCHANGED <<sms, history>>

StartReply ==
    /\ pc = "start"
    /\ packet_start
    /\ pieces' = << >>
    /\ pc' = "command"
    /\ UNCHANGED <<queue, received_packet, inbox, command, sms, arrived, oom,
                   done, ticks, finished, accepted>>

\* What sm_load may return: 0, or an id that is not in use.
Results(c) ==
    IF c.op = "sm_load" /\ c.ok
    THEN {0} \cup {id \in Ids : Table!Found(id) = {}} ELSE {0}

\* The module that a command names by its id, if there is one.
Target(c) ==
    IF c.op \in {"sm_call_id", "sm_get_by_id"} /\ c.ok
    THEN Table!Found(c.numbers[1]) ELSE {}

\* What a handler gives to packet_write, or Null: load_sancus_module answers
\* when it could not read its command, too.
Reply(c, result) ==
    CASE c.op = "packet_write" -> c.bytes[1]
      [] c.op = "sm_load" -> <<result \div 256, result % 256>>
      [] c.op = "sm_get_by_id" /\ Target(c) # {} -> Text[CHOOSE m \in Target(c) : TRUE]
      [] OTHER -> Null

\* The handlers do not look at what packet_write returns.
RunCommand ==
    /\ pc = "command"
    /\ \E result \in Results(arrived[command.id].does) :
          LET c == arrived[command.id].does  reply == Reply(c, result) IN
          /\ IF result = 0 THEN UNCHANGED sms ELSE Table!Register(result, c.bytes[2])
          /\ done' = Append(done, [id |-> command.id, call |-> c, result |-> result,
                                   target |-> Target(c), reply |-> reply])
          /\ IF reply = Null THEN UNCHANGED <<sendVars, pieces>>
             ELSE LET d == Piece("reply", command.id, 1, Len(reply)) IN
                  /\ \E o \in WriteOutcomes(buf, d) : Sends(o)
                  /\ pieces' = <<d>>
    /\ pc' = "finish"
    /\ UNCHANGED <<queue, received_packet, inbox, command, arrived, oom,
                   ticks, finished, accepted>>

\* packet_finish, by the event loop or the tick callback.
Finish ==
    \E o \in flush_buffer(buf, 1) :
        /\ Sends(o)
        /\ finished' = IF o.ok THEN finished \cup {pieces} ELSE finished
        /\ pieces' = << >>

\* A packet that could not be finished is freed all the same.
FinishCommand ==
    /\ pc = "finish"
    /\ Finish
    /\ command' = Null
    /\ pc' = "tick"
    /\ UNCHANGED <<queue, received_packet, inbox, sms, arrived, oom, done,
                   ticks, accepted>>

SendQueued ==
    /\ pc = "queued"
    /\ packet_send_queued
    /\ pc' = "poll"
    /\ UNCHANGED <<command, sms, history>>

-----------------------------------------------------------------------------
(* The tick callback. *)

TickStart ==
    /\ pc = "tick"
    /\ Len(arrived) + ticks < MaxWork
    /\ packet_start
    /\ ticks' = ticks + 1
    /\ pieces' = << >>
    /\ pc' = "write"
    /\ UNCHANGED <<queue, received_packet, inbox, command, sms, arrived, oom,
                   done, finished, accepted>>

TickWrite(size) ==
    /\ pc = "write"
    /\ Len(pieces) < MaxPieces
    /\ LET d == Piece("tick", ticks, Len(pieces) + 1, size) IN
       \E o \in WriteOutcomes(buf, d) :
          /\ Sends(o)
          /\ pieces' = IF o.ok THEN Append(pieces, d) ELSE << >>
          /\ pc' = IF o.ok THEN "write" ELSE "tick"
    /\ UNCHANGED <<queue, received_packet, inbox, command, sms, arrived, oom,
                   done, ticks, finished, accepted>>

TickFinish ==
    /\ pc = "write"
    /\ Finish
    /\ pc' = "tick"
    /\ UNCHANGED <<queue, received_packet, inbox, command, sms, arrived, oom,
                   done, ticks, accepted>>

TickQueue(size) ==
    /\ pc = "tick"
    /\ Len(arrived) + ticks < MaxWork
    /\ ticks' = ticks + 1
    /\ LET d == Piece("queue", ticks', 1, size) IN
       \E ok \in BOOLEAN :
          /\ packet_queue(d, ok)
          /\ accepted' = IF ok THEN accepted \cup {d} ELSE accepted
    /\ UNCHANGED <<pc, command, sms, arrived, oom, done, pieces, finished>>

TickReturns ==
    /\ pc = "tick"
    /\ pc' = "queued"
    /\ UNCHANGED <<packetVars, command, sms, history>>

-----------------------------------------------------------------------------
HandleCommand == GetCommand \/ StartReply \/ RunCommand \/ FinishCommand

Tick ==
    \/ TickStart \/ TickFinish \/ TickReturns
    \/ \E size \in Sizes : TickWrite(size) \/ TickQueue(size)

Loop == Poll \/ HandleCommand \/ Tick \/ SendQueued

Next == Loop \/ \E f \in Incoming : FrameArrives(f)

\* The loop runs for ever, and the callback returns.
Spec == Init /\ [][Next]_vars /\ WF_vars(Loop)

-----------------------------------------------------------------------------
(* Properties. *)

AllPieces == [from : {"reply", "tick", "queue"},
              id : 1..MaxWork, part : 1..(MaxPieces + 1),
              size : Nat]
AllFrames == [id : 1..MaxWork, size : Nat, header : {0, 1}]

\* Types, and the bounds of the buffers: what packet_write copies stays inside
\* packet.buf, of which the header is no part (packet.c:16-35), and a handler
\* reads nothing behind the packet (tools.c:112-169).
TypeOK ==
    /\ buf \in Seq(AllPieces) /\ Size(buf) <= BUF_LEN
    /\ queue \in AllPieces \cup {Null}
    /\ {received_packet, command} \subseteq AllFrames \cup {Null}
    /\ inbox \in Seq(AllFrames)
    /\ sent \in Seq([header : {0, 1, Null}, data : Seq(AllPieces)])
    /\ pc \in {"poll", "get", "start", "command", "finish", "tick", "write",
               "queued"}
    /\ \A k \in DOMAIN done : done[k].call.inside
    /\ \A k \in DOMAIN sms : sms[k].id \in Ids
    /\ pc = "get" => received_packet # Null
    /\ pc \in {"start", "command", "finish"} <=> command # Null

SamePacket(d, e) == d.from = e.from /\ d.id = e.id
FramesWith(d) ==
    Keep(sent, {k \in DOMAIN sent : \E i \in DOMAIN sent[k].data : SamePacket(d, sent[k].data[i])})

\* A packet whose packet_finish succeeded is on the line as it was written:
\* its pieces, all of them, once and in order, in frames that hold nothing
\* else, of which the last and no other has header 1.  What an abandoned
\* packet left in the buffer (packet.c:64-68), a failed send and its retry
\* (packet.c:117-135), a command, the callback and the queue that all share
\* the buffer have no part in it.  (Pieces that fit in the buffer; see
\* EveryFrameHasHeader for the others.)
Fitting(p) == \A k \in DOMAIN p : p[k].size \in 1..BUF_LEN
FinishedWhole ==
    \A p \in finished :
        p # << >> /\ Fitting(p) =>
            LET frames == FramesWith(p[1]) IN
            /\ Flatten([k \in DOMAIN frames |-> frames[k].data]) = p
            /\ \A k \in DOMAIN frames :
                   frames[k].header = (IF k = Len(frames) THEN 1 ELSE 0)

\* "If anything went wrong, we'll retry next time" (packet.c:126): a packet
\* that packet_queue took is sent once, in a finished frame of its own, and
\* leaves the queue when that is done and not before.
QueuedOnce ==
    \A d \in accepted :
        d.size \in 1..BUF_LEN =>
            FramesWith(d) = IF queue = d THEN << >>
                            ELSE <<[header |-> 1, data |-> <<d>>]>>

\* Commands are handled in the order in which they arrived, none twice, and
\* their replies are on the line in that order.
IsReply(d) == d.from = "reply"
InOrder ==
    /\ \A k, l \in DOMAIN done : k < l => done[k].id < done[l].id
    /\ \A k, l \in DOMAIN sent : \A i \in DOMAIN sent[k].data, j \in DOMAIN sent[l].data :
          (k < l \/ (k = l /\ i < j)) /\ IsReply(sent[k].data[i]) /\ IsReply(sent[l].data[j])
              => sent[k].data[i].id < sent[l].data[j].id

\* What a command makes the node do is what the host asked for, number for
\* number and byte for byte (but for the length of raw arguments, which the
\* code does not pass on, event_loop.c:125-127); from a packet in which a
\* command is cut short, or that holds none, nothing is done at all.
AsAsked(c, cmd) ==
    /\ c.ok /\ c.op = cmd.op /\ c.bytes = cmd.bytes
    /\ c.numbers = IF cmd.op = "sm_call_id" /\ cmd.bytes # << >>
                   THEN cmd.numbers \o <<2>> ELSE cmd.numbers

\* The number in the reply to a load is what the module is called by: later
\* commands with this number reach the file that was loaded, and no others do.
Answered(d, e) ==
    (d.call.op = "sm_load" /\ d.reply # <<0, 0>> /\ e.call.op \in {"sm_call_id", "sm_get_by_id"}
        /\ e.call.ok /\ e.call.numbers[1] = Number(d.reply))
    => e.target = {d.call.bytes[2]}
CarriedOut ==
    /\ \A k \in DOMAIN done :
          LET d == done[k]  cmd == arrived[d.id].frame.cmd IN
          /\ IF cmd = Null THEN ~d.call.ok ELSE AsAsked(d.call, cmd)
          /\ \A l \in (k + 1)..Len(done) : Answered(d, done[l])
          /\ d.target # {} =>
                 \E j \in 1..(k - 1) : done[j].result # 0 /\ done[j].result = d.call.numbers[1]

\* Every frame that holds a command is handled in the end, unless there was
\* no memory for it: the frames that are no packets, the callback and sends
\* that fail do not stop the loop (event_loop.c:290-297).
IsCommand(n) ==
    /\ n <= Len(arrived)
    /\ arrived[n].frame.data # << >> /\ arrived[n].frame.header = 1
Handled ==
    \A n \in 1..MaxWork :
        IsCommand(n) ~> (n \in oom \/ \E k \in DOMAIN done : done[k].id = n)

-----------------------------------------------------------------------------
(* What the code says of itself and does not do. *)

\* A frame is a header and data (the packed struct, packet.c:16-20), and the
\* receiver takes the first byte of every frame for its header
\* (packet.c:162-164).
EveryFrameHasHeader == \A k \in DOMAIN sent : sent[k].header # Null
=============================================================================
