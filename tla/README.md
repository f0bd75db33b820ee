# Verification of sancus-support in TLA+

`sancus-support` is the runtime of a Sancus node: a C library for a 16-bit
MSP430 with protected modules. A host sends commands in packets over a UART;
the node loads modules into its memory, calls them and answers. This directory
models that code, checks the models with TLC on small instances and proves
theorems with TLAPS, for all sizes: about the allocator, the receive ring, COBS,
the link, the event loop with its packets and commands, the console, and the
loader with the list of modules. The repository has no tests; the models are
written from the C source, and every definition that stands for code is listed
with its lines in `PROJECT.json` under `map`.

Paths below are relative to the root of the repository (in `PROJECT.json` they
have the prefix `src/`).

## 1. The system

| part | code | state | operations | used by |
|---|---|---|---|---|
| malloc | `src/malloc/malloc.c` | headers in the pool, `freep`, `pool_free_pos` | `malloc`, `free`, `get_mem_from_pool` | everything that allocates |
| uart | `src/dev/uart.c` | `rx_buffer`, `rx_head`, `rx_tail`, `receive_cb` | receive interrupt, `uart_available`, `uart_read_byte`, writers | link (as its PHY), tools, PS/2 callbacks |
| cobs | `src/link/cobs.c` | none | `cobs_encode`, `cobs_decode` | link |
| link | `src/link/link.c` | `buffer`, `buffer_len`, `buffer_pos`, `frames_head` | `link_send_frame`, `link_frames_available`, `link_get_next_frame`, `link_free_frame` | packet |
| packet | `src/packet/packet.c` | `packet.buf`, `buf_pos`, `queue`, `received_packet` | `packet_start`/`write`/`finish`, `packet_queue`, `packet_send_queued`, `packet_available`, `packet_get_next` | event loop, tick callback |
| event loop | `src/event-loop/event_loop.c` | none across iterations | `event_loop_start`, `handle_command`, seven handlers | `main` |
| tools | `src/tools/tools.c` | `printf_buf`, a `ParseState` per command | parser, `read_string`, `cb_printf` | event loop, applications |
| symbol table | `src/loader/global_symtab.c` | list of symbols with owners | add, look up, enumerate, remove by owner | ELF loader, module control |
| program memory | `src/loader/pmem.c` | `heap` | `pmem_malloc`, `pmem_free` (empty) | ELF loader |
| ELF loader | `src/loader/elf.c` | none | `elf_load`, `elf_unload` | module control |
| module control | `src/sm-control/sm_control.c` | `sm_head` | `sm_load`, `sm_call_id`, `sm_register_existing` | event loop |
| keypad | `src/dev/pmodkypd.c` | `current_key_state` | `pmodkypd_poll` | applications |
| PS/2, main | `src/dev/ps2.c`, `src/main/main.c` | two callbacks | key interrupt, which writes to the UART | hardware |
| spi | `src/dev/spi.c` | a control register | select, deselect, transfer | PMOD CLS, applications |
| sancus-step | `src/sancus-step/sancus_step.c` and `.h` | measurements and flags shared with the timer interrupt | `__ss_start`, the interrupt entry | attack experiments |
| stateless output | `timer.c`, `led_digits.c`, `pmodcls.c`, `fileio.c`, `sm_io.c` | registers only | | |
| host tools | `tools/generate-symtab.py`, `src/main/upload_sm.py`, CMake | | | build |

How they interact. A received byte raises an interrupt, whose handler calls
`receive_cb`, by default `uart_append_byte`. The main program is one thread:
`event_loop_start` polls `packet_available`, which polls the link, which reads
what the ring holds; a frame that is complete is decoded and queued, and becomes
a packet if it has header 1. `handle_command` answers through `packet_write` and
`packet_finish`; the tick callback and the one-packet queue use the same send
buffer. All memory comes from one `malloc`, whose failure each layer handles in
its own way. Layers are tied by tables of function pointers (`PhyApi`,
`LinkApi`); the `main.c` of the repository fills neither, applications do.

What is hard:

* *interleaving*: the interrupt against the reader of the ring; bytes that
  arrive between any two steps of the framing code;
* *partial failure*: every allocation may fail, at a point where other state has
  been changed already, with the state surviving until the next poll;
* *loss*: the ring drops when it is full, so frames arrive damaged or merged;
* *two writers*: the key interrupt writes to the UART that the main program is
  writing to;
* *protocol*: free-list shapes that only long call sequences make; packets that
  are abandoned, retried or interleaved with replies in one buffer;
* *16-bit arithmetic and boundaries*: sizes, blocks of 254 bytes, ring indices.

What makes each part correct is stated with its properties in section 3; the
hazards are listed line by line in `PROJECT.json`.

## 2. Modules

| module | models | form |
|---|---|---|
| `Heap` | what `malloc` and `free` promise | abstract: live pointers own disjoint regions |
| `Malloc` | `malloc.c` | one action per loop iteration; implements `Heap` |
| `MallocProofs` | | theorems about `Malloc` |
| `Fifo` | what the receive ring promises | abstract bounded queue that drops when full |
| `Uart` | receive half of `uart.c` | hardware, interrupt and reader; implements `Fifo` |
| `UartProofs` | | theorems about `Uart` |
| `Cobs` | `cobs.c` | one action per loop iteration of encoder and decoder |
| `CobsProofs` | | theorems about `Cobs` |
| `Subsequence` | | what is left of a sequence when places are dropped, as a recursive function |
| `SubsequenceProofs` | | lemmas about it, and the least number principle |
| `Link` | `link.c` | sender, line, receiver, its memory |
| `LinkProofs` | | theorems about `Link` |
| `UartTx` | transmit half of `uart.c` | the two steps of `uart_write_byte`, and the UART |
| `CbPrintf` | `cb_printf` of `tools.c` | what it does before and after its callback |
| `Keypad` | `pmodkypd.c` | samples of the keys and what is reported of them |
| `Console` | `ps2.c` and `main.c`, with the three above | a program that polls and prints, and the key interrupt |
| `ConsoleProofs` | | theorems about `Console` |
| `Packet` | `packet.c` | operations on its state, as actions and as sets of outcomes |
| `Commands` | parser of `tools.c`, handlers of `event_loop.c` | operators from the bytes of a packet to what is done; the host's encoding |
| `SmTable` | what `sm_control.h` promises | abstract: each module is found by an id of its own |
| `EventLoop` | `event_loop.c`, with `Packet`, `Commands` and `SmTable` | the loop, `handle_command`, tick callback |
| `EventLoopProofs` | | theorems about `EventLoop` with `Packet` and `Commands` |
| `Pmem` | `pmem.c` | the bump allocator of program memory |
| `Symtab` | `global_symtab.c` | the list of symbols with owners |
| `Totals` | | sums and concatenations of a sequence, as recursive functions |
| `Elf` | `elf.c`, with `Pmem` and `Symtab` | the phases of `elf_load`; `elf_unload` |
| `SmControl` | `sm_control.c`, with `Elf` | `sm_load`, registration, the clients of `elf.h`; implements `SmTable` |
| `SmControlProofs` | | theorems about `SmControl` |
| `MC*` | | instances for TLC |

A definition named "Fault: ..." in its comment is a plausible bug in the
definition after it; replacing one by the other must break the property that
`PROJECT.json` names, and shows that the property sees the code.

**Malloc.** Addresses count quantas of four bytes (the size of a header), which
is how the code's pointer arithmetic works; byte counts are `% 2^16`. `pc` says
whether the program is outside the allocator, in `malloc`'s walk (`"search"`) or
in `free`'s scan (`"scan"`); `inner` marks the `free` that `get_mem_from_pool`
calls. `Insert` is the whole end of `free`, both merges included, and the return
to `get_mem_from_pool` when it was the caller. `live` and `avail` are auxiliary:
the pointers that callers hold, and the addresses on the ring. Fields that the
code leaves stale and never reads are set to 0, which only makes fewer states.
Callers are well behaved (they free once what they were given and stay inside
it); the canary and the trace tables only print.

**Uart.** The steps of the reader are the accesses to `rx_head`, `rx_tail` and a
slot, because those are what the interrupt changes; the handler is two steps,
the second being the write to the pending flag, because the hardware may set the
flag in between. That the byte which arrives there is lost is part of the model:
`Fifo` is about the bytes that `uart_append_byte` was given. Bytes are numbered,
so that loss, duplication and reordering are visible.

**Cobs.** A full block is `MaxCode` instead of 0xff. The pointers `src`, `dst`
and `code_ptr` are indices, and the size of the output is that of what was
written. An initial state takes a message, which is encoded and decoded again,
or an arbitrary input to the decoder.

**Link.** A byte is its frame and its place in it; whether it is zero follows.
The line may drop any `MaxLosses` bytes. `content` is the part of `buffer` up to
`buffer_pos`. Blocks of memory have names, the least one not in use, so that a
block freed too early is given to somebody else, as on the real heap. One action
per loop iteration, and one per allocation, with its failure as a disjunct if
the site is in `OomSites`. `Decode` accepts an encoding that arrived whole, and
may accept or refuse anything else: the protocol has no checksum. Growth of
`buffer_len` beyond 2^16 is not modelled, as the pool is 16 KiB.

**Packet and EventLoop.** What is sent is kept as pieces (what each
`packet_write` was given). A call that sends has a set of outcomes, since
`link.send_frame` may fail; `packet_send_queued` is the composition of three
calls. A frame enters the link's list only inside `packet_available`
(`read_phy` is called from nowhere else), so frames arrive at `pc = "poll"`. The
tick callback belongs to the
application and is modelled as a caller that obeys return values, as
`packet_send_queued` does; handlers ignore them, as the code does.
`create_parse_state` does not check its allocation; the model assumes it
succeeds. Constants say what the host may send: `Requests` are its commands, and
`EventLoopAssumption` that each can be encoded in a packet (`HostCommand`), that a
frame with header 1 holds the encoding of one of them or no command
(`NoRequest`: it is empty, begins with no command, or is a command cut short),
and that data is bytes and fits 16 bits. Of frames with header 0 nothing is
assumed.

**Commands.** Nothing interrupts a handler while it parses its packet, so the
parser and the handlers are operators on a `ParseState`; values that a parser
returns are kept in it. Bytes behind the packet are a value of their own,
`Garbage`, and a state that left the packet behind is seen by `inside`. What a
handler does is the function it calls in the end with its numbers and bytes;
console output is left out. `Encode` is the host's side: for a module load it is
what `src/main/upload_sm.py:29-36` writes (`upload_sm`), for the rest what the
handlers read. As
the answer depends on the bytes only, `FrameArrives` works it out and
`RunCommand` uses it. `sm_load` is known to the event loop by `SmTable` alone: it
returns 0, or an id not in use. That this is what it does is `TableSpec`, checked
of `SmControl`.

**UartTx, CbPrintf, Keypad, Console.** The repository's own `main` has the key
interrupt and no keypad; keypad and `cb_printf` are libraries without a caller.
`Console` is a client that uses all of them in the obvious way: in each round it
installs one of two printf callbacks, polls the keypad with callbacks that print
two characters, and may finish the output and flush the UART. The main program
is split at every access to the UART's registers and at each column of a sample;
the interrupt runs between any two of these steps, to its end, and writes when
there is room (during its own wait only the UART acts, which makes room). A byte
written to a full UART is lost. Characters printed by a callback of `cb_printf`
itself, and printing before the first `cb_printf_init`, which would call a null
pointer, are uses the code does not allow for and the client does not make.

**Pmem, Symtab, Elf, SmControl.** One thread loads modules; what is hard is
that each phase of a load changes state that outlives it. `pc` is the phase
that comes next; `modules` maps the addresses of allocated `ElfModule`s, which
`malloc` uses again, to what the code keeps there and, as auxiliary, to the
sections and the words that relocations wrote. Addresses are numbers, so that
alignment, the end of ROM and the 16-bit overflow test are those of the code;
the contents of sections are left out. Addresses of symbols and words are sums
modulo 2^16. What the sections before one take is a
running total of the file's sizes. `update_global_symtab` is at a place
`<<section, symbol>>` of the file, with symbol 0 for the section itself; one action
adds the symbol at that place, with three
ways to fail: no value, no memory for the node, no memory for its name. After
the last, `add_symbol` (`global_symtab.c:115`) calls `free` on the address of a
link of the list and leaves an uninitialised node in it; the behaviour is
undefined, and the model stops in `pc = "undefined"`. External are `malloc` for
data memory (any free address of a set), the processor (`sancus_enable` refuses
overlap, an empty region and a full table) and the clients of `elf.h`: they load
files themselves and unload only what they were given and nothing refers to.
Nobody else calls `elf_unload` on a module with symbols. Callers of
`sm_register_existing` register a module once: the code (`sm_control.c:121-135`)
does not look whether the id is in the list already, and this is a precondition
on which `TableSpec` rests. (Of two entries with one id the second is never
found.) The copy that `register_sm` makes of the name is not freed when it
refuses the module; the model has no heap for names, and this leak is not in it. Files come from the tool
chain: `WellFormed` says that their indices lie in the file and that the sizes
of the sections for one memory add up to less than 2^16. `SmControlAssumption`
adds that data memory ends below program memory, as on the MSP430, that the
processor's table has room for the modules linked into the program, and that
symbols linked into it belong to no module.

## 3. What is checked

Twelve runs. TLC finishes each passing run; every action fires in one.

| run | instance | what it shows |
|---|---|---|
| `malloc` | pool of 36 bytes = 9 quantas, growth by at least 3, requests of 0, 4, 8, 13 bytes | type and pointer ranges; `Tiling`: blocks partition what was carved from the pool, in mid-call too; `EnoughRoom`; `SortedRing`; `Coalesced`; `LastResort`: pool and refusal only when no free block fits, growth leads to success; `Returns`: both loops end; `HeapSpec`: refinement of `Heap` |
| `malloc_wrap` | adds a request of 65535 bytes | **violated**: `EnoughRoom` (finding 1) |
| `uart` | ring of 3 slots, 6 bytes | `FifoSpec`: refinement of `Fifo`; `AvailableIsPromise`; `ReadReturns` |
| `cobs` | full block of two bytes, all messages over {0, 2} up to 7, all inputs over 0..3 up to 5 | `RoundTrip`; `EncodingFramed`: no zero byte, fits `cobs_max_encoded_len`; `DecodeInBounds`; `Terminates` |
| `link` | 3 frames, empty or of three bytes, buffer sizes 1, 2, 3, 4, one byte lost, allocations fail anywhere but in `realloc_buffer` | buffer bound in `TypeOK`; `Ownership`: every block has one owner on all error paths; `InOrder`; `FramesAsSent`; `Recovers` |
| `link_realloc` | `realloc_buffer` fails | **violated**: `PartialFrameHasBuffer` (finding 2) |
| `link_merge` | `new_frame` fails | **violated**: `NeverMerged` (finding 3) |
| `event_loop` | buffer of 2 bytes, pieces of 1 and 2 from the tick callback, replies of 1 to 3; thirteen frames: each command, loads of two files, commands cut short, frames without one; three frames or packets of the tick callback in all | no read behind the packet, in `TypeOK`; `FinishedWhole`: a finished packet is on the line whole, once, unmixed; `QueuedOnce`; `InOrder`; `CarriedOut`: what is done is what the host encoded, nothing is done for a command cut short, and the id in the answer to a load names that module and no other; `Handled` |
| `event_loop_header` | same | **violated**: `EveryFrameHasHeader` (finding 4) |
| `loader` | three loads, under two names or by clients, of two modules, a library that refers to one and four refused files; ROM for three, RAM for two, one failed allocation | `Owned`: every `ElfModule` has one owner, error paths leave none behind, and only they own symbols; `NoOverlap`: sections are apart and aligned; `RefsBound`: relocated words keep meaning what their names mean; `LayoutsKept`: what is protected for a registered module stays what its name delimits, and no name is registered twice; `TableSpec`: refinement of `SmTable` |
| `loader_layout` | same as `loader` | **violated**: `OwnLayout` (finding 5) |
| `console` | two keys in two columns, a printf buffer of 3 characters, a UART that holds two bytes; three moves of keys or scan codes in all | `KeyEventsWhole`: both bytes of a key event are sent, together; `TextDelivered`: text loses a byte only where a key event came in between, and one at most; `TextWhole`: no character is lost, repeated or given to the wrong callback; `Alternate`: press and release alternate and agree with `current_key_state`; `CatchesUp`: the last event says what the key is |

Why the bounds are enough. *malloc*: nine quantas hold four live blocks with
free blocks between, below, above and next to them, two growths and an exhausted
pool, and the requests fit a block exactly, leave a rest, and round up. *uart*:
three slots are empty, half full and full, six bytes take the indices twice
round the ring. *cobs*: seven bytes hold three full blocks, each followed by a
zero, a byte or the end. *link*: three frames are needed for an error in one to
show in its successor and spare the next; the buffer doubles once and then grows
by steps. *event loop*: pieces that leave room, fill the buffer and exceed it;
three frames are two loads, or a load and its refusal, and a call, and in three
packets every mix of replies and packets of the callback, sent or queued,
competes for the buffer. Ids are 1 and 258, of which one needs both bytes. *console*: a message of
two characters overruns a buffer of three in its second use, a key event fills
the UART, and three inputs are a press, a release and a press, two keys, or key
events before, within and after a message.
*loader*: three loads are the least with a first definition of a name, a second
one, and a user of it, or with a module that failed to register, its successor
of the same name, and another; two names are a file loaded under its own and
under that of the other; sizes that alignment has to round, a request that
wraps, ROM and RAM exhausted in turn, and a failure at any one allocation. The
addresses of `ElfModule`s are symmetric.

Fairness. *malloc*, *cobs*: sequential code that has been entered goes on (`WF`
on its own steps; callers need not call). *uart*: `WF` on the handler, `SF` on
the reader, since the MSP430 executes an instruction of the interrupted program
between two interrupts; nobody has to call and no byte has to come. *link*: the
sender finishes the frame it began to write, the receiver keeps polling and asks
for a frame again and again (`SF`), because the event loop does and
`receive_packet` takes a frame whenever it is told of one. *event loop*: `WF` on
the loop, which is `while (1)`; the callback returns. *console*: `WF` on the UART,
on the interrupt and on the main program; within the bound keys and scan codes
come to an end, as they do on a keyboard that is far slower than the UART. Nothing
is assumed of sends, allocations or arrivals.

Deadlock is not checked for `uart`, where a reader of an empty ring waits for
ever (`uart.c:71`, and arrivals are bounded), for `cobs`, which returns, and for
`loader`, which stops after the last load.

### Findings

1. `malloc.c:291`: `nbytes + sizeof(mem_header_t) - 1` wraps for requests near
   2^16; the block returned does not house the request.
2. `link.c:74-78`: `realloc_buffer` frees the buffer and does not clear the
   pointer; `has_partial_frame` is then true and the block is used and freed
   again. The passing `link` run leaves this failure out.
3. `link.c:187-190`: when a complete frame cannot be allocated it is kept, and
   the next frame's first zero byte ends it again; if that fails too, the next
   frame is appended to it. In the `link` run this failure is included, and the
   frames it hit are exempt from `FramesAsSent`.
4. `packet.c:84`: data larger than the buffer is sent without the header byte
   that every frame has.
5. `sm_control.c:151-155`: a module that cannot be registered is not unloaded, so
   its memory and its symbols stay. The next module loaded under that name is
   reported as "successfully registered", with the layout that those symbols
   delimit: the processor protects the memory of the first, and the second is
   unprotected. A file loaded under the wrong name, which is refused for want of
   symbols of that name, has the same effect on later loads of its own name.

Seen while modelling, and not runs of their own: a module called with more than
four arguments gets 2 for the length of its buffer, because `nargs` is set before
it is copied (`event_loop.c:125-127`). A key event can come within a frame or a
message on the same UART, and a text byte can be lost to it (`uart.c:55-58`).
`pmodkypd_key_is_pressed` still says no within the press callback of that key
(`pmodkypd.c:81`). `upload_sm.py` sends a command without the frame around it.
With a packet waiting, `receive_packet` reports "Dropping packet because buffer is full"
(`packet.c:145-149`) and drops none, as the frame stays in the link; the event
loop always takes the packet first. `elf_load` ignores that
`update_global_symtab` failed (`elf.c:580`): a module with part of its symbols is
reported as loaded, and perhaps registered; the `loader` run includes that.
Relocations of a section that is not loaded (debugging information) are applied
all the same, from its load address NULL (`elf.c:188`, `elf.c:373`), and so
overwrite the bottom of memory; the files of the run have none. Data memory that
cannot be had costs the program memory allocated before (`pmem_free` is empty).

## 4. What is proved

Eight modules of proofs, one of them of lemmas only; their theorems, with the properties of the runs they
state, are listed in `PROJECT.json`. They hold for every value of the constants
that satisfies the named `ASSUME` of the component (TLC evaluates these for each
instance), and in two places need a hypothesis that the code does not enforce,
which is why it is not an assumption:

* `MallocProofs`: `RequestsFit`, no request makes a 16-bit sum wrap. Finding 1 is
  what happens without it.
* `LinkProofs`: `GrowthSucceeds`, `realloc_buffer` is not refused memory. All other
  allocations may fail at any time. Finding 2 is what happens without it: the
  buffer is used after it was freed, and neither ownership nor order is left.

| module | theorem | statement |
|---|---|---|
| `MallocProofs` | `Invariance` | `Spec => []IInv` |
| | `TypeCorrect`, `TilingHolds`, `EnoughRoomHolds` | `Spec => []TypeOK`, `[]Tiling`, `[]EnoughRoom` |
| | `RingHolds`, `CoalescedHolds` | `Spec => [](SortedRing /\ Coalesced)`, `[]Coalesced` |
| | `LastResortHolds` | `Spec => LastResort`, an action property |
| | `ImplementsHeap` | `Spec => HeapSpec`, a refinement |
| `UartProofs` | `Invariant`, `TypeCorrect`, `PromiseKept` | `Spec => []IInv`, `[]TypeOK`, `[]AvailableIsPromise` |
| | `RingIsFifo` | `Spec => FifoSpec`, a refinement |
| `CobsProofs` | `Invariant`, `TypeCorrect` | `Spec => []IInv`, `[]TypeOK` |
| | `EncodingFits`, `DecodingFits`, `MessageComesBack` | `Spec => []EncodingFramed`, `[]DecodeInBounds`, `[]RoundTrip` |
| `LinkProofs` | `Invariant`, `TypeCorrect` | `Spec => []IInv`, `[]TypeOK` |
| | `OwnershipKept`, `BytesInOrder`, `FramesWhole` | `Spec => []Ownership`, `[]InOrder`, `[]FramesAsSent` |
| `EventLoopProofs` | `Invariant`, `TypeCorrect` | `Spec => []Inv`, `[]TypeOK` |
| | `PacketsWhole`, `QueueOnce` | `Spec => []FinishedWhole`, `[]QueuedOnce` |
| | `CommandsInOrder`, `CommandsCarriedOut` | `Spec => []InOrder`, `[]CarriedOut` |
| | `DispatchInside` | no handler reads behind its packet, whatever the bytes |
| | `DispatchAsked`, `DispatchNothing` | the handlers undo the host's encoding; they do nothing for what is cut short |
| `ConsoleProofs` | `Invariant`, `TypeCorrect` | `Spec => []IInv`, `[]TypeOK` |
| | `KeysWhole`, `TextArrives`, `TextKept`, `EventsAlternate` | `Spec => []KeyEventsWhole`, `[]TextDelivered`, `[]TextWhole`, `[]Alternate` |
| `SmControlProofs` | `Invariant`, `TypeCorrect` | `Spec => []IInv`, `[]TypeOK` |
| | `OneOwner`, `SectionsApart`, `WordsStayRight` | `Spec => []Owned`, `[]NoOverlap`, `[]RefsBound` |
| | `IdsKept` | `Spec => TableSpec`, a refinement |
| | `NamesKept` | `Spec => []LayoutsKept` |

Each `IInv` (`Inv` for the event loop) is a conjunction of named parts, with a comment for each. The
arguments:

**Malloc.** The checked invariants are not inductive one by one: that a freed
block overlaps nothing needs the tiling, that its place in the ring is found
needs the ring to be sorted, that only two merges are enough needs no free
blocks to be adjacent before, and that a split leaves a usable head needs the
sizes. `IInv` is their conjunction with the facts about the calls in progress:
`PcInv` (which locals mean something, and that `p` and `q` stand on the ring),
`InnerInv` (the block being linked by `get_mem_from_pool` is the one just above
what was carved), and `WalkSound` (`prevp` is the predecessor of `p`, and what
the walk has passed does not fit). One lemma per action shows that it preserves
`IInv`; the one for `Insert` rests on `Place`, that the scan stops at the
neighbours of the block, and on `LinkTiling` and `LinkRing`, what linking and
merging do to the blocks and to the ring. `LastResortHolds` uses `CameRound`: a
walk that is back at `freep` has passed every other block. `ImplementsHeap` maps
`held` to `live`; the returned block was free or just carved, so it is apart
from every live one.

**Uart.** `ReaderInv` is why no lock is needed: the interrupt changes neither
`rx_tail` nor the slot that it points at, so what the reader has read of both is
still true when it uses it; `rx_head` may have moved, but only away. `BudgetInv`
says that of what `uart_available` has computed. With `QueueIs` (the bytes in
the ring from `rx_tail` to `rx_head`) every step is one of `Fifo` or none.

**Cobs.** `BoundInv` counts what the encoder has written against what it has
read, which bounds the output. `TripInv` gives the round trip without recursion:
`Blocks` says of two sequences and of the places where blocks begin that one is
the encoding of the other, by a statement about each block alone. The encoder
extends such an encoding by its last block, the decoder reads a prefix of one,
and the loops agree at every block's end.

**Link.** `IInv` is `TypeInv`, `OwnInv` (each allocated block is the buffer, a
frame, an element of the list, or what the current call has in its hands, by
`pc`), `OrderInv` (what was delivered, what is in the list, in the buffer, in the
UART and unsent is, in this order, a part of what was sent) and `WholeInv` (the
buffer holds the first bytes of a frame whose next byte is the next to be read,
unless something of it was lost or an allocation failed). Each of the last three
needs the first, and none of the others.

**Commands.** A parser that succeeds leaves a state `At` a place of the packet, one
that fails leaves it `Fallen` where it was; so the rest of the packet is never
negative, and every byte read is one of it. If the bytes at a place are the
encoding of a number, a name or raw data (`Holds`), the parser there returns just
that and stands behind it. Both facts are carried through the parsers of each
handler. A packet cut short is treated in the same proof: where the next encoding
no longer fits the rest, the parser fails, and so does all that follows.

**Packet and EventLoop.** `FinishedWhole` and `QueuedOnce` speak of all frames ever
sent, and no send can be seen to keep them without knowing what is in the one
buffer. `BuildInv` says that: of the packet in progress, the pieces that are not
in frames on the line, all with header 0, are in the buffer, and nothing else is;
`packet_start` makes it true whatever was abandoned before. `SentInv` says that a
frame holds pieces of one packet, which has begun, and that replies, alone in
their frames, have rising numbers. `FinishedInv` adds that finished packets are
over, so that no later frame has pieces of theirs, and `QueueInv` that each queued
packet has a number of its own, so that the frame that empties the queue is the
first with it. `InboxInv` (the link's list is the end of what arrived) and
`DoneInv` give the order of commands; `BufferInv` is the bound, and needs that
sizes add up (`Totals`). `TableInv` says that the modules in the table are those
that loads have answered for, each under one number, which with the lemmas about
commands is `CarriedOut`.

**Console.** `LineInv` describes what is on the wire, with the first byte of a key
event possibly still without the second while the handler waits; text can only
be lost between the test for room and the write, and `FullInv` says that a full
UART means a key event has just filled it. `TextWhole` relates the characters
given to `cb_printf` to those on the wire, with the buffer in between, and is
preserved once the types are known (`OutputInv`: the buffer is full only while
the callback has it). `AgreeInv` says that the events printed of a key end with
what `current_key_state` has of it, or, once the loop of this poll has told of
it, what the new sample has; `TextInv` is about the message being printed.

**SmControl.** `IInv` is `CoreInv`, `OwnInv`, `TableInv` and `RefInv`. `CoreInv` has
the types, the phase, and for each module where its blocks lie (`Placed`):
program memory of two modules is apart because the heap only grows, data memory
because `malloc` says so (`NoShare`). `SectionsApart` then needs running totals:
each section starts, aligned, within the part of the block that `get_alloc_size`
set aside for it, and ROM and RAM are apart. `OwnInv` follows each `ElfModule`
through the phases. `RefInv` says for each relocated word (`WordInv`) that its name
still finds a symbol with the value and the owner it was resolved to. Symbols
are added at the end, so what was found first still is (`FoundStays`), whether
the module of the word is complete or fails in a later phase; a removal takes
only symbols that no word of another module refers to (`FoundKept`). That
removals keep the order and all other symbols is `Keep` of `Subsequence`.
`TableInv` says that ids are those that the processor has given, each at most
once, which makes every registration a step of `SmTable`. `LayoutInv` says that the
layout of a registered module is still what its name finds (`Protected`), since
nobody unloads a module whose symbols are in use; the processor refuses a layout
that overlaps itself, so a name that is registered is not registered again. Whose
symbols they are it does not say, and finding 5 is why it cannot.

The library's induction theorems take an operator as a parameter, which these
provers cannot use. Where a fact needs induction over a number (running totals,
the length of what is kept of a sequence) it is proved from `Least` in
`SubsequenceProofs`: a set of numbers that is not empty has a least one, so take
the least counterexample.

Only model-checked is liveness (`Returns`, `ReadReturns`, `Terminates`, `Recovers`,
`Handled`, `CatchesUp`), which is beyond TLAPS. Every invariant and every action
property of a passing run is proved.

## 5. Not modelled

Left out, and why:

* the assembly that enters a protected module, and the protection hardware: not
  in the C code;
* `sancus-step`: its results are differences of cycle counts, and its interrupt
  entry decides by where the processor was after that many cycles. A model
  without the timing of every instruction would assume what the code measures;
* `timer`, `spi`, `led_digits`, `pmodcls`, `fileio`, `sm_io`: registers and
  output, no state of their own and nothing that runs beside them. (`putchar` of
  `sm_io.c` and of `main.c`, and `lcd_uart_write_byte`, wait and write as
  `uart_write_byte` does.) `spi_deselect` has no effect, as `spi_select(0)` only
  sets bits;
* `read_string` (`tools.c:27-57`): its first step copies from a null pointer, and
  nothing calls it; likewise what `create_parse_state` does when `malloc` fails;
* the canary and the trace tables of `malloc`, which are for debugging: with a
  table of blocks beside the heap the state space no longer fits a run;
* the layout of ELF structures, console output, and the build scripts.

## 6. Running

    tlc -workers 2 -config MCMalloc.cfg MCMalloc
    tlapm MallocProofs.tla

and likewise for the other configurations and modules of proofs. The longest run
takes about a minute on two cores, the longest proof some minutes.
