------------------------------- MODULE Malloc -------------------------------
(***************************************************************************)
(* The allocator of src/malloc/malloc.c, one action per iteration of its   *)
(* loops: malloc's next-fit walk of the free list, get_mem_from_pool with  *)
(* the free() it calls to link the new block, and free's scan for the      *)
(* place where a block goes, with the merges.                              *)
(*                                                                         *)
(* An address is a number of quantas of sizeof(mem_header_t) bytes, the    *)
(* unit of all of the allocator's pointer arithmetic; byte counts          *)
(* (nbytes, pool_free_pos, PoolSize) are size_t, which has 16 bits on the  *)
(* MSP430.  A block's header is the pair next[a], size[a] at its first     *)
(* quanta a, and its user pointer is a + 1.                                *)
(*                                                                         *)
(* Callers are well behaved: they free what malloc returned, once, and do  *)
(* not write outside what they asked for.  The stack canary and the        *)
(* tracing tables only print and are left out.                             *)
(***************************************************************************)
EXTENDS Naturals

CONSTANTS
    PoolSize,   \* POOL_SIZE, in bytes
    MinPool,    \* MIN_POOL_ALLOC_QUANTAS
    Requests    \* the byte counts callers pass to malloc

Word      == 65536  \* values of a size_t
Quanta    == 4      \* sizeof(mem_header_t): a pointer and a size_t
Null      == 0
Base      == 1      \* &base, below the pool (.data precedes __bss_end)
PoolStart == 2      \* pool
PoolEnd   == PoolStart + PoolSize \div Quanta

Addr == {Base} \cup PoolStart..(PoolEnd - 1)

ASSUME MallocAssumption ==
    /\ PoolSize \in Nat /\ PoolSize < Word
    /\ MinPool \in Nat /\ MinPool > 0
    /\ Requests \subseteq 0..(Word - 1)

VARIABLES
    next,           \* header field s.next
    size,           \* header field s.size, in quantas
    freep,          \* where the last search ended; Null before the first call
    pool_free_pos,  \* bytes of the pool handed to the free list so far
    pc,             \* "idle", "search" (malloc's loop) or "scan" (free's loop)
    nbytes, nquantas, prevp, p,  \* locals of malloc
    block, q,       \* locals of free: the block being freed, and its p
    inner,          \* free was called by get_mem_from_pool
    live,           \* auxiliary: user pointer -> bytes requested, until freed
    avail           \* auxiliary: the addresses on the free list

headers == <<next, size>>
callVars == <<nbytes, nquantas, prevp, p>>
freeVars == <<block, q, inner>>
vars == <<next, size, freep, pool_free_pos, pc, nbytes, nquantas, prevp, p,
          block, q, inner, live, avail>>

-----------------------------------------------------------------------------
(* Arithmetic of the request. *)

\* Fault: the request is not rounded up to whole quantas.
QuantasRoundedDown(n) == n \div Quanta + 1

\* Quantas for n bytes and a header, in 16-bit unsigned arithmetic.
Quantas(n) == ((n + Quanta - 1) % Word) \div Quanta + 1

\* What get_mem_from_pool takes from the pool for a request of k quantas.
PoolQuantas(k) == IF k < MinPool THEN MinPool ELSE k

\* Fault: pool_free_pos advances by quantas instead of bytes.
PoolBytesUnscaled(k) == PoolQuantas(k)

PoolBytes(k) == (PoolQuantas(k) * Quanta) % Word

\* Fault: the last block that would just fit is refused.
HasRoomStrict(k) == (pool_free_pos + PoolBytes(k)) % Word < PoolSize

HasRoom(k) == (pool_free_pos + PoolBytes(k)) % Word <= PoolSize

\* First quanta that was never given to the free list.
Top == PoolStart + pool_free_pos \div Quanta

-----------------------------------------------------------------------------
(* A header field that the code never reads before writing it again holds  *)
(* 0 (Null): all of the pool at reset, the header of a block absorbed by   *)
(* another, and next of a block that is in use, which the ring skips.      *)
Init ==
    /\ next = [a \in Addr |-> Null]
    /\ size = [a \in Addr |-> 0]
    /\ freep = Null
    /\ pool_free_pos = 0
    /\ pc = "idle"
    /\ nbytes = 0 /\ nquantas = 0 /\ prevp = Null /\ p = Null
    /\ block = Null /\ q = Null /\ inner = FALSE
    /\ live = [u \in {} |-> 0]
    /\ avail = {}

\* malloc is entered: the size of the request, and where the walk starts.
\* The first call makes base a ring of its own.
MallocCall(n) ==
    /\ pc = "idle"
    /\ pc' = "search"
    /\ nbytes' = n
    /\ nquantas' = Quantas(n)
    /\ \/ /\ freep = Null
          /\ freep' = Base
          /\ next' = [next EXCEPT ![Base] = Base]
          /\ size' = [size EXCEPT ![Base] = 0]
          /\ avail' = {Base}
       \/ /\ freep # Null
          /\ UNCHANGED <<freep, next, size, avail>>
    /\ prevp' = freep'
    /\ p' = next'[freep']
    /\ UNCHANGED <<pool_free_pos, freeVars, live>>

\* Fault: the caller gets the address of the header.
ReturnHeader(r) ==
    /\ pc' = "idle"
    /\ nbytes' = 0 /\ nquantas' = 0 /\ prevp' = Null /\ p' = Null
    /\ live' = [u \in DOMAIN live \cup {r} |-> IF u = r THEN nbytes ELSE live[u]]

\* malloc returns r; its locals are gone.
ReturnPtr(r) ==
    /\ pc' = "idle"
    /\ nbytes' = 0 /\ nquantas' = 0 /\ prevp' = Null /\ p' = Null
    /\ live' = [u \in DOMAIN live \cup {r + 1} |-> IF u = r + 1 THEN nbytes ELSE live[u]]

\* The block fits exactly and leaves the list.
TakeExact ==
    /\ pc = "search"
    /\ size[p] = nquantas
    /\ next' = [next EXCEPT ![prevp] = next[p], ![p] = Null]
    /\ freep' = prevp
    /\ avail' = avail \ {p}
    /\ ReturnPtr(p)
    /\ UNCHANGED <<size, pool_free_pos, freeVars>>

\* Fault: the head of a split block keeps its old size.
TakeTailKeepsSize ==
    /\ pc = "search"
    /\ size[p] > nquantas
    /\ LET rest == size[p] - nquantas IN
       /\ size' = [size EXCEPT ![p + rest] = nquantas]
       /\ ReturnPtr(p + rest)
    /\ freep' = prevp
    /\ UNCHANGED <<next, pool_free_pos, freeVars, avail>>

\* The block is too big: it keeps its head, and its tail is returned.
TakeTail ==
    /\ pc = "search"
    /\ size[p] > nquantas
    /\ LET rest == size[p] - nquantas IN
       /\ size' = [size EXCEPT ![p] = rest, ![p + rest] = nquantas]
       /\ ReturnPtr(p + rest)
    /\ freep' = prevp
    /\ UNCHANGED <<next, pool_free_pos, freeVars, avail>>

\* Too small, and the walk has not come round to freep.
Advance ==
    /\ pc = "search"
    /\ size[p] < nquantas
    /\ p # freep
    /\ prevp' = p
    /\ p' = next[p]
    /\ UNCHANGED <<headers, freep, pool_free_pos, pc, nbytes, nquantas,
                   freeVars, live, avail>>

\* The walk came round: get_mem_from_pool formats a block at the end of what
\* the pool gave out so far and calls free on it.
Grow ==
    /\ pc = "search"
    /\ size[p] < nquantas
    /\ p = freep
    /\ HasRoom(nquantas)
    /\ size' = [size EXCEPT ![Top] = PoolQuantas(nquantas)]
    /\ pc' = "scan"
    /\ block' = Top
    /\ q' = freep
    /\ inner' = TRUE
    /\ UNCHANGED <<next, freep, pool_free_pos, callVars, live, avail>>

\* The pool has no room: malloc returns 0.
Exhausted ==
    /\ pc = "search"
    /\ size[p] < nquantas
    /\ p = freep
    /\ ~HasRoom(nquantas)
    /\ pc' = "idle"
    /\ nbytes' = 0 /\ nquantas' = 0 /\ prevp' = Null /\ p' = Null
    /\ UNCHANGED <<headers, freep, pool_free_pos, freeVars, live, avail>>

\* free(u).  free(NULL) returns at once and is no step.
FreeCall(u) ==
    /\ pc = "idle"
    /\ pc' = "scan"
    /\ live' = [v \in DOMAIN live \ {u} |-> live[v]]
    /\ block' = u - 1
    /\ q' = freep
    /\ inner' = FALSE
    /\ UNCHANGED <<headers, freep, pool_free_pos, callVars, avail>>

\* The block belongs right after a: between a and its successor, or at the
\* one link of the ring that goes from the highest block to the lowest.
Between(a) == block > a /\ block < next[a]

\* Fault: a ring of one block has no place to insert.
AtWrapStrict(a) == a > next[a] /\ (block > a \/ block < next[a])

AtWrap(a) == a >= next[a] /\ (block > a \/ block < next[a])

\* Fault: the block goes after any lower one.
FitsAfterLower(a) == block > a

FitsAfter(a) == Between(a) \/ AtWrap(a)

ScanStep ==
    /\ pc = "scan"
    /\ ~FitsAfter(q)
    /\ q' = next[q]
    /\ UNCHANGED <<headers, freep, pool_free_pos, pc, callVars, block, inner,
                   live, avail>>

\* Which neighbours touch the block.
MeetsUpper == block + size[block] = next[q]

\* Fault: only the upper neighbour is merged.
MeetsLowerNever == FALSE

MeetsLower == q + size[q] = block

\* The block is linked after q and merged with the neighbours it touches; the
\* headers of the blocks that were absorbed are headers no more.
Link ==
    LET absorbed == (IF MeetsUpper THEN {next[q]} ELSE {})
                    \cup (IF MeetsLower THEN {block} ELSE {})
        bsize == IF MeetsUpper THEN size[block] + size[next[q]] ELSE size[block]
        bnext == IF MeetsUpper THEN next[next[q]] ELSE next[q]
        home  == IF MeetsLower THEN q ELSE block
    IN
    /\ avail' = (avail \cup {block}) \ absorbed
    /\ size' = [a \in Addr |->
                  IF a \in absorbed THEN 0
                  ELSE IF a = home THEN bsize + (IF MeetsLower THEN size[q] ELSE 0)
                  ELSE size[a]]
    /\ next' = [a \in Addr |->
                  IF a \in absorbed THEN Null
                  ELSE IF a = home THEN bnext
                  ELSE IF a = q THEN block
                  ELSE next[a]]

\* free returns to its caller, or to get_mem_from_pool, which accounts for
\* the block and sends malloc once more round the list, from freep on.
Insert ==
    /\ pc = "scan"
    /\ FitsAfter(q)
    /\ Link
    /\ freep' = q
    /\ block' = Null /\ q' = Null /\ inner' = FALSE
    /\ \/ /\ inner
          /\ pool_free_pos' = (pool_free_pos + PoolBytes(nquantas)) % Word
          /\ prevp' = q
          /\ p' = next'[q]
          /\ pc' = "search"
          /\ UNCHANGED <<nbytes, nquantas>>
       \/ /\ ~inner
          /\ pc' = "idle"
          /\ UNCHANGED <<pool_free_pos, callVars>>
    /\ UNCHANGED live

Internal == TakeExact \/ TakeTail \/ Advance \/ Grow \/ Exhausted \/ ScanStep \/ Insert

Next ==
    \/ \E n \in Requests : MallocCall(n)
    \/ \E u \in DOMAIN live : FreeCall(u)
    \/ Internal

\* A call that has been entered runs on: the allocator is sequential code.
Spec == Init /\ [][Next]_vars /\ WF_vars(Internal)

-----------------------------------------------------------------------------
(* Properties. *)

\* The requests for which the 16-bit sums of malloc and get_mem_from_pool do
\* not wrap.  The code does not test for it; the theorems assume it.
RequestsFit ==
    /\ PoolSize + Quanta * MinPool < Word
    /\ \A n \in Requests : PoolSize + n + 2 * Quanta <= Word

Pointers == (PoolStart + 1)..PoolEnd

\* Every variable has its type; an address is 0 where the code has no value.
TypeOK ==
    /\ next \in [Addr -> Addr \cup {Null}]
    /\ size \in [Addr -> 0..(PoolEnd - PoolStart)]
    /\ freep \in Addr \cup {Null}
    /\ pool_free_pos \in 0..PoolSize
    /\ pc \in {"idle", "search", "scan"}
    /\ nbytes \in Requests \cup {0}
    /\ nquantas \in Nat
    /\ prevp \in Addr \cup {Null} /\ p \in Addr \cup {Null}
    /\ block \in Addr \cup {Null} /\ q \in Addr \cup {Null}
    /\ inner \in BOOLEAN
    /\ DOMAIN live \subseteq Pointers
    /\ \A u \in DOMAIN live : live[u] \in Requests
    /\ avail \subseteq Addr

LiveBlocks == {u - 1 : u \in DOMAIN live}
FreeBlocks == avail \ {Base}
InHand == IF pc = "scan" THEN {block} ELSE {}
Blocks == LiveBlocks \cup FreeBlocks \cup InHand

\* End of what was carved from the pool, the block being linked included.
CarvedEnd == Top + (IF inner THEN PoolQuantas(nquantas) ELSE 0)

\* No block is of two kinds: live, free, or on its way to the free list.
KindsApart ==
    /\ LiveBlocks \cap avail = {}
    /\ InHand \cap (LiveBlocks \cup avail) = {}

\* Blocks lie inside what was carved from the pool, and none overlaps another.
BlocksApart ==
    /\ \A a \in Blocks : a >= PoolStart /\ size[a] > 0 /\ a + size[a] <= CarvedEnd
    /\ \A a, b \in Blocks : a < b => a + size[a] <= b

\* No quanta is lost: each one carved from the pool belongs to a block.
NothingLost ==
    \A x \in PoolStart..(CarvedEnd - 1) : \E a \in Blocks : a <= x /\ x < a + size[a]

\* After any sequence of malloc and free calls, and in the middle of each,
\* the blocks tile exactly the part of the pool handed out so far: splitting,
\* merging and growing (malloc.c:244-350, 391-413) lose and share nothing.
Tiling ==
    /\ CarvedEnd <= PoolEnd
    /\ KindsApart
    /\ BlocksApart
    /\ NothingLost

\* A live block houses the bytes it was requested for and its header, the
\* comment above the computation of nquantas in malloc (malloc.c:287-289).
EnoughRoom ==
    \A u \in DOMAIN live : live[u] + Quanta <= Quanta * size[u - 1]

\* b lies between a and the block that a's next field names.
NextIsSuccessor(a) ==
    /\ next[a] \in avail
    /\ next[a] > a \/ next[a] = Base
    /\ \A b \in avail : b > a => a < next[a] /\ next[a] <= b

\* The free list is circular, passes through base and freep, and is sorted by
\* address with one descending link (malloc.c:375-387): following next from
\* any free block visits all of them in address order.
SortedRing ==
    freep # Null =>
        /\ Base \in avail /\ size[Base] = 0
        /\ freep \in avail
        /\ \A a \in avail : NextIsSuccessor(a)

\* A freed block is merged with the neighbours it touches (malloc.c:353-357):
\* two free blocks are never adjacent, whatever the order of the calls.
Coalesced ==
    \A a \in FreeBlocks : a + size[a] \notin avail

\* The blocks the walk has left behind, from freep to p round the ring.
Passed(b) == IF freep < p THEN freep < b /\ b < p ELSE b > freep \/ b < p

\* The walk goes from block to successor and passes over nothing that fits.
WalkSound ==
    pc = "search" =>
        /\ prevp \in avail /\ next[prevp] = p
        /\ \A b \in avail : Passed(b) => size[b] < nquantas

NothingFits == \A b \in avail : size[b] < nquantas

\* What one step may do with the pool.
Carves == ~inner /\ inner'
Refuses == pc = "search" /\ pc' = "idle" /\ live' = live
Carved == inner /\ ~inner'
PoolStep ==
    /\ Carves => NothingFits
    /\ Refuses => NothingFits /\ pool_free_pos + Quanta * PoolQuantas(nquantas) > PoolSize
    /\ Carved => ~NothingFits'

\* The pool is touched, and a request refused, only when no free block is
\* large enough, and refused only when the pool has no room either; a block
\* taken from the pool makes the call succeed (malloc.c:331-349).
LastResort == [][PoolStep]_vars

\* Both loops end: every call of malloc and free returns.
Returns == pc # "idle" ~> pc = "idle"

H == INSTANCE Heap WITH held <- live, PoolFirst <- PoolStart

\* The allocator implements the abstract heap.
HeapSpec == H!Spec
=============================================================================
