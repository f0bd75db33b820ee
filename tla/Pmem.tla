-------------------------------- MODULE Pmem --------------------------------
(***************************************************************************)
(* Program memory, src/loader/pmem.c: a bump allocator over the addresses  *)
(* from the end of the program's image to HEAP_END, which never takes      *)
(* anything back (pmem_free is empty).  Addresses and sizes have 16 bits.  *)
(***************************************************************************)
EXTENDS Naturals

CONSTANT DataEndRom  \* __data_end_rom, where the program's image ends

Word     == 65536
HEAP_END == 65504

ASSUME PmemAssumption == DataEndRom \in 1..HEAP_END /\ DataEndRom % 2 = 0

VARIABLE heap

PmemInit == heap = DataEndRom

NewHeap(size) == (heap + size) % Word

\* The second test detects that the sum wrapped.
Refused(size) == NewHeap(size) > HEAP_END \/ NewHeap(size) < size

\* Fault: the heap is not kept aligned.
MallocUnaligned(size) ==
    /\ ~Refused(size)
    /\ heap' = NewHeap(size)

\* pmem_malloc(size) when it does not refuse: the block starts at heap.
pmem_malloc(size) ==
    /\ ~Refused(size)
    /\ heap' = NewHeap(size) + (NewHeap(size) % 2)
=============================================================================
