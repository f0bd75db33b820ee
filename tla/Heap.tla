-------------------------------- MODULE Heap --------------------------------
(***************************************************************************)
(* What the C library contract promises of malloc and free                 *)
(* (src/malloc/malloc.c), and all that the rest of the runtime relies on:  *)
(* a pointer returned for n bytes owns n bytes of the pool, no two live    *)
(* pointers share a byte, and a region stays owned until it is freed.      *)
(*                                                                         *)
(* Addresses are counted in quantas (the allocator's alignment): pointer u *)
(* of n bytes owns the byte addresses Quanta*u .. Quanta*u + n - 1.        *)
(***************************************************************************)
EXTENDS Naturals

CONSTANTS
    Requests,   \* the byte counts callers ask for
    Quanta,     \* bytes in a quanta
    PoolFirst,  \* first quanta of the pool
    PoolEnd     \* first quanta past the pool

VARIABLE held   \* live pointer -> the number of bytes it was requested for

\* The regions of pointer u of m bytes and v of n bytes share no byte.
Apart(u, m, v, n) ==
    Quanta * u + m <= Quanta * v \/ Quanta * v + n <= Quanta * u

Init == held = [u \in {} |-> 0]

\* malloc(n) returns u.
Allocate(n, u) ==
    /\ u \notin DOMAIN held
    /\ PoolFirst <= u
    /\ Quanta * u + n <= Quanta * PoolEnd
    /\ \A v \in DOMAIN held : Apart(u, n, v, held[v])
    /\ held' = [v \in DOMAIN held \cup {u} |-> IF v = u THEN n ELSE held[v]]

\* free(u).
Release(u) ==
    held' = [v \in DOMAIN held \ {u} |-> held[v]]

Next ==
    \/ \E n \in Requests, u \in PoolFirst..PoolEnd : Allocate(n, u)
    \/ \E u \in DOMAIN held : Release(u)

Spec == Init /\ [][Next]_held
=============================================================================
