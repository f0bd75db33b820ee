------------------------------ MODULE MCMalloc ------------------------------
(* Model-checking instances of Malloc. *)
EXTENDS Malloc

\* 1, 2, 3 and 5 quantas: a bare header, less than, just and more than MinPool.
SmallRequests == {0, 4, 8, 13}
\* One request near the end of size_t.
HugeRequests == {4, 65535}
=============================================================================
