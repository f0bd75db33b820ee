----------------------------- MODULE MCConsole -----------------------------
(* Model-checking instance of Console: two keys in two columns, a buffer of *)
(* three characters, which a message of two overruns, and a UART that holds *)
(* two bytes, one key event.                                                *)
EXTENDS Console

PrintfCallbacks == {"first", "second"}
=============================================================================
