------------------------------- MODULE MCUart -------------------------------
(* Model-checking instance of Uart: a ring of three slots holds two bytes,  *)
(* so it fills, drops and wraps with a handful of bytes on the wire.        *)
EXTENDS Uart
=============================================================================
