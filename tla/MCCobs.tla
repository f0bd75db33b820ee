------------------------------- MODULE MCCobs -------------------------------
(* Model-checking instance of Cobs.  A full block holds two bytes, so that  *)
(* messages of up to seven bytes have full blocks anywhere, followed by     *)
(* zeros, bytes or nothing.                                                 *)
EXTENDS Cobs, SequencesExt

\* Zero and one non-zero byte: the encoder tells no others apart.
AllMessages == BoundedSeq({0, 2}, 7)
\* Every sequence of bytes, zeros and codes that lie included.
AnyInput == BoundedSeq(Byte, 5)
=============================================================================
