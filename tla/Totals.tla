------------------------------- MODULE Totals -------------------------------
(***************************************************************************)
(* Running totals of a sequence, as recursive functions, so that proofs    *)
(* can reach them: of numbers the sum, of sequences the concatenation.     *)
(***************************************************************************)
EXTENDS Naturals, Sequences

\* The sum of the first n numbers of s, for each n.
Totals(s) ==
    LET total[n \in Nat] == IF n = 0 THEN 0 ELSE total[n - 1] + s[n]
    IN  total

Total(s) == Totals(s)[Len(s)]

\* The first n sequences of ss, one after the other, for each n.
Flattened(ss) ==
    LET flat[n \in Nat] == IF n = 0 THEN << >> ELSE flat[n - 1] \o ss[n]
    IN  flat

Flatten(ss) == Flattened(ss)[Len(ss)]
=============================================================================
