----------------------------- MODULE Subsequence -----------------------------
(***************************************************************************)
(* The part of a sequence that is at given places: what SelectSeq selects, *)
(* with the places for the test, written as a recursive function so that   *)
(* proofs can reach it.                                                    *)
(***************************************************************************)
EXTENDS Naturals, Sequences

\* The elements of the first n of s that are at a place in K.
Kept(s, K) ==
    LET kept[n \in Nat] ==
            IF n = 0 THEN << >>
            ELSE IF n \in K THEN Append(kept[n - 1], s[n]) ELSE kept[n - 1]
    IN  kept

\* The elements of s at the places in K, in the order of s.
Keep(s, K) == Kept(s, K)[Len(s)]
=============================================================================
