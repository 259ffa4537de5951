----------------------------- MODULE MCLmOtsLms -----------------------------
(* Eight leaves; digests of two coefficients, so that checksums cross a digit. *)
EXTENDS LmOtsLms

MCNodesAt == [l \in 0..3 |-> 2^(3 - l)]

Pair(a, b) == [i \in 0..1 |-> IF i = 0 THEN a ELSE b]
MCDigests == {Pair(0, 0), Pair(15, 14), Pair(0, 14)}
=============================================================================
