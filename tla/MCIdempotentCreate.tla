-------------------------- MODULE MCIdempotentCreate --------------------------
(* Instances of IdempotentCreate for TLC: a request and its repetition, and one *)
(* with another body.                                                          *)
EXTENDS IdempotentCreate

CONSTANTS c1, c2, c3, b1, b2

TwoAndOne == [c \in {c1, c2, c3} |-> IF c = c3 THEN b2 ELSE b1]
=============================================================================
