------------------------------ MODULE MCNumeric ------------------------------
(* Numeric with words of eight bits for the 64, and the rest in order.       *)
EXTENDS Numeric

MCExponents == {-9, -8, -7, -5, -4, -1, 0, 1, 3, 4, 5}
=============================================================================
