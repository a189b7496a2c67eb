--------------------------- MODULE MCAccumulate ---------------------------
(* Floats with two zeros and a NaN, and every layout of a column.          *)
EXTENDS Accumulate

CONSTANT NaN

Floats == {0, 1, 2, NaN}    \* 0 and 1 are -0.0 and +0.0
FloatsOrdered == {0, 1, 2}
FloatRank == [f \in FloatsOrdered |-> IF f = 0 THEN 1 ELSE f]
TwoLetters == {1, 2}

=============================================================================
