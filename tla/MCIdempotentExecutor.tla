------------------------- MODULE MCIdempotentExecutor -------------------------
(* Model values for the runs of IdempotentExecutor.                        *)
EXTENDS IdempotentExecutor

CONSTANTS a, b, c, k1, k2

MCCallers    == {a, b, c}
MCOperations == {k1, k2}
===============================================================================
