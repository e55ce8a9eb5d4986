--------------------------- MODULE MCCircuitBreaker ---------------------------
(* Model values for the runs of CircuitBreaker.                            *)
EXTENDS CircuitBreaker

CONSTANTS c1, c2, c3

MCCallers == {c1, c2, c3}
===============================================================================
