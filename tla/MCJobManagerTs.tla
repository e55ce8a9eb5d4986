---------------------------- MODULE MCJobManagerTs ----------------------------
(* Model values for the runs of JobManagerTs.                              *)
EXTENDS JobManagerTs

CONSTANTS j1, j2, k1, w1, w2, c1, c2

MCJobs    == {j1, j2}
MCKeys    == {k1}
MCWorkers == {w1, w2}
MCClients == {c1, c2}
MCProcs   == {w1, w2, c1, c2}
===============================================================================
