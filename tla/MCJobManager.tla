----------------------------- MODULE MCJobManager -----------------------------
(* Model values for the runs of JobManager.                                *)
EXTENDS JobManager

CONSTANTS j1, j2, j3, k1, w1, w2

MCJobs    == {j1, j2, j3}
MCKeys    == {k1}
MCWorkers == {w1, w2}
===============================================================================
