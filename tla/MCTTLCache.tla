----------------------------- MODULE MCTTLCache -----------------------------
(* Model values for the runs of TTLCache.                                  *)
EXTENDS TTLCache

CONSTANTS k1, k2, k3, t1, t2

MCKeys    == {k1, k2, k3}
MCThreads == {t1, t2}
===============================================================================
