----------------------------- MODULE MCRateLimiter -----------------------------
(* Values for the run of RateLimiter.                                      *)
EXTENDS RateLimiter

\* A clock that is only ever corrected backward.
StepsBack == {-2}
===============================================================================
