---------------------------- MODULE MCSafeGeneration ----------------------------
(* Values for the run of SafeGeneration.                                   *)
EXTENDS SafeGeneration

CONSTANTS a

OneCall == {a}
===============================================================================
