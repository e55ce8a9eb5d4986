--------------------------- MODULE BoundedToolRunner ---------------------------
(***************************************************************************)
(* technical/bounded_parallel_tool_runner: one call of run_tools().  A     *)
(* pool of workers takes the requests in order, runs one handler each and  *)
(* writes the results by position, while an abort signal may fire at any   *)
(* time.  This is answer.ts; the loop of answer.py is the same, but names  *)
(* a `lock` that is defined nowhere and ends in a NameError before a       *)
(* request is taken.                                                       *)
(*                                                                         *)
(* Data abstraction.  Requests are their positions; a result is its status.*)
(* A concurrency limit need not be whole, so it is given as twice its      *)
(* value.                                                                  *)
(***************************************************************************)
EXTENDS Integers, FiniteSets

CONSTANTS
    Requests,       \* how many requests the batch has (not empty)
    TwiceMax        \* twice maxConcurrency

ASSUME RunnerAssumption == /\ Requests \in Nat \ {0}
                           /\ TwiceMax \in Nat \ {0}

Positions == 1..Requests

\* Math.min(maxConcurrency, requests.length), and Array.from() truncates.
PoolSize == LET whole == TwiceMax \div 2 IN IF whole < Requests THEN whole ELSE Requests

Workers == 1..Requests

VARIABLES
    nextIndex,
    res,            \* the result array: "hole" where nothing was written
    running,        \* the position a worker's handler works on, or 0
    stopped,        \* the workers that ended their loop
    signal,         \* the abort signal
    batch,          \* "running" | "returned"
    starts          \* history: how often the handler was called for a request

vars == <<nextIndex, res, running, stopped, signal, batch, starts>>

Pool == {w \in Workers : w <= PoolSize}

Init == /\ nextIndex = 1
        /\ res = [i \in Positions |-> "hole"]
        /\ running = [w \in Workers |-> 0]
        /\ stopped = {}
        /\ signal = FALSE
        /\ batch = "running"
        /\ starts = [i \in Positions |-> 0]

-----------------------------------------------------------------------------

\* Worker w is at the head of its loop.
AtLoop(w) == batch = "running" /\ w \in Pool \ stopped /\ running[w] = 0

\* The index is taken and the handler is called.
Start(w) ==
    /\ AtLoop(w)
    /\ nextIndex <= Requests
    /\ ~signal
    /\ running' = [running EXCEPT ![w] = nextIndex]
    /\ starts' = [starts EXCEPT ![nextIndex] = @ + 1]
    /\ nextIndex' = nextIndex + 1
    /\ UNCHANGED <<res, stopped, signal, batch>>

\* Mutant: after the abort the result is written but the index is not advanced.
SkipInPlace(w) ==
    /\ AtLoop(w)
    /\ nextIndex <= Requests
    /\ signal
    /\ res' = [res EXCEPT ![nextIndex] = "cancelled"]
    /\ UNCHANGED <<nextIndex, running, stopped, signal, batch, starts>>

\* The index is taken after the abort: the request is reported cancelled.
SkipCancelled(w) ==
    /\ AtLoop(w)
    /\ nextIndex <= Requests
    /\ signal
    /\ res' = [res EXCEPT ![nextIndex] = "cancelled"]
    /\ nextIndex' = nextIndex + 1
    /\ UNCHANGED <<running, stopped, signal, batch, starts>>

\* Mutant: the result is written at the shared index, which other workers have
\* moved on since (a stale read after the await).
EndAtSharedIndex(w, ok) ==
    /\ batch = "running" /\ running[w] # 0
    /\ res' = [res EXCEPT ![nextIndex - 1] =
                  IF signal THEN "cancelled" ELSE IF ok THEN "succeeded" ELSE "failed"]
    /\ running' = [running EXCEPT ![w] = 0]
    /\ UNCHANGED <<nextIndex, stopped, signal, batch, starts>>

\* The handler returns or throws; after an abort either is reported cancelled.
End(w, ok) ==
    /\ batch = "running" /\ running[w] # 0
    /\ res' = [res EXCEPT ![running[w]] =
                  IF signal THEN "cancelled" ELSE IF ok THEN "succeeded" ELSE "failed"]
    /\ running' = [running EXCEPT ![w] = 0]
    /\ UNCHANGED <<nextIndex, stopped, signal, batch, starts>>

\* No request is left for the worker.
Stop(w) ==
    /\ AtLoop(w)
    /\ nextIndex > Requests
    /\ stopped' = stopped \cup {w}
    /\ UNCHANGED <<nextIndex, res, running, signal, batch, starts>>

\* Promise.all: every worker has stopped.
Return ==
    /\ batch = "running"
    /\ Pool \subseteq stopped
    /\ batch' = "returned"
    /\ UNCHANGED <<nextIndex, res, running, stopped, signal, starts>>

\* The caller aborts.
Abort == /\ ~signal
         /\ signal' = TRUE
         /\ UNCHANGED <<nextIndex, res, running, stopped, batch, starts>>

WorkerStep(w) == \/ Start(w)
                 \/ SkipCancelled(w)
                 \/ \E ok \in BOOLEAN : End(w, ok)
                 \/ Stop(w)

\* The batch is over: the program goes on without it.
Over == batch # "running" /\ UNCHANGED vars

Next == \/ \E w \in Workers : WorkerStep(w)
        \/ Return
        \/ Abort
        \/ Over

Spec == Init /\ [][Next]_vars

\* The event loop runs every worker that can go on, and every handler settles
\* (run_tools itself has no timeout).
FairSpec == Spec /\ WF_vars(Return) /\ \A w \in Workers : WF_vars(WorkerStep(w))

-----------------------------------------------------------------------------
(* Properties *)

\* The types of the shared index, the results and the workers.
TypeOK == /\ nextIndex \in 1..Requests + 1
          /\ res \in [Positions -> {"hole", "succeeded", "failed", "cancelled"}]
          /\ running \in [Workers -> 0..Requests]
          /\ stopped \subseteq Workers
          /\ signal \in BOOLEAN
          /\ batch \in {"running", "returned"}
          /\ starts \in [Positions -> Nat]

\* "Execute at most maxConcurrency handlers at once."
ConcurrencyBound == 2 * Cardinality({w \in Workers : running[w] # 0}) <= TwiceMax

\* Each request is in one place: no handler is called twice for it, no two
\* workers run it, and a request that was taken and is not running has a result.
TakenOnce ==
    /\ TypeOK
    /\ \A i \in Positions : starts[i] <= 1
    /\ \A v, w \in Workers : running[v] = running[w] /\ running[v] # 0 => v = w
    /\ \A i \in Positions : i < nextIndex =>
          (res[i] = "hole" <=> \E w \in Workers : running[w] = i)

\* "Preserve input order in the returned result array": what is returned has a
\* result at every position, and a success or failure only where the handler of
\* that very request ran.
ReturnedComplete ==
    batch = "returned" => \A i \in Positions :
        /\ res[i] # "hole"
        /\ res[i] \in {"succeeded", "failed"} => starts[i] = 1

\* Never too many handlers at once, every request with one worker at most, and a
\* complete array in order at the end, whenever the abort comes.
BatchExact == ConcurrencyBound /\ TakenOnce /\ ReturnedComplete

\* Every batch returns, aborted or not, if its handlers settle.
BatchReturns == <>(batch = "returned")

===============================================================================
