----------------------------- MODULE JobManagerTs -----------------------------
(***************************************************************************)
(* technical/job_manager/answer.ts: the job manager of JobManager.tla with *)
(* its public methods as asynchronous calls.  A method first acquires the  *)
(* Mutex; when its continuation runs, the locked block and the release in  *)
(* the finally block run without interruption, so a block is one action.   *)
(* The records and the queue are those of JobManager (the TypeScript       *)
(* helpers do what the Python ones do); the lock is that of AsyncMutex.    *)
(***************************************************************************)
EXTENDS JobManager, AsyncMutex, FiniteSets

CONSTANT Clients        \* the calls of enqueue() and getStatus()

ASSUME ClientAssumption == /\ Clients \cap Workers = {}
                           /\ Procs = Clients \cup Workers     \* of AsyncMutex
                           /\ ~Interruptible

VARIABLES
    pc,             \* where each call is
    arg,            \* the idempotency key and retry limit an enqueue() brings
    outcome         \* isSuccess of a worker's attempt

tsvars == <<vars, mutexVars, pc, arg, outcome>>

NoArg == [key |-> NoKey, max |-> 0]

TsInit == /\ Init
          /\ MutexInit
          /\ pc = [p \in Procs |-> "idle"]
          /\ arg = [c \in Clients |-> NoArg]
          /\ outcome = [w \in Workers |-> FALSE]

Goto(p, l) == pc' = [pc EXCEPT ![p] = l]

\* Bound: an enqueue() is only called while a job id is left for it.
IdsLeft == Cardinality({c \in Clients : pc[c] = "enqueue"})
             < Cardinality({j \in Jobs : status[j] = "absent"})

-----------------------------------------------------------------------------

\* enqueue() is called and calls acquire().
CallEnqueue(c, k, m) ==
    /\ pc[c] = "idle"
    /\ IdsLeft
    /\ Acquire(c)
    /\ Goto(c, "enqueue")
    /\ arg' = [arg EXCEPT ![c] = [key |-> k, max |-> m]]
    /\ UNCHANGED <<vars, outcome>>

\* The locked block of enqueue().
RunEnqueue(c) ==
    /\ pc[c] = "enqueue"
    /\ \/ \E j \in Jobs : Enqueue(j, arg[c].key, arg[c].max)
       \/ EnqueueKnown(arg[c].key)
    /\ Release(c)
    /\ Goto(c, "idle")
    /\ arg' = [arg EXCEPT ![c] = NoArg]
    /\ UNCHANGED outcome

\* getStatus() is called and calls acquire().
CallGetStatus(c) ==
    /\ pc[c] = "idle"
    /\ Acquire(c)
    /\ Goto(c, "getStatus")
    /\ UNCHANGED <<vars, arg, outcome>>

\* The locked block of getStatus() reads one job.
RunGetStatus(c) ==
    /\ pc[c] = "getStatus"
    /\ Release(c)
    /\ Goto(c, "idle")
    /\ UNCHANGED <<vars, arg, outcome>>

\* processNext() is called and calls acquire() for its first locked block.
CallProcessNext(w) ==
    /\ pc[w] = "idle"
    /\ Acquire(w)
    /\ Goto(w, "dequeue")
    /\ UNCHANGED <<vars, arg, outcome>>

\* Mutant: the lock is kept while the document is processed.
RunDequeueKeepLock(w) ==
    /\ pc[w] = "dequeue"
    /\ place[w] = "inside"
    /\ Dequeue(w)
    /\ Goto(w, "process")
    /\ UNCHANGED <<mutexVars, arg, outcome>>

\* The first locked block finds a job.
RunDequeue(w) ==
    /\ pc[w] = "dequeue"
    /\ Dequeue(w)
    /\ Release(w)
    /\ Goto(w, "process")
    /\ UNCHANGED <<arg, outcome>>

\* Mutant: `return null` skips the release (no finally block).
ReturnNullLocked(w) ==
    /\ pc[w] = "dequeue"
    /\ place[w] = "inside"
    /\ DequeueNothing(w)
    /\ Goto(w, "idle")
    /\ UNCHANGED <<mutexVars, arg, outcome>>

\* The first locked block finds the queue empty and returns null.
ReturnNull(w) ==
    /\ pc[w] = "dequeue"
    /\ DequeueNothing(w)
    /\ Release(w)
    /\ Goto(w, "idle")
    /\ UNCHANGED <<arg, outcome>>

\* Mutant: an error of the processing escapes (no catch) and the call ends.
EndProcessingEscapes(w, ok) ==
    /\ pc[w] = "process"
    /\ IF ok THEN Acquire(w) /\ Goto(w, "finish") ELSE Goto(w, "idle") /\ UNCHANGED mutexVars
    /\ outcome' = [outcome EXCEPT ![w] = ok]
    /\ UNCHANGED <<vars, arg>>

\* Processing ends, well or not, and acquire() is called for the last block.
EndProcessing(w, ok) ==
    /\ pc[w] = "process"
    /\ Acquire(w)
    /\ outcome' = [outcome EXCEPT ![w] = ok]
    /\ Goto(w, "finish")
    /\ UNCHANGED <<vars, arg>>

\* The last locked block records the outcome.
RunFinish(w) ==
    /\ pc[w] = "finish"
    /\ \/ outcome[w] /\ FinishSuccess(w)
       \/ ~outcome[w] /\ FinishFailure(w)
    /\ Release(w)
    /\ Goto(w, "idle")
    /\ outcome' = [outcome EXCEPT ![w] = FALSE]
    /\ UNCHANGED arg

TsNext ==
    \/ \E c \in Clients : \/ \E k \in Keys \cup {NoKey}, m \in RetryLimits : CallEnqueue(c, k, m)
                          \/ RunEnqueue(c)
                          \/ CallGetStatus(c)
                          \/ RunGetStatus(c)
    \/ \E w \in Workers : \/ CallProcessNext(w)
                          \/ RunDequeue(w)
                          \/ ReturnNull(w)
                          \/ \E ok \in BOOLEAN : EndProcessing(w, ok)
                          \/ RunFinish(w)

TsSpec == TsInit /\ [][TsNext]_tsvars

RunBlock(p) == \/ p \in Clients /\ (RunEnqueue(p) \/ RunGetStatus(p))
               \/ p \in Workers /\ (RunDequeue(p) \/ ReturnNull(p) \/ RunFinish(p))

\* The event loop runs every continuation whose promise is resolved.  Nothing
\* obliges anybody to call, nor the processing of a document ever to end.
BlockFairSpec == TsSpec /\ \A p \in Procs : WF_tsvars(RunBlock(p))

\* What TsEveryJobEnds assumes besides: processing ends, and each worker is a loop
\* around processNext().
WorkersServe ==
    \A w \in Workers : /\ WF_tsvars(CallProcessNext(w))
                       /\ WF_tsvars(\E ok \in BOOLEAN : EndProcessing(w, ok))

-----------------------------------------------------------------------------
(* Properties *)

\* "Slow document processing must not block unrelated calls": a call that is
\* not in a locked block neither owns the lock nor waits for it, on every way
\* out of a block (the early return included); in particular none is held
\* while a document is processed.
LockOnlyInBlocks ==
    \A p \in Procs : place[p] = "out" <=> pc[p] \in {"idle", "process"}

\* A worker holds a job exactly from the block that dequeues it to the block
\* that records its outcome.
JobHeldBetweenBlocks ==
    \A w \in Workers : worker[w] # NoJob <=> pc[w] \in {"process", "finish"}

\* The lock and the jobs follow the blocks.
BlocksExact == LockOnlyInBlocks /\ JobHeldBetweenBlocks

\* Every call gets through its locked blocks: it is granted the lock and leaves it,
\* even when the documents in progress never end, and however many calls contend.
EveryBlockEnds ==
    \A p \in Procs : place[p] # "out" ~> pc[p] \in {"idle", "process"}

\* With the lock in the way, every job accepted still reaches an end, provided
\* that the workers serve (which EveryBlockEnds does not need).
TsEveryJobEnds ==
    WorkersServe => \A j \in Jobs : status[j] = "QUEUED" ~> status[j] \in Terminal

===============================================================================
