------------------------------ MODULE JobManager ------------------------------
(***************************************************************************)
(* technical/job_manager/answer.py: an in-memory queue of ingestion jobs   *)
(* shared by worker threads.  Each `with self.lock` block is one action;   *)
(* the document is processed between two of them, without the lock.        *)
(* JobManagerTs refines this module.                                       *)
(*                                                                         *)
(* Data abstraction.  A job's document and content are never read and are  *)
(* left out; `error` is only whether a description is stored; created_at   *)
(* is the rank of the creation (it is taken under the lock).               *)
(***************************************************************************)
EXTENDS Integers, Sequences

CONSTANTS
    Jobs,           \* bound: the job ids uuid4() can hand out
    NoJob,
    Keys,           \* the non-empty idempotency keys
    NoKey,          \* None, or the empty key
    Workers,        \* the threads that call process_next()
    RetryLimits,    \* the values of max_retries callers pass
    Interruptible   \* whether processing may die of a BaseException, which
                    \* `except Exception` lets through

ASSUME JobAssumption == /\ NoJob \notin Jobs
                        /\ NoKey \notin Keys
                        /\ RetryLimits \subseteq Nat
                        /\ Interruptible \in BOOLEAN

VARIABLES
    status, retry_count, max_retries, error, created_at,   \* jobs[j]
    queue,
    idempotency_map,
    worker,         \* the local variable `job` of a process_next() in progress
    now,            \* how many jobs were created
    attempts,       \* history: how often processing of a job was started
    key             \* history: the key a job was created with

job == <<status, retry_count, max_retries, error, created_at>>
history == <<now, attempts, key>>
vars == <<job, queue, idempotency_map, worker, history>>

Statuses == {"absent", "QUEUED", "PROCESSING", "COMPLETED", "FAILED"}
Terminal == {"COMPLETED", "FAILED"}

Init == /\ status = [j \in Jobs |-> "absent"]
        /\ retry_count = [j \in Jobs |-> 0]
        /\ max_retries = [j \in Jobs |-> 0]
        /\ error = [j \in Jobs |-> FALSE]
        /\ created_at = [j \in Jobs |-> 0]
        /\ queue = << >>
        /\ idempotency_map = [k \in Keys |-> NoJob]
        /\ worker = [w \in Workers |-> NoJob]
        /\ now = 0
        /\ attempts = [j \in Jobs |-> 0]
        /\ key = [j \in Jobs |-> NoKey]

-----------------------------------------------------------------------------

Known(k) == k # NoKey /\ idempotency_map[k] # NoJob

\* Storing a new job: the body of _enqueue() after the look-up of the key.
AddJob(j, k, m) ==
    /\ status[j] = "absent"
    /\ status' = [status EXCEPT ![j] = "QUEUED"]
    /\ retry_count' = [retry_count EXCEPT ![j] = 0]
    /\ max_retries' = [max_retries EXCEPT ![j] = m]
    /\ error' = [error EXCEPT ![j] = FALSE]
    /\ created_at' = [created_at EXCEPT ![j] = now]
    /\ queue' = Append(queue, j)
    /\ idempotency_map' = [x \in Keys |-> IF x = k THEN j ELSE idempotency_map[x]]
    /\ now' = now + 1
    /\ key' = [key EXCEPT ![j] = k]
    /\ UNCHANGED attempts

\* Mutant: the key is not looked up.
EnqueueBlindly(j, k, m) == AddJob(j, k, m) /\ UNCHANGED worker

\* enqueue() that creates a job.
Enqueue(j, k, m) == ~Known(k) /\ AddJob(j, k, m) /\ UNCHANGED worker

\* enqueue() with a known key: the id of the original job is returned.
EnqueueKnown(k) == Known(k) /\ UNCHANGED vars

\* Mutant: the job is read but left at the head of the queue.
PeekNext(w) ==
    /\ worker[w] = NoJob
    /\ queue # << >>
    /\ status' = [status EXCEPT ![Head(queue)] = "PROCESSING"]
    /\ worker' = [worker EXCEPT ![w] = Head(queue)]
    /\ attempts' = [attempts EXCEPT ![Head(queue)] = @ + 1]
    /\ UNCHANGED <<retry_count, max_retries, error, created_at, queue,
                   idempotency_map, now, key>>

\* Mutant: the newest job is taken (a stack, pop() for popleft()).
PopNewest(w) ==
    /\ worker[w] = NoJob
    /\ queue # << >>
    /\ LET j == queue[Len(queue)] IN
         /\ status' = [status EXCEPT ![j] = "PROCESSING"]
         /\ worker' = [worker EXCEPT ![w] = j]
         /\ attempts' = [attempts EXCEPT ![j] = @ + 1]
    /\ queue' = SubSeq(queue, 1, Len(queue) - 1)
    /\ UNCHANGED <<retry_count, max_retries, error, created_at,
                   idempotency_map, now, key>>

\* process_next(), step 1: dequeue the next job.
Dequeue(w) ==
    /\ worker[w] = NoJob
    /\ queue # << >>
    /\ status' = [status EXCEPT ![Head(queue)] = "PROCESSING"]
    /\ worker' = [worker EXCEPT ![w] = Head(queue)]
    /\ attempts' = [attempts EXCEPT ![Head(queue)] = @ + 1]
    /\ queue' = Tail(queue)
    /\ UNCHANGED <<retry_count, max_retries, error, created_at,
                   idempotency_map, now, key>>

\* process_next() on an empty queue returns None.
DequeueNothing(w) == worker[w] = NoJob /\ queue = << >> /\ UNCHANGED vars

\* process_next(), step 3 after a success.
FinishSuccess(w) ==
    /\ worker[w] # NoJob
    /\ status' = [status EXCEPT ![worker[w]] = "COMPLETED"]
    /\ error' = [error EXCEPT ![worker[w]] = FALSE]
    /\ worker' = [worker EXCEPT ![w] = NoJob]
    /\ UNCHANGED <<retry_count, max_retries, created_at, queue, idempotency_map, history>>

\* Mutant: max_retries is compared with <=, as if it counted attempts.
RequeueOnceMore(j) ==
    /\ retry_count[j] <= max_retries[j]
    /\ retry_count' = [retry_count EXCEPT ![j] = @ + 1]
    /\ status' = [status EXCEPT ![j] = "QUEUED"]
    /\ queue' = Append(queue, j)

\* Mutant: the job is marked for a retry but not queued.
RequeueForgotten(j) ==
    /\ retry_count[j] < max_retries[j]
    /\ retry_count' = [retry_count EXCEPT ![j] = @ + 1]
    /\ status' = [status EXCEPT ![j] = "QUEUED"]
    /\ UNCHANGED queue

Requeue(j) ==
    /\ retry_count[j] < max_retries[j]
    /\ retry_count' = [retry_count EXCEPT ![j] = @ + 1]
    /\ status' = [status EXCEPT ![j] = "QUEUED"]
    /\ queue' = Append(queue, j)

GiveUp(j) ==
    /\ retry_count[j] >= max_retries[j]
    /\ status' = [status EXCEPT ![j] = "FAILED"]
    /\ UNCHANGED <<retry_count, queue>>

\* process_next(), step 3 after a failure.
FinishFailure(w) ==
    /\ worker[w] # NoJob
    /\ error' = [error EXCEPT ![worker[w]] = TRUE]
    /\ Requeue(worker[w]) \/ GiveUp(worker[w])
    /\ worker' = [worker EXCEPT ![w] = NoJob]
    /\ UNCHANGED <<max_retries, created_at, idempotency_map, history>>

\* A BaseException between the two locked blocks: step 3 never runs.
Interrupt(w) ==
    /\ Interruptible
    /\ worker[w] # NoJob
    /\ worker' = [worker EXCEPT ![w] = NoJob]
    /\ UNCHANGED <<job, queue, idempotency_map, history>>

Finish(w) == FinishSuccess(w) \/ FinishFailure(w)

Next ==
    \/ \E k \in Keys \cup {NoKey} :
          \/ \E j \in Jobs, m \in RetryLimits : Enqueue(j, k, m)
          \/ EnqueueKnown(k)
    \/ \E w \in Workers : \/ Dequeue(w)
                          \/ DequeueNothing(w)
                          \/ FinishSuccess(w)
                          \/ FinishFailure(w)
                          \/ Interrupt(w)

Spec == Init /\ [][Next]_vars

\* Each worker thread is a loop around process_next() and is scheduled: it
\* dequeues while there is work and finishes what it dequeued.
FairSpec == Spec /\ \A w \in Workers : WF_vars(Dequeue(w)) /\ WF_vars(Finish(w))

-----------------------------------------------------------------------------
(* Properties *)

\* The types of the job records, the queue, the key map and the workers.
TypeOK ==
    /\ status \in [Jobs -> Statuses]
    /\ retry_count \in [Jobs -> Nat]
    /\ max_retries \in [Jobs -> Nat]
    /\ error \in [Jobs -> BOOLEAN]
    /\ created_at \in [Jobs -> Nat]
    /\ queue \in Seq(Jobs)
    /\ idempotency_map \in [Keys -> Jobs \cup {NoJob}]
    /\ worker \in [Workers -> Jobs \cup {NoJob}]
    /\ now \in Nat
    /\ attempts \in [Jobs -> Nat]
    /\ key \in [Jobs -> Keys \cup {NoKey}]

\* The queue and the statuses say the same: a job is queued exactly while it is
\* QUEUED, and once.  (A job queued twice would be processed twice; a QUEUED
\* job that is not queued would never be processed.)
QueueMatchesStatus ==
    /\ \A j \in Jobs : status[j] = "QUEUED" <=> \E i \in 1..Len(queue) : queue[i] = j
    /\ \A i, k \in 1..Len(queue) : queue[i] = queue[k] => i = k

\* A job being processed is in the hands of one worker: no other worker holds
\* it, and nobody finishes or requeues it behind that worker's back.
OneWorkerPerJob ==
    /\ \A w \in Workers : worker[w] # NoJob => status[worker[w]] = "PROCESSING"
    /\ \A v, w \in Workers : worker[v] = worker[w] /\ worker[v] # NoJob => v = w

\* Every job is in one place: with no worker and in no queue, in the queue, or with
\* one worker (or lost by it), and its status says which.
JobInOnePlace == TypeOK /\ QueueMatchesStatus /\ OneWorkerPerJob

\* "max_retries counts retries after the initial attempt": no job is started
\* more than max_retries + 1 times, and a FAILED one was started exactly so
\* often and retains an error; a COMPLETED one retains none.
AttemptsBounded ==
    \A j \in Jobs :
        /\ attempts[j] <= max_retries[j] + 1
        /\ status[j] = "FAILED" => attempts[j] = max_retries[j] + 1 /\ error[j]
        /\ status[j] = "COMPLETED" => ~error[j]

\* The queue, the workers, the counters and the outcomes agree about every job.
JobsAccountedFor == JobInOnePlace /\ AttemptsBounded

\* "Reusing a non-empty idempotency key returns the original job": the map
\* names the one job ever created with the key, whatever became of that job.
OneJobPerKey ==
    \A j \in Jobs : key[j] # NoKey => idempotency_map[key[j]] = j

\* "Processed in FIFO order": a job that was never started was created after
\* every job that was, also while retried jobs are mixed in between.
FirstAttemptsInOrder ==
    \A i, j \in Jobs : /\ status[i] = "QUEUED" /\ attempts[i] = 0
                       /\ attempts[j] > 0
                       => created_at[j] < created_at[i]

\* A finished job is never touched again: its outcome, its error and its
\* counters stay what its last attempt left.
TerminalIsFinal ==
    [][ \A j \in Jobs : status[j] \in Terminal =>
            /\ status'[j] = status[j] /\ error'[j] = error[j]
            /\ attempts'[j] = attempts[j] /\ retry_count'[j] = retry_count[j] ]_vars

\* A job whose worker was interrupted between the two locked blocks.
Lost(j) == status[j] = "PROCESSING" /\ \A w \in Workers : worker[w] # j

\* Every job accepted reaches COMPLETED or FAILED, however often it fails, whatever
\* else is queued and whichever other workers are interrupted; only a job whose
\* own worker was is lost.
EveryJobEnds ==
    \A j \in Jobs : status[j] = "QUEUED" ~> status[j] \in Terminal \/ Lost(j)

===============================================================================
