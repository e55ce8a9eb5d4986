-------------------------- MODULE IdempotentExecutor --------------------------
(***************************************************************************)
(* technical/idempotent_tool_executor: concurrent duplicates of a tool     *)
(* call share one execution.  In Python (lang = "py") an asyncio.Lock      *)
(* guards the map of tasks, a duplicate awaits the task while it holds the *)
(* lock, and the task of a caller may be cancelled while it waits.  In     *)
(* TypeScript (lang = "ts") the look-up and the start of the handler are   *)
(* one uninterrupted stretch and there is neither lock nor cancellation.   *)
(*                                                                         *)
(* Data abstraction.  An operation is what _make_key() makes of a call;    *)
(* values and messages are left out, an execution is its kind of result.   *)
(* To cancel a task only asks it to end: it is thrown out of its await when*)
(* the loop gets to it, and what it awaits is asked first.                 *)
(* asyncio.Lock is external: it serves its waiters in order of arrival,    *)
(* and `line` is its owner followed by its waiters.                        *)
(***************************************************************************)
EXTENDS Integers, Sequences, SequencesExt

CONSTANTS
    Callers,        \* the tasks that call execute()
    Operations      \* tenant, tool and idempotency key

VARIABLES
    executions,     \* the map: per operation, its task or promise
    handling,       \* the operations whose handler is at work
    line,           \* the lock's owner and its waiters
    state,          \* where each caller is
    op,             \* the operation of its latest call
    outcome,        \* how that call ended
    runs,           \* history: how often an operation's handler was invoked
    lang            \* which of the two implementations runs: "py" | "ts"

vars == <<executions, handling, line, state, op, outcome, runs, lang>>

Results == {"completed", "failed", "indeterminate"}
Settled == Results \cup {"cancelled"}

\* A task that was created; that cancel() reached before it began; that has begun.
Pending == {"created", "aborted", "running"}

Init == /\ executions = [k \in Operations |-> "none"]
        /\ handling = {}
        /\ line = << >>
        /\ state = [c \in Callers |-> "out"]
        /\ op \in [Callers -> Operations]
        /\ outcome = [c \in Callers |-> "none"]
        /\ runs = [k \in Operations |-> 0]
        /\ lang \in {"py", "ts"}

Go(c, s) == state' = [state EXCEPT ![c] = s]

-----------------------------------------------------------------------------
(* The locked block of the Python execute(), run by c with the waiters     *)
(* `others` behind it.                                                     *)

\* The first call of the operation creates its task and leaves the lock.
CreateTask(c, k, others) ==
    /\ executions[k] = "none"
    /\ executions' = [executions EXCEPT ![k] = "created"]
    /\ Go(c, "awaiting")
    /\ line' = others
    /\ UNCHANGED <<handling, outcome, runs, lang>>

\* A duplicate of an execution in progress awaits it and keeps the lock.
AwaitUnderLock(c, k, others) ==
    /\ executions[k] \in Pending
    /\ Go(c, "awaiting_locked")
    /\ line' = <<c>> \o others
    /\ UNCHANGED <<executions, handling, outcome, runs, lang>>

\* A duplicate of a settled execution gets its result without waiting.
TakeResult(c, k, others) ==
    /\ executions[k] \in Settled
    /\ outcome' = [outcome EXCEPT ![c] = executions[k]]
    /\ Go(c, "out")
    /\ line' = others
    /\ UNCHANGED <<executions, handling, runs, lang>>

LookUp(c, k, others) == \/ CreateTask(c, k, others)
                        \/ AwaitUnderLock(c, k, others)
                        \/ TakeResult(c, k, others)

\* execute() with the lock free.
CallFree(c, k) ==
    /\ lang = "py"
    /\ state[c] = "out"
    /\ line = << >>
    /\ op' = [op EXCEPT ![c] = k]
    /\ LookUp(c, k, << >>)

\* execute() with the lock taken, or with waiters before this call.
CallBusy(c, k) ==
    /\ lang = "py"
    /\ state[c] = "out"
    /\ line # << >>
    /\ line' = Append(line, c)
    /\ op' = [op EXCEPT ![c] = k]
    /\ Go(c, "locking")
    /\ UNCHANGED <<executions, handling, outcome, runs, lang>>

\* The lock came to c.
Locked(c) ==
    /\ state[c] = "locking"
    /\ c = Head(line)
    /\ LookUp(c, op[c], Tail(line))
    /\ UNCHANGED op

\* The event loop starts the task, which invokes the handler.
Start(k) ==
    /\ executions[k] = "created"
    /\ executions' = [executions EXCEPT ![k] = "running"]
    /\ handling' = handling \cup {k}
    /\ runs' = [runs EXCEPT ![k] = @ + 1]
    /\ UNCHANGED <<line, state, op, outcome, lang>>

\* It finds itself cancelled before its first step.
NeverStart(k) ==
    /\ executions[k] = "aborted"
    /\ executions' = [executions EXCEPT ![k] = "cancelled"]
    /\ UNCHANGED <<handling, line, state, op, outcome, runs, lang>>

\* execute() in TypeScript: run() invokes the handler before it returns.
CallTs(c, k) ==
    /\ lang = "ts"
    /\ state[c] = "out"
    /\ IF executions[k] = "none"
       THEN /\ executions' = [executions EXCEPT ![k] = "running"]
            /\ handling' = handling \cup {k}
            /\ runs' = [runs EXCEPT ![k] = @ + 1]
       ELSE UNCHANGED <<executions, handling, runs>>
    /\ op' = [op EXCEPT ![c] = k]
    /\ Go(c, "awaiting")
    /\ UNCHANGED <<line, outcome, lang>>

\* How _run() ends: the handler returns, raises or does not answer in time; in Python it
\* may also be cancelled, by itself or from a caller, but then need not let itself.
Ends == Results \cup (IF lang = "py" THEN {"cancelled"} ELSE {})

\* wait_for() does not return before the handler, Promise.race() does.
Settle(k) ==
    /\ executions[k] = "running"
    /\ \E r \in Ends :
          /\ executions' = [executions EXCEPT ![k] = r]
          /\ handling' = IF lang = "ts" /\ r = "indeterminate" THEN handling ELSE handling \ {k}
    /\ UNCHANGED <<line, state, op, outcome, runs, lang>>

\* Mutant: the handler's late answer takes the place of the result.
LateEndOverwrites(k) ==
    /\ k \in handling /\ executions[k] \in Settled
    /\ executions' = [executions EXCEPT ![k] = "completed"]
    /\ handling' = handling \ {k}
    /\ UNCHANGED <<line, state, op, outcome, runs, lang>>

\* The handler ends after its timeout: nobody listens to the race any more.
LateEnd(k) ==
    /\ k \in handling /\ executions[k] \in Settled
    /\ handling' = handling \ {k}
    /\ UNCHANGED <<executions, line, state, op, outcome, runs, lang>>

\* Mutant: a caller that waited in the locked block leaves without releasing.
ReturnLocked(c) ==
    /\ state[c] \in {"awaiting", "awaiting_locked"}
    /\ executions[op[c]] \in Settled
    /\ outcome' = [outcome EXCEPT ![c] = executions[op[c]]]
    /\ Go(c, "out")
    /\ UNCHANGED <<executions, handling, line, op, runs, lang>>

\* The execution c awaits is settled: execute() returns its result, or raises
\* its CancelledError; the locked block is left.
Return(c) ==
    /\ state[c] \in {"awaiting", "awaiting_locked"}
    /\ executions[op[c]] \in Settled
    /\ outcome' = [outcome EXCEPT ![c] = executions[op[c]]]
    /\ Go(c, "out")
    /\ line' = IF state[c] = "awaiting_locked" THEN Tail(line) ELSE line
    /\ UNCHANGED <<executions, handling, op, runs, lang>>

\* Wherever c stands in the line, it stands there no more.
LeaveLine(c) == \/ state[c] = "awaiting" /\ UNCHANGED line
                \/ \E i \in 1..Len(line) : line[i] = c /\ line' = RemoveAt(line, i)

\* Mutant: the caller shields the execution and leaves it to itself.
CancelShielded(c) ==
    /\ lang = "py"
    /\ state[c] # "out"
    /\ outcome' = [outcome EXCEPT ![c] = "gave_up"]
    /\ Go(c, "out")
    /\ LeaveLine(c)
    /\ UNCHANGED <<executions, handling, op, runs, lang>>

\* The task of caller c is cancelled where nothing else is to be asked: in the lock's
\* line, or with the result of the execution at hand.
Cancel(c) ==
    /\ lang = "py"
    /\ state[c] = "locking" \/ (state[c] # "out" /\ executions[op[c]] \in Settled)
    /\ outcome' = [outcome EXCEPT ![c] = "gave_up"]
    /\ Go(c, "out")
    /\ LeaveLine(c)
    /\ UNCHANGED <<executions, handling, op, runs, lang>>

\* It is cancelled while it awaits a task: the task is asked instead, and c goes on
\* awaiting it, lock in hand if it is.  One that has begun decides itself how it ends.
Abort(c) ==
    /\ lang = "py"
    /\ state[c] \in {"awaiting", "awaiting_locked"}
    /\ executions[op[c]] = "created"
    /\ executions' = [executions EXCEPT ![op[c]] = "aborted"]
    /\ UNCHANGED <<handling, line, state, op, outcome, runs, lang>>

Next == \/ \E c \in Callers : \/ \E k \in Operations : CallFree(c, k) \/ CallBusy(c, k) \/ CallTs(c, k)
                              \/ Locked(c)
                              \/ Return(c)
                              \/ Cancel(c)
                              \/ Abort(c)
        \/ \E k \in Operations : Start(k) \/ NeverStart(k) \/ Settle(k) \/ LateEnd(k)

Spec == Init /\ [][Next]_vars

\* The event loop runs what is ready; the timeout settles every execution, a handler
\* that it cancels ending some time.
FairSpec == /\ Spec
            /\ \A c \in Callers : WF_vars(Locked(c)) /\ WF_vars(Return(c))
            /\ \A k \in Operations : WF_vars(Start(k)) /\ WF_vars(NeverStart(k)) /\ WF_vars(Settle(k))

-----------------------------------------------------------------------------
(* Properties *)

\* The types of the map, of the lock's line and of the callers' local state.
TypeOK == /\ executions \in [Operations -> {"none"} \cup Pending \cup Settled]
          /\ handling \subseteq Operations
          /\ line \in Seq(Callers)
          /\ state \in [Callers -> {"out", "locking", "awaiting", "awaiting_locked"}]
          /\ op \in [Callers -> Operations]
          /\ outcome \in [Callers -> {"none", "gave_up"} \cup Settled]
          /\ runs \in [Operations -> Nat]

\* "Duplicate requests must not invoke the handler more than once", whether the
\* first execution completed, failed, timed out or was cancelled.
AtMostOnce == \A k \in Operations : runs[k] <= 1

\* "Concurrent duplicates must receive a consistent outcome", and so must later
\* ones: any two calls of an operation that got a result got the same.
SameOutcome ==
    \A c, d \in Callers : /\ op[c] = op[d] /\ state[c] = "out" /\ state[d] = "out"
                          /\ outcome[c] \in Settled /\ outcome[d] \in Settled
                          => outcome[c] = outcome[d]

\* The line and the callers' states agree: whoever stands in the line waits for
\* the lock or holds it, only its head can hold it, and nobody stands in it twice.
LineExact ==
    /\ TypeOK
    /\ \A c \in Callers :
          state[c] \in {"locking", "awaiting_locked"} <=> \E i \in 1..Len(line) : line[i] = c
    /\ \A i \in 1..Len(line) : state[line[i]] = "awaiting_locked" => i = 1
    /\ \A i, j \in 1..Len(line) : line[i] = line[j] => i = j

\* A task that is not done has a caller that awaits it: nobody leaves it behind.
Attended ==
    \A k \in Operations :
       executions[k] \in Pending
          => \E c \in Callers : state[c] \in {"awaiting", "awaiting_locked"} /\ op[c] = k

\* Of the calls of an operation one runs the handler and all get what became of that
\* run, however they are interleaved, cancelled at any await, or answered after the timeout.
OneSharedRun == LineExact /\ AtMostOnce /\ SameOutcome /\ Attended

\* The fate of an operation: a task that has not begun is none yet.
Fate == [k \in Operations |-> IF executions[k] \in {"created", "aborted"} THEN "none" ELSE executions[k]]

\* Whoever is between the call and its result.
Asking == {c \in Callers : state[c] # "out"}

Shared == INSTANCE SharedExecution WITH fate <- Fate, asking <- Asking, told <- outcome

\* Both executors do what they promise, step by step: an operation is run at most once and
\* only for somebody who waits for it, and nobody is told anything but what became of it.
ImplementsSharedExecution == Shared!SharedSpec

\* Although duplicates await executions with the lock in hand, every call ends:
\* the executions themselves never need the lock.
EveryCallEnds == \A c \in Callers : state[c] # "out" ~> state[c] = "out"

===============================================================================
