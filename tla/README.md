# Verification of the reference implementations

The repository is a library of interview exercises: prose, and small reference
implementations in Python (`answer.py`) and TypeScript (`answer.ts`). There is
no program that ties them together and there are no tests. What can be verified
is each implementation against what its own `question.md` requires of it, and
the interesting ones are those that share state between threads, coroutines or
successive calls. Each component below is one exercise directory.

All paths are relative to `src/`.

## Inventory

| component (directory) | state it keeps | operations | what is hard |
| --- | --- | --- | --- |
| `technical/dependency_circuit_breaker` | failure counter, time of the last failure, probe flag | `execute`, `state` | calls admitted in one state settle in another |
| `technical/job_manager` (Python) | job records, queue, key map, one lock | `enqueue`, `get_status`, `process_next` | processing runs between two locked blocks; threads that die |
| `technical/job_manager` (TypeScript) | the same, and a hand-made asynchronous `Mutex` | the same, asynchronous | hand-over of the lock, early return, starvation |
| `technical/rate_limiter` | deque of timestamps | `allow_request` | boundary of the window; a wall clock that is stepped |
| `technical/ttl_cache` | ordered dict with expiry, one lock | `set`, `get`, `get_or_set`, `delete`, `stats` | LRU order, lazy expiry, a factory called under the lock |
| `technical/idempotent_tool_executor` | map from key to task or promise, a lock in Python | `execute` | duplicates, timeout, cancellation, awaiting under a lock |
| `technical/bounded_parallel_tool_runner` | shared index, result array (per call) | `runTools` | pool of workers, abort at any time |
| `technical/embedding_migration_worker` | summary, pending chunks, batches (per call); index and marks outside | `migrateBatch` | abort, partial failure, lost acknowledgements, edits, retries |
| `technical/content_filter_integration` | nothing between calls | `generateWithSafety` | gates that must fail closed, abort between awaits |
| `technical/agent_plan_validator` | none | `validate_plan` | cycle search with shared marks, NaN, two languages |
| `technical/agent_trace_correlator` | none | `correlateAgentTraces` | each cycle once, whatever the order of the events |
| `technical/model_router_decision_function` | none | `choose_model` | ties, the order of strings, constraints that must not be relaxed |
| `technical/legacy_api_adapter` | none | `get_status` | classification of answers and exceptions, two payloads, inherited names |
| `technical/citation_integrity_checker` | none | a check | duplicates |
| `technical/async_state_and_request_deduplication` (code in `question.md`) | map of tasks | `parse_once` | publication, clean-up, cancelled waiters |
| `technical/timeout_retry_external_call` (code in `question.md`) | attempt, key | `create_ticket` | late answers, repeated requests, a body under no timeout |
| `technical/duplicate_approval_callback` (code in `answer.md`) | a database row, an outbox | `approvalCallback` | duplicate, late and conflicting deliveries, failed commits |
| `technical/concurrent_document_batch`, `multi_agent_deadlock` (examples) | shared cursor; none | | a pool; a wait cycle |
| `dsa/*` (nine implemented) | none | pure functions | correctness against a definition; loops that end |

The other exercise directories hold only types and functions that raise
`NotImplementedError`; `behavioral`, `cheatsheet` and `system_design` are prose.
The components do not call each other. Interaction happens inside them: the
TypeScript job manager uses its `Mutex`; executor, runner, migration and filter
call services their callers inject, and share an abort signal with the caller.

`PROJECT.json` lists every component with its status, the hazards with the line
at which each bites, and the source lines each definition stands for.

## Modules

| module | models | depends on |
| --- | --- | --- |
| `CircuitBreaker` | the breaker, both languages | |
| `JobManager` | `job_manager/answer.py`: threads, records, queue | |
| `FifoLock` | abstract: what a fair lock promises | |
| `AsyncMutex` | class `Mutex` of `job_manager/answer.ts` | implements `FifoLock` |
| `JobManagerTs` | `job_manager/answer.ts` | composes `JobManager` and `AsyncMutex` |
| `RateLimiter` | `rate_limiter/limiter.py` | |
| `LruMap` | abstract: a bounded map with lifetimes that may forget its least recently used entry | |
| `TTLCache` | `ttl_cache/answer.py` (`cache.py` is the same text) | implements `LruMap` |
| `SharedExecution` | abstract: an operation has one fate, and whoever asks is told it | |
| `IdempotentExecutor` | the executor, both languages | implements `SharedExecution` |
| `BoundedToolRunner` | `bounded_parallel_tool_runner/answer.ts` | |
| `EmbeddingMigration` | the migration worker, both languages | |
| `SafeGeneration` | the content filter integration, both languages | |
| `InFlight` | `parse_once()` of the in-flight deduplication, both languages | |
| `TicketRetry` | `create_ticket()`, both languages, and the service it calls | |
| `ApprovalCallback` | `approvalCallback()` and the database under it | |
| `AsyncExamples` | a behaviour of one of the four protocols before | `SafeGeneration`, `InFlight`, `TicketRetry`, `ApprovalCallback` |
| `PlanChecks` | `validate_plan()` but for cycles: steps, dependencies, policy, budget | |
| `PlanValidator` | `validate_plan()`, both languages: the checks, and the search for cycles call by call | `PlanChecks` |
| `ModelRouter` | `choose_model()`, both languages | |
| `LegacyAdapter` | `get_status()`, both languages | |
| `RequestCalls` | a call of one of the last two functions, which need no recursion | `ModelRouter`, `LegacyAdapter` |
| `TraceCorrelator` | `correlateAgentTraces()`, `answer.ts` | `Paths` |
| `DependencyOrder` | `dsa/dependency_order`, both languages | `Paths` |
| `Traversals` | tree depth (two ways), level order, islands | `Paths` |
| `Scans` | postfix evaluation, most frequent event | |
| `FirstAndLastMatch` | the two binary searches, both languages, turn by turn | |
| `FunctionCalls` | a call of any of these functions | `RequestCalls`, `PlanValidator`, `TraceCorrelator`, `DependencyOrder`, `Traversals`, `Scans`, `FirstAndLastMatch` |
| `Paths` | reachability, for the definitions of what a result must be | |
| `MC*` | model values, inputs and other values of the constants for TLC | the module named |
| `*Proofs` | theorems and proofs | the module named |

Conventions. An action is a stretch the code runs without interruption: a
`with self.lock` block for threads, the code between two awaits for coroutines.
Where the two languages differ, the constant `Lang` (breaker) or a variable that
never changes (`lang`, `setup`) chooses, and the difference is an operator of its
own (`CooldownElapsedPy` and `CooldownElapsedTs`,
`PoolStarts` and `GroupStarts`, `Blocks` and `Passes`). History variables are
marked as such and no guard reads them. A definition that follows a comment
beginning with "Mutant:" is a plausible mistake in the definition after it; it
takes part in no specification and shows that the properties can fail.

### State and actions, component by component

**CircuitBreaker.** `fail_count`, `probe_in_flight` are the fields;
`since_failure` is `now() - last_fail_time_stamp`, saturated one past the
cooldown, which is all that is ever read of the timestamp; `call` is each
coroutine's local `current_state`. `Reject` and `Admit` are `execute()` up to
the await; `Succeed`, `FailEligible`, `FailIneligible` are the rest, with the
`finally` block (`ClearProbe`) inside each.

**JobManager.** `status`, `retry_count`, `max_retries`, `error`, `created_at`
are the record of a job; `worker` is the local variable `job` of a
`process_next()` between its two locked blocks. `Dequeue` is the first block,
`FinishSuccess` and `FinishFailure` the last, `Interrupt` a `BaseException` that
`except Exception` lets through, so that the last block never runs. The body of
the processing is a placeholder in the code; it may succeed or fail.

**AsyncMutex and JobManagerTs.** `locked` and `waiters` are the fields of
`Mutex`; who owns the lock is stored nowhere and is recorded in `place`. In
`JobManagerTs` a public method is a `Call...` action, which runs up to
`await this.lock.acquire()`, and a `Run...` action, the locked block with the
release of its `finally`; both the records' action (of `JobManager`) and the
mutex's action (of `AsyncMutex`) are conjuncts of it.

**RateLimiter.** `clock` is `time.time()`, `elapsed` real time, which the
program does not see. The eviction loop is "exactly `n` are popped" (`Pops`).

**TTLCache.** `cache` is the dict as the order of its keys, `left` the rest of
each lifetime. Every method is one action but `get_or_set()` on a miss, which
holds the lock (`lock`, `loading`) while the factory runs.

**IdempotentExecutor.** `executions` is the map; `line` the owner of the
`asyncio.Lock` and its waiters in order. A Python duplicate awaits the task
inside the locked block (`awaiting_locked`). To cancel a caller only asks: one that
waits for the lock, or has the result at hand, leaves (`Cancel`); one that awaits a
task passes it on. A task that has not begun then never does (`Abort`, `NeverStart`),
and the caller stays, lock in hand if it is, until that shows; one that has begun
decides itself how it ends, since a handler may clean up first or swallow the
cancellation, so that nothing changes before `Settle`, which in Python may end in any
result or in the cancellation. `handling` are the operations whose handler is at work:
`wait_for()` of Python returns after the handler it cancels, while `Promise.race()` leaves
it running, and its end is an action of its own (`LateEnd`).

**BoundedToolRunner.** `nextIndex` and `res` are the shared variables, `running`
the local index of each worker; a limit is given as twice its value since it
need not be whole.

**EmbeddingMigration.** `at` is where a call has each chunk; `shadow`, `marked`
and `revision` are the services' and persist between calls. A service that fails
may have had its effect. Batches that the code starts in one stretch are started
in one action. What the code awaits or reads outside of its `try` blocks makes the call
raise instead of returning a summary: `claim()` (`ClaimFails`), a null answer of `embed()`
(`EmbedNull`) and, in Python, a null vector in it (`Embed`; answer.ts counts one as failed).
The chunks are then `lost`, uncounted; the other batches in flight go on, in answer.ts
even those that the other workers of the pool still take, and the next call of the
model comes when all that has ended (`Quiet`). A caller that calls again at once, next to
what an earlier call left running, is not modelled.

**SafeGeneration.** `stage` is the service a call awaits. A classifier's answer is
`allowed`, `blocked` or malformed: `truthy` (its `allowed` is not true but counts as
true), `untyped` (says no, but is not the type the code tests for), `fieldless` (without
`allowed`) or `null`. `Throws`, `Blocks` and `Passes` are what each language makes of it.

**InFlight.** `in_flight` is the map, `waits_for` the task a caller awaits. A
Python task is `scheduled` before it runs and cleans up in its own `finally`; a
TypeScript promise is parsed at once and is `settled` before its clean-up
reaction runs. The block under the `asyncio.Lock` holds no await, so that lock
is never contended and `ParseOnce` is one action.

**TicketRetry.** `attempt` is the loop variable, `call_at` the await the call is
in, `request` what became of each attempt's request, which the service may take
up after the caller gave it up. `AttemptFails` is the timeout or a transport
error, before or after the service acted. The service's map of keys is `tickets`; it
may commit and answer with a status that is retried all the same (`erred`).

**ApprovalCallback.** `row` and `outbox` are the tables, `row_lock` the
transaction that holds the row, `delivery` the progress of each callback, which may also
end in the errors for a bad signature, a body that is no JSON or an unknown request.
`Redelivered` is a process that fails before its commit, or before its answer.

**AsyncExamples, RequestCalls, FunctionCalls.** Composites whose initial states choose one
protocol, or one function with its arguments and language; the others stay as
they are. Nothing outlives a call of a function, so a behaviour is one call and
its one step computes the result with the operator that translates the function;
only the binary searches, whose loops may fail to end, take a step per turn, and
`validate_plan()` takes one per call and return of its `has_cycle()`.

**PlanValidator.** `path` is the stack of the calls of `has_cycle()` in progress, and a
frame is the id it was called with. A frame needs no place in its loop: `Reaches` is
the next dependency that is known and has not been visited, and those the loop
went past are unknown or visited. `visiting` and `visited` outlive a search, as in
the code; what an interrupted search leaves in `visiting` is what the later ones
of `answer.py` find there, while `answer.ts` clears it. **TraceCorrelator,
DependencyOrder.** Their searches are recursive operators that thread the marks the
code shares between searches; what is proved about stands in modules without
such operators. **ModelRouter** compares tuples as `sorted()` does;
the place of an id in each language's order of strings is a constant (`IdRank`).
**LegacyAdapter** takes what the client does as input; a body is the function
from its fields to values, and a `Retry-After` header one of each kind that both, one or
none of the languages reads as a number (`ReadBy`). **PlanChecks**: an estimate is an
integer, `Infinity` or `NaN`; a reference may be `None` or empty.

## What the runs check

Every component is in one run that must pass. It checks the component's
invariants, of which a part is the type invariant, its action properties and,
under the fairness given below, its liveness. The mutex is checked where it is
used, in the run of the TypeScript job manager.

| run | bounds | properties and what they show |
| --- | --- | --- |
| `CircuitBreaker_breaker` | 3 callers, threshold 2, cooldown 2 | `ProbeInv`: one probe, exact flag; `TripStartsCooldown`; `TrippedIsProbed`: a tripped breaker comes to probe |
| `JobManager_threads` | 3 jobs, 1 key, 2 threads, retry limits 0 and 1, interruptions | `JobsAccountedFor`: queue, statuses and workers agree (`JobInOnePlace`), retries are bounded (`AttemptsBounded`); `OneJobPerKey`; `FirstAttemptsInOrder`; `TerminalIsFinal`; `EveryJobEnds`: only an interrupted job is lost |
| `JobManagerTs_calls` | 2 jobs, 1 key, 2 workers, 2 clients, retry limit 1 | `MutexInv`: exclusion, exact flag and list; `GrantedInOrder`: the mutex implements `FifoLock`; `BlocksExact`: lock only in blocks, job held between them; `EveryBlockEnds`: whoever asks for the lock gets it and leaves, though processing hangs; `TsEveryJobEnds` if it does not |
| `RateLimiter_window` | limit 2, window 3, time 9, clock steps of -2 | `WindowBound`; `RejectsOnlyWhenFull` (with the types and the bound of the deque) |
| `TTLCache_threads` | 3 keys, capacity 2, 2 threads, lifetimes 1 and 2 | `CacheExact`: the order is that of last use, no entry outlives its lifetime (`EntriesExact`), check and load are one, the lock is released (`LoadIsAtomic`); `OnlyLeastRecentEvicted`; `ImplementsLruMap`: lazy expiry does not show |
| `IdempotentExecutor_calls` | 3 callers, 2 operations, both languages | `OneSharedRun`: one run (`AtMostOnce`), one outcome (`SameOutcome`) that no late end of the handler changes, a lock's line that survives cancellations (`LineExact`), no task that nobody awaits (`Attended`); `ImplementsSharedExecution`; `EveryCallEnds` |
| `BoundedToolRunner_batch` | 5 requests, limit 3 | `BatchExact`: bounded concurrency, each request in one place, a complete array in order; `BatchReturns` |
| `EmbeddingMigration_calls` | 3 chunks, 2 calls, 1 edit, 2 batches at once, of 1 or 2 chunks, both languages | `ReturnedAccountsForAll`: a summary that is returned counts every chunk once, batches bounded; `MarkedIsIndexed`: marks never ahead of the index; `NoNewWorkAfterAbort`; `EveryCallReturns`: or raises, and what it left in flight ends |
| `AsyncExamples_protocols` | 2 documents, 3 callers and 3 parses; 3 attempts; 3 deliveries; 2 safe generations under one signal | `OneParseInFlight`; `TicketAtMostOnce` and what a call may tell; `TicketCallEnds` though the service never answers; `DecidedOnce`; `GatesHold`; `NoCallAfterAbort` |
| `FunctionCalls_results` | families of inputs that vary what each function looks at (`MCFunctionCalls`): plans of up to four steps, three candidates, traces of four events, trees of depth four, 3 by 3 grids, five tokens or events, lists of up to five numbers | `CyclesExact`: reported are exactly the steps that can never run; `RouteIsBest`; `AdapterIsolates`; `ExercisesExact`: accepted plans can run to their end within the budget, each cycle of a trace is reported once, the other exercises return what is asked; `SearchIsExact`, `SearchEnds`; `ImplementationsAgree`: the two languages answer alike but for the named inputs |

Two runs show a disagreement of the code with a statement of the repository, each
a `findings` entry with the quotation:

| run | disagreement |
| --- | --- |
| `CircuitBreaker_reopen` (Python, same bounds) | a stale success during the probe, and the failed probe does not reopen |
| `SafeGeneration_malformed` (one call) | a malformed answer of the classifier is not `filter_unavailable`: answer.py calls the model after a refusal that is no `BlockedDecision` |

Disagreements that are visible in the model without a run, with the definition
that shows each: a step forward of the wall clock empties the limiter's window
early (`StepClock`); calls of other operations wait behind an execution that is
awaited under the lock (`AwaitUnderLock`), and the cancellation of one caller
reaches the shared execution (`Abort`, `Settle`); a call that was started and ends after
the abort is reported as cancelled (`End`), and a limit of one half makes a pool
of no workers (`PoolSize`); an abort during the last classification is looked at
neither in answer.ts nor in answer.py (`ClassifyOutput`); a null answer of `embed()`, and
in answer.py a null vector, raises out of `migrate_batch()` instead of being counted
as failed (`EmbedNull`, `Embed`). Of malformed answers of the classifier, besides the run
above: an `allowed` that only counts as true passes in both languages (`Passes`), a null
answer throws out of the function in both, an answer without `allowed` throws in answer.py
(`Throws`) and is a block without a category in answer.ts (`Blocks`).

Of the functions:

- the plan validator's `answer.py` accepts estimates that are NaN, and with one
  any budget (`InvalidEstimate`, `Total`); an infinite one it finds over the budget,
  answer.ts invalid; an empty approval reference is missing in answer.ts only
  (`MissingRef`);
- the binary search of `answer.py` leaves out the lower bound in its middle
  (`Mid`); what it returns is right all the same, but it never returns on, for
  instance, the first example of its `question.md`;
- `dependency_order` reads a pair as task and dependency where `question.md`
  writes prerequisite and dependent, and `answer.py` returns the tasks in the order
  of a set, which for small integers is ascending, not an order of dependencies
  (`OrderExact` asks it of answer.ts only);
- the adapter's `answer.ts` finds the names a plain object inherits in its map of
  states (`StateOf`), wants `updated_at` to be there (`UpdatedAt`), reads headers
  `int()` rejects and rejects some it reads (`ReadBy`), and reports a `TimeoutError` as unavailable
  (`Raised`); `AdapterDiffers` lists them;
- ids are compared by code point in Python and by `localeCompare()` in TypeScript
  (`IdRank`), which may choose another model among equals;
- an empty token is the number 0 in TypeScript and malformed in Python
  (`NumberOf`);
- the timer of a ticket's attempt in TypeScript is cleared before the body is read
  (`BodyRead`);
- `answer.py` of the trace correlator and of the citation checker instantiate
  `typing.Dict`, which raises TypeError whatever the input.

**Why the bounds are enough.** Three callers are what the stale-call scenarios
of the breaker need (two admitted before the trip, one probe); counters saturate
where the code stops telling values apart. Three jobs and two workers give a
retried job queued between a started and a new one; two workers can hold jobs at
once. Two clients and two workers give the mutex three waiters. Two operations make one wait for the
other. A pool smaller than the batch by two makes workers take second requests.
Capacity 2 with 3 keys makes evictions, and time up to twice the window makes
boundaries. Two calls of the migration make a retry of everything the first
left; batches of one chunk make the pool refill, batches of two are counted as a
whole. Three deliveries make a duplicate and a conflict of one decision; three
parses make a document parsed again after its first parse, while another is in
progress. Plans of three steps have every cycle a search can leave its marks in,
and a step that only leads to one; four events do the same for parents. Lists of
five with three values have matches at either end, in the middle, everywhere and
nowhere. Symmetry is not used: the runs check liveness along with safety.

**Named bounds.** `CountCap` (breaker), `Jobs` (ids handed out), `MaxTime`
(limiter), `MaxCalls` and `MaxEdits` (migration),
`Tasks` (the parses of the in-flight deduplication), `Deliveries`, `IdsLeft` (an enqueue is
called only while an id is left). None is a guard of the code.

**Fairness.** Weak fairness only. The event loop runs every ready continuation;
each worker thread is a loop around `process_next()`; what a component awaits
settles (`Settle`, `End`, the factory, the injected services), which the code
itself bounds only in the executor, by its timeout; in Python the handler that the
timeout cancels is assumed to end. `CircuitBreaker` also
assumes that requests keep arriving. `EveryBlockEnds` assumes the least: that
continuations run, and nothing of the processing of documents; what
`TsEveryJobEnds` needs besides is its premise (`WorkersServe`). No operation is
assumed to succeed, and `EveryJobEnds` does not assume that workers are never
interrupted. `TicketFairness` is that the timer and the backoff of an attempt
end, which the code sets; neither an answer of the service nor, in TypeScript,
the end of a body is assumed. A loop of the binary searches runs on (`SearchStep`).

## What is proved

For every value of the constants (numbers of callers, threads, workers, jobs,
chunks and keys, thresholds, windows, capacities), with the assumptions named in
the modules. Of the properties the passing runs check, every invariant, every
action property and every refinement is a theorem, but for two invariants of
`FunctionCalls` about functions that are recursive or sum up (below).

- `CircuitBreakerProofs`: `ProbeInv` (`TypeOK`, `AtMostOneProbe`,
  `ProbeFlagExact`) and `TripStartsCooldown`. The two facts about the probe need
  each other (the gate admits no second probe only if the flag is set while one
  runs; clearing is exact only if no second one runs), so `ProbeInv` is inductive
  and its parts are not.
- `JobManagerProofs`, in three parts. *The threads*: type correctness,
  `JobsAccountedFor` with its parts
  `JobInOnePlace` (`QueueMatchesStatus`, `OneWorkerPerJob`) and `AttemptsBounded`,
  `OneJobPerKey`, `FirstAttemptsInOrder`
  and `TerminalIsFinal`. The invariant ties `attempts` to `retry_count` per
  status, creation ranks to the queue's order (first attempts stand in it in the
  order of creation, behind nothing that was started later), and the key map to
  the keys of the records. *The mutex*: `MutexInv` (exclusion, exact flag, exact
  list), and that every step of
  the mutex is a step or a stutter of `FifoLock` under `line <- Line`. Exclusion
  is inductive only together with "nobody waits for a free lock". *answer.ts*:
  `BlocksExact`, from the conjunction of the two invariants before, the types of
  the calls' program counters and of their arguments, and itself: that a call is
  let into its block only by the mutex, and that only the block sets a worker's job,
  need each other; `UsesTheMutex` (`TsSpec => MutexSpec`) and
  `ImplementsJobManager` (`TsSpec => Spec`), both step by step and without a
  refinement mapping, since the composite has the variables of both. The second
  says that what the asynchronous calls add to the threads, a wait before each
  block, does nothing to the jobs; every theorem about the threads and the mutex
  then is one about answer.ts (`TsAccountIsExact`, `TsOutcomeIsFinal`, ...).
- `RateLimiterProofs`: `WindowBound` and `RejectsOnlyWhenFull` for every limit and
  window, provided no step of the clock is forward (a step forward really breaks
  the first, and the second says by how much a step back may delay). The
  invariant says that a timestamp is never ahead of the real time of its
  admission relative to the clock, and that what was evicted was old.
- `TTLCacheProofs`, in two parts. *The dict*: `CacheExact` and
  `OnlyLeastRecentEvicted`. `CacheExact` is inductive: the order of the dict is a
  subsequence of the order of last use, which is stated by pairs (`Before`) so that
  removing a key and moving it to the end can be reasoned about without
  induction; the lemmas about `RemoveFirst`, `Tail` and `ToEnd` carry the proof.
  *What the callers see*: `ImplementsLruMap`. The mapping gives every key the time
  its entry will still be served (`Life`), so that an entry that has expired and
  lingers is none. The step to show is a store: the dict may pop several keys, of
  which the expired ones were not in the map; that at most one live entry goes,
  that it is the least recently used of the live ones, and that it goes for a new
  one, follows from the order of the dict (`StoreFills`), and that no more entries
  live than the capacity from the length of a sequence without repetition
  (`FewMembers`).
- `IdempotentExecutorProofs`, in two parts. *The map and the lock*: `OneSharedRun`,
  and `ResultIsFinal`, that no later
  call and no cancellation changes what became of an operation. The
  invariant adds that what was not started has not run, and that whoever left with
  a result has the one in the map. The hard step is `Cancel`: a cancelled waiter
  leaves the middle of the line, a cancelled owner its head, and
  the line stays that of the callers that wait, each once. On top of it
  `NoTaskLeftBehind`: a task that is not over has a caller that awaits it, for a
  caller that is cancelled passes that on to the task and goes on awaiting it.
  *What the callers see*: `ImplementsSharedExecution`, in both languages. A task that
  was created and has not run maps to an operation without a fate, so that creating
  it is nothing but a call, and its start is `Begin`, which may happen only while
  somebody asks: that is where `Attended` is needed. Line and lock map to nothing.
- `BoundedToolRunnerProofs`: `BatchExact` for every batch, provided the limit is
  at least one (`TwiceMax >= 2`; a limit below one makes an empty pool, which
  returns an array of holes). The invariant adds that untaken requests are
  untouched, that only workers of the pool run, each a request it took, that a
  success or a failure was earned by a start, and that a worker stops only when
  every request is taken, so that a batch that returns has lost none.
- `EmbeddingMigrationProofs`: `ReturnedAccountsForAll`, `MarkedIsIndexed` and
  `NoNewWorkAfterAbort`, for every finite set of chunks, in both languages. A
  call that raises loses the chunks of the batch that made it raise, and returns no
  summary. The
  invariant has five parts: the sum of the counters is the number of chunks the call
  is done with (`CountedAreDone`); the index is never ahead of the sources, the
  marks never ahead of the index, and what is about to be marked has been indexed
  (`Indexed`); batches are numbered from 1 on without a gap and are small
  (`BatchesSplit`); the batches taken are exactly those whose chunks are not pending,
  a batch is embedded as a whole, and no chunk is lost but in a call that raised
  (`InPlace`); and the bound on the batches
  in progress. `EveryChunkCounted` follows only from all of them: a call
  returns when no batch follows, and that no chunk is left behind then needs the
  numbering. That splitting by rank numbers the batches so, and makes none too
  large, is proved by arithmetic and by least elements (`Ranks`,
  `NumbersAreInterval`, `BatchesAreSmall`).
- `ExamplesProofs`, in parts. `OneParseInFlight` for every number of
  documents, callers and
  parses: inductive as it stands, since it says of the map both that
  every parse in progress is in it and that nothing else is; a task that is to be
  published is in no place yet, and a clean-up removes no other parse's entry.
  `DecidedOnce` for every number of deliveries: it needs
  that whoever is deciding, and nobody else, holds the row's lock, that the row is
  pending meanwhile, and that what is not signed gets no further than its arrival.
  `GatesHold` and `NoCallAfterAbort` of the safe generation: a call past a gate has
  passed it, whatever other calls under the signal do (`GatesPassed`).
  `TicketAtMostOnce`: which attempts can have reached the service follows from the
  loop variable, and a fatal answer is that of the last (`AttemptsSent`).
  `ExamplesAreSafe` puts the four together for the composite that TLC runs.
  `SearchIsExact` for every sorted list and integer
  target, in both languages: the invariant is
  that what lies below `left` and above `right` has been decided. The middle of
  answer.py may lie below `left`, where all is decided, and moves a boundary back
  without harm.
  `RouterIsExact` and `InputOrderIsIrrelevant` for any candidates: comparing tuples
  place by place is narrowing by one preference after the other (`KeyLessPlaces`,
  `SmallestValue`), and since no two ids share a rank (`IdRankAssumption`) one
  candidate is left, whichever the order of the input.
  `AdapterIsExact` for any answer or exception of the legacy client, field by
  field; the values that stand for strings and kinds of values must differ
  (`AdapterAssumption`), and the arguments be well typed (`RequestAssumption`).
  `LanguagesAgree`: the two languages return the same but for the inputs
  `ImplementationsAgree` excepts.
  `PlanChecksAreExact` for plans of any length and any policy: but for cycles, there
  is no issue exactly if the plan is `WellFormed`, every step `Permitted`, no
  estimate invalid, and neither length nor total beyond its limit, so that no check
  masks another one and nothing is reported of a plan that has nothing wrong.
  What `FlattenSeq` puts together is empty exactly if every part is
  (`FlattenEmpty`), by a least counterexample.
  `CyclesAreExact` for any plans (`PlanAssumption`: finite sequences of steps), in both
  languages: when the call returns, a step is
  reported exactly if it can never run. That a step can never run is put as its
  membership in a set of steps of which each waits for one in the set, which for
  finite plans is to lead to a cycle, and needs no induction: the steps of `path` from a
  repeated one on are such a set, and so is one with a step before it. The
  invariant (`PlanInv`) says that no visited step is one of those; that each
  step in `visiting` is on the path, or is one of those and was left there by a search
  that found a cycle; that the path follows dependencies from the root and repeats
  no step; and that the steps before `root` were reported rightly. A return then adds
  to `visited` a step whose dependencies are unknown or visited, which no such set contains.
  `AcceptsExactly` joins the two: a returned call has no issue exactly if the plan
  passes the checks and every step of it can run.

Each inductive invariant was checked by TLC on the instance of the component's run
before it was proved.

## What is only model-checked

Liveness (under fairness) and everything that needs ENABLED are outside the
prover's fragment. Two invariants of `FunctionCalls` are about
recursive operators or folds over data: in `ExercisesExact` the order an accepted plan
can be run in (its existence, from the absence of cycles, is an induction) and the
sum of its estimates, the correlation of traces, the order of tasks, and the
exercises over trees, grids and lists; in `ImplementationsAgree` the agreement on
postfix expressions and on the checks of plans (for the router and the adapter it is proved). They are
checked on the bounded inputs only. The prover has no use for a module with
RECURSIVE operators, and
the library's induction theorems, which take an operator, cannot be
instantiated; where an induction could be put as a least counterexample among
numbers (`EmbeddingMigrationProofs`, `FlattenEmpty`), or a loop as a step of a state
machine (`PlanValidator`, `FirstAndLastMatch`), it was proved.

## What is not modelled

- `concurrent_document_batch`: workers over a shared cursor, the pool
  `BoundedToolRunner` models where there is an implementation of it.
- `multi_agent_deadlock`: two agents with one await each; that both wait is the
  example itself.
- `citation_integrity_checker`: one pass of checks in answer.ts, which a property
  could only repeat; answer.py fails on every input.
- `container_with_most_water`, `duplicate_request_detector`: single scans of a few
  lines.
- `answer.py` of the tool runner and of the trace correlator, which fail before they
  do anything.
- The exercises without an implementation, prose, the counters of the cache,
  wording and length limits of texts and metadata, the encoding of the executor's
  key, `get_status` of the job manager (it changes nothing, and appears only where
  it contends for the lock).

What would come next: the breaker as a refinement of one with two states and a
clock, and the searches of `TraceCorrelator` and `DependencyOrder` call by call, as in
`PlanValidator`.
