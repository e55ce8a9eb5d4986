-------------------------- MODULE EmbeddingMigration --------------------------
(***************************************************************************)
(* technical/embedding_migration_worker: migrate_batch() claims chunks,    *)
(* filters them, embeds them in batches and writes and marks each one,     *)
(* while an abort signal may fire at any time; a later call takes up what  *)
(* an earlier one left.  The steps are the stretches between two awaits.   *)
(* answer.ts (lang = "ts") feeds a pool from a shared index and counts an  *)
(* error after an abort as skipped; answer.py (lang = "py") runs groups of *)
(* batches and counts every error of a chunk as failed.  What is not in a  *)
(* try block raises out of the call: claim(), and the length of a null     *)
(* answer of embed(); the batches that are in flight go on all the same.   *)
(*                                                                         *)
(* Data abstraction.  A chunk's revision stands for its digest; a vector   *)
(* is right, of a wrong dimension or null.  The injected services are      *)
(* external: a call that fails may have had its effect (a lost             *)
(* acknowledgement), and writeShadow() refuses a chunk that was edited     *)
(* after it was claimed.                                                   *)
(***************************************************************************)
EXTENDS Integers, FiniteSets, FiniteSetsExt

CONSTANTS
    Chunks,             \* numbered in the order claim() returns them
    BatchSizes,         \* the values of embedBatchSize that are tried
    MaxBatches,         \* maxConcurrentBatches
    MaxCalls,           \* bound: how often migrate_batch() is called
    MaxEdits            \* bound: how often chunks are edited

ASSUME MigrationAssumption ==
    /\ Chunks \subseteq Nat /\ IsFiniteSet(Chunks)
    /\ BatchSizes \subseteq Nat \ {0} /\ MaxBatches \in Nat \ {0}
    /\ MaxCalls \in Nat /\ MaxEdits \in Nat

VARIABLES
    revision,       \* external: the current revision of each chunk
    shadow,         \* external: the revision in the shadow index, or None
    marked,         \* external: the revision marked complete, or None
    phase,          \* "idle" | "filter" | "batches": where migrate_batch() is; or it
                    \* has "raised"
    calls,          \* how many calls were made
    signal,         \* the abort signal of this call
    claimed,        \* the revision each chunk was claimed at
    at,             \* per chunk, where this call has it
    batch,          \* per chunk, the number of its batch, or 0
    taken,          \* how many batches were started
    summary,
    setup           \* which of the two implementations runs, "py" or "ts", with
                    \* which embedBatchSize

external == <<revision, shadow, marked>>
vars == <<external, phase, calls, signal, claimed, at, batch, taken, summary, setup>>

None == -1
Empty == [completed |-> 0, skipped |-> 0, stale |-> 0, failed |-> 0]

Init == /\ revision = [c \in Chunks |-> 0]
        /\ shadow = [c \in Chunks |-> None]
        /\ marked = [c \in Chunks |-> None]
        /\ phase = "idle" /\ calls = 0 /\ signal = FALSE /\ taken = 0
        /\ claimed = [c \in Chunks |-> None]
        /\ at = [c \in Chunks |-> "away"]
        /\ batch = [c \in Chunks |-> 0]
        /\ summary = Empty
        /\ setup \in [lang : {"py", "ts"}, batchSize : BatchSizes]

In(S) == {c \in Chunks : at[c] \in S}

Move(C, place) == at' = [c \in Chunks |-> IF c \in C THEN place ELSE at[c]]

\* Mutant: a batch is counted as one.
CountOnce(C, kind) == /\ summary' = [summary EXCEPT ![kind] = @ + 1]
                      /\ Move(C, "done")

\* The chunks C end in this call as `kind`.
Count(C, kind) == /\ summary' = [summary EXCEPT ![kind] = @ + Cardinality(C)]
                  /\ Move(C, "done")

-----------------------------------------------------------------------------
(* The batches, and which are started together *)

Members(b) == {c \in Chunks : batch[c] = b}

Batches == {batch[c] : c \in Chunks} \ {0}

Busy == {"embedding", "writing", "marking"}

InProgress == {b \in Batches : \E c \in Members(b) : at[c] \in Busy}

\* The batches that raised.
Raised == {b \in Batches : \E c \in Members(b) : at[c] = "lost"}

\* The next n batches.
Following(n) == {b \in Batches : taken < b /\ b <= taken + n}

\* The pool: at first each worker takes a batch, then one takes the next batch
\* when its own has ended.  A worker whose batch raised takes no other; the rest go on.
PoolStarts == IF taken = 0 THEN Following(MaxBatches)
              ELSE IF Cardinality(InProgress \cup Raised) < MaxBatches THEN Following(1) ELSE {}

\* The groups: the next one is started when every batch of the last has ended, and
\* none raised.
GroupStarts == IF phase = "batches" /\ InProgress = {} THEN Following(MaxBatches) ELSE {}

\* The batches that are started together.
Startable == IF setup.lang = "ts" THEN PoolStarts ELSE GroupStarts

\* No call is running, nor anything that one left behind when it raised.
Quiet == phase = "idle" \/ (phase = "raised" /\ InProgress = {} /\ Startable = {})

-----------------------------------------------------------------------------
(* Claiming and filtering *)

\* migrate_batch() is called, and raises because claim() does.
ClaimFails ==
    /\ Quiet /\ calls < MaxCalls
    /\ calls' = calls + 1
    /\ UNCHANGED <<external, phase, signal, claimed, at, batch, taken, summary, setup>>

\* migrate_batch() is called and claim() returns chunks that need the version.
Claim(C) ==
    /\ Quiet /\ calls < MaxCalls
    /\ C \subseteq {c \in Chunks : marked[c] # revision[c]}
    /\ phase' = "filter"
    /\ calls' = calls + 1
    /\ signal' = FALSE
    /\ claimed' = [c \in Chunks |-> IF c \in C THEN revision[c] ELSE None]
    /\ at' = [c \in Chunks |-> IF c \in C THEN "claimed" ELSE "away"]
    /\ batch' = [c \in Chunks |-> 0]
    /\ taken' = 0
    /\ summary' = Empty
    /\ UNCHANGED <<external, setup>>

\* The loop is at chunk c: the chunks before it have been looked at.
AtChunk(c) == /\ phase = "filter" /\ at[c] = "claimed"
              /\ In({"asking"}) = {}
              /\ \A d \in In({"claimed"}) : c <= d

\* After an abort alreadyCurrent() is not asked.
FilterAborted(c) ==
    /\ AtChunk(c) /\ signal
    /\ Count({c}, "skipped")
    /\ UNCHANGED <<external, phase, calls, signal, claimed, batch, taken, setup>>

\* alreadyCurrent() is called for c.
Ask(c) ==
    /\ AtChunk(c) /\ ~signal
    /\ Move({c}, "asking")
    /\ UNCHANGED <<external, phase, calls, signal, claimed, batch, taken, summary, setup>>

\* alreadyCurrent() answers.
Answer(c) ==
    /\ at[c] = "asking"
    /\ \/ shadow[c] = claimed[c] /\ Count({c}, "skipped")
       \/ shadow[c] # claimed[c] /\ Move({c}, "pending") /\ UNCHANGED summary
       \/ Count({c}, "failed")
    /\ UNCHANGED <<external, phase, calls, signal, claimed, batch, taken, setup>>

\* Every chunk has been looked at: the pending ones are split into batches.
Split ==
    /\ phase = "filter"
    /\ In({"claimed", "asking"}) = {}
    /\ phase' = "batches"
    /\ batch' = [c \in Chunks |->
                    IF at[c] # "pending" THEN 0
                    ELSE Cardinality({d \in In({"pending"}) : d < c}) \div setup.batchSize + 1]
    /\ UNCHANGED <<external, calls, signal, claimed, at, taken, summary, setup>>

-----------------------------------------------------------------------------
(* Embedding in batches *)

\* Mutant: a batch is started without a look at the signal.
StartUnchecked ==
    /\ phase \in {"batches", "raised"}
    /\ Startable # {}
    /\ taken' = taken + Cardinality(Startable)
    /\ Move(UNION {Members(b) : b \in Startable}, "embedding")
    /\ UNCHANGED <<external, phase, calls, signal, claimed, batch, summary, setup>>

\* processBatch() is called: embed() is, or the batch is skipped after an abort.
Start ==
    /\ phase \in {"batches", "raised"}
    /\ Startable # {}
    /\ taken' = taken + Cardinality(Startable)
    /\ LET C == UNION {Members(b) : b \in Startable}
       IN  \/ signal /\ Count(C, "skipped")
           \/ ~signal /\ Move(C, "embedding") /\ UNCHANGED summary
    /\ UNCHANGED <<external, phase, calls, signal, claimed, batch, setup>>

Embedding(b) == Members(b) \cap In({"embedding"}) # {}

\* embed() fails.
EmbedFails(b) ==
    /\ Embedding(b)
    /\ Count(Members(b), IF signal THEN "skipped" ELSE "failed")
    /\ UNCHANGED <<external, phase, calls, signal, claimed, batch, taken, setup>>

\* embed() returns another number of vectors than texts.
EmbedMiscounts(b) ==
    /\ Embedding(b)
    /\ Count(Members(b), "failed")
    /\ UNCHANGED <<external, phase, calls, signal, claimed, batch, taken, setup>>

\* embed() returns after an abort: no vector is written.
EmbedAborted(b) ==
    /\ Embedding(b) /\ signal
    /\ Count(Members(b), "skipped")
    /\ UNCHANGED <<external, phase, calls, signal, claimed, batch, taken, setup>>

\* embed() returns null, which has no length: the batch raises uncounted, and with it
\* the call.
EmbedNull(b) ==
    /\ Embedding(b)
    /\ Move(Members(b), "lost")
    /\ phase' = "raised"
    /\ UNCHANGED <<external, calls, signal, claimed, batch, taken, summary, setup>>

\* embed() returns; the vectors of the chunks Bad have a wrong dimension, or are null
\* in TypeScript; those of Null are null in Python, where len() raises out of the call.
Embed(b, Bad, Null) ==
    /\ Embedding(b) /\ ~signal
    /\ Null # {} => setup.lang = "py" /\ Bad \cap Null = {}
    /\ at' = [c \in Chunks |-> IF c \in Null THEN "lost"
                               ELSE IF c \in Bad THEN "done"
                               ELSE IF c \in Members(b) THEN "writing" ELSE at[c]]
    /\ phase' = IF Null = {} THEN phase ELSE "raised"
    /\ summary' = [summary EXCEPT !.failed = @ + Cardinality(Bad)]
    /\ UNCHANGED <<external, calls, signal, claimed, batch, taken, setup>>

-----------------------------------------------------------------------------
(* Writing and marking one chunk *)

\* An error of writeShadow() or markComplete(): TypeScript looks at the signal.
CountError(c) == Count({c}, IF setup.lang = "ts" /\ signal THEN "skipped" ELSE "failed")

Refused(c) == revision[c] # claimed[c]

\* writeShadow() acknowledges the vector, and markComplete() is called.
Write(c) ==
    /\ at[c] = "writing"
    /\ ~Refused(c)
    /\ shadow' = [shadow EXCEPT ![c] = claimed[c]]
    /\ Move({c}, "marking")
    /\ UNCHANGED <<revision, marked, phase, calls, signal, claimed, batch, taken, summary, setup>>

\* Mutant: the answer "stale" is not looked at.
WriteStaleIgnored(c) ==
    /\ at[c] = "writing"
    /\ Refused(c)
    /\ Move({c}, "marking")
    /\ UNCHANGED <<external, phase, calls, signal, claimed, batch, taken, summary, setup>>

\* writeShadow() answers "stale".
WriteStale(c) ==
    /\ at[c] = "writing"
    /\ Refused(c)
    /\ Count({c}, "stale")
    /\ UNCHANGED <<external, phase, calls, signal, claimed, batch, taken, setup>>

\* writeShadow() fails, having written or not.
WriteFails(c) ==
    /\ at[c] = "writing"
    /\ \/ UNCHANGED shadow
       \/ ~Refused(c) /\ shadow' = [shadow EXCEPT ![c] = claimed[c]]
    /\ CountError(c)
    /\ UNCHANGED <<revision, marked, phase, calls, signal, claimed, batch, taken, setup>>

\* markComplete() acknowledges.
Mark(c) ==
    /\ at[c] = "marking"
    /\ marked' = [marked EXCEPT ![c] = claimed[c]]
    /\ Count({c}, "completed")
    /\ UNCHANGED <<revision, shadow, phase, calls, signal, claimed, batch, taken, setup>>

\* markComplete() fails, having marked or not.
MarkFails(c) ==
    /\ at[c] = "marking"
    /\ marked' \in {marked, [marked EXCEPT ![c] = claimed[c]]}
    /\ CountError(c)
    /\ UNCHANGED <<revision, shadow, phase, calls, signal, claimed, batch, taken, setup>>

\* Mutant: the call goes on until every chunk is completed.
ReturnCompleted ==
    /\ phase = "batches"
    /\ summary.completed = Cardinality({c \in Chunks : claimed[c] # None})
    /\ phase' = "idle"
    /\ UNCHANGED <<external, calls, signal, claimed, at, batch, taken, summary, setup>>

\* Every batch has ended: the summary is returned.
Return ==
    /\ phase = "batches"
    /\ Following(1) = {} /\ InProgress = {}
    /\ phase' = "idle"
    /\ UNCHANGED <<external, calls, signal, claimed, at, batch, taken, summary, setup>>

-----------------------------------------------------------------------------

\* The caller aborts.
Abort == /\ ~Quiet /\ ~signal
         /\ signal' = TRUE
         /\ UNCHANGED <<external, phase, calls, claimed, at, batch, taken, summary, setup>>

\* Somebody edits a chunk.
Edit(c) == /\ MapThenSumSet(LAMBDA d : revision[d], Chunks) < MaxEdits
           /\ revision' = [revision EXCEPT ![c] = @ + 1]
           /\ UNCHANGED <<shadow, marked, phase, calls, signal, claimed, at, batch, taken, summary, setup>>

FilterStep == \E c \in Chunks : FilterAborted(c) \/ Ask(c) \/ Answer(c)

BatchStep(b) == \/ EmbedFails(b)
                \/ EmbedMiscounts(b)
                \/ EmbedAborted(b)
                \/ EmbedNull(b)
                \/ \E Bad, Null \in SUBSET Members(b) : Embed(b, Bad, Null)

ChunkStep(c) == Write(c) \/ WriteStale(c) \/ WriteFails(c) \/ Mark(c) \/ MarkFails(c)

\* The bound on the calls is reached.
Over == Quiet /\ calls = MaxCalls /\ UNCHANGED vars

Next == \/ ClaimFails
        \/ \E C \in SUBSET Chunks : Claim(C)
        \/ FilterStep
        \/ Split
        \/ Start
        \/ \E b \in Batches : BatchStep(b)
        \/ \E c \in Chunks : ChunkStep(c) \/ Edit(c)
        \/ Return
        \/ Abort
        \/ Over

Spec == Init /\ [][Next]_vars

\* The event loop runs what is ready, and every call of a service settles.
FairSpec == /\ Spec
            /\ WF_vars(FilterStep \/ Split \/ Start \/ Return)
            /\ WF_vars(\E b \in Batches : BatchStep(b))
            /\ \A c \in Chunks : WF_vars(ChunkStep(c))

-----------------------------------------------------------------------------
(* Properties *)

Places == {"away", "claimed", "asking", "pending", "done", "lost"} \cup Busy

Counted == summary.completed + summary.skipped + summary.stale + summary.failed

\* The types of the call's local variables and of the external indexes.
TypeOK ==
    /\ revision \in [Chunks -> Nat]
    /\ shadow \in [Chunks -> {None} \cup Nat]
    /\ marked \in [Chunks -> {None} \cup Nat]
    /\ phase \in {"idle", "filter", "batches", "raised"}
    /\ calls \in Nat
    /\ signal \in BOOLEAN
    /\ claimed \in [Chunks -> {None} \cup Nat]
    /\ at \in [Chunks -> Places]
    /\ batch \in [Chunks -> Nat]
    /\ taken \in Nat
    /\ summary \in [DOMAIN Empty -> Nat]
    /\ setup \in [lang : {"py", "ts"}, batchSize : BatchSizes]

\* The summary that is returned accounts for every chunk claimed, once, on
\* whatever way through the call each one went.
EveryChunkCounted ==
    phase = "idle" => Counted = Cardinality({c \in Chunks : claimed[c] # None})

\* "Mark progress only after shadow-index acknowledgement", and "Never overwrite a
\* newer source revision": whatever failed, was lost or was edited in between, in
\* this call or an earlier one, a chunk marked at a revision is in the index at
\* that revision or a newer one.
MarkedWasWritten == \A c \in Chunks : marked[c] # None => shadow[c] >= marked[c]

\* The completed chunks are marked: no chunk is reported that a later call would
\* still have to do.
CompletedIsMarked ==
    summary.completed <= Cardinality({c \in Chunks : claimed[c] # None /\ marked[c] >= claimed[c]})

\* At most maxConcurrentBatches batches are in progress, of at most
\* embedBatchSize chunks.
BatchesBounded == /\ TypeOK
                  /\ Cardinality(InProgress) <= MaxBatches
                  /\ \A b \in Batches : Cardinality(Members(b)) <= setup.batchSize

\* Through failures, lost acknowledgements, edits and aborts, in this call and the ones
\* before it: what is reported completed is marked, and what is marked is indexed.
MarkedIsIndexed == MarkedWasWritten /\ CompletedIsMarked

\* The chunks are split into batches and the batches into groups, or given to a pool,
\* without losing, doubling or overloading any.
ReturnedAccountsForAll == EveryChunkCounted /\ BatchesBounded

\* "Cancellation stops new work": after the abort no chunk is asked for, embedded
\* or written that was not before.
NoNewWorkAfterAbort ==
    [][ signal /\ signal' => \A c \in Chunks :
            at'[c] \in {"asking", "embedding", "writing"} => at[c] = at'[c] ]_vars

\* Every call returns or raises, aborted or not, and what it left in flight ends, if the
\* services settle.
EveryCallReturns == ~Quiet ~> Quiet

===============================================================================
