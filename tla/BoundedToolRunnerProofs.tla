------------------------ MODULE BoundedToolRunnerProofs ------------------------
(***************************************************************************)
(* Proofs about BoundedToolRunner, for any number of requests and any      *)
(* limit.  BatchExact is not inductive: that a position holds a result     *)
(* unless a worker has it takes that indexes are handed out in order, to   *)
(* workers of the pool, and that a worker stops only when all are.         *)
(***************************************************************************)
EXTENDS BoundedToolRunner, FiniteSetTheorems, TLAPS

\* What was not taken yet is untouched.
Untouched == \A i \in Positions : i >= nextIndex => res[i] = "hole" /\ starts[i] = 0

\* A worker that runs a handler is one of the pool, and took the index of a request.
RunsTaken == \A w \in Workers : running[w] # 0 =>
                 w \in Pool /\ running[w] < nextIndex /\ starts[running[w]] = 1

\* Who has stopped runs nothing and has seen the end of the batch.
StoppedIdle == \A w \in stopped : running[w] = 0 /\ nextIndex > Requests

\* A handler ran for what succeeded or failed; a batch that is over was left by all.
ResultsEarned ==
    /\ \A i \in Positions : res[i] \in {"succeeded", "failed"} => starts[i] = 1
    /\ batch = "returned" => Pool \subseteq stopped

Inv == TakenOnce /\ Untouched /\ RunsTaken /\ StoppedIdle /\ ResultsEarned

\* The pool is no larger than the batch or the limit.
LEMMA PoolIsNat == PoolSize \in Nat /\ PoolSize <= Requests /\ 2 * PoolSize <= TwiceMax
BY RunnerAssumption DEF PoolSize

\* Nothing is taken at first.
LEMMA InitInv == Init => Inv
<1> SUFFICES ASSUME Init PROVE Inv
    OBVIOUS
<1> USE RunnerAssumption DEF Init, Positions, Workers
<1>1. TypeOK
    <2>1. nextIndex \in 1..Requests + 1
        OBVIOUS
    <2>2. /\ res \in [Positions -> {"hole", "succeeded", "failed", "cancelled"}]
          /\ starts \in [Positions -> Nat]
        OBVIOUS
    <2>3. running \in [Workers -> 0..Requests]
        OBVIOUS
    <2> QED BY <2>1, <2>2, <2>3 DEF TypeOK
<1>2. TakenOnce
    BY <1>1 DEF TakenOnce
<1>3. Untouched /\ RunsTaken /\ StoppedIdle /\ ResultsEarned
    BY DEF Untouched, RunsTaken, StoppedIdle, ResultsEarned
<1> QED BY <1>2, <1>3 DEF Inv

-----------------------------------------------------------------------------
(* One lemma per action                                                    *)

\* A worker takes the next request.
LEMMA StartKeeps == ASSUME Inv, NEW w \in Workers, Start(w) PROVE Inv'
<1> USE RunnerAssumption DEF Inv, Positions, Workers
<1>1. /\ nextIndex \in Positions /\ nextIndex <= Requests
      /\ w \in Pool /\ w \notin stopped /\ running[w] = 0 /\ batch = "running"
      /\ res[nextIndex] = "hole" /\ starts[nextIndex] = 0
    BY DEF Start, AtLoop, TakenOnce, TypeOK, Untouched
<1>2. /\ running' = [running EXCEPT ![w] = nextIndex]
      /\ starts' = [starts EXCEPT ![nextIndex] = @ + 1]
      /\ nextIndex' = nextIndex + 1
      /\ UNCHANGED <<res, stopped, signal, batch>>
    BY DEF Start
<1>3. TypeOK'
    BY <1>1, <1>2 DEF TakenOnce, TypeOK
<1>4. /\ running'[w] = nextIndex
      /\ \A v \in Workers : v # w => running'[v] = running[v]
      /\ starts'[nextIndex] = 1
      /\ \A i \in Positions : i # nextIndex => starts'[i] = starts[i]
    BY <1>1, <1>2 DEF TakenOnce, TypeOK
<1>5. \A v \in Workers : running[v] \in 0..Requests /\ running[v] # nextIndex
    BY <1>1, SMTT(30) DEF TakenOnce, TypeOK, RunsTaken
<1>6. TakenOnce'
    <2>1. \A i \in Positions : starts'[i] <= 1
        BY <1>4 DEF TakenOnce
    <2>2. \A u, v \in Workers : running'[u] = running'[v] /\ running'[u] # 0 => u = v
        BY <1>4, <1>5 DEF TakenOnce
    <2>3. ASSUME NEW i \in Positions, i < nextIndex'
          PROVE  res'[i] = "hole" <=> \E v \in Workers : running'[v] = i
        <3>1. CASE i = nextIndex
            BY <1>1, <1>2, <1>4, <3>1
        <3>2. CASE i # nextIndex
            <4>1. i < nextIndex
                BY <1>1, <1>2, <2>3, <3>2
            <4>2. (\E v \in Workers : running[v] = i) <=> \E v \in Workers : running'[v] = i
                BY <1>1, <1>4, <3>2
            <4> QED BY <1>2, <4>1, <4>2 DEF TakenOnce
        <3> QED BY <3>1, <3>2
    <2> QED BY <1>3, <2>1, <2>2, <2>3 DEF TakenOnce
<1>7. Untouched'
    BY <1>1, <1>2, <1>4 DEF Untouched
<1>8. RunsTaken'
    <2> SUFFICES ASSUME NEW v \in Workers, running'[v] # 0
                 PROVE  v \in Pool /\ running'[v] < nextIndex' /\ starts'[running'[v]] = 1
        BY DEF RunsTaken, Pool
    <2>1. CASE v = w
        BY <1>1, <1>2, <1>4, <2>1
    <2>2. CASE v # w
        <3>1. running'[v] = running[v] /\ running[v] \in Positions
            BY <1>4, <1>5, <2>2
        <3> QED BY <1>1, <1>2, <1>4, <1>5, <3>1 DEF RunsTaken
    <2> QED BY <2>1, <2>2
<1>9. StoppedIdle'
    BY <1>1, <1>2 DEF StoppedIdle
<1>10. ResultsEarned'
    BY <1>1, <1>2, <1>4 DEF ResultsEarned
<1> QED BY <1>6, <1>7, <1>8, <1>9, <1>10

\* A worker takes a request after the abort, and reports it cancelled.
LEMMA SkipKeeps == ASSUME Inv, NEW w \in Workers, SkipCancelled(w) PROVE Inv'
<1> USE RunnerAssumption DEF Inv, Positions, Workers
<1>1. /\ nextIndex \in Positions /\ nextIndex <= Requests
      /\ w \notin stopped /\ batch = "running"
      /\ res' = [res EXCEPT ![nextIndex] = "cancelled"]
      /\ nextIndex' = nextIndex + 1
      /\ UNCHANGED <<running, stopped, signal, batch, starts>>
    BY DEF SkipCancelled, AtLoop, TakenOnce, TypeOK
<1>2. TypeOK'
    BY <1>1 DEF TakenOnce, TypeOK
<1>3. /\ res'[nextIndex] = "cancelled"
      /\ \A i \in Positions : i # nextIndex => res'[i] = res[i]
    BY <1>1 DEF TakenOnce, TypeOK
<1>4. \A v \in Workers : running[v] \in 0..Requests /\ running[v] # nextIndex
    <2> SUFFICES ASSUME NEW v \in Workers
                 PROVE  running[v] \in 0..Requests /\ running[v] # nextIndex
        OBVIOUS
    <2>1. running[v] \in 0..Requests
        BY DEF TakenOnce, TypeOK
    <2>2. running[v] # 0 => running[v] < nextIndex
        BY DEF RunsTaken
    <2> QED BY <1>1, <2>1, <2>2
<1>5. TakenOnce'
    <2>1. ASSUME NEW i \in Positions, i < nextIndex'
          PROVE  res'[i] = "hole" <=> \E v \in Workers : running'[v] = i
        <3>1. CASE i = nextIndex
            BY <1>1, <1>3, <1>4, <3>1
        <3>2. CASE i # nextIndex
            BY <1>1, <1>3, <2>1, <3>2 DEF TakenOnce
        <3> QED BY <3>1, <3>2
    <2> QED BY <1>1, <1>2, <2>1 DEF TakenOnce
<1>6. Untouched'
    BY <1>1, <1>3 DEF Untouched
<1>7. RunsTaken'
    BY <1>1, <1>4 DEF RunsTaken, Pool
<1>8. StoppedIdle'
    BY <1>1 DEF StoppedIdle
<1>9. ResultsEarned'
    BY <1>1, <1>3 DEF ResultsEarned
<1> QED BY <1>5, <1>6, <1>7, <1>8, <1>9

\* A handler ends.
LEMMA EndKeeps == ASSUME Inv, NEW w \in Workers, NEW ok \in BOOLEAN, End(w, ok) PROVE Inv'
<1> USE RunnerAssumption DEF Inv, Positions, Workers
<1>1. PICK status \in {"succeeded", "failed", "cancelled"} :
          res' = [res EXCEPT ![running[w]] = status]
    BY DEF End
<1>2. /\ running[w] \in Positions /\ running[w] < nextIndex /\ starts[running[w]] = 1
      /\ batch = "running"
      /\ running' = [running EXCEPT ![w] = 0]
      /\ UNCHANGED <<nextIndex, stopped, signal, batch, starts>>
    BY DEF End, TakenOnce, TypeOK, RunsTaken
<1>3. /\ running'[w] = 0
      /\ \A v \in Workers : v # w => running'[v] = running[v] /\ running[v] # running[w]
      /\ res'[running[w]] = status
      /\ \A i \in Positions : i # running[w] => res'[i] = res[i]
    BY <1>1, <1>2 DEF TakenOnce, TypeOK
<1>4. TypeOK'
    BY <1>1, <1>2 DEF TakenOnce, TypeOK
<1>5. TakenOnce'
    <2>1. ASSUME NEW i \in Positions, i < nextIndex'
          PROVE  res'[i] = "hole" <=> \E v \in Workers : running'[v] = i
        <3>1. CASE i = running[w]
            BY <1>2, <1>3, <3>1
        <3>2. CASE i # running[w]
            <4>1. (\E v \in Workers : running[v] = i) <=> \E v \in Workers : running'[v] = i
                BY <1>2, <1>3, <3>2
            <4> QED BY <1>2, <1>3, <2>1, <3>2, <4>1 DEF TakenOnce
        <3> QED BY <3>1, <3>2
    <2> QED BY <1>2, <1>3, <1>4, <2>1 DEF TakenOnce
<1>6. Untouched'
    BY <1>2, <1>3 DEF Untouched, TakenOnce, TypeOK
<1>7. RunsTaken'
    BY <1>2, <1>3 DEF RunsTaken, Pool
<1>8. StoppedIdle'
    <2>1. \A v \in stopped : v \in Workers
        BY DEF TakenOnce, TypeOK
    <2> QED BY <1>2, <1>3, <2>1 DEF StoppedIdle
<1>9. ResultsEarned'
    BY <1>2, <1>3 DEF ResultsEarned
<1> QED BY <1>5, <1>6, <1>7, <1>8, <1>9

\* A worker that finds nothing left stops; runTools() returns; the signal fires.
LEMMA OthersKeep ==
    ASSUME Inv,
           \/ \E w \in Workers : Stop(w)
           \/ Return \/ Abort \/ UNCHANGED vars
    PROVE  Inv'
<1> USE RunnerAssumption DEF Inv
<1>1. CASE \E w \in Workers : Stop(w)
    BY <1>1 DEF Stop, AtLoop, Pool, TakenOnce, TypeOK, Untouched, RunsTaken, StoppedIdle,
                ResultsEarned
<1>2. CASE Return
    BY <1>2 DEF Return, Pool, TakenOnce, TypeOK, Untouched, RunsTaken, StoppedIdle, ResultsEarned
<1>3. CASE Abort
    BY <1>3 DEF Abort, Pool, TakenOnce, TypeOK, Untouched, RunsTaken, StoppedIdle, ResultsEarned
<1>4. CASE UNCHANGED vars
    BY <1>4 DEF vars, Pool, TakenOnce, TypeOK, Untouched, RunsTaken, StoppedIdle, ResultsEarned
<1> QED BY <1>1, <1>2, <1>3, <1>4

\* The invariant holds, for every batch and every limit of at least one.
LEMMA Invariance == Spec => []Inv
<1>1. Inv /\ [Next]_vars => Inv'
    BY StartKeeps, SkipKeeps, EndKeeps, OthersKeep DEF Next, WorkerStep, Over
<1> QED BY <1>1, InitInv, PTL DEF Spec

-----------------------------------------------------------------------------
(* Theorems                                                                *)

\* The workers that run are some of the pool, which is no larger than the limit.
LEMMA PoolBoundsRunning == ASSUME Inv PROVE ConcurrencyBound
<1> DEFINE Busy == {w \in Workers : running[w] # 0}
<1>1. Busy \subseteq 1..PoolSize
    BY PoolIsNat, RunnerAssumption DEF Inv, RunsTaken, Pool, Workers
<1>2. IsFiniteSet(1..PoolSize) /\ Cardinality(1..PoolSize) = PoolSize
    BY PoolIsNat, FS_Interval
<1>3. IsFiniteSet(Busy) /\ Cardinality(Busy) <= PoolSize
    BY <1>1, <1>2, FS_Subset
<1>4. Cardinality(Busy) \in Nat
    BY <1>3, FS_CardinalityType
<1> QED BY <1>3, <1>4, PoolIsNat, RunnerAssumption DEF ConcurrencyBound

\* When all of a pool that is not empty have stopped, every position has its result.
LEMMA StoppedIsComplete == ASSUME Inv, TwiceMax >= 2 PROVE ReturnedComplete
<1> SUFFICES ASSUME batch = "returned", NEW i \in Positions
             PROVE  /\ res[i] # "hole"
                    /\ res[i] \in {"succeeded", "failed"} => starts[i] = 1
    BY DEF ReturnedComplete
<1>1. 1 \in Pool
    BY RunnerAssumption DEF Pool, PoolSize, Workers
<1>2. Pool \subseteq stopped
    BY DEF Inv, ResultsEarned
<1>3. nextIndex > Requests /\ \A w \in Pool : running[w] = 0
    BY <1>1, <1>2 DEF Inv, StoppedIdle
<1>4. i < nextIndex /\ \A w \in Workers : running[w] # i
    BY <1>3, RunnerAssumption DEF Inv, RunsTaken, Positions, TakenOnce, TypeOK
<1> QED BY <1>4 DEF Inv, TakenOnce, ResultsEarned

\* Unless the limit is below one, which leaves the pool empty.
THEOREM BatchIsExact == ASSUME TwiceMax >= 2 PROVE Spec => []BatchExact
<1>1. Inv => BatchExact
    BY PoolBoundsRunning, StoppedIsComplete DEF Inv, BatchExact
<1> QED BY <1>1, Invariance, PTL

===============================================================================
