--------------------------- MODULE JobManagerProofs ---------------------------
(***************************************************************************)
(* The job manager and its asynchronous version, for every number of jobs, *)
(* keys, calls, workers and retries.                                       *)
(*                                                                         *)
(* First the threads: the safety of JobManager, workers being interrupted  *)
(* or not.  Then the lock of the event loop: mutual exclusion, no lost     *)
(* wake-up, and that AsyncMutex implements the abstract FIFO lock.  Last   *)
(* the blocks under that lock: every step of JobManagerTs is a step of the *)
(* lock and a step of JobManager, or leaves them alone, so what is proved  *)
(* of those two holds of answer.ts as well.                                *)
(***************************************************************************)
EXTENDS JobManagerTs, TLAPS

-----------------------------------------------------------------------------
(* The inductive invariant.                                                *)

\* attempts and retry_count differ by the attempt in progress or concluded.
AttemptsExact ==
    \A j \in Jobs :
        /\ retry_count[j] <= max_retries[j]
        /\ attempts[j] = IF status[j] \in {"absent", "QUEUED"}
                         THEN retry_count[j] ELSE retry_count[j] + 1
        /\ status[j] = "absent" => retry_count[j] = 0
        /\ status[j] = "FAILED" => retry_count[j] = max_retries[j] /\ error[j]
        /\ status[j] = "COMPLETED" => ~error[j]

\* Among the jobs of the queue that were never started, the order of the queue
\* is the order of creation; and `now` is later than every creation.
NewJobsSorted ==
    /\ \A j \in Jobs : status[j] # "absent" => created_at[j] < now
    /\ \A a, b \in 1..Len(queue) :
          a < b /\ attempts[queue[a]] = 0 /\ attempts[queue[b]] = 0
            => created_at[queue[a]] < created_at[queue[b]]

Inv == /\ TypeOK
       /\ QueueMatchesStatus
       /\ OneWorkerPerJob
       /\ AttemptsExact
       /\ OneJobPerKey
       /\ NewJobsSorted
       /\ FirstAttemptsInOrder

-----------------------------------------------------------------------------
(* What the queue's operations do to its positions.                        *)

\* Append keeps every position and adds one.
LEMMA AppendPositions ==
    ASSUME NEW S, NEW q \in Seq(S), NEW x \in S
    PROVE  /\ Append(q, x) \in Seq(S)
           /\ Append(q, x) # << >>
           /\ Len(Append(q, x)) = Len(q) + 1
           /\ Len(q) \in Nat
           /\ \A i \in 1..Len(q) : Append(q, x)[i] = q[i]
           /\ Append(q, x)[Len(q) + 1] = x
OBVIOUS

\* Tail moves every position but the first one forward.
LEMMA TailPositions ==
    ASSUME NEW S, NEW q \in Seq(S), q # << >>
    PROVE  /\ Head(q) \in S /\ Head(q) = q[1]
           /\ Tail(q) \in Seq(S)
           /\ Len(q) \in Nat \ {0}
           /\ Len(Tail(q)) = Len(q) - 1
           /\ \A i \in 1..Len(q) - 1 : Tail(q)[i] = q[i + 1]
OBVIOUS

\* The invariant holds initially.
LEMMA InitInv == Init => Inv
<1> SUFFICES ASSUME Init PROVE Inv
    OBVIOUS
<1> USE JobAssumption DEF Init
<1>1. TypeOK
    <2>1. queue \in Seq(Jobs) /\ now \in Nat
        OBVIOUS
    <2>2. status \in [Jobs -> Statuses]
        BY DEF Statuses
    <2>3. error \in [Jobs -> BOOLEAN]
        OBVIOUS
    <2>4. /\ retry_count \in [Jobs -> Nat] /\ max_retries \in [Jobs -> Nat]
          /\ created_at \in [Jobs -> Nat] /\ attempts \in [Jobs -> Nat]
        OBVIOUS
    <2>5. /\ idempotency_map \in [Keys -> Jobs \cup {NoJob}]
          /\ worker \in [Workers -> Jobs \cup {NoJob}]
          /\ key \in [Jobs -> Keys \cup {NoKey}]
        OBVIOUS
    <2> QED BY <2>1, <2>2, <2>3, <2>4, <2>5 DEF TypeOK
<1>2. QueueMatchesStatus
    BY DEF QueueMatchesStatus
<1>3. OneWorkerPerJob
    BY DEF OneWorkerPerJob
<1>4. AttemptsExact
    <2>1. \A j \in Jobs : /\ status[j] = "absent" /\ attempts[j] = 0
                         /\ retry_count[j] = 0 /\ max_retries[j] = 0
        OBVIOUS
    <2>2. 0 \leq 0
        OBVIOUS
    <2> HIDE DEF Init
    <2> QED BY <2>1, <2>2, Zenon DEF AttemptsExact
<1>5. OneJobPerKey
    BY DEF OneJobPerKey
<1>6. NewJobsSorted /\ FirstAttemptsInOrder
    BY DEF NewJobsSorted, FirstAttemptsInOrder
<1> QED BY <1>1, <1>2, <1>3, <1>4, <1>5, <1>6 DEF Inv

\* enqueue() preserves the invariant.
LEMMA EnqueueInv ==
    ASSUME Inv, NEW j \in Jobs, NEW k \in Keys \cup {NoKey}, NEW m \in RetryLimits,
           Enqueue(j, k, m)
    PROVE  Inv'
<1> USE DEF Inv
<1>1. /\ \A i \in Jobs : status'[i] = IF i = j THEN "QUEUED" ELSE status[i]
      /\ \A i \in Jobs : created_at'[i] = IF i = j THEN now ELSE created_at[i]
      /\ attempts' = attempts /\ worker' = worker /\ now' = now + 1
      /\ status[j] = "absent" /\ attempts[j] = 0
    BY DEF Enqueue, AddJob, TypeOK, AttemptsExact
<1>0. /\ \A i \in Jobs : status[i] # "absent" => created_at[i] < now
      /\ \A i \in Jobs : created_at[i] \in Nat /\ attempts[i] \in Nat
      /\ \A i \in Jobs : attempts[i] > 0 => status[i] # "absent"
      /\ now \in Nat
    BY DEF NewJobsSorted, TypeOK, AttemptsExact
<1>2. /\ queue' \in Seq(Jobs) /\ Len(queue) \in Nat /\ Len(queue') = Len(queue) + 1
      /\ \A i \in 1..Len(queue) : queue'[i] = queue[i] /\ queue[i] \in Jobs
      /\ queue'[Len(queue) + 1] = j
    BY AppendPositions DEF Enqueue, AddJob, TypeOK
<1>3. \A i \in 1..Len(queue) : queue[i] # j
    BY <1>1 DEF QueueMatchesStatus
<1>4. TypeOK'
    <2> USE JobAssumption DEF Enqueue, AddJob, TypeOK
    <2>1. status' \in [Jobs -> Statuses]
        BY DEF Statuses
    <2>2. error' \in [Jobs -> BOOLEAN]
        OBVIOUS
    <2>3. /\ retry_count' \in [Jobs -> Nat] /\ max_retries' \in [Jobs -> Nat]
          /\ created_at' \in [Jobs -> Nat] /\ attempts' \in [Jobs -> Nat] /\ now' \in Nat
        OBVIOUS
    <2>4. /\ idempotency_map' \in [Keys -> Jobs \cup {NoJob}]
          /\ worker' \in [Workers -> Jobs \cup {NoJob}]
          /\ key' \in [Jobs -> Keys \cup {NoKey}]
        OBVIOUS
    <2> QED BY <1>2, <2>1, <2>2, <2>3, <2>4
<1>5. QueueMatchesStatus'
    <2>1. \A p \in 1..Len(queue') : p \in 1..Len(queue) \/ p = Len(queue) + 1
        BY <1>2
    <2>2. 1..Len(queue) \subseteq 1..Len(queue') /\ Len(queue) + 1 \in 1..Len(queue')
        BY <1>2
    <2>3. ASSUME NEW i \in Jobs
          PROVE  status'[i] = "QUEUED" <=> \E p \in 1..Len(queue') : queue'[p] = i
        BY <1>1, <1>2, <1>3, <2>1, <2>2, SMTT(30) DEF QueueMatchesStatus
    <2>4. ASSUME NEW p \in 1..Len(queue'), NEW r \in 1..Len(queue'), queue'[p] = queue'[r]
          PROVE  p = r
        BY <1>2, <1>3, <2>1, <2>4 DEF QueueMatchesStatus
    <2> QED BY <2>3, <2>4 DEF QueueMatchesStatus
<1>6. OneWorkerPerJob'
    BY <1>1 DEF OneWorkerPerJob, TypeOK
<1>7. AttemptsExact'
    BY JobAssumption, <1>1 DEF AttemptsExact, TypeOK, Enqueue, AddJob
<1>8. OneJobPerKey'
    BY JobAssumption DEF OneJobPerKey, TypeOK, Known, Enqueue, AddJob
<1>9. NewJobsSorted'
    <2>1. \A i \in Jobs : status'[i] # "absent" => created_at'[i] < now'
        BY <1>0, <1>1
    <2>2. \A p \in 1..Len(queue) : /\ created_at'[queue'[p]] = created_at[queue[p]]
                                   /\ created_at[queue[p]] < now
        BY <1>1, <1>2, <1>3 DEF NewJobsSorted, QueueMatchesStatus
    <2>3. ASSUME NEW a \in 1..Len(queue'), NEW b \in 1..Len(queue'), a < b,
                 attempts'[queue'[a]] = 0, attempts'[queue'[b]] = 0
          PROVE  created_at'[queue'[a]] < created_at'[queue'[b]]
        <3>1. a \in 1..Len(queue)
            BY <1>2, <2>3
        <3>2. CASE b \in 1..Len(queue)
            BY <1>1, <1>2, <2>2, <2>3, <3>1, <3>2 DEF NewJobsSorted
        <3>3. CASE b = Len(queue) + 1
            BY <1>1, <1>2, <2>2, <3>1, <3>3
        <3> QED BY <1>2, <3>2, <3>3
    <2> QED BY <2>1, <2>3 DEF NewJobsSorted
<1>10. FirstAttemptsInOrder'
    BY <1>0, <1>1 DEF FirstAttemptsInOrder
<1> QED BY <1>4, <1>5, <1>6, <1>7, <1>8, <1>9, <1>10

\* The dequeue of process_next() preserves the invariant.
LEMMA DequeueInv == ASSUME Inv, NEW w \in Workers, Dequeue(w) PROVE Inv'
<1> DEFINE j == Head(queue)
<1> USE DEF Inv
<1>1. /\ j \in Jobs /\ j = queue[1]
      /\ queue' \in Seq(Jobs) /\ Len(queue) \in Nat \ {0} /\ Len(queue') = Len(queue) - 1
      /\ \A p \in 1..Len(queue') : queue'[p] = queue[p + 1] /\ queue[p + 1] \in Jobs
    BY TailPositions DEF Dequeue, TypeOK
<1>2. status[j] = "QUEUED"
    BY <1>1 DEF QueueMatchesStatus
<1>3. /\ \A i \in Jobs : status'[i] = IF i = j THEN "PROCESSING" ELSE status[i]
      /\ \A i \in Jobs : attempts'[i] = IF i = j THEN attempts[i] + 1 ELSE attempts[i]
      /\ \A v \in Workers : worker'[v] = IF v = w THEN j ELSE worker[v]
      /\ UNCHANGED <<retry_count, max_retries, error, created_at, now, idempotency_map, key>>
      /\ worker[w] = NoJob
    BY <1>1 DEF Dequeue, TypeOK
<1>4. \A i \in Jobs : created_at[i] \in Nat /\ attempts[i] \in Nat
    BY DEF TypeOK
<1>5. TypeOK'
    <2>1. status' \in [Jobs -> Statuses]
        BY <1>1 DEF Dequeue, TypeOK, Statuses
    <2>2. worker' \in [Workers -> Jobs \cup {NoJob}] /\ attempts' \in [Jobs -> Nat]
        BY <1>1 DEF Dequeue, TypeOK
    <2> QED BY <1>1, <1>3, <2>1, <2>2 DEF TypeOK
<1>6. QueueMatchesStatus'
    <2>1. \A p \in 1..Len(queue) : p = 1 \/ (p - 1 \in 1..Len(queue') /\ queue'[p - 1] = queue[p])
        BY <1>1
    <2>2. \A p \in 1..Len(queue') : /\ p + 1 \in 1..Len(queue) /\ p + 1 # 1
                                    /\ queue'[p] = queue[p + 1]
        BY <1>1
    <2>3. 1 \in 1..Len(queue)
        BY <1>1
    <2>4. ASSUME NEW i \in Jobs
          PROVE  status'[i] = "QUEUED" <=> \E p \in 1..Len(queue') : queue'[p] = i
        <3>1. CASE i = j
            <4>1. \A p \in 1..Len(queue') : queue'[p] # j
                BY <1>1, <2>2, <2>3 DEF QueueMatchesStatus
            <4> QED BY <1>3, <3>1, <4>1
        <3>2. CASE i # j
            <4>1. status'[i] = "QUEUED" <=> \E p \in 1..Len(queue) : queue[p] = i
                BY <1>3, <3>2 DEF QueueMatchesStatus
            <4>2. ASSUME NEW p \in 1..Len(queue), queue[p] = i
                  PROVE  \E r \in 1..Len(queue') : queue'[r] = i
                BY <1>1, <2>1, <3>2, <4>2
            <4>3. ASSUME NEW p \in 1..Len(queue'), queue'[p] = i
                  PROVE  \E r \in 1..Len(queue) : queue[r] = i
                BY <2>2, <4>3
            <4> QED BY <4>1, <4>2, <4>3
        <3> QED BY <3>1, <3>2
    <2>5. ASSUME NEW p \in 1..Len(queue'), NEW r \in 1..Len(queue'), queue'[p] = queue'[r]
          PROVE  p = r
        <3>1. p + 1 = r + 1
            BY <2>2, <2>5 DEF QueueMatchesStatus
        <3> QED BY <1>1, <3>1
    <2> QED BY <2>4, <2>5 DEF QueueMatchesStatus
<1>7. OneWorkerPerJob'
    <2>1. \A v \in Workers : v # w => worker[v] # j
        BY JobAssumption, <1>1, <1>2 DEF OneWorkerPerJob
    <2>2. \A v \in Workers : worker'[v] # NoJob => status'[worker'[v]] = "PROCESSING"
        <3>1. \A v \in Workers : worker[v] # NoJob => worker[v] \in Jobs
            BY DEF TypeOK
        <3> HIDE DEF j
        <3> QED BY <1>1, <1>3, <2>1, <3>1 DEF OneWorkerPerJob
    <2>3. ASSUME NEW u \in Workers, NEW v \in Workers, worker'[u] = worker'[v], worker'[u] # NoJob
          PROVE  u = v
        BY <1>3, <2>1, <2>3 DEF OneWorkerPerJob
    <2> QED BY <2>2, <2>3 DEF OneWorkerPerJob
<1>8. AttemptsExact'
    <2> SUFFICES ASSUME NEW i \in Jobs
                 PROVE  /\ retry_count[i] <= max_retries[i]
                        /\ attempts'[i] = IF status'[i] \in {"absent", "QUEUED"}
                                          THEN retry_count[i] ELSE retry_count[i] + 1
                        /\ status'[i] = "absent" => retry_count[i] = 0
                        /\ status'[i] = "FAILED" => retry_count[i] = max_retries[i] /\ error[i]
                        /\ status'[i] = "COMPLETED" => ~error[i]
        BY <1>3 DEF AttemptsExact
    <2> HIDE DEF j
    <2>1. CASE i = j
        BY <1>2, <1>3, <2>1 DEF AttemptsExact
    <2>2. CASE i # j
        BY <1>3, <2>2 DEF AttemptsExact
    <2> QED BY <2>1, <2>2
<1>9. OneJobPerKey'
    BY <1>3 DEF OneJobPerKey
<1>10. NewJobsSorted'
    <2>1. \A i \in Jobs : status'[i] # "absent" => created_at'[i] < now'
        BY <1>1, <1>2, <1>3 DEF NewJobsSorted
    <2>2. ASSUME NEW a \in 1..Len(queue'), NEW b \in 1..Len(queue'), a < b,
                 attempts'[queue'[a]] = 0, attempts'[queue'[b]] = 0
          PROVE  created_at'[queue'[a]] < created_at'[queue'[b]]
        <3>1. /\ a + 1 \in 1..Len(queue) /\ b + 1 \in 1..Len(queue) /\ a + 1 < b + 1
              /\ queue'[a] = queue[a + 1] /\ queue'[b] = queue[b + 1]
              /\ queue[a + 1] \in Jobs /\ queue[b + 1] \in Jobs
            BY <1>1, <2>2
        <3>2. ASSUME NEW i \in Jobs, attempts'[i] = 0 PROVE attempts[i] = 0
            <4> HIDE DEF j
            <4> QED BY <1>3, <1>4, <3>2
        <3>3. attempts'[queue[a + 1]] = 0 /\ attempts'[queue[b + 1]] = 0
            BY <2>2, <3>1
        <3>4. attempts[queue[a + 1]] = 0 /\ attempts[queue[b + 1]] = 0
            BY <3>1, <3>2, <3>3
        <3> QED BY <1>3, <3>1, <3>4 DEF NewJobsSorted
    <2> QED BY <2>1, <2>2 DEF NewJobsSorted
<1>11. FirstAttemptsInOrder'
    <2> SUFFICES ASSUME NEW i \in Jobs, NEW h \in Jobs,
                        status'[i] = "QUEUED", attempts'[i] = 0, attempts'[h] > 0
                 PROVE  created_at'[h] < created_at'[i]
        BY DEF FirstAttemptsInOrder
    <2>1. i # j /\ status[i] = "QUEUED" /\ attempts[i] = 0
        BY <1>1, <1>3
    <2>2. CASE h # j \/ attempts[j] > 0
        BY <1>1, <1>3, <2>1, <2>2 DEF FirstAttemptsInOrder
    <2>3. CASE h = j /\ attempts[j] = 0
        <3>1. PICK p \in 1..Len(queue) : queue[p] = i
            BY <2>1 DEF QueueMatchesStatus
        <3>2. 1 \in 1..Len(queue) /\ 1 < p
            BY <1>1, <2>1, <3>1
        <3> QED BY <1>1, <1>3, <2>1, <2>3, <3>1, <3>2 DEF NewJobsSorted
    <2> QED BY <1>1, <1>4, <2>2, <2>3
<1> QED BY <1>5, <1>6, <1>7, <1>8, <1>9, <1>10, <1>11

\* The end of a successful attempt preserves the invariant.
LEMMA FinishSuccessInv == ASSUME Inv, NEW w \in Workers, FinishSuccess(w) PROVE Inv'
<1> DEFINE j == worker[w]
<1> USE DEF Inv
<1>1. j \in Jobs /\ status[j] = "PROCESSING"
    BY DEF FinishSuccess, TypeOK, OneWorkerPerJob
<1>2. /\ \A i \in Jobs : status'[i] = IF i = j THEN "COMPLETED" ELSE status[i]
      /\ \A i \in Jobs : error'[i] = IF i = j THEN FALSE ELSE error[i]
      /\ \A v \in Workers : worker'[v] = IF v = w THEN NoJob ELSE worker[v]
      /\ UNCHANGED <<retry_count, max_retries, created_at, queue, idempotency_map,
                     now, attempts, key>>
    BY <1>1 DEF FinishSuccess, TypeOK, history
<1>3. TypeOK'
    <2>1. status' \in [Jobs -> Statuses]
        BY <1>1 DEF FinishSuccess, TypeOK, Statuses
    <2>2. error' \in [Jobs -> BOOLEAN]
        BY <1>1 DEF FinishSuccess, TypeOK
    <2>3. worker' \in [Workers -> Jobs \cup {NoJob}]
        BY DEF FinishSuccess, TypeOK
    <2> QED BY <1>2, <2>1, <2>2, <2>3 DEF TypeOK
<1>4. QueueMatchesStatus'
    BY <1>1, <1>2 DEF QueueMatchesStatus
<1>5. OneWorkerPerJob'
    BY JobAssumption, <1>1, <1>2 DEF OneWorkerPerJob, TypeOK
<1>6. AttemptsExact'
    BY <1>1, <1>2, ZenonT(60) DEF AttemptsExact
<1>7. OneJobPerKey'
    BY <1>2 DEF OneJobPerKey
<1>8. NewJobsSorted'
    BY <1>1, <1>2 DEF NewJobsSorted
<1>9. FirstAttemptsInOrder'
    BY <1>1, <1>2 DEF FirstAttemptsInOrder
<1> QED BY <1>3, <1>4, <1>5, <1>6, <1>7, <1>8, <1>9

\* Giving a job up preserves the invariant.
LEMMA GiveUpInv ==
    ASSUME Inv, NEW w \in Workers, FinishFailure(w), GiveUp(worker[w]) PROVE Inv'
<1> DEFINE j == worker[w]
<1> USE DEF Inv
<1>1. j \in Jobs /\ status[j] = "PROCESSING" /\ retry_count[j] >= max_retries[j]
    BY DEF FinishFailure, GiveUp, TypeOK, OneWorkerPerJob
<1>2. /\ \A i \in Jobs : status'[i] = IF i = j THEN "FAILED" ELSE status[i]
      /\ \A i \in Jobs : error'[i] = IF i = j THEN TRUE ELSE error[i]
      /\ \A v \in Workers : worker'[v] = IF v = w THEN NoJob ELSE worker[v]
      /\ UNCHANGED <<retry_count, max_retries, created_at, queue, idempotency_map,
                     now, attempts, key>>
    BY <1>1 DEF FinishFailure, GiveUp, TypeOK, history
<1>3. TypeOK'
    <2>1. status' \in [Jobs -> Statuses]
        BY <1>1 DEF GiveUp, TypeOK, Statuses
    <2>2. error' \in [Jobs -> BOOLEAN]
        BY <1>1 DEF FinishFailure, TypeOK
    <2>3. worker' \in [Workers -> Jobs \cup {NoJob}]
        BY DEF FinishFailure, TypeOK
    <2> QED BY <1>2, <2>1, <2>2, <2>3 DEF TypeOK
<1>4. QueueMatchesStatus'
    BY <1>1, <1>2 DEF QueueMatchesStatus
<1>5. OneWorkerPerJob'
    BY JobAssumption, <1>1, <1>2 DEF OneWorkerPerJob, TypeOK
<1>6. AttemptsExact'
    <2>1. retry_count[j] = max_retries[j]
        BY <1>1 DEF AttemptsExact, TypeOK
    <2> QED BY <1>1, <1>2, <2>1, ZenonT(60) DEF AttemptsExact
<1>7. OneJobPerKey'
    BY <1>2 DEF OneJobPerKey
<1>8. NewJobsSorted'
    BY <1>1, <1>2 DEF NewJobsSorted
<1>9. FirstAttemptsInOrder'
    BY <1>1, <1>2 DEF FirstAttemptsInOrder
<1> QED BY <1>3, <1>4, <1>5, <1>6, <1>7, <1>8, <1>9

\* Requeueing a job for a retry preserves the invariant.
LEMMA RequeueInv ==
    ASSUME Inv, NEW w \in Workers, FinishFailure(w), Requeue(worker[w]) PROVE Inv'
<1> DEFINE j == worker[w]
<1> USE DEF Inv
<1>1. j \in Jobs /\ status[j] = "PROCESSING" /\ retry_count[j] < max_retries[j]
    BY DEF FinishFailure, Requeue, TypeOK, OneWorkerPerJob
<1>2. /\ \A i \in Jobs : status'[i] = IF i = j THEN "QUEUED" ELSE status[i]
      /\ \A i \in Jobs : error'[i] = IF i = j THEN TRUE ELSE error[i]
      /\ \A i \in Jobs : retry_count'[i] = IF i = j THEN retry_count[i] + 1 ELSE retry_count[i]
      /\ \A v \in Workers : worker'[v] = IF v = w THEN NoJob ELSE worker[v]
      /\ UNCHANGED <<max_retries, created_at, idempotency_map, now, attempts, key>>
    BY <1>1 DEF FinishFailure, Requeue, TypeOK, history
<1>3. /\ queue' \in Seq(Jobs) /\ Len(queue) \in Nat /\ Len(queue') = Len(queue) + 1
      /\ \A i \in 1..Len(queue) : queue'[i] = queue[i] /\ queue[i] \in Jobs
      /\ queue'[Len(queue) + 1] = j
    BY <1>1, AppendPositions DEF Requeue, TypeOK
<1>4. \A i \in 1..Len(queue) : queue[i] # j
    BY <1>1 DEF QueueMatchesStatus
<1> HIDE DEF j
<1>5. attempts[j] # 0
    <2>1. attempts[j] = retry_count[j] + 1
        BY <1>1 DEF AttemptsExact
    <2>2. retry_count[j] \in Nat
        BY <1>1 DEF TypeOK
    <2> QED BY <2>1, <2>2
<1>6. TypeOK'
    <2> USE DEF j
    <2>1. status' \in [Jobs -> Statuses]
        BY <1>1 DEF Requeue, TypeOK, Statuses
    <2>2. error' \in [Jobs -> BOOLEAN]
        BY <1>1 DEF FinishFailure, TypeOK
    <2>3. worker' \in [Workers -> Jobs \cup {NoJob}]
        BY DEF FinishFailure, TypeOK
    <2>4. retry_count' \in [Jobs -> Nat]
        BY <1>1 DEF Requeue, TypeOK
    <2> QED BY <1>2, <1>3, <2>1, <2>2, <2>3, <2>4 DEF TypeOK
<1>7. QueueMatchesStatus'
    <2>1. \A p \in 1..Len(queue') : p \in 1..Len(queue) \/ p = Len(queue) + 1
        BY <1>3
    <2>2. 1..Len(queue) \subseteq 1..Len(queue') /\ Len(queue) + 1 \in 1..Len(queue')
        BY <1>3
    <2>3. ASSUME NEW i \in Jobs
          PROVE  status'[i] = "QUEUED" <=> \E p \in 1..Len(queue') : queue'[p] = i
        BY <1>2, <1>3, <1>4, <2>1, <2>2 DEF QueueMatchesStatus
    <2>4. ASSUME NEW p \in 1..Len(queue'), NEW r \in 1..Len(queue'), queue'[p] = queue'[r]
          PROVE  p = r
        BY <1>3, <1>4, <2>1, <2>4 DEF QueueMatchesStatus
    <2> QED BY <2>3, <2>4 DEF QueueMatchesStatus
<1>8. OneWorkerPerJob'
    <2>1. \A v \in Workers : v # w => worker[v] # j
        BY JobAssumption, <1>1 DEF OneWorkerPerJob, j
    <2>2. \A v \in Workers : worker[v] # NoJob => worker[v] \in Jobs
        BY DEF TypeOK
    <2> QED BY <1>1, <1>2, <2>1, <2>2 DEF OneWorkerPerJob
<1>9. AttemptsExact'
    <2>1. \A i \in Jobs : retry_count[i] \in Nat /\ max_retries[i] \in Nat
        BY DEF TypeOK
    <2>2. ASSUME NEW i \in Jobs, i # j
          PROVE  /\ status'[i] = status[i] /\ error'[i] = error[i] /\ attempts'[i] = attempts[i]
                 /\ retry_count'[i] = retry_count[i] /\ max_retries'[i] = max_retries[i]
        BY <1>2, <2>2
    <2>3. /\ attempts[j] = retry_count[j] + 1 /\ retry_count'[j] = retry_count[j] + 1
          /\ status'[j] = "QUEUED" /\ attempts'[j] = attempts[j] /\ max_retries'[j] = max_retries[j]
        BY <1>1, <1>2 DEF AttemptsExact
    <2>4. retry_count'[j] <= max_retries'[j]
        BY <1>1, <2>1, <2>3
    <2> QED BY <2>2, <2>3, <2>4 DEF AttemptsExact
<1>10. OneJobPerKey'
    BY <1>2 DEF OneJobPerKey
<1>11. NewJobsSorted'
    <2>1. \A i \in Jobs : status'[i] # "absent" => created_at'[i] < now'
        BY <1>1, <1>2 DEF NewJobsSorted
    <2>2. ASSUME NEW a \in 1..Len(queue'), NEW b \in 1..Len(queue'), a < b,
                 attempts'[queue'[a]] = 0, attempts'[queue'[b]] = 0
          PROVE  created_at'[queue'[a]] < created_at'[queue'[b]]
        <3>1. a \in 1..Len(queue) /\ b \in 1..Len(queue)
            BY <1>2, <1>3, <1>5, <2>2, SMTT(30)
        <3> QED BY <1>2, <1>3, <2>2, <3>1 DEF NewJobsSorted
    <2> QED BY <2>1, <2>2 DEF NewJobsSorted
<1>12. FirstAttemptsInOrder'
    BY <1>1, <1>2, <1>5 DEF FirstAttemptsInOrder
<1> QED BY <1>6, <1>7, <1>8, <1>9, <1>10, <1>11, <1>12

\* A worker that dies between the locked blocks leaves the invariant.
LEMMA InterruptInv == ASSUME Inv, NEW w \in Workers, Interrupt(w) PROVE Inv'
<1> USE DEF Inv
<1>1. /\ \A v \in Workers : worker'[v] = IF v = w THEN NoJob ELSE worker[v]
      /\ UNCHANGED <<status, retry_count, max_retries, error, created_at, queue,
                     idempotency_map, now, attempts, key>>
    BY DEF Interrupt, TypeOK, job, history
<1>2. TypeOK'
    <2>1. worker' \in [Workers -> Jobs \cup {NoJob}]
        BY DEF Interrupt, TypeOK
    <2> QED BY <1>1, <2>1 DEF TypeOK
<1>3. OneWorkerPerJob'
    BY <1>1 DEF OneWorkerPerJob
<1>4. QueueMatchesStatus' /\ AttemptsExact' /\ OneJobPerKey'
    BY <1>1 DEF QueueMatchesStatus, AttemptsExact, OneJobPerKey
<1>5. NewJobsSorted' /\ FirstAttemptsInOrder'
    BY <1>1 DEF NewJobsSorted, FirstAttemptsInOrder
<1> QED BY <1>2, <1>3, <1>4, <1>5

\* A step that changes no variable leaves the invariant.
LEMMA StutterInv == Inv /\ UNCHANGED vars => Inv'
BY DEF vars, job, history, Inv, TypeOK, QueueMatchesStatus, OneWorkerPerJob,
       AttemptsExact, OneJobPerKey, NewJobsSorted, FirstAttemptsInOrder

\* Every step preserves the invariant.
LEMMA NextInv == Inv /\ [Next]_vars => Inv'
<1> SUFFICES ASSUME Inv, [Next]_vars PROVE Inv'
    OBVIOUS
<1>1. ASSUME NEW k \in Keys \cup {NoKey}, NEW j \in Jobs, NEW m \in RetryLimits,
             Enqueue(j, k, m)
      PROVE  Inv'
    BY <1>1, EnqueueInv
<1>2. ASSUME NEW k \in Keys \cup {NoKey}, EnqueueKnown(k) PROVE Inv'
    BY <1>2, StutterInv DEF EnqueueKnown
<1>3. ASSUME NEW w \in Workers, Dequeue(w) PROVE Inv'
    BY <1>3, DequeueInv
<1>4. ASSUME NEW w \in Workers, DequeueNothing(w) PROVE Inv'
    BY <1>4, StutterInv DEF DequeueNothing
<1>5. ASSUME NEW w \in Workers, FinishSuccess(w) PROVE Inv'
    BY <1>5, FinishSuccessInv
<1>6. ASSUME NEW w \in Workers, FinishFailure(w) PROVE Inv'
    BY <1>6, RequeueInv, GiveUpInv DEF FinishFailure
<1>7. ASSUME NEW w \in Workers, Interrupt(w) PROVE Inv'
    BY <1>7, InterruptInv
<1> QED BY <1>1, <1>2, <1>3, <1>4, <1>5, <1>6, <1>7, StutterInv DEF Next

\* The invariant holds in every reachable state.
THEOREM Invariance == Spec => []Inv
BY InitInv, NextInv, PTL DEF Spec

-----------------------------------------------------------------------------
(* The theorems.                                                           *)

\* The fields of the job manager keep their types.
THEOREM TypeCorrect == Spec => []TypeOK
<1>1. Inv => TypeOK
    BY DEF Inv
<1> QED BY <1>1, Invariance, PTL

\* The queue holds each QUEUED job once and no other job.
THEOREM QueueIsExact == Spec => []QueueMatchesStatus
<1>1. Inv => QueueMatchesStatus
    BY DEF Inv
<1> QED BY <1>1, Invariance, PTL

\* A job is processed by one worker at a time.
THEOREM ProcessedByOne == Spec => []OneWorkerPerJob
<1>1. Inv => OneWorkerPerJob
    BY DEF Inv
<1> QED BY <1>1, Invariance, PTL

\* The records, the queue and the workers agree on where each job is.
THEOREM PlaceIsExact == Spec => []JobInOnePlace
<1>1. Inv => JobInOnePlace
    BY DEF Inv, JobInOnePlace
<1> QED BY <1>1, Invariance, PTL

\* A job is started at most max_retries + 1 times, and FAILED only then.
THEOREM RetriesBounded == Spec => []AttemptsBounded
<1>1. Inv => AttemptsBounded
    <2> SUFFICES ASSUME AttemptsExact, TypeOK, NEW j \in Jobs
                 PROVE  /\ attempts[j] <= max_retries[j] + 1
                        /\ status[j] = "FAILED" => attempts[j] = max_retries[j] + 1 /\ error[j]
                        /\ status[j] = "COMPLETED" => ~error[j]
        BY DEF Inv, AttemptsBounded
    <2>1. /\ retry_count[j] <= max_retries[j]
          /\ attempts[j] = retry_count[j] \/ attempts[j] = retry_count[j] + 1
          /\ status[j] = "FAILED" => /\ attempts[j] = retry_count[j] + 1
                                     /\ retry_count[j] = max_retries[j]
          /\ retry_count[j] \in Nat /\ max_retries[j] \in Nat
        BY DEF AttemptsExact, TypeOK
    <2>2. /\ status[j] = "FAILED" => error[j]
          /\ status[j] = "COMPLETED" => ~error[j]
        BY DEF AttemptsExact
    <2> QED BY <2>1, <2>2
<1> QED BY <1>1, Invariance, PTL

\* Queue, workers, counters and outcomes agree about every job.
THEOREM AccountIsExact == Spec => []JobsAccountedFor
BY PlaceIsExact, RetriesBounded, PTL DEF JobsAccountedFor

\* At most one job is ever created with an idempotency key.
THEOREM KeysAreIdempotent == Spec => []OneJobPerKey
<1>1. Inv => OneJobPerKey
    BY DEF Inv
<1> QED BY <1>1, Invariance, PTL

\* Jobs are first started in the order they were created in.
THEOREM StartedInOrder == Spec => []FirstAttemptsInOrder
<1>1. Inv => FirstAttemptsInOrder
    BY DEF Inv
<1> QED BY <1>1, Invariance, PTL

\* A COMPLETED or FAILED job is never touched again.
THEOREM OutcomeIsFinal == Spec => TerminalIsFinal
<1> DEFINE Kept(j) == status[j] \in Terminal =>
                        /\ status'[j] = status[j] /\ error'[j] = error[j]
                        /\ attempts'[j] = attempts[j] /\ retry_count'[j] = retry_count[j]
<1>1. Inv /\ [Next]_vars => [\A j \in Jobs : Kept(j)]_vars
    <2> SUFFICES ASSUME Inv, Next, NEW j \in Jobs, status[j] \in Terminal PROVE Kept(j)
        BY DEF vars
    <2> USE DEF Terminal
    <2>1. ASSUME NEW k \in Keys \cup {NoKey}, NEW i \in Jobs, NEW m \in RetryLimits,
                 Enqueue(i, k, m)
          PROVE  Kept(j)
        BY <2>1 DEF Enqueue, AddJob, Inv, TypeOK
    <2>2. ASSUME NEW w \in Workers, Dequeue(w) PROVE Kept(j)
        <3>1. Head(queue) \in Jobs /\ status[Head(queue)] = "QUEUED"
            <4>1. Head(queue) = queue[1] /\ 1 \in 1..Len(queue) /\ Head(queue) \in Jobs
                BY <2>2, TailPositions DEF Dequeue, Inv, TypeOK
            <4> QED BY <4>1 DEF Inv, QueueMatchesStatus
        <3> QED BY <2>2, <3>1 DEF Dequeue, Inv, TypeOK
    <2>3. ASSUME NEW w \in Workers, FinishSuccess(w) \/ FinishFailure(w) PROVE Kept(j)
        <3>1. worker[w] \in Jobs /\ status[worker[w]] = "PROCESSING"
            BY <2>3 DEF FinishSuccess, FinishFailure, Inv, TypeOK, OneWorkerPerJob
        <3> QED BY <2>3, <3>1 DEF FinishSuccess, FinishFailure, Requeue, GiveUp,
                                  Inv, TypeOK, history
    <2>4. ASSUME NEW w \in Workers, Interrupt(w) PROVE Kept(j)
        BY <2>4 DEF Interrupt, job, history
    <2>5. CASE UNCHANGED vars
        BY <2>5 DEF vars, job, history
    <2> QED BY <2>1, <2>2, <2>3, <2>4, <2>5 DEF Next, EnqueueKnown, DequeueNothing
<1> QED BY <1>1, Invariance, PTL DEF Spec, TerminalIsFinal

-----------------------------------------------------------------------------
(* The inductive invariant of the lock.                                    *)

\* The invariant holds initially.
LEMMA MutexInitInv == MutexInit => MutexInv
<1> SUFFICES ASSUME MutexInit PROVE MutexInv
    OBVIOUS
<1>1. MutexTypeOK
    <2>1. locked \in BOOLEAN
        BY DEF MutexInit
    <2>2. waiters \in Seq(Procs) /\ place \in [Procs -> {"out", "waiting", "inside"}]
        BY DEF MutexInit
    <2> QED BY <2>1, <2>2 DEF MutexTypeOK
<1>2. ~locked /\ waiters = << >> /\ \A p \in Procs : place[p] = "out"
    BY DEF MutexInit
<1>3. MutualExclusion /\ LockedExact /\ WaitersExact /\ FreeHasNoWaiters
    BY <1>2 DEF MutualExclusion, LockedExact, WaitersExact, FreeHasNoWaiters
<1> QED BY <1>1, <1>3 DEF MutexInv

\* acquire() of a free lock preserves the invariant.
LEMMA AcquireFreeInv == ASSUME MutexInv, NEW p \in Procs, AcquireFree(p) PROVE MutexInv'
<1> USE DEF MutexInv
<1>1. /\ \A q \in Procs : place'[q] = IF q = p THEN "inside" ELSE place[q]
      /\ \A q \in Procs : place[q] # "inside"
      /\ place[p] = "out"
      /\ waiters' = waiters /\ waiters = << >>
    BY DEF AcquireFree, MutexTypeOK, LockedExact, FreeHasNoWaiters
<1>2. locked' = TRUE
    BY DEF AcquireFree
<1>3. MutexTypeOK'
    <2>1. place' \in [Procs -> {"out", "waiting", "inside"}]
        BY DEF AcquireFree, MutexTypeOK
    <2> QED BY <1>1, <1>2, <2>1 DEF MutexTypeOK
<1>4. MutualExclusion' /\ LockedExact' /\ FreeHasNoWaiters'
    BY <1>1, <1>2 DEF MutualExclusion, LockedExact, FreeHasNoWaiters
<1>5. WaitersExact'
    BY <1>1 DEF WaitersExact
<1> QED BY <1>3, <1>4, <1>5

\* acquire() of a taken lock preserves the invariant.
LEMMA AcquireBusyInv == ASSUME MutexInv, NEW p \in Procs, AcquireBusy(p) PROVE MutexInv'
<1> USE DEF MutexInv
<1>1. /\ \A q \in Procs : place'[q] = IF q = p THEN "waiting" ELSE place[q]
      /\ place[p] = "out"
    BY DEF AcquireBusy, MutexTypeOK
<1>2. locked' = locked /\ locked
    BY DEF AcquireBusy
<1>3. /\ waiters' \in Seq(Procs) /\ waiters' # << >>
      /\ Len(waiters) \in Nat /\ Len(waiters') = Len(waiters) + 1
      /\ \A i \in 1..Len(waiters) : waiters'[i] = waiters[i]
      /\ waiters'[Len(waiters) + 1] = p
    BY AppendPositions DEF AcquireBusy, MutexTypeOK
<1>4. \A i \in 1..Len(waiters) : waiters[i] # p
    BY <1>1 DEF WaitersExact
<1>5. MutexTypeOK'
    <2>1. place' \in [Procs -> {"out", "waiting", "inside"}]
        BY DEF AcquireBusy, MutexTypeOK
    <2> QED BY <1>2, <1>3, <2>1 DEF MutexTypeOK
<1>6. MutualExclusion' /\ LockedExact' /\ FreeHasNoWaiters'
    BY <1>1, <1>2 DEF MutualExclusion, LockedExact, FreeHasNoWaiters
<1>7. WaitersExact'
    <2>1. \A i \in 1..Len(waiters') : i \in 1..Len(waiters) \/ i = Len(waiters) + 1
        BY <1>3
    <2>2. 1..Len(waiters) \subseteq 1..Len(waiters') /\ Len(waiters) + 1 \in 1..Len(waiters')
        BY <1>3
    <2>3. ASSUME NEW q \in Procs
          PROVE  place'[q] = "waiting" <=> \E i \in 1..Len(waiters') : waiters'[i] = q
        BY <1>1, <1>3, <1>4, <2>1, <2>2 DEF WaitersExact
    <2>4. ASSUME NEW i \in 1..Len(waiters'), NEW j \in 1..Len(waiters'), waiters'[i] = waiters'[j]
          PROVE  i = j
        BY <1>3, <1>4, <2>1, <2>4 DEF WaitersExact
    <2> QED BY <2>3, <2>4 DEF WaitersExact
<1> QED BY <1>5, <1>6, <1>7

\* release() that hands the lock over preserves the invariant.
LEMMA ReleaseToNextInv == ASSUME MutexInv, NEW p \in Procs, ReleaseToNext(p) PROVE MutexInv'
<1> DEFINE h == Head(waiters)
<1> USE DEF MutexInv
<1>1. /\ h \in Procs /\ h = waiters[1]
      /\ waiters' \in Seq(Procs) /\ Len(waiters) \in Nat \ {0}
      /\ Len(waiters') = Len(waiters) - 1
      /\ \A i \in 1..Len(waiters') : waiters'[i] = waiters[i + 1]
    BY TailPositions DEF ReleaseToNext, MutexTypeOK
<1>2. place[h] = "waiting" /\ place[p] = "inside" /\ h # p
    BY <1>1 DEF WaitersExact, ReleaseToNext
<1>3. \A q \in Procs : place'[q] = IF q = h THEN "inside" ELSE IF q = p THEN "out" ELSE place[q]
    BY <1>1, <1>2 DEF ReleaseToNext, MutexTypeOK
<1>4. locked' = locked /\ locked
    BY <1>2 DEF ReleaseToNext, LockedExact
<1>5. MutexTypeOK'
    <2>1. place' \in [Procs -> {"out", "waiting", "inside"}]
        BY <1>1 DEF ReleaseToNext, MutexTypeOK
    <2> QED BY <1>1, <1>4, <2>1 DEF MutexTypeOK
<1> HIDE DEF h
<1>6. MutualExclusion'
    BY <1>2, <1>3 DEF MutualExclusion
<1>7. LockedExact' /\ FreeHasNoWaiters'
    BY <1>1, <1>3, <1>4 DEF LockedExact, FreeHasNoWaiters
<1>8. WaitersExact'
    <2>1. \A i \in 1..Len(waiters) : i = 1 \/ (i - 1 \in 1..Len(waiters') /\ waiters'[i - 1] = waiters[i])
        BY <1>1
    <2>2. \A i \in 1..Len(waiters') : /\ i + 1 \in 1..Len(waiters) /\ i + 1 # 1
                                      /\ waiters'[i] = waiters[i + 1]
        BY <1>1
    <2>3. 1 \in 1..Len(waiters)
        BY <1>1
    <2>4. ASSUME NEW q \in Procs
          PROVE  place'[q] = "waiting" <=> \E i \in 1..Len(waiters') : waiters'[i] = q
        <3>1. CASE q = h
            <4>1. \A i \in 1..Len(waiters') : waiters'[i] # h
                BY <1>1, <2>2, <2>3 DEF WaitersExact
            <4> QED BY <1>3, <3>1, <4>1
        <3>2. CASE q # h
            <4>1. place'[q] = "waiting" <=> \E i \in 1..Len(waiters) : waiters[i] = q
                BY <1>2, <1>3, <3>2 DEF WaitersExact
            <4>2. ASSUME NEW i \in 1..Len(waiters), waiters[i] = q
                  PROVE  \E j \in 1..Len(waiters') : waiters'[j] = q
                BY <1>1, <2>1, <3>2, <4>2
            <4>3. ASSUME NEW i \in 1..Len(waiters'), waiters'[i] = q
                  PROVE  \E j \in 1..Len(waiters) : waiters[j] = q
                BY <2>2, <4>3
            <4> QED BY <4>1, <4>2, <4>3
        <3> QED BY <3>1, <3>2
    <2>5. ASSUME NEW i \in 1..Len(waiters'), NEW j \in 1..Len(waiters'), waiters'[i] = waiters'[j]
          PROVE  i = j
        <3>1. i + 1 = j + 1
            BY <2>2, <2>5 DEF WaitersExact
        <3> QED BY <1>1, <3>1
    <2> QED BY <2>4, <2>5 DEF WaitersExact
<1> QED BY <1>5, <1>6, <1>7, <1>8

\* release() with nobody waiting preserves the invariant.
LEMMA ReleaseFreeInv == ASSUME MutexInv, NEW p \in Procs, ReleaseFree(p) PROVE MutexInv'
<1> USE DEF MutexInv
<1>1. /\ \A q \in Procs : place'[q] = IF q = p THEN "out" ELSE place[q]
      /\ place[p] = "inside"
      /\ waiters' = waiters /\ waiters = << >>
    BY DEF ReleaseFree, MutexTypeOK
<1>2. locked' = FALSE
    BY DEF ReleaseFree
<1>3. MutexTypeOK'
    <2>1. place' \in [Procs -> {"out", "waiting", "inside"}]
        BY DEF ReleaseFree, MutexTypeOK
    <2> QED BY <1>1, <1>2, <2>1 DEF MutexTypeOK
<1>4. MutualExclusion' /\ LockedExact' /\ FreeHasNoWaiters'
    BY <1>1, <1>2 DEF MutualExclusion, LockedExact, FreeHasNoWaiters
<1>5. WaitersExact'
    BY <1>1 DEF WaitersExact
<1> QED BY <1>3, <1>4, <1>5

\* Every step preserves the invariant.
LEMMA MutexNextInv == MutexInv /\ [MutexNext]_mutexVars => MutexInv'
<1> SUFFICES ASSUME MutexInv, [MutexNext]_mutexVars PROVE MutexInv'
    OBVIOUS
<1>1. CASE UNCHANGED mutexVars
    BY <1>1 DEF mutexVars, MutexInv, MutexTypeOK, MutualExclusion, LockedExact, WaitersExact, FreeHasNoWaiters
<1> QED BY <1>1, AcquireFreeInv, AcquireBusyInv, ReleaseToNextInv, ReleaseFreeInv DEF MutexNext

\* The invariant holds in every reachable state.
THEOREM LockIsExact == MutexSpec => []MutexInv
BY MutexInitInv, MutexNextInv, PTL DEF MutexSpec

-----------------------------------------------------------------------------
(* The theorems.                                                           *)

\* The fields of the lock keep their types.
THEOREM MutexTypeCorrect == MutexSpec => []MutexTypeOK
<1>1. MutexInv => MutexTypeOK
    BY DEF MutexInv
<1> QED BY <1>1, LockIsExact, PTL

\* At most one caller is inside.
THEOREM Exclusion == MutexSpec => []MutualExclusion
<1>1. MutexInv => MutualExclusion
    BY DEF MutexInv
<1> QED BY <1>1, LockIsExact, PTL

\* The flag is neither lost nor leaked.
THEOREM FlagIsExact == MutexSpec => []LockedExact
<1>1. MutexInv => LockedExact
    BY DEF MutexInv
<1> QED BY <1>1, LockIsExact, PTL

\* No wake-up is lost or sent twice.
THEOREM NoWakeUpLost == MutexSpec => []WaitersExact
<1>1. MutexInv => WaitersExact
    BY DEF MutexInv
<1> QED BY <1>1, LockIsExact, PTL

-----------------------------------------------------------------------------
(* The mutex implements the abstract FIFO lock.                            *)

\* Prefixing one element.
LEMMA PrefixOne ==
    ASSUME NEW S, NEW x \in S, NEW q \in Seq(S)
    PROVE  /\ <<x>> \o q \in Seq(S)
           /\ <<x>> \o q # << >>
           /\ Len(q) \in Nat /\ Len(<<x>> \o q) = Len(q) + 1
           /\ (<<x>> \o q)[1] = x
           /\ \A i \in 1..Len(q) : (<<x>> \o q)[i + 1] = q[i]
           /\ Head(<<x>> \o q) = x
           /\ Tail(<<x>> \o q) = q
OBVIOUS

\* Prefixing and appending commute.
LEMMA PrefixAppend ==
    ASSUME NEW S, NEW x \in S, NEW q \in Seq(S), NEW y \in S
    PROVE  <<x>> \o Append(q, y) = Append(<<x>> \o q, y)
OBVIOUS

\* A sequence is its head followed by its tail.
LEMMA HeadAndTail ==
    ASSUME NEW S, NEW q \in Seq(S), q # << >>
    PROVE  <<Head(q)>> \o Tail(q) = q
OBVIOUS

\* Line when p owns the lock.
LEMMA LineTaken ==
    ASSUME MutexInv, NEW p \in Procs, place[p] = "inside"
    PROVE  Line = <<p>> \o waiters
<1>1. Inside = {p}
    BY DEF Inside, MutexInv, MutualExclusion
<1> QED BY <1>1 DEF Line

\* Line when the lock is free.
LEMMA LineFree ==
    ASSUME MutexInv, ~locked
    PROVE  Line = << >>
<1>1. Inside = {} /\ waiters = << >>
    BY DEF Inside, MutexInv, LockedExact, FreeHasNoWaiters
<1> QED BY <1>1 DEF Line

\* acquire() of a free lock is a request in an empty line.
LEMMA AcquireFreeRequests ==
    ASSUME MutexInv, MutexInv', NEW p \in Procs, AcquireFree(p) PROVE Fifo!Request(p)
<1>1. Line = << >>
    BY LineFree DEF AcquireFree
<1>2. Line' = <<p>> \o waiters'
    <2>1. place'[p] = "inside"
        BY DEF AcquireFree, MutexInv, MutexTypeOK
    <2>2. Inside' = {p}
        BY <2>1 DEF Inside, MutexInv, MutualExclusion
    <2> QED BY <2>2 DEF Line
<1>3. waiters' = << >>
    BY DEF AcquireFree, MutexInv, FreeHasNoWaiters
<1> QED BY <1>1, <1>2, <1>3 DEF Fifo!Request, Fifo!InLine

\* acquire() of a taken lock is a request behind the others.
LEMMA AcquireBusyRequests ==
    ASSUME MutexInv, MutexInv', NEW p \in Procs, AcquireBusy(p) PROVE Fifo!Request(p)
<1>1. PICK o \in Procs : place[o] = "inside"
    BY DEF AcquireBusy, MutexInv, LockedExact
<1>2. o # p /\ place'[o] = "inside" /\ place[p] = "out"
    BY <1>1 DEF AcquireBusy, MutexInv, MutexTypeOK
<1>3. Line = <<o>> \o waiters
    BY <1>1, LineTaken
<1>4. Line' = <<o>> \o Append(waiters, p)
    <2>1. Inside' = {o}
        BY <1>2 DEF Inside, MutexInv, MutualExclusion
    <2> QED BY <2>1 DEF Line, AcquireBusy
<1>5. waiters \in Seq(Procs)
    BY DEF MutexInv, MutexTypeOK
<1>6. Line' = Append(Line, p)
    BY <1>3, <1>4, <1>5, PrefixAppend
<1>7. ASSUME NEW i \in 1..Len(Line) PROVE Line[i] # p
    <2>1. CASE i = 1
        BY <1>2, <1>3, <1>5, <2>1, PrefixOne
    <2>2. CASE i # 1
        <3>1. i - 1 \in 1..Len(waiters) /\ Line[i] = waiters[i - 1]
            BY <1>3, <1>5, <2>2, PrefixOne
        <3> QED BY <1>2, <3>1 DEF MutexInv, WaitersExact
    <2> QED BY <2>1, <2>2
<1> QED BY <1>6, <1>7 DEF Fifo!Request, Fifo!InLine

\* release() that hands over is the owner leaving the line.
LEMMA ReleaseToNextLeaves ==
    ASSUME MutexInv, MutexInv', NEW p \in Procs, ReleaseToNext(p) PROVE Fifo!Leave(p)
<1> DEFINE h == Head(waiters)
<1>1. waiters \in Seq(Procs) /\ waiters # << >> /\ h \in Procs
    BY TailPositions DEF ReleaseToNext, MutexInv, MutexTypeOK
<1>2. Line = <<p>> \o waiters
    BY LineTaken DEF ReleaseToNext
<1>3. Line' = <<h>> \o Tail(waiters)
    <2>1. place'[h] = "inside"
        BY <1>1 DEF ReleaseToNext, MutexInv, MutexTypeOK
    <2>2. Inside' = {h}
        BY <1>1, <2>1 DEF Inside, MutexInv, MutualExclusion
    <2> QED BY <2>2 DEF Line, ReleaseToNext
<1>4. Line' = waiters
    BY <1>1, <1>3, HeadAndTail
<1> QED BY <1>1, <1>2, <1>4, PrefixOne DEF Fifo!Leave

\* release() with nobody waiting is the last member leaving the line.
LEMMA ReleaseFreeLeaves ==
    ASSUME MutexInv, MutexInv', NEW p \in Procs, ReleaseFree(p) PROVE Fifo!Leave(p)
<1>1. waiters \in Seq(Procs) /\ waiters = << >>
    BY DEF ReleaseFree, MutexInv, MutexTypeOK
<1>2. Line = <<p>> \o waiters
    BY LineTaken DEF ReleaseFree
<1>3. Line' = << >>
    <2>1. Inside' = {} /\ waiters' = << >>
        BY DEF ReleaseFree, Inside, MutexInv, LockedExact
    <2> QED BY <2>1 DEF Line
<1> QED BY <1>1, <1>2, <1>3, PrefixOne DEF Fifo!Leave

\* The mutex grants the lock in the order of the calls: it implements FifoLock.
THEOREM ImplementsFifoLock == MutexSpec => GrantedInOrder
<1>1. MutexInit => Fifo!Init
    <2> SUFFICES ASSUME MutexInit PROVE Line = << >>
        BY DEF Fifo!Init
    <2> QED BY MutexInitInv, LineFree DEF MutexInit
<1>2. MutexInv /\ MutexInv' /\ [MutexNext]_mutexVars => [Fifo!Next]_Line
    <2> SUFFICES ASSUME MutexInv, MutexInv', [MutexNext]_mutexVars PROVE Fifo!Next \/ UNCHANGED Line
        OBVIOUS
    <2>1. CASE UNCHANGED mutexVars
        BY <2>1 DEF mutexVars, Line, Inside
    <2>2. CASE MutexNext
        BY <2>2, AcquireFreeRequests, AcquireBusyRequests, ReleaseToNextLeaves,
           ReleaseFreeLeaves DEF MutexNext, Fifo!Next
    <2> QED BY <2>1, <2>2
<1> QED BY <1>1, <1>2, LockIsExact, PTL DEF MutexSpec, GrantedInOrder, Fifo!Spec

-----------------------------------------------------------------------------
(* The inductive invariant of the blocks.                                  *)

PcTypeOK == /\ pc \in [Procs -> {"idle", "enqueue", "getStatus", "dequeue", "process", "finish"}]
            /\ \A c \in Clients : pc[c] \in {"idle", "enqueue", "getStatus"}
            /\ \A w \in Workers : pc[w] \in {"idle", "dequeue", "process", "finish"}
            /\ outcome \in [Workers -> BOOLEAN]
            /\ arg \in [Clients -> [key : Keys \cup {NoKey}, max : RetryLimits \cup {0}]]

\* An enqueue() that waits for its block brings the arguments of a call.
ArgBrought == \A c \in Clients : pc[c] = "enqueue" => arg[c].max \in RetryLimits

TsInv == /\ Inv
         /\ MutexInv
         /\ PcTypeOK
         /\ ArgBrought
         /\ BlocksExact

\* acquire() takes its caller, and nobody else, in.
LEMMA AcquirePlace ==
    ASSUME MutexInv, NEW p \in Procs, Acquire(p)
    PROVE  /\ place[p] = "out"
           /\ \A q \in Procs : place'[q] = "out" <=> q # p /\ place[q] = "out"
BY DEF Acquire, AcquireFree, AcquireBusy, MutexInv, MutexTypeOK

\* release() lets its caller, and nobody else, out.
LEMMA ReleasePlace ==
    ASSUME MutexInv, NEW p \in Procs, Release(p)
    PROVE  /\ place[p] = "inside"
           /\ \A q \in Procs : place'[q] = "out" <=> q = p \/ place[q] = "out"
<1>1. CASE ReleaseFree(p)
    BY <1>1 DEF ReleaseFree, MutexInv, MutexTypeOK
<1>2. CASE ReleaseToNext(p)
    <2> DEFINE h == Head(waiters)
    <2>1. h \in Procs /\ h = waiters[1] /\ 1 \in 1..Len(waiters)
        BY <1>2, TailPositions DEF ReleaseToNext, MutexInv, MutexTypeOK
    <2>2. place[h] = "waiting"
        BY <2>1 DEF MutexInv, WaitersExact
    <2>3. place' = [place EXCEPT ![p] = "out", ![h] = "inside"] /\ place[p] = "inside"
        BY <1>2 DEF ReleaseToNext
    <2> HIDE DEF h
    <2> QED BY <2>1, <2>2, <2>3 DEF MutexInv, MutexTypeOK
<1> QED BY <1>1, <1>2 DEF Release

\* Dequeueing puts a job in the worker's hands, and in nobody else's.
LEMMA DequeueHolds ==
    ASSUME Inv, NEW w \in Workers, Dequeue(w)
    PROVE  /\ worker'[w] # NoJob
           /\ \A v \in Workers : v # w => worker'[v] = worker[v]
<1>1. Head(queue) \in Jobs
    BY TailPositions DEF Dequeue, Inv, TypeOK
<1> QED BY <1>1, JobAssumption DEF Dequeue, Inv, TypeOK

\* Finishing takes it out of them.
LEMMA FinishLetsGo ==
    ASSUME Inv, NEW w \in Workers, FinishSuccess(w) \/ FinishFailure(w)
    PROVE  /\ worker'[w] = NoJob
           /\ \A v \in Workers : v # w => worker'[v] = worker[v]
BY DEF FinishSuccess, FinishFailure, Inv, TypeOK

-----------------------------------------------------------------------------
(* Every step is a step of the lock and of the threaded job manager.       *)

\* What no step of the job manager changes when `vars` is unchanged.
LEMMA VarsKept ==
    ASSUME UNCHANGED vars
    PROVE  worker' = worker /\ status' = status /\ queue' = queue
BY DEF vars, job

\* A step of answer.ts is a step of the lock, or does not touch it.
LEMMA StepOfMutex == [TsNext]_tsvars => [MutexNext]_mutexVars
<1> SUFFICES ASSUME [TsNext]_tsvars PROVE MutexNext \/ UNCHANGED mutexVars
    OBVIOUS
<1> USE ClientAssumption
<1>1. \A p \in Procs : Acquire(p) \/ Release(p) => MutexNext
    BY DEF Acquire, Release, MutexNext
<1>2. ASSUME NEW c \in Clients, NEW k \in Keys \cup {NoKey}, NEW m \in RetryLimits,
             CallEnqueue(c, k, m)
      PROVE  MutexNext
    BY <1>1, <1>2 DEF CallEnqueue
<1>3. ASSUME NEW c \in Clients, RunEnqueue(c) \/ CallGetStatus(c) \/ RunGetStatus(c)
      PROVE  MutexNext
    BY <1>1, <1>3 DEF RunEnqueue, CallGetStatus, RunGetStatus
<1>4. ASSUME NEW w \in Workers, CallProcessNext(w) \/ RunDequeue(w) \/ ReturnNull(w) \/ RunFinish(w)
      PROVE  MutexNext
    BY <1>1, <1>4 DEF CallProcessNext, RunDequeue, ReturnNull, RunFinish
<1>5. ASSUME NEW w \in Workers, NEW ok \in BOOLEAN, EndProcessing(w, ok)
      PROVE  MutexNext
    BY <1>1, <1>5 DEF EndProcessing
<1>6. CASE UNCHANGED tsvars
    BY <1>6 DEF tsvars
<1> QED BY <1>2, <1>3, <1>4, <1>5, <1>6 DEF TsNext

\* A step of answer.ts is a step of the job manager of JobManager, or leaves the
\* jobs, the queue and the keys alone.
LEMMA StepOfJobManager == PcTypeOK /\ ArgBrought /\ [TsNext]_tsvars => [Next]_vars
<1> SUFFICES ASSUME PcTypeOK, ArgBrought, [TsNext]_tsvars PROVE Next \/ UNCHANGED vars
    OBVIOUS
<1>1. ASSUME NEW c \in Clients, RunEnqueue(c) PROVE Next
    <2>1. arg[c].key \in Keys \cup {NoKey} /\ arg[c].max \in RetryLimits
        BY <1>1 DEF RunEnqueue, PcTypeOK, ArgBrought
    <2>2. (\E j \in Jobs : Enqueue(j, arg[c].key, arg[c].max)) \/ EnqueueKnown(arg[c].key)
        BY <1>1 DEF RunEnqueue
    <2> QED BY <2>1, <2>2 DEF Next
<1>2. ASSUME NEW w \in Workers, RunDequeue(w) \/ ReturnNull(w) \/ RunFinish(w) PROVE Next
    BY <1>2 DEF RunDequeue, ReturnNull, RunFinish, Next
<1>3. ASSUME NEW c \in Clients, NEW k \in Keys \cup {NoKey}, NEW m \in RetryLimits,
             CallEnqueue(c, k, m)
      PROVE  UNCHANGED vars
    BY <1>3 DEF CallEnqueue
<1>4. ASSUME NEW c \in Clients, CallGetStatus(c) \/ RunGetStatus(c) PROVE UNCHANGED vars
    BY <1>4 DEF CallGetStatus, RunGetStatus
<1>5. ASSUME NEW w \in Workers, CallProcessNext(w) PROVE UNCHANGED vars
    BY <1>5 DEF CallProcessNext
<1>6. ASSUME NEW w \in Workers, NEW ok \in BOOLEAN, EndProcessing(w, ok) PROVE UNCHANGED vars
    BY <1>6 DEF EndProcessing
<1>7. CASE UNCHANGED tsvars
    BY <1>7 DEF tsvars
<1> QED BY <1>1, <1>2, <1>3, <1>4, <1>5, <1>6, <1>7 DEF TsNext

-----------------------------------------------------------------------------
(* Every step preserves the invariant of the blocks.                       *)

\* The invariant holds initially.
LEMMA TsInitInv == TsInit => TsInv
<1> SUFFICES ASSUME TsInit PROVE TsInv
    OBVIOUS
<1>1. Inv /\ MutexInv
    BY InitInv, MutexInitInv DEF TsInit
<1>2. PcTypeOK /\ ArgBrought
    BY ClientAssumption DEF TsInit, NoArg, PcTypeOK, ArgBrought
<1>3. BlocksExact
    BY ClientAssumption DEF TsInit, MutexInit, Init, BlocksExact, LockOnlyInBlocks,
                            JobHeldBetweenBlocks
<1> QED BY <1>1, <1>2, <1>3 DEF TsInv

\* enqueue() is called.
LEMMA CallEnqueueInv ==
    ASSUME TsInv, NEW c \in Clients, NEW k \in Keys \cup {NoKey}, NEW m \in RetryLimits,
           CallEnqueue(c, k, m)
    PROVE  PcTypeOK' /\ ArgBrought' /\ BlocksExact'
<1> USE ClientAssumption DEF TsInv
<1>1. /\ \A p \in Procs : pc'[p] = IF p = c THEN "enqueue" ELSE pc[p]
      /\ pc[c] = "idle" /\ worker' = worker
    BY VarsKept DEF CallEnqueue, Goto, PcTypeOK
<1>2. PcTypeOK' /\ ArgBrought'
    BY <1>1 DEF CallEnqueue, Goto, PcTypeOK, ArgBrought
<1>3. BlocksExact'
    BY <1>1, AcquirePlace DEF CallEnqueue, BlocksExact, LockOnlyInBlocks, JobHeldBetweenBlocks
<1> QED BY <1>2, <1>3

\* The block of enqueue().
LEMMA RunEnqueueInv ==
    ASSUME TsInv, NEW c \in Clients, RunEnqueue(c)
    PROVE  PcTypeOK' /\ ArgBrought' /\ BlocksExact'
<1> USE ClientAssumption DEF TsInv
<1>1. /\ \A p \in Procs : pc'[p] = IF p = c THEN "idle" ELSE pc[p]
      /\ pc[c] = "enqueue"
    BY DEF RunEnqueue, Goto, PcTypeOK
<1>2. worker' = worker
    BY VarsKept DEF RunEnqueue, Enqueue, EnqueueKnown
<1>3. PcTypeOK' /\ ArgBrought'
    BY <1>1 DEF RunEnqueue, Goto, PcTypeOK, ArgBrought, NoArg
<1>4. BlocksExact'
    BY <1>1, <1>2, ReleasePlace DEF RunEnqueue, BlocksExact, LockOnlyInBlocks, JobHeldBetweenBlocks
<1> QED BY <1>3, <1>4

\* getStatus() is called.
LEMMA CallGetStatusInv ==
    ASSUME TsInv, NEW c \in Clients, CallGetStatus(c)
    PROVE  PcTypeOK' /\ ArgBrought' /\ BlocksExact'
<1> USE ClientAssumption DEF TsInv
<1>1. /\ \A p \in Procs : pc'[p] = IF p = c THEN "getStatus" ELSE pc[p]
      /\ pc[c] = "idle" /\ worker' = worker
    BY VarsKept DEF CallGetStatus, Goto, PcTypeOK
<1>2. PcTypeOK' /\ ArgBrought'
    BY <1>1 DEF CallGetStatus, Goto, PcTypeOK, ArgBrought
<1>3. BlocksExact'
    BY <1>1, AcquirePlace DEF CallGetStatus, BlocksExact, LockOnlyInBlocks, JobHeldBetweenBlocks
<1> QED BY <1>2, <1>3

\* The block of getStatus().
LEMMA RunGetStatusInv ==
    ASSUME TsInv, NEW c \in Clients, RunGetStatus(c)
    PROVE  PcTypeOK' /\ ArgBrought' /\ BlocksExact'
<1> USE ClientAssumption DEF TsInv
<1>1. /\ \A p \in Procs : pc'[p] = IF p = c THEN "idle" ELSE pc[p]
      /\ pc[c] = "getStatus" /\ worker' = worker
    BY VarsKept DEF RunGetStatus, Goto, PcTypeOK
<1>2. PcTypeOK' /\ ArgBrought'
    BY <1>1 DEF RunGetStatus, Goto, PcTypeOK, ArgBrought
<1>3. BlocksExact'
    BY <1>1, ReleasePlace DEF RunGetStatus, BlocksExact, LockOnlyInBlocks, JobHeldBetweenBlocks
<1> QED BY <1>2, <1>3

\* processNext() is called.
LEMMA CallProcessNextInv ==
    ASSUME TsInv, NEW w \in Workers, CallProcessNext(w)
    PROVE  PcTypeOK' /\ ArgBrought' /\ BlocksExact'
<1> USE ClientAssumption DEF TsInv
<1>1. /\ \A p \in Procs : pc'[p] = IF p = w THEN "dequeue" ELSE pc[p]
      /\ pc[w] = "idle" /\ worker' = worker
    BY VarsKept DEF CallProcessNext, Goto, PcTypeOK
<1>2. PcTypeOK' /\ ArgBrought'
    BY <1>1 DEF CallProcessNext, Goto, PcTypeOK, ArgBrought
<1>3. BlocksExact'
    BY <1>1, AcquirePlace DEF CallProcessNext, BlocksExact, LockOnlyInBlocks, JobHeldBetweenBlocks
<1> QED BY <1>2, <1>3

\* The first block of processNext() finds a job.
LEMMA RunDequeueInv ==
    ASSUME TsInv, NEW w \in Workers, RunDequeue(w)
    PROVE  PcTypeOK' /\ ArgBrought' /\ BlocksExact'
<1> USE ClientAssumption DEF TsInv
<1>1. /\ \A p \in Procs : pc'[p] = IF p = w THEN "process" ELSE pc[p]
      /\ pc[w] = "dequeue"
    BY DEF RunDequeue, Goto, PcTypeOK
<1>2. PcTypeOK' /\ ArgBrought'
    BY <1>1 DEF RunDequeue, Goto, PcTypeOK, ArgBrought
<1>3. BlocksExact'
    BY <1>1, ReleasePlace, DequeueHolds
       DEF RunDequeue, BlocksExact, LockOnlyInBlocks, JobHeldBetweenBlocks
<1> QED BY <1>2, <1>3

\* The first block of processNext() finds the queue empty.
LEMMA ReturnNullInv ==
    ASSUME TsInv, NEW w \in Workers, ReturnNull(w)
    PROVE  PcTypeOK' /\ ArgBrought' /\ BlocksExact'
<1> USE ClientAssumption DEF TsInv
<1>1. /\ \A p \in Procs : pc'[p] = IF p = w THEN "idle" ELSE pc[p]
      /\ pc[w] = "dequeue" /\ worker' = worker
    BY VarsKept DEF ReturnNull, DequeueNothing, Goto, PcTypeOK
<1>2. PcTypeOK' /\ ArgBrought'
    BY <1>1 DEF ReturnNull, Goto, PcTypeOK, ArgBrought
<1>3. BlocksExact'
    BY <1>1, ReleasePlace DEF ReturnNull, BlocksExact, LockOnlyInBlocks, JobHeldBetweenBlocks
<1> QED BY <1>2, <1>3

\* The processing of a document ends.
LEMMA EndProcessingInv ==
    ASSUME TsInv, NEW w \in Workers, NEW ok \in BOOLEAN, EndProcessing(w, ok)
    PROVE  PcTypeOK' /\ ArgBrought' /\ BlocksExact'
<1> USE ClientAssumption DEF TsInv
<1>1. /\ \A p \in Procs : pc'[p] = IF p = w THEN "finish" ELSE pc[p]
      /\ pc[w] = "process" /\ worker' = worker
    BY VarsKept DEF EndProcessing, Goto, PcTypeOK
<1>2. outcome' \in [Workers -> BOOLEAN]
    BY DEF EndProcessing, PcTypeOK
<1>3. PcTypeOK' /\ ArgBrought'
    BY <1>1, <1>2 DEF EndProcessing, Goto, PcTypeOK, ArgBrought
<1>4. BlocksExact'
    BY <1>1, AcquirePlace DEF EndProcessing, BlocksExact, LockOnlyInBlocks, JobHeldBetweenBlocks
<1> QED BY <1>3, <1>4

\* The last block of processNext().
LEMMA RunFinishInv ==
    ASSUME TsInv, NEW w \in Workers, RunFinish(w)
    PROVE  PcTypeOK' /\ ArgBrought' /\ BlocksExact'
<1> USE ClientAssumption DEF TsInv
<1>1. /\ \A p \in Procs : pc'[p] = IF p = w THEN "idle" ELSE pc[p]
      /\ pc[w] = "finish"
    BY DEF RunFinish, Goto, PcTypeOK
<1>2. outcome' \in [Workers -> BOOLEAN]
    BY DEF RunFinish, PcTypeOK
<1>3. PcTypeOK' /\ ArgBrought'
    BY <1>1, <1>2 DEF RunFinish, Goto, PcTypeOK, ArgBrought
<1>4. FinishSuccess(w) \/ FinishFailure(w)
    BY DEF RunFinish
<1>5. BlocksExact'
    BY <1>1, <1>4, ReleasePlace, FinishLetsGo
       DEF RunFinish, BlocksExact, LockOnlyInBlocks, JobHeldBetweenBlocks
<1> QED BY <1>3, <1>5

\* Every step preserves the invariant: the lock's part and the job manager's part
\* because the step is one of theirs, the blocks' part action by action.
LEMMA TsNextInv == TsInv /\ [TsNext]_tsvars => TsInv'
<1> SUFFICES ASSUME TsInv, [TsNext]_tsvars PROVE TsInv'
    OBVIOUS
<1>1. MutexInv'
    BY StepOfMutex, MutexNextInv DEF TsInv
<1>2. Inv'
    BY StepOfJobManager, NextInv DEF TsInv
<1>3. PcTypeOK' /\ ArgBrought' /\ BlocksExact'
    <2>1. CASE UNCHANGED tsvars
        BY <2>1, VarsKept DEF tsvars, mutexVars, TsInv, PcTypeOK, ArgBrought, BlocksExact,
                              LockOnlyInBlocks, JobHeldBetweenBlocks
    <2> QED BY <2>1, CallEnqueueInv, RunEnqueueInv, CallGetStatusInv, RunGetStatusInv,
               CallProcessNextInv, RunDequeueInv, ReturnNullInv, EndProcessingInv,
               RunFinishInv DEF TsNext
<1> QED BY <1>1, <1>2, <1>3 DEF TsInv

\* The invariant holds in every reachable state.
THEOREM TsInvariance == TsSpec => []TsInv
BY TsInitInv, TsNextInv, PTL DEF TsSpec

-----------------------------------------------------------------------------
(* The theorems about answer.ts.                                           *)

\* A call is in the lock's books exactly while it is in a locked block, and a
\* worker holds a job exactly between its two blocks.
THEOREM BlocksAreExact == TsSpec => []BlocksExact
<1>1. TsInv => BlocksExact
    BY DEF TsInv
<1> QED BY <1>1, TsInvariance, PTL

\* answer.ts uses its mutex as AsyncMutex requires.
THEOREM UsesTheMutex == TsSpec => MutexSpec
<1>1. TsInit => MutexInit
    BY DEF TsInit
<1> QED BY <1>1, StepOfMutex, PTL DEF TsSpec, MutexSpec

\* answer.ts implements the threaded job manager: the extra interleavings of its
\* asynchronous calls do nothing to the jobs that the threads could not do.
THEOREM ImplementsJobManager == TsSpec => Spec
<1>1. TsInit => Init
    BY DEF TsInit
<1>2. TsInv => PcTypeOK /\ ArgBrought
    BY DEF TsInv
<1> QED BY <1>1, <1>2, StepOfJobManager, TsInvariance, PTL DEF TsSpec, Spec

\* The mutex of answer.ts has one owner at most and loses no caller that waits.
THEOREM TsLockIsExact == TsSpec => []MutexInv
BY UsesTheMutex, LockIsExact

\* It grants the lock in the order of the calls.
THEOREM TsGrantsInOrder == TsSpec => GrantedInOrder
BY UsesTheMutex, ImplementsFifoLock

\* Queue, workers, counters and outcomes agree about every job of answer.ts.
THEOREM TsAccountIsExact == TsSpec => []JobsAccountedFor
BY ImplementsJobManager, AccountIsExact

\* At most one job of answer.ts is ever created with an idempotency key.
THEOREM TsKeysAreIdempotent == TsSpec => []OneJobPerKey
BY ImplementsJobManager, KeysAreIdempotent

\* answer.ts first starts its jobs in the order they were created in.
THEOREM TsStartedInOrder == TsSpec => []FirstAttemptsInOrder
BY ImplementsJobManager, StartedInOrder

\* A finished job of answer.ts is never touched again.
THEOREM TsOutcomeIsFinal == TsSpec => TerminalIsFinal
BY ImplementsJobManager, OutcomeIsFinal

===============================================================================
