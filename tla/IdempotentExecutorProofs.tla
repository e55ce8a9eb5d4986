----------------------- MODULE IdempotentExecutorProofs -----------------------
(***************************************************************************)
(* Proofs about IdempotentExecutor, for any number of callers and          *)
(* operations and both implementations: the line of the lock is exact, an  *)
(* operation is run once and everybody gets what became of that run.       *)
(***************************************************************************)
EXTENDS IdempotentExecutor, SequenceTheorems, TLAPS

-----------------------------------------------------------------------------
(* The inductive invariant.                                                *)

Unbegun == {"none", "created", "aborted"}

\* An execution that was not started has not run, and a settled one never changes: who
\* left with a result has the one that is in the map.
ResultsExact ==
    /\ \A k \in Operations : executions[k] \in Unbegun => runs[k] = 0
    /\ \A k \in Operations : runs[k] <= 1
    /\ \A c \in Callers :
          state[c] = "out" /\ outcome[c] \in Settled => executions[op[c]] = outcome[c]

Inv == LineExact /\ ResultsExact

\* Nobody has called at first.
LEMMA InitInv == Init => Inv
<1> SUFFICES ASSUME Init PROVE Inv
    OBVIOUS
<1> USE DEF Init
<1>1. TypeOK
    <2>1. line \in Seq(Callers) /\ op \in [Callers -> Operations]
        OBVIOUS
    <2>2. executions \in [Operations -> {"none"} \cup Pending \cup Settled]
        OBVIOUS
    <2>3. /\ state \in [Callers -> {"out", "locking", "awaiting", "awaiting_locked"}]
          /\ outcome \in [Callers -> {"none", "gave_up"} \cup Settled]
        OBVIOUS
    <2>4. runs \in [Operations -> Nat] /\ handling \subseteq Operations
        OBVIOUS
    <2> QED BY <2>1, <2>2, <2>3, <2>4 DEF TypeOK
<1>2. LineExact
    BY <1>1 DEF LineExact
<1>3. ResultsExact
    BY DEF ResultsExact, Settled, Results
<1> QED BY <1>2, <1>3 DEF Inv

-----------------------------------------------------------------------------
(* What joining and leaving do to the positions of a line.                 *)

Stands(q, c) == \E i \in 1..Len(q) : q[i] = c

Once(q) == \A i, j \in 1..Len(q) : q[i] = q[j] => i = j

\* r is q without its position p.
Without(q, p, r) ==
    /\ r \in Seq(Callers)
    /\ Len(r) = Len(q) - 1
    /\ \A i \in 1..Len(q) - 1 : r[i] = IF i < p THEN q[i] ELSE q[i + 1]

\* The one who joins is added to those who stand in the line.
LEMMA Joined ==
    ASSUME NEW q \in Seq(Callers), NEW c \in Callers, Once(q), ~Stands(q, c)
    PROVE  /\ Append(q, c) \in Seq(Callers)
           /\ Once(Append(q, c))
           /\ \A d \in Callers : Stands(Append(q, c), d) <=> d = c \/ Stands(q, d)
           /\ \A i \in 1..Len(Append(q, c)) :
                 Append(q, c)[i] = c \/ (i \in 1..Len(q) /\ Append(q, c)[i] = q[i])
<1> DEFINE r == Append(q, c)
<1>1. /\ r \in Seq(Callers) /\ Len(q) \in Nat /\ Len(r) = Len(q) + 1
      /\ \A i \in 1..Len(q) : r[i] = q[i]
      /\ r[Len(q) + 1] = c
    BY AppendProperties
<1> HIDE DEF r
<1>2. \A i \in 1..Len(r) : i \in 1..Len(q) \/ i = Len(q) + 1
    BY <1>1
<1>3. 1..Len(q) \subseteq 1..Len(r) /\ Len(q) + 1 \in 1..Len(r)
    BY <1>1
<1>4. Once(r)
    BY <1>1, <1>2 DEF Once, Stands
<1>5. \A d \in Callers : Stands(r, d) <=> d = c \/ Stands(q, d)
    BY <1>1, <1>2, <1>3 DEF Stands
<1>6. \A i \in 1..Len(r) : r[i] = c \/ (i \in 1..Len(q) /\ r[i] = q[i])
    BY <1>1, <1>2
<1> QED BY <1>1, <1>4, <1>5, <1>6 DEF r

\* The one who leaves is taken from those who stand in the line; the others move up.
LEMMA Left ==
    ASSUME NEW q \in Seq(Callers), Once(q), NEW p \in 1..Len(q), NEW r, Without(q, p, r)
    PROVE  /\ r \in Seq(Callers)
           /\ Once(r)
           /\ \A d \in Callers : Stands(r, d) <=> d # q[p] /\ Stands(q, d)
           /\ \A i \in 1..Len(r) : \E j \in 1..Len(q) : j # p /\ j >= i /\ r[i] = q[j]
<1>1. Len(q) \in Nat /\ r \in Seq(Callers) /\ Len(r) = Len(q) - 1
    BY DEF Without
<1>2. \A i \in 1..Len(r) : r[i] = IF i < p THEN q[i] ELSE q[i + 1]
    BY <1>1 DEF Without
<1>3. ASSUME NEW i \in 1..Len(r)
      PROVE  \E j \in 1..Len(q) : j # p /\ j >= i /\ r[i] = q[j]
    <2>1. CASE i < p
        <3>1. i \in 1..Len(q) /\ i # p /\ i >= i /\ r[i] = q[i]
            BY <1>1, <1>2, <2>1
        <3> QED BY <3>1
    <2>2. CASE ~(i < p)
        <3>1. i + 1 \in 1..Len(q) /\ i + 1 # p /\ i + 1 >= i /\ r[i] = q[i + 1]
            BY <1>1, <1>2, <2>2
        <3> QED BY <3>1
    <2> QED BY <2>1, <2>2
<1>4. ASSUME NEW j \in 1..Len(q), j # p
      PROVE  \E i \in 1..Len(r) : r[i] = q[j]
    <2>1. CASE j < p
        <3>1. j \in 1..Len(r) /\ r[j] = q[j]
            BY <1>1, <1>2, <2>1
        <3> QED BY <3>1
    <2>2. CASE ~(j < p)
        <3>1. j - 1 \in 1..Len(r) /\ ~(j - 1 < p) /\ j - 1 + 1 = j
            BY <1>1, <1>4, <2>2
        <3>2. r[j - 1] = q[j]
            BY <1>2, <3>1
        <3> QED BY <3>1, <3>2
    <2> QED BY <2>1, <2>2
<1>5. ASSUME NEW i \in 1..Len(r), NEW j \in 1..Len(r), r[i] = r[j]
      PROVE  i = j
    <2>1. /\ i \in 1..Len(q) /\ i + 1 \in 1..Len(q)
          /\ j \in 1..Len(q) /\ j + 1 \in 1..Len(q)
        BY <1>1
    <2>2. (IF i < p THEN i ELSE i + 1) = (IF j < p THEN j ELSE j + 1)
        BY <1>2, <1>5, <2>1 DEF Once
    <2> QED BY <2>2
<1>6. ASSUME NEW d \in Callers
      PROVE  Stands(r, d) <=> d # q[p] /\ Stands(q, d)
    BY <1>3, <1>4 DEF Stands, Once
<1> QED BY <1>1, <1>3, <1>5, <1>6 DEF Once

\* Tail is the line without its first position,
LEMMA TailLeaves ==
    ASSUME NEW q \in Seq(Callers), q # << >>
    PROVE  /\ 1 \in 1..Len(q) /\ Head(q) = q[1]
           /\ Without(q, 1, Tail(q))
<1>1. /\ Tail(q) \in Seq(Callers) /\ Len(q) \in Nat \ {0} /\ Len(Tail(q)) = Len(q) - 1
      /\ Head(q) = q[1]
      /\ \A i \in 1..Len(q) - 1 : Tail(q)[i] = q[i + 1]
    OBVIOUS
<1>2. \A i \in 1..Len(q) - 1 : ~(i < 1)
    BY <1>1
<1> QED BY <1>1, <1>2 DEF Without

\* and RemoveAt the one without any of them.
LEMMA RemoveAtLeaves ==
    ASSUME NEW q \in Seq(Callers), NEW p \in 1..Len(q)
    PROVE  Without(q, p, RemoveAt(q, p))
<1> DEFINE a == SubSeq(q, 1, p - 1)
           b == SubSeq(q, p + 1, Len(q))
<1>1. Len(q) \in Nat /\ \A i \in 1..Len(q) : q[i] \in Callers
    OBVIOUS
<1>2. /\ a \in Seq(Callers) /\ Len(a) = p - 1
      /\ \A i \in 1..p - 1 : a[i] = q[i]
    BY <1>1
<1>3. /\ b \in Seq(Callers) /\ Len(b) = Len(q) - p
      /\ \A i \in 1..Len(q) - p : b[i] = q[p + i]
    BY <1>1
<1> HIDE DEF a, b
<1>4. /\ a \o b \in Seq(Callers) /\ Len(a \o b) = Len(q) - 1
      /\ \A i \in 1..Len(q) - 1 : (a \o b)[i] = IF i <= p - 1 THEN a[i] ELSE b[i - (p - 1)]
    <2>1. /\ a \o b \in Seq(Callers) /\ Len(a \o b) = Len(a) + Len(b)
          /\ \A i \in 1..Len(a) + Len(b) :
                (a \o b)[i] = IF i <= Len(a) THEN a[i] ELSE b[i - Len(a)]
        BY <1>2, <1>3, ConcatProperties
    <2>2. Len(a) + Len(b) = Len(q) - 1
        BY <1>1, <1>2, <1>3
    <2> QED BY <1>2, <2>1, <2>2
<1>5. ASSUME NEW i \in 1..Len(q) - 1
      PROVE  (a \o b)[i] = IF i < p THEN q[i] ELSE q[i + 1]
    <2>1. CASE i < p
        BY <1>1, <1>2, <1>4, <2>1
    <2>2. CASE ~(i < p)
        <3>1. i - (p - 1) \in 1..Len(q) - p /\ p + (i - (p - 1)) = i + 1 /\ ~(i <= p - 1)
            BY <1>1, <2>2
        <3> QED BY <1>3, <1>4, <2>2, <3>1
    <2> QED BY <2>1, <2>2
<1>6. RemoveAt(q, p) = a \o b
    BY DEF RemoveAt, a, b
<1> QED BY <1>4, <1>5, <1>6 DEF Without

-----------------------------------------------------------------------------
(* What a caller's step does to the exactness of the line.                 *)

Places == {"out", "locking", "awaiting", "awaiting_locked"}

\* LineExact, in the vocabulary of the lemmas.
LEMMA LineExactIs ==
    LineExact <=>
        /\ TypeOK
        /\ \A c \in Callers : state[c] \in {"locking", "awaiting_locked"} <=> Stands(line, c)
        /\ \A i \in 1..Len(line) : state[line[i]] = "awaiting_locked" => i = 1
        /\ Once(line)
BY DEF LineExact, Stands, Once

\* Callers stand in the line.
LEMMA LineTyped ==
    ASSUME LineExact
    PROVE  /\ line \in Seq(Callers)
           /\ \A i \in 1..Len(line) : line[i] \in Callers
           /\ Len(line) \in Nat
BY DEF LineExact, TypeOK

\* A caller goes to s: nobody else goes anywhere.
LEMMA Went ==
    ASSUME TypeOK, NEW c \in Callers, NEW s \in Places, Go(c, s)
    PROVE  /\ state' \in [Callers -> Places]
           /\ state'[c] = s
           /\ \A d \in Callers : d # c => state'[d] = state[d]
BY DEF Go, TypeOK, Places

\* A caller that is not in the line does something else.
LEMMA Elsewhere ==
    ASSUME LineExact, TypeOK', NEW c \in Callers, NEW s \in {"out", "awaiting"}, Go(c, s),
           state[c] \notin {"locking", "awaiting_locked"}, line' = line
    PROVE  LineExact'
<1>1. /\ state'[c] = s
      /\ \A d \in Callers : d # c => state'[d] = state[d]
    BY Went DEF LineExact, Places
<1>2. /\ line \in Seq(Callers)
      /\ \A i \in 1..Len(line) : line[i] \in Callers
    BY DEF LineExact, TypeOK
<1> QED BY <1>1, <1>2 DEF LineExact

\* A caller joins the line.
LEMMA JoinsLine ==
    ASSUME LineExact, TypeOK', NEW c \in Callers, Go(c, "locking"), state[c] = "out",
           line' = Append(line, c)
    PROVE  LineExact'
<1>1. /\ state'[c] = "locking"
      /\ \A d \in Callers : d # c => state'[d] = state[d]
    BY Went DEF LineExact, Places
<1>0. Once(line) /\ ~Stands(line, c)
    BY LineExactIs
<1>2. /\ line \in Seq(Callers)
      /\ \A i \in 1..Len(line) : line[i] \in Callers
    BY DEF LineExact, TypeOK
<1>3. /\ Once(line')
      /\ \A d \in Callers : Stands(line', d) <=> d = c \/ Stands(line, d)
      /\ \A i \in 1..Len(line') : line'[i] = c \/ (i \in 1..Len(line) /\ line'[i] = line[i])
    BY <1>0, <1>2, Joined
<1>4. \A d \in Callers : state'[d] \in {"locking", "awaiting_locked"} <=> Stands(line', d)
    BY <1>1, <1>3, LineExactIs
<1>5. \A i \in 1..Len(line') : state'[line'[i]] = "awaiting_locked" => i = 1
    BY <1>1, <1>2, <1>3, LineExactIs
<1> QED BY <1>3, <1>4, <1>5 DEF LineExact, Stands, Once

\* The first of the line takes the lock and keeps it.
LEMMA KeepsLock ==
    ASSUME LineExact, TypeOK', NEW c \in Callers, Go(c, "awaiting_locked"),
           line # << >>, c = Head(line), line' = line
    PROVE  LineExact'
<1>1. /\ state'[c] = "awaiting_locked"
      /\ \A d \in Callers : d # c => state'[d] = state[d]
    BY Went DEF LineExact, Places
<1>2. /\ line \in Seq(Callers) /\ 1 \in 1..Len(line) /\ line[1] = c
      /\ \A i \in 1..Len(line) : line[i] \in Callers
    BY TailLeaves DEF LineExact, TypeOK
<1> QED BY <1>1, <1>2 DEF LineExact

\* A caller leaves the line.
LEMMA LeavesLine ==
    ASSUME LineExact, TypeOK', NEW c \in Callers, NEW s \in {"out", "awaiting"}, Go(c, s),
           NEW p \in 1..Len(line), line[p] = c, Without(line, p, line')
    PROVE  LineExact'
<1>1. /\ state'[c] = s
      /\ \A d \in Callers : d # c => state'[d] = state[d]
    BY Went DEF LineExact, Places
<1>0. Once(line)
    BY LineExactIs
<1>2. /\ line \in Seq(Callers)
      /\ \A i \in 1..Len(line) : line[i] \in Callers
      /\ Len(line) \in Nat
    BY LineTyped
<1>3. /\ line' \in Seq(Callers)
      /\ Once(line')
      /\ \A d \in Callers : Stands(line', d) <=> d # c /\ Stands(line, d)
      /\ \A i \in 1..Len(line') : \E j \in 1..Len(line) : j # p /\ j >= i /\ line'[i] = line[j]
    BY <1>0, <1>2, Left
<1>4. \A d \in Callers : state'[d] \in {"locking", "awaiting_locked"} <=> Stands(line', d)
    BY <1>1, <1>3, LineExactIs
<1>5. ASSUME NEW i \in 1..Len(line'), state'[line'[i]] = "awaiting_locked"
      PROVE  i = 1
    <2>1. PICK j \in 1..Len(line) : j # p /\ j >= i /\ line'[i] = line[j]
        BY <1>3
    <2>2. line[j] # c
        BY <1>0, <2>1 DEF Once
    <2>3. state[line[j]] = "awaiting_locked"
        BY <1>1, <1>2, <1>5, <2>1, <2>2
    <2>4. j = 1
        BY <2>3, LineExactIs
    <2> QED BY <1>2, <1>3, <2>1, <2>4
<1> QED BY <1>3, <1>4, <1>5 DEF LineExact, Stands, Once

-----------------------------------------------------------------------------
(* Every step preserves the invariant.                                     *)

\* Everything but the line and the callers' places, after a step.
Rest == /\ handling \subseteq Operations
        /\ executions \in [Operations -> {"none"} \cup Pending \cup Settled]
        /\ op \in [Callers -> Operations]
        /\ outcome \in [Callers -> {"none", "gave_up"} \cup Settled]
        /\ runs \in [Operations -> Nat]

\* The look-up in the locked block, of operation k by caller c, who is either not in the
\* line, which is empty, or its head.
LEMMA LookUpKeeps ==
    ASSUME Inv, NEW c \in Callers, NEW k \in Operations, NEW others \in Seq(Callers),
           LookUp(c, k, others), op' = [op EXCEPT ![c] = k],
           \/ state[c] = "out" /\ line = << >> /\ others = << >>
           \/ state[c] = "locking" /\ line # << >> /\ c = Head(line) /\ others = Tail(line)
    PROVE  Inv'
<1> USE DEF Inv
<1>1. TypeOK /\ LineExact /\ op' \in [Callers -> Operations]
    BY DEF LineExact, TypeOK
<1>2. PICK s \in {"awaiting", "awaiting_locked", "out"} :
          /\ Go(c, s)
          /\ s = "awaiting" => CreateTask(c, k, others)
          /\ s = "awaiting_locked" => AwaitUnderLock(c, k, others)
          /\ s = "out" => TakeResult(c, k, others)
    BY DEF LookUp, CreateTask, AwaitUnderLock, TakeResult
<1>3. /\ state' \in [Callers -> Places]
      /\ state'[c] = s
      /\ \A d \in Callers : d # c => state'[d] = state[d]
    BY <1>1, <1>2, Went DEF Places
<1>4. line' = IF s = "awaiting_locked" THEN <<c>> \o others ELSE others
    BY <1>2 DEF CreateTask, AwaitUnderLock, TakeResult
<1>5. line' \in Seq(Callers)
    BY <1>4
<1>6. Rest'
    <2>1. executions' \in [Operations -> {"none"} \cup Pending \cup Settled]
        BY <1>1, <1>2 DEF CreateTask, AwaitUnderLock, TakeResult, TypeOK, Pending
    <2>2. outcome' \in [Callers -> {"none", "gave_up"} \cup Settled]
        BY <1>1, <1>2 DEF CreateTask, AwaitUnderLock, TakeResult, TypeOK
    <2>3. runs' = runs /\ handling' = handling
        BY <1>2 DEF CreateTask, AwaitUnderLock, TakeResult
    <2> QED BY <1>1, <2>1, <2>2, <2>3 DEF Rest, TypeOK
<1>7. TypeOK'
    BY <1>3, <1>5, <1>6 DEF TypeOK, Rest, Places
<1>8. LineExact'
    <2>1. CASE state[c] = "out" /\ line = << >> /\ others = << >>
        <3>1. CASE s = "awaiting_locked"
            <4>1. line' = <<c>>
                BY <1>4, <2>1, <3>1
            <4>2. Len(line') = 1 /\ line'[1] = c
                BY <4>1
            <4>3. \A d \in Callers : ~Stands(line, d)
                BY <2>1 DEF Stands
            <4>4. \A d \in Callers : d # c => state'[d] \notin {"locking", "awaiting_locked"}
                BY <1>1, <1>3, <4>3, LineExactIs
            <4> QED BY <1>3, <1>7, <3>1, <4>2, <4>4 DEF LineExact
        <3>2. CASE s # "awaiting_locked"
            <4>1. line' = line
                BY <1>4, <2>1, <3>2
            <4> QED BY <1>1, <1>2, <1>7, <2>1, <3>2, <4>1, Elsewhere
        <3> QED BY <3>1, <3>2
    <2>2. CASE state[c] = "locking" /\ line # << >> /\ c = Head(line) /\ others = Tail(line)
        <3>1. CASE s = "awaiting_locked"
            <4>1. line' = line
                BY <1>1, <1>4, <2>2, <3>1 DEF TypeOK
            <4> QED BY <1>1, <1>2, <1>7, <2>2, <3>1, <4>1, KeepsLock
        <3>2. CASE s # "awaiting_locked"
            <4>1. line' = Tail(line) /\ line \in Seq(Callers)
                BY <1>1, <1>4, <2>2, <3>2 DEF TypeOK
            <4>2. 1 \in 1..Len(line) /\ line[1] = c /\ Without(line, 1, line')
                BY <2>2, <4>1, TailLeaves
            <4> QED BY <1>1, <1>2, <1>7, <3>2, <4>2, LeavesLine
        <3> QED BY <3>1, <3>2
    <2> QED BY <2>1, <2>2
<1>9. ResultsExact'
    <2>1. runs' = runs /\ \A e \in Operations : executions[e] \in Settled => executions'[e] = executions[e]
        BY <1>1, <1>2 DEF CreateTask, AwaitUnderLock, TakeResult, TypeOK, Settled, Results
    <2>2. \A e \in Operations : executions'[e] \in Unbegun =>
                                   executions[e] \in Unbegun
        BY <1>1, <1>2 DEF CreateTask, AwaitUnderLock, TakeResult, TypeOK, Unbegun
    <2>3. \A d \in Callers : d # c => op'[d] = op[d] /\ outcome'[d] = outcome[d]
        BY <1>1, <1>2 DEF CreateTask, AwaitUnderLock, TakeResult, TypeOK
    <2>4. op'[c] = k
        BY <1>1 DEF TypeOK
    <2>5. s = "out" => executions'[k] = outcome'[c]
        BY <1>1, <1>2 DEF TakeResult, TypeOK
    <2>6. \A d \in Callers : op[d] \in Operations
        BY <1>1 DEF TypeOK
    <2>7. ASSUME NEW d \in Callers, state'[d] = "out", outcome'[d] \in Settled
          PROVE  executions'[op'[d]] = outcome'[d]
        BY <1>3, <2>1, <2>3, <2>4, <2>5, <2>6, <2>7 DEF ResultsExact
    <2> QED BY <2>1, <2>2, <2>7 DEF ResultsExact
<1> QED BY <1>8, <1>9

\* execute() with the lock taken.
LEMMA CallBusyKeeps ==
    ASSUME Inv, NEW c \in Callers, NEW k \in Operations, CallBusy(c, k) PROVE Inv'
<1> USE DEF Inv
<1>1. /\ TypeOK /\ LineExact /\ state[c] = "out" /\ Go(c, "locking") /\ line' = Append(line, c)
      /\ UNCHANGED <<executions, handling, outcome, runs, lang>>
      /\ op' \in [Callers -> Operations]
      /\ \A d \in Callers : d # c => op'[d] = op[d]
    BY DEF CallBusy, LineExact, TypeOK
<1>2. /\ state' \in [Callers -> Places]
      /\ state'[c] = "locking"
      /\ \A d \in Callers : d # c => state'[d] = state[d]
    BY <1>1, Went DEF Places
<1>3. line' \in Seq(Callers)
    BY <1>1 DEF TypeOK
<1>4. TypeOK'
    BY <1>1, <1>2, <1>3 DEF TypeOK, Places
<1>5. LineExact'
    BY <1>1, <1>4, JoinsLine
<1>6. ResultsExact'
    BY <1>1, <1>2 DEF ResultsExact
<1> QED BY <1>5, <1>6

\* execute() in Python, with the lock free or granted at last.
LEMMA CallFreeKeeps ==
    ASSUME Inv, NEW c \in Callers, NEW k \in Operations, CallFree(c, k) PROVE Inv'
<1>1. /\ LookUp(c, k, << >>) /\ op' = [op EXCEPT ![c] = k]
      /\ state[c] = "out" /\ line = << >> /\ << >> \in Seq(Callers)
    BY DEF CallFree
<1> QED BY <1>1, LookUpKeeps

\* The lock comes to the head of the line.
LEMMA LockedKeeps == ASSUME Inv, NEW c \in Callers, Locked(c) PROVE Inv'
<1>1. LineExact /\ TypeOK
    BY DEF Inv, LineExact
<1>2. /\ LookUp(c, op[c], Tail(line)) /\ op' = op /\ state[c] = "locking" /\ c = Head(line)
    BY DEF Locked
<1>3. line # << >>
    <2>1. Stands(line, c)
        BY <1>1, <1>2, LineExactIs
    <2> QED BY <2>1 DEF Stands
<1>4. op[c] \in Operations /\ op' = [op EXCEPT ![c] = op[c]]
    BY <1>1, <1>2 DEF TypeOK
<1>5. Tail(line) \in Seq(Callers)
    BY <1>1, <1>3, TailLeaves, LineTyped DEF Without
<1> QED BY <1>2, <1>3, <1>4, <1>5, LookUpKeeps

\* execute() in TypeScript.
LEMMA CallTsKeeps ==
    ASSUME Inv, NEW c \in Callers, NEW k \in Operations, CallTs(c, k) PROVE Inv'
<1> USE DEF Inv
<1>1. /\ TypeOK /\ LineExact /\ state[c] = "out" /\ Go(c, "awaiting") /\ line' = line
      /\ outcome' = outcome
      /\ op' \in [Callers -> Operations]
      /\ \A d \in Callers : d # c => op'[d] = op[d]
    BY DEF CallTs, LineExact, TypeOK
<1>2. /\ state' \in [Callers -> Places]
      /\ state'[c] = "awaiting"
      /\ \A d \in Callers : d # c => state'[d] = state[d]
    BY <1>1, Went DEF Places
<1>3. /\ executions' \in [Operations -> {"none"} \cup Pending \cup Settled]
      /\ runs' \in [Operations -> Nat]
      /\ handling' \subseteq Operations
    <2>1. CASE executions[k] = "none"
        <3>1. /\ executions' = [executions EXCEPT ![k] = "running"]
              /\ handling' = handling \cup {k}
              /\ runs' = [runs EXCEPT ![k] = @ + 1]
            BY <2>1 DEF CallTs
        <3>2. executions' \in [Operations -> {"none"} \cup Pending \cup Settled]
            BY <1>1, <3>1 DEF TypeOK, Pending
        <3>3. runs' \in [Operations -> Nat] /\ handling' \subseteq Operations
            BY <1>1, <3>1 DEF TypeOK
        <3> QED BY <3>2, <3>3
    <2>2. CASE executions[k] # "none"
        BY <1>1, <2>2 DEF CallTs, TypeOK
    <2> QED BY <2>1, <2>2
<1>4. TypeOK'
    BY <1>1, <1>2, <1>3 DEF TypeOK, Places
<1>5. LineExact'
    BY <1>1, <1>4, Elsewhere
<1>6. ResultsExact'
    <2>1. CASE executions[k] = "none"
        <3>1. /\ \A e \in Operations : executions'[e] = IF e = k THEN "running" ELSE executions[e]
              /\ \A e \in Operations : runs'[e] = IF e = k THEN 1 ELSE runs[e]
            BY <1>1, <2>1 DEF CallTs, TypeOK, ResultsExact, Unbegun
        <3>2. \A d \in Callers : op[d] \in Operations
            BY <1>1 DEF TypeOK
        <3> QED BY <1>1, <1>2, <2>1, <3>1, <3>2 DEF ResultsExact, Settled, Results, Unbegun
    <2>2. CASE executions[k] # "none"
        <3>1. executions' = executions /\ runs' = runs
            BY <2>2 DEF CallTs
        <3> QED BY <1>1, <1>2, <3>1 DEF ResultsExact
    <2> QED BY <2>1, <2>2
<1> QED BY <1>5, <1>6

\* However an execution ends, it is settled.
LEMMA EndsSettle == Ends \subseteq Settled
BY DEF Ends, Settled

\* An execution goes on, from one that nobody has a result of.
LEMMA ExecutionKeeps ==
    ASSUME Inv, NEW k \in Operations, Start(k) \/ NeverStart(k) \/ Settle(k) PROVE Inv'
<1> USE DEF Inv
<1>1. TypeOK /\ LineExact /\ UNCHANGED <<line, state, op, outcome>>
    BY DEF Start, NeverStart, Settle, LineExact
<1>2. PICK s \in {"running"} \cup Settled :
          /\ executions' = [executions EXCEPT ![k] = s]
          /\ \/ executions[k] = "created" /\ runs' = [runs EXCEPT ![k] = @ + 1]
             \/ executions[k] \in {"aborted", "running"} /\ runs' = runs
    <2>1. CASE Start(k) \/ NeverStart(k)
        BY <2>1 DEF Start, NeverStart, Settled
    <2>2. CASE Settle(k)
        BY <2>2, EndsSettle DEF Settle
    <2> QED BY <2>1, <2>2
<1>3. \A e \in Operations : executions'[e] = IF e = k THEN s ELSE executions[e]
    BY <1>1, <1>2 DEF TypeOK
<1>4. \A e \in Operations : \/ runs'[e] = runs[e]
                            \/ e = k /\ executions[k] = "created" /\ runs'[e] = 1
    BY <1>1, <1>2 DEF TypeOK, ResultsExact, Unbegun
<1>5. TypeOK'
    <2>1. executions' \in [Operations -> {"none"} \cup Pending \cup Settled]
        BY <1>1, <1>2 DEF TypeOK, Pending
    <2>2. runs' \in [Operations -> Nat]
        <3>1. runs \in [Operations -> Nat]
            BY <1>1 DEF TypeOK
        <3> QED BY <1>2, <3>1
    <2>3. handling' \subseteq Operations
        BY <1>1 DEF Start, NeverStart, Settle, TypeOK
    <2> QED BY <1>1, <2>1, <2>2, <2>3 DEF TypeOK
<1>6. LineExact'
    BY <1>1, <1>5 DEF LineExact
<1>7. \A c \in Callers : op[c] \in Operations
    BY <1>1 DEF TypeOK
<1>8. executions[k] \notin Settled /\ s \notin Unbegun
    BY <1>2 DEF Settled, Results, Unbegun
<1>9. ResultsExact'
    BY <1>1, <1>3, <1>4, <1>7, <1>8 DEF ResultsExact
<1> QED BY <1>6, <1>9

\* A caller takes the result of the execution that it awaited.
LEMMA ReturnKeeps == ASSUME Inv, NEW c \in Callers, Return(c) PROVE Inv'
<1> USE DEF Inv
<1>1. /\ TypeOK /\ LineExact /\ Go(c, "out") /\ state[c] \in {"awaiting", "awaiting_locked"}
      /\ executions[op[c]] \in Settled
      /\ UNCHANGED <<executions, handling, op, runs, lang>>
      /\ outcome' \in [Callers -> {"none", "gave_up"} \cup Settled]
      /\ outcome'[c] = executions[op[c]]
      /\ \A d \in Callers : d # c => outcome'[d] = outcome[d]
    BY DEF Return, LineExact, TypeOK
<1>2. /\ state' \in [Callers -> Places]
      /\ state'[c] = "out"
      /\ \A d \in Callers : d # c => state'[d] = state[d]
    BY <1>1, Went DEF Places
<1>3. ResultsExact'
    BY <1>1, <1>2 DEF ResultsExact
<1>4. CASE state[c] = "awaiting"
    <2>1. line' = line
        BY <1>4 DEF Return
    <2>2. TypeOK'
        BY <1>1, <1>2, <2>1 DEF TypeOK, Places
    <2> QED BY <1>1, <1>3, <1>4, <2>1, <2>2, Elsewhere
<1>5. CASE state[c] = "awaiting_locked"
    <2>1. line' = Tail(line)
        BY <1>5 DEF Return
    <2>2. PICK p \in 1..Len(line) : line[p] = c
        BY <1>5 DEF LineExact
    <2>3. p = 1
        BY <1>5, <2>2 DEF LineExact
    <2>4. line \in Seq(Callers) /\ line # << >>
        BY <2>2, LineTyped
    <2>5. Without(line, p, line') /\ line' \in Seq(Callers)
        BY <2>1, <2>3, <2>4, TailLeaves DEF Without
    <2>6. TypeOK'
        BY <1>1, <1>2, <2>5 DEF TypeOK, Places
    <2> QED BY <1>1, <1>3, <2>2, <2>5, <2>6, LeavesLine
<1> QED BY <1>1, <1>4, <1>5

\* The handler's late end is nobody's concern.
LEMMA LateEndKeeps == ASSUME Inv, NEW k \in Operations, LateEnd(k) PROVE Inv'
BY DEF Inv, LateEnd, LineExact, TypeOK, ResultsExact

\* A caller is cancelled, and leaves the line if it stands in it.
LEMMA CancelKeeps == ASSUME Inv, NEW c \in Callers, Cancel(c) PROVE Inv'
<1> USE DEF Inv
<1>1. /\ TypeOK /\ LineExact /\ Go(c, "out") /\ state[c] # "out" /\ LeaveLine(c)
      /\ UNCHANGED <<executions, handling, op, runs, lang>>
      /\ outcome' \in [Callers -> {"none", "gave_up"} \cup Settled]
      /\ outcome'[c] = "gave_up"
      /\ \A d \in Callers : d # c => outcome'[d] = outcome[d]
    BY DEF Cancel, LineExact, TypeOK
<1>2. /\ state' \in [Callers -> Places]
      /\ state'[c] = "out"
      /\ \A d \in Callers : d # c => state'[d] = state[d]
    BY <1>1, Went DEF Places
<1>3. ResultsExact'
    <2>1. "gave_up" \notin Settled
        BY DEF Settled, Results
    <2> QED BY <1>1, <1>2, <2>1 DEF ResultsExact
<1>4. CASE state[c] = "awaiting" /\ line' = line
    <2>1. TypeOK'
        BY <1>1, <1>2, <1>4 DEF TypeOK, Places
    <2> QED BY <1>1, <1>3, <1>4, <2>1, Elsewhere
<1>5. ASSUME NEW p \in 1..Len(line), line[p] = c, line' = RemoveAt(line, p)
      PROVE  Inv'
    <2>1. Without(line, p, line') /\ line' \in Seq(Callers)
        BY <1>1, <1>5, RemoveAtLeaves, LineTyped DEF Without
    <2>2. TypeOK'
        BY <1>1, <1>2, <2>1 DEF TypeOK, Places
    <2> QED BY <1>1, <1>3, <1>5, <2>1, <2>2, LeavesLine
<1> QED BY <1>1, <1>4, <1>5 DEF LeaveLine

\* A caller passes its cancellation on to the task that it awaits.
LEMMA AbortKeeps == ASSUME Inv, NEW c \in Callers, Abort(c) PROVE Inv'
<1> USE DEF Inv
<1>1. /\ TypeOK /\ LineExact /\ UNCHANGED <<handling, line, state, op, outcome, runs, lang>>
      /\ op[c] \in Operations /\ executions[op[c]] = "created"
      /\ executions' = [executions EXCEPT ![op[c]] = "aborted"]
    BY DEF Abort, LineExact, TypeOK
<1>2. TypeOK' /\ LineExact'
    BY <1>1 DEF TypeOK, LineExact, Pending
<1>3. /\ runs[op[c]] = 0
      /\ executions[op[c]] \notin Settled
    BY <1>1 DEF ResultsExact, Settled, Results, Unbegun
<1>4. /\ executions'[op[c]] = "aborted"
      /\ \A k \in Operations : k # op[c] => executions'[k] = executions[k]
    BY <1>1 DEF TypeOK
<1>5. ResultsExact'
    BY <1>1, <1>3, <1>4 DEF ResultsExact, TypeOK
<1> QED BY <1>2, <1>5

\* Every step preserves the invariant.
LEMMA NextInv == Inv /\ [Next]_vars => Inv'
<1> SUFFICES ASSUME Inv, [Next]_vars PROVE Inv'
    OBVIOUS
<1>1. CASE UNCHANGED vars
    BY <1>1 DEF vars, Inv, LineExact, TypeOK, ResultsExact
<1> QED BY <1>1, CallFreeKeeps, CallBusyKeeps, CallTsKeeps, LockedKeeps, ReturnKeeps, CancelKeeps,
           AbortKeeps, ExecutionKeeps, LateEndKeeps DEF Next

\* The invariant holds in every reachable state.
THEOREM Invariance == Spec => []Inv
BY InitInv, NextInv, PTL DEF Spec

-----------------------------------------------------------------------------
(* No task is left behind.                                                 *)

\* c awaits the execution of operation k.
Awaits(c, k) == state[c] \in {"awaiting", "awaiting_locked"} /\ op[c] = k

\* A step that creates no task and moves no caller from one keeps every task attended,
LEMMA StillAwaited ==
    ASSUME Attended,
           \A k \in Operations : executions'[k] \in Pending
                                    => executions[k] \in Pending,
           \A d \in Callers, k \in Operations :
              Awaits(d, k) /\ executions'[k] \in Pending => Awaits(d, k)'
    PROVE  Attended'
BY DEF Attended, Awaits

\* and so does a step of c that leaves it awaiting the only task that may be new.
LEMMA NowAwaited ==
    ASSUME Attended, NEW c \in Callers, NEW k \in Operations, Awaits(c, k)',
           \A e \in Operations : e # k /\ executions'[e] \in Pending
                                    => executions[e] \in Pending,
           \A d \in Callers, e \in Operations : d # c /\ Awaits(d, e) => Awaits(d, e)',
           state[c] \notin {"awaiting", "awaiting_locked"}
    PROVE  Attended'
BY DEF Attended, Awaits

\* The look-up, as far as tasks and those who await them go.
LEMMA LookUpAttends ==
    ASSUME Inv, Attended, NEW c \in Callers, NEW k \in Operations, NEW others,
           LookUp(c, k, others), op' = [op EXCEPT ![c] = k],
           state[c] \in {"out", "locking"}
    PROVE  Attended'
<1>1. TypeOK
    BY DEF Inv, LineExact
<1>2. /\ op'[c] = k
      /\ \A d \in Callers : d # c => op'[d] = op[d]
    BY <1>1 DEF TypeOK
<1>3. PICK s \in {"awaiting", "awaiting_locked", "out"} :
          /\ Go(c, s)
          /\ s = "awaiting" => CreateTask(c, k, others)
          /\ s = "awaiting_locked" => AwaitUnderLock(c, k, others)
          /\ s = "out" => TakeResult(c, k, others)
    BY DEF LookUp, CreateTask, AwaitUnderLock, TakeResult
<1>4. /\ state'[c] = s
      /\ \A d \in Callers : d # c => state'[d] = state[d]
    BY <1>1, <1>3, Went DEF Places
<1>5. /\ s = "awaiting" => \A e \in Operations : e # k => executions'[e] = executions[e]
      /\ s # "awaiting" => executions' = executions
    BY <1>1, <1>3 DEF CreateTask, AwaitUnderLock, TakeResult, TypeOK
<1>6. CASE s = "out"
    BY <1>2, <1>4, <1>5, <1>6, StillAwaited DEF Awaits
<1>7. CASE s # "out"
    BY <1>2, <1>3, <1>4, <1>5, <1>7, NowAwaited DEF Awaits
<1> QED BY <1>6, <1>7

\* At first there is no task, and every step keeps each one attended.
LEMMA InitAttended == Init => Attended
BY DEF Init, Attended, Pending

LEMMA NextAttended == Inv /\ Attended /\ [Next]_vars => Attended'
<1> SUFFICES ASSUME Inv, Attended, [Next]_vars PROVE Attended'
    OBVIOUS
<1>0. TypeOK
    BY DEF Inv, LineExact
<1>1. CASE UNCHANGED vars
    BY <1>1 DEF vars, Attended
<1>2. ASSUME NEW c \in Callers, NEW k \in Operations, CallFree(c, k) PROVE Attended'
    BY <1>2, LookUpAttends DEF CallFree
<1>3. ASSUME NEW c \in Callers, NEW k \in Operations, CallBusy(c, k) PROVE Attended'
    <2>1. /\ executions' = executions /\ state[c] = "out" /\ Go(c, "locking")
          /\ \A d \in Callers : d # c => op'[d] = op[d]
        BY <1>0, <1>3 DEF CallBusy, TypeOK
    <2>2. \A d \in Callers : d # c => state'[d] = state[d]
        BY <1>0, <2>1, Went DEF Places
    <2> QED BY <2>1, <2>2, StillAwaited DEF Awaits
<1>4. ASSUME NEW c \in Callers, NEW k \in Operations, CallTs(c, k) PROVE Attended'
    <2>1. /\ state[c] = "out" /\ Go(c, "awaiting")
          /\ op'[c] = k
          /\ \A d \in Callers : d # c => op'[d] = op[d]
          /\ \A e \in Operations : e # k => executions'[e] = executions[e]
        BY <1>0, <1>4 DEF CallTs, TypeOK
    <2>2. state'[c] = "awaiting" /\ \A d \in Callers : d # c => state'[d] = state[d]
        BY <1>0, <2>1, Went DEF Places
    <2> QED BY <2>1, <2>2, NowAwaited DEF Awaits
<1>5. ASSUME NEW c \in Callers, Locked(c) PROVE Attended'
    <2>1. /\ LookUp(c, op[c], Tail(line)) /\ op' = op /\ state[c] = "locking"
          /\ op[c] \in Operations /\ op' = [op EXCEPT ![c] = op[c]]
        BY <1>0, <1>5 DEF Locked, TypeOK
    <2> QED BY <2>1, LookUpAttends
<1>6. ASSUME NEW c \in Callers, Return(c) \/ Cancel(c) PROVE Attended'
    <2>1. op' = op /\ Go(c, "out") /\ op[c] \in Operations
        BY <1>0, <1>6 DEF Return, Cancel, TypeOK
    <2>2. \A d \in Callers : d # c => state'[d] = state[d]
        BY <1>0, <2>1, Went DEF Places
    <2>3. /\ executions' = executions
          /\ state[c] \in {"awaiting", "awaiting_locked"}
                => executions'[op[c]] \notin Pending
        BY <1>6, <2>1 DEF Return, Cancel, Settled, Results, Pending
    <2>4. \A d \in Callers, k \in Operations :
              Awaits(d, k) /\ executions'[k] \in Pending => Awaits(d, k)'
        BY <2>1, <2>2, <2>3 DEF Awaits
    <2> QED BY <2>3, <2>4, StillAwaited
<1>7. ASSUME NEW k \in Operations, Start(k) \/ NeverStart(k) \/ Settle(k) PROVE Attended'
    <2>1. /\ state' = state /\ op' = op
          /\ executions[k] \in Pending
          /\ \A e \in Operations : e # k => executions'[e] = executions[e]
        BY <1>0, <1>7 DEF Start, NeverStart, Settle, TypeOK, Pending
    <2> QED BY <2>1, StillAwaited DEF Awaits
<1>8. ASSUME NEW k \in Operations, LateEnd(k) PROVE Attended'
    BY <1>8 DEF LateEnd, Attended
<1>9. ASSUME NEW c \in Callers, Abort(c) PROVE Attended'
    <2>1. /\ state' = state /\ op' = op
          /\ op[c] \in Operations /\ executions[op[c]] \in Pending
          /\ \A e \in Operations : e # op[c] => executions'[e] = executions[e]
        BY <1>0, <1>9 DEF Abort, TypeOK, Pending
    <2> QED BY <2>1, StillAwaited DEF Awaits
<1> QED BY <1>1, <1>2, <1>3, <1>4, <1>5, <1>6, <1>7, <1>8, <1>9 DEF Next

\* Every task that is not done has a caller that awaits it.
THEOREM NoTaskLeftBehind == Spec => []Attended
BY InitAttended, NextAttended, Invariance, PTL DEF Spec

-----------------------------------------------------------------------------
(* The theorems.                                                           *)

\* Of the calls of an operation one runs the handler, and all that get a result get what
\* became of that run; the lock's line is never corrupted on the way.
THEOREM RunIsShared == Spec => []OneSharedRun
<1>1. Inv /\ Attended => OneSharedRun
    BY DEF Inv, ResultsExact, OneSharedRun, AtMostOnce, SameOutcome
<1> QED BY <1>1, Invariance, NoTaskLeftBehind, PTL

\* What became of an operation, once it is settled, no later call or cancellation changes.
THEOREM ResultIsFinal ==
    Spec => [][\A k \in Operations : executions[k] \in Settled
                                        => executions'[k] = executions[k]]_vars
<1> DEFINE Final == \A k \in Operations : executions[k] \in Settled
                                             => executions'[k] = executions[k]
<1>1. Inv /\ [Next]_vars => [Final]_vars
    <2> SUFFICES ASSUME Inv, Next, NEW k \in Operations, executions[k] \in Settled
                 PROVE  executions'[k] = executions[k]
        OBVIOUS
    <2> USE DEF Settled, Results
    <2>1. executions \in [Operations -> {"none"} \cup Pending \cup Settled]
        BY DEF Inv, LineExact, TypeOK
    <2>2. ASSUME NEW c \in Callers, NEW e \in Operations,
                 CallFree(c, e) \/ CallBusy(c, e) \/ CallTs(c, e)
          PROVE  executions'[k] = executions[k]
        BY <2>1, <2>2 DEF CallFree, CallBusy, CallTs, LookUp, CreateTask, AwaitUnderLock, TakeResult
    <2>3. ASSUME NEW c \in Callers, Locked(c) \/ Return(c) \/ Cancel(c) \/ Abort(c)
          PROVE  executions'[k] = executions[k]
        BY <2>1, <2>3 DEF Locked, Return, Cancel, Abort, LookUp, CreateTask, AwaitUnderLock,
                          TakeResult
    <2>4. ASSUME NEW e \in Operations, Start(e) \/ NeverStart(e) \/ Settle(e) \/ LateEnd(e)
          PROVE  executions'[k] = executions[k]
        BY <2>1, <2>4 DEF Start, NeverStart, Settle, LateEnd
    <2> QED BY <2>2, <2>3, <2>4 DEF Next
<1> QED BY <1>1, Invariance, PTL DEF Spec

-----------------------------------------------------------------------------
(* The refinement.                                                         *)

\* How the mapped variables change with the map and with a caller's place.
LEMMA FateMoves ==
    ASSUME TypeOK, NEW k \in Operations, NEW s, executions' = [executions EXCEPT ![k] = s]
    PROVE  Fate' = [Fate EXCEPT ![k] = IF s \in {"created", "aborted"} THEN "none" ELSE s]
BY DEF Fate, TypeOK

LEMMA AskingMoves ==
    ASSUME TypeOK, NEW c \in Callers, NEW s \in Places, Go(c, s)
    PROVE  Asking' = IF s = "out" THEN Asking \ {c} ELSE Asking \cup {c}
BY Went DEF Asking

\* The look-up asks, starting nothing yet, or is told at once, or goes on asking.
LEMMA LookUpShares ==
    ASSUME Inv, NEW c \in Callers, NEW k \in Operations, NEW others,
           LookUp(c, k, others), op' = [op EXCEPT ![c] = k],
           \/ state[c] = "out"
           \/ state[c] = "locking" /\ op[c] = k /\ op' = op
    PROVE  [Shared!SharedNext]_Shared!sharedVars
<1>1. TypeOK
    BY DEF Inv, LineExact
<1>2. /\ c \in Asking <=> state[c] # "out"
      /\ executions[k] \in Settled => Fate[k] = executions[k]
    BY DEF Asking, Fate, Settled, Results
<1>3. CASE CreateTask(c, k, others) \/ AwaitUnderLock(c, k, others)
    <2>1. Fate' = Fate
        <3>1. CASE CreateTask(c, k, others)
            BY <1>1, <3>1 DEF CreateTask, Fate, TypeOK
        <3>2. CASE AwaitUnderLock(c, k, others)
            BY <3>2 DEF AwaitUnderLock, Fate
        <3> QED BY <1>3, <3>1, <3>2
    <2>2. Asking' = Asking \cup {c} /\ runs' = runs /\ outcome' = outcome
        BY <1>1, <1>3, AskingMoves DEF CreateTask, AwaitUnderLock, Places
    <2>3. CASE state[c] = "out"
        <3>1. Shared!Ask(c, k)
            BY <1>2, <2>1, <2>2, <2>3 DEF Shared!Ask
        <3> QED BY <3>1 DEF Shared!SharedNext
    <2>4. CASE state[c] # "out"
        <3>1. Asking' = Asking /\ op' = op
            BY <1>2, <2>2, <2>4
        <3> QED BY <2>1, <2>2, <3>1 DEF Shared!sharedVars
    <2> QED BY <2>3, <2>4
<1>4. CASE TakeResult(c, k, others)
    <2>1. /\ Fate' = Fate /\ runs' = runs
          /\ executions[k] \in Settled /\ Fate[k] = executions[k]
          /\ outcome' = [outcome EXCEPT ![c] = Fate[k]]
        BY <1>2, <1>4 DEF TakeResult, Fate, Settled, Results
    <2>2. Asking' = Asking \ {c}
        BY <1>1, <1>4, AskingMoves DEF TakeResult, Places
    <2>3. Fate[k] \in Shared!Fates
        BY <2>1 DEF Settled, Results, Shared!Fates
    <2>4. CASE state[c] = "out"
        <3>1. Asking' = Asking
            BY <1>2, <2>2, <2>4
        <3>2. Shared!AskAgain(c, k)
            BY <1>2, <2>1, <2>3, <2>4, <3>1 DEF Shared!AskAgain
        <3> QED BY <3>2 DEF Shared!SharedNext
    <2>5. CASE state[c] # "out"
        <3>1. Shared!Tell(c)
            BY <1>2, <2>1, <2>2, <2>3, <2>5 DEF Shared!Tell
        <3> QED BY <3>1 DEF Shared!SharedNext
    <2> QED BY <2>4, <2>5
<1> QED BY <1>3, <1>4 DEF LookUp

\* execute() in TypeScript asks, and starts what nobody asked for before.
LEMMA CallTsShares ==
    ASSUME Inv, NEW c \in Callers, NEW k \in Operations, CallTs(c, k)
    PROVE  Shared!Ask(c, k)
<1>1. TypeOK
    BY DEF Inv, LineExact
<1>2. /\ c \notin Asking /\ Asking' = Asking \cup {c}
      /\ op' = [op EXCEPT ![c] = k] /\ outcome' = outcome
    BY <1>1, AskingMoves DEF CallTs, Asking, Places
<1>3. Shared!Invoke(k) \/ UNCHANGED <<Fate, runs>>
    <2>1. CASE executions[k] = "none"
        <3>1. /\ executions' = [executions EXCEPT ![k] = "running"]
              /\ runs' = [runs EXCEPT ![k] = @ + 1]
            BY <2>1 DEF CallTs
        <3>2. Fate' = [Fate EXCEPT ![k] = "running"] /\ Fate[k] = "none"
            BY <1>1, <2>1, <3>1, FateMoves DEF Fate
        <3> QED BY <3>1, <3>2 DEF Shared!Invoke
    <2>2. CASE executions[k] # "none"
        BY <2>2 DEF CallTs, Fate
    <2> QED BY <2>1, <2>2
<1> QED BY <1>2, <1>3 DEF Shared!Ask

\* The task starts, for one of those who await it.
LEMMA StartShares ==
    ASSUME Inv, Attended, NEW k \in Operations, Start(k)
    PROVE  Shared!Begin(k)
<1>1. TypeOK
    BY DEF Inv, LineExact
<1>2. Fate' = [Fate EXCEPT ![k] = "running"] /\ Fate[k] = "none"
    BY <1>1, FateMoves DEF Start, Fate
<1>3. \E c \in Asking : op[c] = k
    BY DEF Start, Attended, Asking, Pending
<1>4. Asking' = Asking /\ UNCHANGED <<op, outcome>> /\ runs' = [runs EXCEPT ![k] = @ + 1]
    BY DEF Start, Asking
<1> QED BY <1>2, <1>3, <1>4 DEF Shared!Begin, Shared!Invoke

\* The task that does not start calls the operation off.
LEMMA NeverStartShares ==
    ASSUME Inv, Attended, NEW k \in Operations, NeverStart(k)
    PROVE  Shared!CallOff(k)
<1>1. TypeOK
    BY DEF Inv, LineExact
<1>2. Fate' = [Fate EXCEPT ![k] = "cancelled"] /\ Fate[k] = "none"
    BY <1>1, FateMoves DEF NeverStart, Fate
<1>3. \E c \in Asking : op[c] = k
    BY DEF NeverStart, Attended, Asking, Pending
<1>4. Asking' = Asking /\ UNCHANGED <<op, outcome, runs>>
    BY DEF NeverStart, Asking
<1> QED BY <1>2, <1>3, <1>4 DEF Shared!CallOff

\* The handler's end decides the operation's fate.
LEMMA SettleShares ==
    ASSUME Inv, NEW k \in Operations, Settle(k)
    PROVE  Shared!Decide(k)
<1>1. TypeOK
    BY DEF Inv, LineExact
<1>2. PICK r \in Settled : executions' = [executions EXCEPT ![k] = r]
    BY EndsSettle DEF Settle
<1>3. Fate' = [Fate EXCEPT ![k] = r] /\ Fate[k] = "running" /\ r \in Shared!Fates
    BY <1>1, <1>2, FateMoves DEF Settle, Fate, Settled, Results, Shared!Fates
<1>4. Asking' = Asking /\ UNCHANGED <<runs, op, outcome>>
    BY DEF Settle, Asking
<1> QED BY <1>3, <1>4 DEF Shared!Decide

\* Who returns is told.
LEMMA ReturnShares ==
    ASSUME Inv, NEW c \in Callers, Return(c)
    PROVE  Shared!Tell(c)
<1>1. TypeOK /\ op[c] \in Operations
    BY DEF Inv, LineExact, TypeOK
<1>2. c \in Asking /\ Asking' = Asking \ {c}
    BY <1>1, AskingMoves DEF Return, Asking, Places
<1>3. Fate[op[c]] = executions[op[c]] /\ Fate[op[c]] \in Shared!Fates
    BY <1>1 DEF Return, Fate, Settled, Results, Shared!Fates
<1>4. /\ Fate' = Fate /\ UNCHANGED <<runs, op>>
      /\ outcome' = [outcome EXCEPT ![c] = Fate[op[c]]]
    BY <1>3 DEF Return, Fate
<1> QED BY <1>2, <1>3, <1>4 DEF Shared!Tell

\* Who is cancelled gives up.
LEMMA CancelShares ==
    ASSUME Inv, NEW c \in Callers, Cancel(c)
    PROVE  Shared!GiveUp(c)
<1>1. TypeOK
    BY DEF Inv, LineExact
<1>2. c \in Asking /\ Asking' = Asking \ {c}
    BY <1>1, AskingMoves DEF Cancel, Asking, Places
<1>3. UNCHANGED <<Fate, runs, op>> /\ outcome' = [outcome EXCEPT ![c] = "gave_up"]
    BY DEF Cancel, Fate
<1> QED BY <1>2, <1>3 DEF Shared!GiveUp

\* A task that is asked to end, and a handler that ends late, show nothing.
LEMMA HiddenSteps ==
    ASSUME Inv,
           \/ \E c \in Callers : Abort(c)
           \/ \E k \in Operations : LateEnd(k)
    PROVE  UNCHANGED Shared!sharedVars
<1>1. TypeOK
    BY DEF Inv, LineExact
<1>2. CASE \E k \in Operations : LateEnd(k)
    BY <1>2 DEF LateEnd, Shared!sharedVars, Fate, Asking
<1>3. ASSUME NEW c \in Callers, Abort(c) PROVE UNCHANGED Shared!sharedVars
    <2>1. /\ op[c] \in Operations /\ executions[op[c]] = "created"
          /\ executions' = [executions EXCEPT ![op[c]] = "aborted"]
        BY <1>1, <1>3 DEF Abort, TypeOK
    <2>2. \A k \in Operations : /\ k # op[c] => executions'[k] = executions[k]
                                /\ k = op[c] => executions'[k] = "aborted"
        BY <1>1, <2>1 DEF TypeOK
    <2>3. Fate' = Fate
        BY <2>1, <2>2 DEF Fate
    <2> QED BY <1>3, <2>3 DEF Abort, Shared!sharedVars, Asking
<1> QED BY <1>2, <1>3

\* Every step of the executor is a step of the shared execution, or none.
LEMMA NextShares == Inv /\ Attended /\ [Next]_vars => [Shared!SharedNext]_Shared!sharedVars
<1> SUFFICES ASSUME Inv, Attended, [Next]_vars
             PROVE  [Shared!SharedNext]_Shared!sharedVars
    OBVIOUS
<1>0. TypeOK
    BY DEF Inv, LineExact
<1>1. CASE UNCHANGED vars
    BY <1>1 DEF vars, Shared!sharedVars, Fate, Asking
<1>2. ASSUME NEW c \in Callers, NEW k \in Operations, CallFree(c, k)
      PROVE  [Shared!SharedNext]_Shared!sharedVars
    BY <1>2, LookUpShares DEF CallFree
<1>3. ASSUME NEW c \in Callers, NEW k \in Operations, CallBusy(c, k)
      PROVE  Shared!Ask(c, k)
    <2>1. c \notin Asking /\ Asking' = Asking \cup {c}
        BY <1>0, <1>3, AskingMoves DEF CallBusy, Asking, Places
    <2>2. Fate' = Fate /\ UNCHANGED <<runs, outcome>> /\ op' = [op EXCEPT ![c] = k]
        BY <1>3 DEF CallBusy, Fate
    <2> QED BY <2>1, <2>2 DEF Shared!Ask
<1>4. ASSUME NEW c \in Callers, Locked(c)
      PROVE  [Shared!SharedNext]_Shared!sharedVars
    <2>1. /\ LookUp(c, op[c], Tail(line)) /\ op' = op /\ state[c] = "locking"
          /\ op[c] \in Operations /\ op' = [op EXCEPT ![c] = op[c]]
        BY <1>0, <1>4 DEF Locked, TypeOK
    <2> QED BY <2>1, LookUpShares
<1> QED BY <1>1, <1>2, <1>3, <1>4, CallTsShares, ReturnShares, CancelShares, StartShares,
           NeverStartShares, SettleShares, HiddenSteps DEF Next, Shared!SharedNext

\* The executor implements the shared execution, for any callers and operations: who asks
\* for an operation shares the one run of its handler and is told what became of it.
THEOREM RefinesSharedExecution == Spec => ImplementsSharedExecution
<1>1. Init => Shared!SharedInit
    BY DEF Init, Shared!SharedInit, Fate, Asking
<1> QED BY <1>1, NextShares, Invariance, NoTaskLeftBehind, PTL
        DEF Spec, ImplementsSharedExecution, Shared!SharedSpec

===============================================================================
