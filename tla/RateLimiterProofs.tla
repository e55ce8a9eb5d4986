--------------------------- MODULE RateLimiterProofs ---------------------------
(* The window bound, and that no request is rejected without need, for     *)
(* every limit, every window and every clock that is never stepped forward. *)
EXTENDS RateLimiter, TLAPS

\* How many of the admissions the deque no longer holds.
Forgotten == Len(admitted) - Len(timestamps)

\* The deque is the end of the history.  A timestamp it holds looks no older
\* than its admission is (the clock only lost time since), and an admission it
\* no longer holds is at least a window ago.
DequeIsRecent ==
    /\ Forgotten >= 0
    /\ \A i \in 1..Len(timestamps) :
          clock - timestamps[i] <= elapsed - admitted[Forgotten + i]
    /\ \A i \in 1..Len(admitted) : i <= Forgotten => admitted[i] + Window <= elapsed

\* The clock only ever lost time, so no timestamp is later than its admission.
ClockLags ==
    /\ clock <= elapsed
    /\ \A i \in 1..Len(timestamps) : timestamps[i] <= admitted[Forgotten + i]

Inv == TypeOK /\ DequeIsRecent /\ ClockLags /\ WindowBound

\* The positions of what the eviction loop leaves.
LEMMA LeftPositions ==
    ASSUME TypeOK, NEW n \in 0..Len(timestamps)
    PROVE  /\ Left(n) \in Seq(Int)
           /\ Len(Left(n)) = Len(timestamps) - n
           /\ \A i \in 1..Len(timestamps) - n : Left(n)[i] = timestamps[n + i]
<1>1. timestamps \in Seq(Int) /\ Len(timestamps) \in Nat
    BY DEF TypeOK
<1>2. \A i \in n + 1..Len(timestamps) : timestamps[i] \in Int
    BY <1>1
<1> QED BY <1>1, <1>2 DEF Left

\* Append keeps every position and adds one.
LEMMA AppendPositions ==
    ASSUME NEW S, NEW q \in Seq(S), NEW x \in S
    PROVE  /\ Append(q, x) \in Seq(S)
           /\ Len(q) \in Nat
           /\ Len(Append(q, x)) = Len(q) + 1
           /\ \A i \in 1..Len(q) : Append(q, x)[i] = q[i]
           /\ Append(q, x)[Len(q) + 1] = x
OBVIOUS

\* Popping leaves the end of the history, and what it forgets is a window ago.
LEMMA PopsOldOnes ==
    ASSUME Inv, NEW n \in 0..Len(timestamps), Pops(n)
    PROVE  /\ Len(timestamps) \in Nat /\ Len(admitted) \in Nat /\ Forgotten \in Nat
           /\ \A i \in 1..Len(admitted) : admitted[i] \in Nat
           /\ \A i \in 1..Len(timestamps) - n : Left(n)[i] \in Int
           /\ Forgotten + n \in 0..Len(admitted)
           /\ \A i \in 1..Len(admitted) : i <= Forgotten + n => admitted[i] + Window <= elapsed
           /\ \A i \in 1..Len(timestamps) - n :
                clock - Left(n)[i] <= elapsed - admitted[Forgotten + n + i]
<1> USE LimiterAssumption DEF Inv
<1>1. /\ Len(timestamps) \in Nat /\ Len(admitted) \in Nat
      /\ \A i \in 1..Len(timestamps) : timestamps[i] \in Int
      /\ \A i \in 1..Len(admitted) : admitted[i] \in Nat
      /\ clock \in Int /\ elapsed \in Nat /\ Forgotten >= 0
    BY DEF TypeOK, DequeIsRecent
<1>2. Forgotten \in Nat /\ Forgotten + Len(timestamps) = Len(admitted)
    BY <1>1 DEF Forgotten
<1>3. ASSUME NEW i \in 1..Len(admitted), i <= Forgotten + n
      PROVE  admitted[i] + Window <= elapsed
    <2>1. CASE i <= Forgotten
        BY <2>1 DEF DequeIsRecent
    <2>2. CASE i > Forgotten
        <3>1. i - Forgotten \in 1..n /\ i - Forgotten \in 1..Len(timestamps)
            BY <1>1, <1>2, <1>3, <2>2
        <3>2. timestamps[i - Forgotten] <= clock - Window
            BY <3>1 DEF Pops, Past
        <3>3. clock - timestamps[i - Forgotten] <= elapsed - admitted[i]
            <4>1. Forgotten + (i - Forgotten) = i
                BY <1>2
            <4> QED BY <3>1, <4>1 DEF DequeIsRecent
        <3> QED BY <1>1, <3>1, <3>2, <3>3, SMTT(30)
    <2> QED BY <1>2, <2>1, <2>2
<1>4. ASSUME NEW i \in 1..Len(timestamps) - n
      PROVE  clock - Left(n)[i] <= elapsed - admitted[Forgotten + n + i]
    <2>1. n + i \in 1..Len(timestamps) /\ Left(n)[i] = timestamps[n + i]
        BY <1>1, LeftPositions
    <2>2. Forgotten + (n + i) = Forgotten + n + i
        BY <1>2
    <2> QED BY <2>1, <2>2 DEF DequeIsRecent
<1>5. \A i \in 1..Len(timestamps) - n : Left(n)[i] \in Int
    BY <1>1, LeftPositions
<1> QED BY <1>1, <1>2, <1>3, <1>4, <1>5

\* The invariant holds initially.
LEMMA InitInv == Init => Inv
BY LimiterAssumption DEF Init, Inv, TypeOK, DequeIsRecent, ClockLags, WindowBound, Forgotten

\* An admission preserves the invariant.
LEMMA AllowInv == ASSUME Inv, NEW n \in 0..Len(timestamps), Allow(n) PROVE Inv'
<1> USE LimiterAssumption DEF Inv
<1>1. /\ clock \in Int /\ elapsed \in Nat /\ admitted \in Seq(Nat)
      /\ clock' = clock /\ elapsed' = elapsed
      /\ Len(timestamps) - n < MaxRequests
    BY DEF TypeOK, Allow
<1>2. /\ Len(timestamps) \in Nat /\ Len(admitted) \in Nat /\ Forgotten \in Nat
      /\ \A i \in 1..Len(admitted) : admitted[i] \in Nat
      /\ \A i \in 1..Len(timestamps) - n : Left(n)[i] \in Int
      /\ Forgotten + n \in 0..Len(admitted)
      /\ \A i \in 1..Len(admitted) : i <= Forgotten + n => admitted[i] + Window <= elapsed
      /\ \A i \in 1..Len(timestamps) - n :
           clock - Left(n)[i] <= elapsed - admitted[Forgotten + n + i]
    BY PopsOldOnes DEF Allow
<1>3. /\ timestamps' \in Seq(Int) /\ Len(timestamps') = Len(timestamps) - n + 1
      /\ \A i \in 1..Len(timestamps) - n : timestamps'[i] = Left(n)[i]
      /\ timestamps'[Len(timestamps) - n + 1] = clock
    BY <1>1, LeftPositions, AppendPositions, SMTT(30) DEF Allow
<1>4. /\ admitted' \in Seq(Nat) /\ Len(admitted') = Len(admitted) + 1
      /\ \A i \in 1..Len(admitted) : admitted'[i] = admitted[i]
      /\ admitted'[Len(admitted) + 1] = elapsed
    BY <1>1, AppendPositions DEF Allow
<1>5. Forgotten' = Forgotten + n /\ Forgotten + Len(timestamps) = Len(admitted)
    BY <1>2, <1>3, <1>4 DEF Forgotten
<1>0. /\ n \in 0..Len(timestamps) /\ Forgotten \in Nat
      /\ Len(timestamps) \in Nat /\ Len(admitted) \in Nat
      /\ Len(timestamps') = Len(timestamps) - n + 1
      /\ Len(admitted') = Len(admitted) + 1
      /\ Len(timestamps) - n < MaxRequests
    BY <1>1, <1>2, <1>3, <1>4
<1>6. TypeOK'
    BY <1>1, <1>2, <1>3, <1>4 DEF TypeOK
<1>7. DequeIsRecent'
    <2>1. ASSUME NEW i \in 1..Len(timestamps')
          PROVE  clock' - timestamps'[i] <= elapsed' - admitted'[Forgotten' + i]
        <3>1. CASE i <= Len(timestamps) - n
            <4>1. i \in 1..Len(timestamps) - n /\ Forgotten + n + i \in 1..Len(admitted)
                BY <1>2, <1>3, <1>5, <3>1
            <4> QED BY <1>1, <1>2, <1>3, <1>4, <1>5, <4>1
        <3>2. CASE i = Len(timestamps) - n + 1
            <4>1. Forgotten + n + i = Len(admitted) + 1
                BY <1>0, <1>5, <3>2
            <4>2. /\ timestamps'[i] = clock
                  /\ admitted'[Forgotten' + i] = elapsed
                BY <1>2, <1>3, <1>4, <1>5, <3>2, <4>1
            <4> QED BY <1>1, <4>2
        <3> QED BY <1>0, <3>1, <3>2
    <2>2. ASSUME NEW i \in 1..Len(admitted'), i <= Forgotten'
          PROVE  admitted'[i] + Window <= elapsed'
        <3>1. i \in 1..Len(admitted)
            BY <1>2, <1>4, <1>5, <2>2
        <3> QED BY <1>1, <1>2, <1>4, <1>5, <2>2, <3>1
    <2> QED BY <1>2, <1>5, <2>1, <2>2 DEF DequeIsRecent
<1>8. WindowBound'
    <2> SUFFICES ASSUME NEW i \in 1..Len(admitted'), i + MaxRequests <= Len(admitted')
                 PROVE  admitted'[i + MaxRequests] - admitted'[i] >= Window
        BY DEF WindowBound
    <2>1. CASE i + MaxRequests <= Len(admitted)
        <3>1. i \in 1..Len(admitted) /\ i + MaxRequests \in 1..Len(admitted)
            BY <1>2, <2>1
        <3> QED BY <1>4, <2>1, <3>1 DEF WindowBound
    <2>2. CASE i + MaxRequests = Len(admitted) + 1
        <3>1. i \in 1..Len(admitted) /\ i <= Forgotten + n
            BY <1>0, <1>5, <2>2
        <3>2. admitted[i] + Window <= elapsed /\ admitted[i] \in Nat
            BY <1>1, <1>2, <3>1
        <3>3. admitted'[i] = admitted[i] /\ admitted'[i + MaxRequests] = elapsed
            BY <1>4, <2>2, <3>1
        <3> QED BY <1>1, <3>2, <3>3, SMTT(30)
    <2> QED BY <1>0, <2>1, <2>2
<1>9. ClockLags'
    <2> SUFFICES ASSUME NEW i \in 1..Len(timestamps')
                 PROVE  timestamps'[i] <= admitted'[Forgotten' + i]
        BY <1>1 DEF ClockLags
    <2>1. CASE i <= Len(timestamps) - n
        <3>1. /\ i \in 1..Len(timestamps) - n /\ n + i \in 1..Len(timestamps)
              /\ Forgotten + (n + i) = Forgotten' + i /\ Forgotten' + i \in 1..Len(admitted)
            BY <1>2, <1>3, <1>5, <2>1
        <3>2. timestamps'[i] = timestamps[n + i]
            BY <1>3, <3>1, LeftPositions
        <3> QED BY <1>4, <3>1, <3>2 DEF ClockLags
    <2>2. CASE i = Len(timestamps) - n + 1
        <3>1. Forgotten' + i = Len(admitted) + 1
            BY <1>0, <1>5, <2>2
        <3> QED BY <1>3, <1>4, <2>2, <3>1 DEF ClockLags
    <2> QED BY <1>0, <2>1, <2>2
<1> QED BY <1>6, <1>7, <1>8, <1>9

\* A rejection preserves the invariant.
LEMMA LimitInv == ASSUME Inv, NEW n \in 0..Len(timestamps), Limit(n) PROVE Inv'
<1> USE LimiterAssumption DEF Inv
<1>1. /\ Len(timestamps) \in Nat /\ Len(admitted) \in Nat
      /\ Forgotten + n \in 0..Len(admitted)
      /\ \A i \in 1..Len(admitted) : i <= Forgotten + n => admitted[i] + Window <= elapsed
      /\ \A i \in 1..Len(timestamps) - n :
           clock - Left(n)[i] <= elapsed - admitted[Forgotten + n + i]
    BY PopsOldOnes DEF Limit
<1>2. /\ timestamps' = Left(n) /\ Left(n) \in Seq(Int) /\ Len(Left(n)) = Len(timestamps) - n
      /\ UNCHANGED <<clock, elapsed, admitted>>
    BY LeftPositions DEF Limit
<1>3. Forgotten' = Forgotten + n
    BY <1>1, <1>2 DEF Forgotten
<1>4. TypeOK'
    BY <1>1, <1>2 DEF TypeOK
<1>5. DequeIsRecent'
    BY <1>1, <1>2, <1>3 DEF DequeIsRecent
<1>6. WindowBound'
    BY <1>2 DEF WindowBound
<1>7. ClockLags'
    <2> SUFFICES ASSUME NEW i \in 1..Len(timestamps) - n
                 PROVE  Left(n)[i] <= admitted[Forgotten + n + i]
        BY <1>2, <1>3 DEF ClockLags
    <2>1. n + i \in 1..Len(timestamps) /\ Forgotten + (n + i) = Forgotten + n + i
        BY <1>1 DEF Forgotten
    <2>2. Left(n)[i] = timestamps[n + i]
        BY LeftPositions
    <2> QED BY <2>1, <2>2 DEF ClockLags
<1> QED BY <1>4, <1>5, <1>6, <1>7

\* A clock that loses time makes a timestamp look younger.
LEMMA LosesTime ==
    ASSUME NEW c \in Int, NEW c1 \in Int, NEW e \in Int, NEW e1 \in Int,
           NEW t \in Int, NEW a \in Int,
           c1 - c <= e1 - e, c - t <= e - a
    PROVE  c1 - t <= e1 - a
OBVIOUS

\* A clock that loses time stays behind.
LEMMA StaysBehind ==
    ASSUME NEW c \in Int, NEW c1 \in Int, NEW e \in Int, NEW e1 \in Int,
           c1 - c <= e1 - e, c <= e
    PROVE  c1 <= e1
OBVIOUS

\* The passing of time, and a clock that loses time, preserve the invariant.
LEMMA TimeInv ==
    ASSUME Inv, \A d \in ClockSteps : d <= 0, Tick \/ StepClock
    PROVE  Inv'
<1> USE LimiterAssumption DEF Inv
<1>1. /\ clock \in Int /\ elapsed \in Nat
      /\ clock' \in Int /\ elapsed' \in Nat
      /\ elapsed' >= elapsed
      /\ clock' - clock <= elapsed' - elapsed
      /\ UNCHANGED <<timestamps, admitted>>
    BY DEF TypeOK, Tick, StepClock
<1>2. /\ Len(timestamps) \in Nat /\ Len(admitted) \in Nat
      /\ \A i \in 1..Len(timestamps) : timestamps[i] \in Int
      /\ \A i \in 1..Len(admitted) : admitted[i] \in Nat
      /\ Forgotten \in Nat /\ Forgotten + Len(timestamps) = Len(admitted)
    BY DEF TypeOK, DequeIsRecent, Forgotten
<1>3. TypeOK'
    BY <1>1 DEF TypeOK
<1>4. DequeIsRecent'
    <2>1. Forgotten' = Forgotten
        BY <1>1 DEF Forgotten
    <2>2. ASSUME NEW i \in 1..Len(timestamps)
          PROVE  clock' - timestamps[i] <= elapsed' - admitted[Forgotten + i]
        <3>1. /\ timestamps[i] \in Int
              /\ Forgotten + i \in 1..Len(admitted) /\ admitted[Forgotten + i] \in Nat
            BY <1>2
        <3>2. clock - timestamps[i] <= elapsed - admitted[Forgotten + i]
            BY DEF DequeIsRecent
        <3>3. elapsed \in Int /\ elapsed' \in Int /\ admitted[Forgotten + i] \in Int
            BY <1>1, <3>1
        <3>4. clock \in Int /\ clock' \in Int /\ clock' - clock <= elapsed' - elapsed
            BY <1>1, Zenon
        <3> QED BY <3>1, <3>2, <3>3, <3>4, LosesTime, Zenon
    <2>3. ASSUME NEW i \in 1..Len(admitted), i <= Forgotten
          PROVE  admitted[i] + Window <= elapsed'
        BY <1>1, <1>2, <2>3 DEF DequeIsRecent
    <2> QED BY <1>1, <1>2, <2>1, <2>2, <2>3 DEF DequeIsRecent
<1>5. WindowBound'
    BY <1>1 DEF WindowBound
<1>6. ClockLags'
    <2>1. clock' <= elapsed'
        <3>1. /\ clock \in Int /\ clock' \in Int /\ elapsed \in Nat /\ elapsed' \in Nat
              /\ clock' - clock <= elapsed' - elapsed
            BY <1>1, Zenon
        <3>2. clock <= elapsed
            BY DEF ClockLags
        <3>3. elapsed \in Int /\ elapsed' \in Int
            BY <3>1
        <3> QED BY <3>1, <3>2, <3>3, StaysBehind, Zenon
    <2> QED BY <1>1, <2>1 DEF ClockLags, Forgotten
<1> QED BY <1>3, <1>4, <1>5, <1>6

\* Every step preserves the invariant.
LEMMA NextInv ==
    ASSUME \A d \in ClockSteps : d <= 0
    PROVE  Inv /\ [Next]_vars => Inv'
<1> SUFFICES ASSUME Inv, [Next]_vars PROVE Inv'
    OBVIOUS
<1>1. CASE UNCHANGED vars
    BY <1>1 DEF vars, Inv, TypeOK, DequeIsRecent, ClockLags, WindowBound, Forgotten
<1> QED BY <1>1, AllowInv, LimitInv, TimeInv DEF Next

\* At most MaxRequests admissions fall in any window of real time, unless the
\* system clock is stepped forward.
THEOREM WindowIsBounded ==
    ASSUME \A d \in ClockSteps : d <= 0
    PROVE  Spec => []WindowBound
<1>1. Inv => WindowBound
    BY DEF Inv
<1> QED BY InitInv, NextInv, <1>1, PTL DEF Spec

\* A full deque with a first timestamp that is not past holds MaxRequests admissions, the
\* oldest of which is inside the window that the clock shows.
LEMMA FullWhenRejecting == Inv => RejectsOnlyWhenFull
<1> SUFFICES ASSUME Inv, NEW n \in 0..Len(timestamps), Pops(n),
                    Len(timestamps) - n >= MaxRequests
             PROVE  /\ Len(admitted) >= MaxRequests
                    /\ admitted[Len(admitted) - MaxRequests + 1]
                         > elapsed - Window - (elapsed - clock)
    BY DEF Inv, RejectsOnlyWhenFull
<1> USE LimiterAssumption DEF Inv
<1>1. /\ Len(timestamps) \in Nat /\ Len(admitted) \in Nat /\ Forgotten \in Nat
      /\ \A i \in 1..Len(timestamps) : timestamps[i] \in Int
      /\ \A i \in 1..Len(admitted) : admitted[i] \in Nat
      /\ clock \in Int /\ elapsed \in Nat
    <2>1. /\ timestamps \in Seq(Int) /\ admitted \in Seq(Nat)
          /\ clock \in Int /\ elapsed \in Nat
        BY DEF TypeOK
    <2>2. /\ Len(timestamps) \in Nat /\ \A i \in 1..Len(timestamps) : timestamps[i] \in Int
          /\ Len(admitted) \in Nat /\ \A i \in 1..Len(admitted) : admitted[i] \in Nat
        BY <2>1
    <2>3. Forgotten = Len(admitted) - Len(timestamps) /\ Forgotten >= 0
        BY DEF Forgotten, DequeIsRecent
    <2> QED BY <2>1, <2>2, <2>3
<1>2. n = 0 /\ Len(timestamps) = MaxRequests
    BY <1>1 DEF TypeOK
<1>3. /\ Len(admitted) >= MaxRequests /\ 1 \in 1..Len(timestamps)
      /\ Forgotten + 1 = Len(admitted) - MaxRequests + 1 /\ Forgotten + 1 \in 1..Len(admitted)
    BY <1>1, <1>2 DEF Forgotten
<1>4. timestamps[1] > clock - Window
    BY <1>1, <1>2, <1>3 DEF Pops, Past
<1>5. timestamps[1] <= admitted[Forgotten + 1]
    BY <1>3 DEF ClockLags
<1>6. admitted[Forgotten + 1] > clock - Window
    BY <1>1, <1>3, <1>4, <1>5
<1>7. elapsed - Window - (elapsed - clock) = clock - Window
    BY <1>1
<1> QED BY <1>3, <1>6, <1>7

\* A request is rejected only if MaxRequests admissions are inside the window, or would be
\* had the system clock not been stepped back.
THEOREM RejectsNoOther ==
    ASSUME \A d \in ClockSteps : d <= 0
    PROVE  Spec => []RejectsOnlyWhenFull
BY InitInv, NextInv, FullWhenRejecting, PTL DEF Spec

===============================================================================
