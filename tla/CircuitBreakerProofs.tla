------------------------- MODULE CircuitBreakerProofs -------------------------
(* The safety of the circuit breaker for every number of callers, every    *)
(* threshold, every cooldown and both implementations.                     *)
EXTENDS CircuitBreaker, TLAPS

\* The state() of a well-typed breaker is one of the three states.
LEMMA StateType == State \in {"closed", "open", "half_open"}
BY DEF State

\* A call that settles leaves the set of probes smaller by at most itself, and
\* the finally block follows it: the common step of the three settlements.
LEMMA SettleKeepsProbe ==
    ASSUME ProbeInv, NEW c \in Callers, call[c] \in InFlight,
           NEW s \in {"returned", "raised"},
           call' = [call EXCEPT ![c] = s],
           ClearProbe(c)
    PROVE  /\ call' \in [Callers -> InFlight \cup Settled]
           /\ probe_in_flight' \in BOOLEAN
           /\ AtMostOneProbe'
           /\ ProbeFlagExact'
<1>1. call' \in [Callers -> InFlight \cup Settled] /\ probe_in_flight' \in BOOLEAN
    BY DEF ProbeInv, TypeOK, InFlight, Settled, ClearProbe
<1>2. \A d \in Callers : call'[d] = IF d = c THEN s ELSE call[d]
    BY DEF ProbeInv, TypeOK
<1>3. AtMostOneProbe'
    BY <1>2 DEF ProbeInv, AtMostOneProbe
<1>4. ProbeFlagExact'
    BY <1>2 DEF ProbeInv, AtMostOneProbe, ProbeFlagExact, ClearProbe
<1> QED BY <1>1, <1>3, <1>4

\* The inductive invariant holds initially.
LEMMA InitProbeInv == Init => ProbeInv
<1> SUFFICES ASSUME Init PROVE ProbeInv
    OBVIOUS
<1>1. TypeOK
    <2>1. fail_count \in 0..CountCap /\ since_failure \in 0..LongAgo
        BY BreakerAssumption DEF Init, LongAgo
    <2>2. probe_in_flight \in BOOLEAN
        BY DEF Init
    <2>3. call \in [Callers -> InFlight \cup Settled]
        BY DEF Init, Settled
    <2> QED BY <2>1, <2>2, <2>3 DEF TypeOK
<1>2. \A c \in Callers : call[c] # "half_open"
    BY DEF Init
<1> QED BY <1>1, <1>2 DEF Init, ProbeInv, AtMostOneProbe, ProbeFlagExact

\* Every step preserves the inductive invariant.
LEMMA NextProbeInv == ProbeInv /\ [Next]_vars => ProbeInv'
<1> SUFFICES ASSUME ProbeInv, [Next]_vars PROVE ProbeInv'
    OBVIOUS
<1> USE BreakerAssumption
<1>1. ASSUME NEW c \in Callers, Reject(c) PROVE ProbeInv'
    <2>1. \A d \in Callers : call'[d] = IF d = c THEN "rejected" ELSE call[d]
        BY <1>1 DEF Reject, ProbeInv, TypeOK
    <2>2. TypeOK'
        BY <1>1 DEF Reject, ProbeInv, TypeOK, InFlight, Settled
    <2>3. AtMostOneProbe' /\ ProbeFlagExact'
        BY <1>1, <2>1 DEF Reject, ProbeInv, AtMostOneProbe, ProbeFlagExact, Settled
    <2> QED BY <2>2, <2>3 DEF ProbeInv
<1>2. ASSUME NEW c \in Callers, Admit(c) PROVE ProbeInv'
    <2>1. \A d \in Callers : call'[d] = IF d = c THEN State ELSE call[d]
        BY <1>2 DEF Admit, ProbeInv, TypeOK
    <2>2. TypeOK'
        BY <1>2, StateType DEF Admit, ProbeInv, TypeOK, InFlight, Settled
    <2>3. AtMostOneProbe'
        BY <1>2, <2>1 DEF Admit, ProbeInv, AtMostOneProbe, ProbeFlagExact
    <2>4. ProbeFlagExact'
        BY <1>2, <2>1 DEF Admit, ProbeInv, ProbeFlagExact, Settled
    <2> QED BY <2>2, <2>3, <2>4 DEF ProbeInv
<1>3. ASSUME NEW c \in Callers, Succeed(c) PROVE ProbeInv'
    <2>1. fail_count' \in 0..CountCap /\ since_failure' \in 0..LongAgo
        BY <1>3 DEF Succeed, LongAgo
    <2> QED BY <1>3, <2>1, SettleKeepsProbe DEF Succeed, ProbeInv, TypeOK
<1>4. ASSUME NEW c \in Callers, FailEligible(c) PROVE ProbeInv'
    <2>1. fail_count' \in 0..CountCap /\ since_failure' \in 0..LongAgo
        BY <1>4 DEF FailEligible, ProbeInv, TypeOK, LongAgo
    <2> QED BY <1>4, <2>1, SettleKeepsProbe DEF FailEligible, ProbeInv, TypeOK
<1>5. ASSUME NEW c \in Callers, FailIneligible(c) PROVE ProbeInv'
    BY <1>5, SettleKeepsProbe DEF FailIneligible, ProbeInv, TypeOK
<1>6. CASE Tick
    BY <1>6 DEF Tick, ProbeInv, TypeOK, AtMostOneProbe, ProbeFlagExact, LongAgo
<1>7. CASE UNCHANGED vars
    BY <1>7 DEF vars, ProbeInv, TypeOK, AtMostOneProbe, ProbeFlagExact
<1> QED BY <1>1, <1>2, <1>3, <1>4, <1>5, <1>6, <1>7 DEF Next

\* The invariant of the breaker.
THEOREM ProbeInvariant == Spec => []ProbeInv
BY InitProbeInv, NextProbeInv, PTL DEF Spec

\* The fields and the callers' local states keep their types.
THEOREM TypeCorrect == Spec => []TypeOK
<1>1. ProbeInv => TypeOK
    BY DEF ProbeInv
<1> QED BY <1>1, InitProbeInv, NextProbeInv, PTL DEF Spec

\* At most one call that entered in half_open awaits its operation.
THEOREM OneProbe == Spec => []AtMostOneProbe
<1>1. ProbeInv => AtMostOneProbe
    BY DEF ProbeInv
<1> QED BY <1>1, InitProbeInv, NextProbeInv, PTL DEF Spec

\* probe_in_flight is set exactly while a probe awaits its operation.
THEOREM ProbeFlagIsExact == Spec => []ProbeFlagExact
<1>1. ProbeInv => ProbeFlagExact
    BY DEF ProbeInv
<1> QED BY <1>1, InitProbeInv, NextProbeInv, PTL DEF Spec

\* A breaker that trips is open for a whole cooldown, and only the clock takes
\* it from open to half_open.
THEOREM TripIsDated == Spec => TripStartsCooldown
<1> DEFINE A == /\ State = "closed" => State' \in {"closed", "open"}
                /\ State = "open" /\ State' = "half_open" => call' = call
<1>1. TypeOK /\ [Next]_vars => [A]_vars
    <2> SUFFICES ASSUME TypeOK, Next PROVE A
        BY DEF vars
    <2> USE BreakerAssumption DEF State, CooldownElapsed, CooldownElapsedPy, CooldownElapsedTs
    <2>1. ASSUME NEW c \in Callers, Reject(c) \/ Admit(c) \/ FailIneligible(c) PROVE A
        BY <2>1 DEF Reject, Admit, FailIneligible
    <2>2. ASSUME NEW c \in Callers, Succeed(c) PROVE A
        BY <2>2 DEF Succeed
    <2>3. ASSUME NEW c \in Callers, FailEligible(c) PROVE A
        BY <2>3 DEF FailEligible, TypeOK
    <2>4. CASE Tick
        BY <2>4 DEF Tick, TypeOK
    <2> QED BY <2>1, <2>2, <2>3, <2>4 DEF Next
<1> QED BY <1>1, TypeCorrect, PTL DEF Spec, TripStartsCooldown
===============================================================================
