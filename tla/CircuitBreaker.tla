---------------------------- MODULE CircuitBreaker ----------------------------
(***************************************************************************)
(* technical/dependency_circuit_breaker: one in-memory breaker shared by   *)
(* the coroutines of one event loop.  A coroutine runs without preemption  *)
(* from execute() to `await operation()` and from the settling of the      *)
(* operation to the end of the finally block, so each of those stretches   *)
(* is one action; everything else interleaves at the await.                *)
(*                                                                         *)
(* Data abstraction.  last_fail_time_stamp is only ever read as            *)
(* now() - last_fail_time_stamp, and only compared with the cooldown: the  *)
(* model keeps that difference, saturated one past the cooldown.           *)
(***************************************************************************)
EXTENDS Integers

CONSTANTS
    Callers,      \* the coroutines that call execute()
    Threshold,    \* options.failure_threshold
    Cooldown,     \* options.cooldown_ms, in ticks of the clock
    CountCap,     \* bound: fail_count saturates here (all that is read of it
                  \* is whether it has reached the threshold)
    Lang          \* "py" | "ts": the two implementations differ at the boundary

ASSUME BreakerAssumption ==
    /\ Threshold \in Nat \ {0}
    /\ Cooldown \in Nat \ {0}
    /\ CountCap \in Nat /\ CountCap >= Threshold
    /\ Lang \in {"py", "ts"}

VARIABLES
    fail_count,
    since_failure,     \* now() - last_fail_time_stamp, saturated
    probe_in_flight,
    call               \* per coroutine: the local current_state of a call that
                       \* awaits its operation, or how its last call ended

vars == <<fail_count, since_failure, probe_in_flight, call>>

LongAgo  == Cooldown + 1
InFlight == {"closed", "half_open"}
Settled  == {"idle", "rejected", "returned", "raised"}

-----------------------------------------------------------------------------

CooldownElapsedPy == since_failure > Cooldown

CooldownElapsedTs == since_failure >= Cooldown

CooldownElapsed == \/ Lang = "py" /\ CooldownElapsedPy
                   \/ Lang = "ts" /\ CooldownElapsedTs

\* state(): derived from the counter and the clock, never stored.
State == IF fail_count < Threshold THEN "closed"
         ELSE IF CooldownElapsed THEN "half_open" ELSE "open"

Init == /\ fail_count = 0
        /\ since_failure = LongAgo
        /\ probe_in_flight = FALSE
        /\ call = [c \in Callers |-> "idle"]

\* execute() raises CircuitOpenError without calling the dependency.
Reject(c) ==
    /\ call[c] \in Settled
    /\ State = "open" \/ (State = "half_open" /\ probe_in_flight)
    /\ call' = [call EXCEPT ![c] = "rejected"]
    /\ UNCHANGED <<fail_count, since_failure, probe_in_flight>>

\* execute() passes the gate and awaits the operation.
Admit(c) ==
    /\ call[c] \in Settled
    /\ State = "closed" \/ (State = "half_open" /\ ~probe_in_flight)
    /\ call' = [call EXCEPT ![c] = State]
    /\ probe_in_flight' = (probe_in_flight \/ State = "half_open")
    /\ UNCHANGED <<fail_count, since_failure>>

\* Mutant: the finally block clears the flag whatever state the call entered in.
ClearProbeAlways(c) == probe_in_flight' = FALSE

\* Mutant: no finally block, the flag is only ever set.
ClearProbeNever(c) == probe_in_flight' = probe_in_flight

\* The finally block: only the call that was admitted as probe clears the flag.
ClearProbe(c) ==
    probe_in_flight' = (probe_in_flight /\ call[c] # "half_open")

\* The operation returned.
Succeed(c) ==
    /\ call[c] \in InFlight
    /\ fail_count' = 0
    /\ since_failure' = LongAgo
    /\ call' = [call EXCEPT ![c] = "returned"]
    /\ ClearProbe(c)

\* Mutant: the failure is counted but not dated.
FailUndated(c) ==
    /\ call[c] \in InFlight
    /\ fail_count' = IF fail_count < CountCap THEN fail_count + 1 ELSE CountCap
    /\ call' = [call EXCEPT ![c] = "raised"]
    /\ ClearProbe(c)
    /\ UNCHANGED since_failure

\* The operation raised an error that is_eligible_failure accepts.
FailEligible(c) ==
    /\ call[c] \in InFlight
    /\ fail_count' = IF fail_count < CountCap THEN fail_count + 1 ELSE CountCap
    /\ since_failure' = 0
    /\ call' = [call EXCEPT ![c] = "raised"]
    /\ ClearProbe(c)

\* The operation raised an error that is not counted (a caller error).
FailIneligible(c) ==
    /\ call[c] \in InFlight
    /\ call' = [call EXCEPT ![c] = "raised"]
    /\ ClearProbe(c)
    /\ UNCHANGED <<fail_count, since_failure>>

\* The clock advances.
Tick == /\ since_failure < LongAgo
        /\ since_failure' = since_failure + 1
        /\ UNCHANGED <<fail_count, probe_in_flight, call>>

Settle(c) == Succeed(c) \/ FailEligible(c) \/ FailIneligible(c)

Next == \/ \E c \in Callers : \/ Reject(c)
                              \/ Admit(c)
                              \/ Succeed(c)
                              \/ FailEligible(c)
                              \/ FailIneligible(c)
        \/ Tick

Spec == Init /\ [][Next]_vars

(***************************************************************************)
(* Fairness: the clock runs; every awaited operation settles (the breaker  *)
(* has no timeout of its own: a caller that lets an operation hang is      *)
(* outside its contract); and the service keeps receiving requests, so     *)
(* some coroutine eventually calls execute() when a call would be          *)
(* admitted.  Nothing obliges an operation to succeed.                     *)
(***************************************************************************)
FairSpec == /\ Spec
            /\ WF_vars(Tick)
            /\ \A c \in Callers : WF_vars(Settle(c))
            /\ WF_vars(\E c \in Callers : Admit(c))

-----------------------------------------------------------------------------
(* Properties *)

\* The types of the breaker's fields and of the callers' local state.
TypeOK == /\ fail_count \in 0..CountCap
          /\ since_failure \in 0..LongAgo
          /\ probe_in_flight \in BOOLEAN
          /\ call \in [Callers -> InFlight \cup Settled]

\* "Allow exactly one probe": two calls admitted in half_open never await
\* their operations at the same time, however stale calls settle around them
\* and however often the breaker closes and trips again meanwhile.
AtMostOneProbe ==
    \A c, d \in Callers : call[c] = "half_open" /\ call[d] = "half_open" => c = d

\* The flag is never leaked nor cleared by another call: it is set exactly
\* while some admitted probe is awaiting (a leaked flag would reject forever).
ProbeFlagExact ==
    probe_in_flight <=> \E c \in Callers : call[c] = "half_open"

\* The breaker's invariant.  Neither fact about the probe is inductive alone: that
\* the gate admits no second probe needs the flag to be set while one runs, and
\* that clearing the flag is exact needs that no second probe runs.
ProbeInv == TypeOK /\ AtMostOneProbe /\ ProbeFlagExact

\* Tripping always starts a full cooldown: a step that leaves closed enters
\* open, never half_open, and an open breaker only starts probing because time
\* passed, never because some late call settled.
TripStartsCooldown ==
    [][ /\ State = "closed" => State' \in {"closed", "open"}
        /\ State = "open" /\ State' = "half_open" => call' = call ]_vars

\* A tripped breaker does not stay tripped without testing the dependency: it
\* closes or it has a probe awaiting, again and again, however the stale calls
\* of before the trip settle.
TrippedIsProbed ==
    State # "closed" ~> (State = "closed" \/ \E c \in Callers : call[c] = "half_open")

\* question.md: "An eligible failed probe reopens the circuit and restarts the
\* cooldown."  (Checked in a run that expects a violation.)
FailedProbeReopens ==
    [][ \A c \in Callers : call[c] = "half_open" /\ FailEligible(c)
            => State' = "open" ]_vars

=============================================================================
