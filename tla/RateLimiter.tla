------------------------------ MODULE RateLimiter ------------------------------
(***************************************************************************)
(* technical/rate_limiter/limiter.py: a sliding-window limiter, called     *)
(* from one thread.  allow_request() reads the system clock time.time(),   *)
(* which the operating system may step; `elapsed` is the time that really  *)
(* passes and is seen by nobody in the program.                            *)
(***************************************************************************)
EXTENDS Integers, Sequences

CONSTANTS
    MaxRequests,
    Window,             \* WINDOW_SECONDS
    ClockSteps,         \* the steps the system clock may make ({} : none)
    MaxTime             \* bound: how long the system is observed

ASSUME LimiterAssumption == /\ MaxRequests \in Nat \ {0}
                            /\ Window \in Nat \ {0}
                            /\ ClockSteps \subseteq Int
                            /\ MaxTime \in Nat

VARIABLES
    timestamps,
    clock,              \* time.time()
    elapsed,            \* the time that really passed
    admitted            \* history: the real times of the admissions

vars == <<timestamps, clock, elapsed, admitted>>

Init == /\ timestamps = << >>
        /\ clock = 0
        /\ elapsed = 0
        /\ admitted = << >>

\* Mutant: a timestamp exactly at the cutoff is kept.
PastStrictly(t) == t < clock - Window

\* The timestamp is past the cutoff.
Past(t) == t <= clock - Window

\* The eviction loop pops exactly n timestamps: it stops at the first one that
\* is not past the cutoff, whatever stands behind it.
Pops(n) == /\ n \in 0..Len(timestamps)
           /\ \A i \in 1..n : Past(timestamps[i])
           /\ n < Len(timestamps) => ~Past(timestamps[n + 1])

\* What the loop leaves of the deque.
Left(n) == SubSeq(timestamps, n + 1, Len(timestamps))

\* Mutant: the limit is compared with <=.
AllowOneMore(n) ==
    /\ Pops(n)
    /\ Len(timestamps) - n <= MaxRequests
    /\ timestamps' = Append(Left(n), clock)
    /\ admitted' = Append(admitted, elapsed)
    /\ UNCHANGED <<clock, elapsed>>

\* allow_request() pops n timestamps and returns True.
Allow(n) ==
    /\ Pops(n)
    /\ Len(timestamps) - n < MaxRequests
    /\ timestamps' = Append(Left(n), clock)
    /\ admitted' = Append(admitted, elapsed)
    /\ UNCHANGED <<clock, elapsed>>

\* allow_request() pops n timestamps and returns False.
Limit(n) ==
    /\ Pops(n)
    /\ Len(timestamps) - n >= MaxRequests
    /\ timestamps' = Left(n)
    /\ UNCHANGED <<clock, elapsed, admitted>>

Tick == /\ elapsed < MaxTime
        /\ elapsed' = elapsed + 1
        /\ clock' = clock + 1
        /\ UNCHANGED <<timestamps, admitted>>

\* The system clock is stepped.
StepClock == /\ \E d \in ClockSteps : clock' = clock + d
             /\ clock' \in -MaxTime..2 * MaxTime
             /\ UNCHANGED <<timestamps, elapsed, admitted>>

Next == \/ \E n \in 0..Len(timestamps) : Allow(n) \/ Limit(n)
        \/ Tick
        \/ StepClock

Spec == Init /\ [][Next]_vars

-----------------------------------------------------------------------------
(* Properties *)

\* The types of the limiter's deque, of the clocks and of the history; the deque
\* is bounded by the limit, whatever the clock does.
TypeOK == /\ timestamps \in Seq(Int)
          /\ Len(timestamps) <= MaxRequests
          /\ clock \in Int
          /\ elapsed \in Nat
          /\ admitted \in Seq(Nat)

\* "At most max_requests successful admissions during the immediately
\* preceding window", at every instant: an admission and the one MaxRequests
\* before it are at least a window apart.  A clock stepped back keeps this (the
\* limiter is then stricter); a clock stepped forward breaks it.
WindowBound ==
    \A i \in 1..Len(admitted) :
        i + MaxRequests <= Len(admitted) => admitted[i + MaxRequests] - admitted[i] >= Window

\* The limiter does not limit more than it should ("a rejected request does not
\* consume capacity", "a request at exactly the boundary no longer counts"):
\* when it would reject, MaxRequests admissions are inside the window, or would
\* be had the clock not been stepped back since, which delays a request by no
\* more than the clock was stepped.
RejectsOnlyWhenFull ==
    LET steppedBack == elapsed - clock
    IN  /\ TypeOK
        /\ \A n \in 0..Len(timestamps) :
              Pops(n) /\ Len(timestamps) - n >= MaxRequests =>
              /\ Len(admitted) >= MaxRequests
              /\ admitted[Len(admitted) - MaxRequests + 1] > elapsed - Window - steppedBack

===============================================================================
