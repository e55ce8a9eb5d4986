------------------------------ MODULE AsyncMutex ------------------------------
(***************************************************************************)
(* The class Mutex of technical/job_manager/answer.ts: an asynchronous     *)
(* lock made of a flag and a list of resolve functions.  acquire() and     *)
(* release() each run without interruption; a caller whose promise is      *)
(* pending or resolved continues later.  `locked` stays set when the lock  *)
(* is handed over, so who owns it is nowhere stored: `place` records it.   *)
(*                                                                         *)
(* External discipline: the closure acquire() resolves to is called once   *)
(* by each owner, in a finally block (JobManagerTs models the callers).    *)
(***************************************************************************)
EXTENDS Integers, Sequences

CONSTANT Procs      \* the asynchronous calls that use the lock

VARIABLES
    locked,
    waiters,        \* the callers whose resolve functions are in the list
    place           \* "out", "waiting" in acquire(), or "inside"

mutexVars == <<locked, waiters, place>>

MutexInit == /\ locked = FALSE
             /\ waiters = << >>
             /\ place = [p \in Procs |-> "out"]

\* acquire() of a free lock.
AcquireFree(p) ==
    /\ place[p] = "out"
    /\ ~locked
    /\ locked' = TRUE
    /\ place' = [place EXCEPT ![p] = "inside"]
    /\ UNCHANGED waiters

\* acquire() of a lock that is taken.
AcquireBusy(p) ==
    /\ place[p] = "out"
    /\ locked
    /\ waiters' = Append(waiters, p)
    /\ place' = [place EXCEPT ![p] = "waiting"]
    /\ UNCHANGED locked

\* Mutant: the flag is cleared although the lock is handed over.
ReleaseToNextUnlocked(p) ==
    /\ place[p] = "inside"
    /\ waiters # << >>
    /\ waiters' = Tail(waiters)
    /\ place' = [place EXCEPT ![p] = "out", ![Head(waiters)] = "inside"]
    /\ locked' = FALSE

\* Mutant: the newest waiter is woken (pop() for shift()).
ReleaseToNewest(p) ==
    /\ place[p] = "inside"
    /\ waiters # << >>
    /\ waiters' = SubSeq(waiters, 1, Len(waiters) - 1)
    /\ place' = [place EXCEPT ![p] = "out", ![waiters[Len(waiters)]] = "inside"]
    /\ UNCHANGED locked

\* release() with waiters: the lock is handed to the first one.
ReleaseToNext(p) ==
    /\ place[p] = "inside"
    /\ waiters # << >>
    /\ waiters' = Tail(waiters)
    /\ place' = [place EXCEPT ![p] = "out", ![Head(waiters)] = "inside"]
    /\ UNCHANGED locked

\* release() without waiters.
ReleaseFree(p) ==
    /\ place[p] = "inside"
    /\ waiters = << >>
    /\ locked' = FALSE
    /\ place' = [place EXCEPT ![p] = "out"]
    /\ UNCHANGED waiters

Acquire(p) == AcquireFree(p) \/ AcquireBusy(p)
Release(p) == ReleaseToNext(p) \/ ReleaseFree(p)

MutexNext == \E p \in Procs : \/ AcquireFree(p)
                              \/ AcquireBusy(p)
                              \/ ReleaseToNext(p)
                              \/ ReleaseFree(p)

MutexSpec == MutexInit /\ [][MutexNext]_mutexVars

-----------------------------------------------------------------------------
(* Properties *)

\* The types of the lock's fields and of the callers' places.
MutexTypeOK == /\ locked \in BOOLEAN
               /\ waiters \in Seq(Procs)
               /\ place \in [Procs -> {"out", "waiting", "inside"}]

\* Two callers are never inside together, whoever called acquire() between a
\* hand-over and the resumption of the waiter it woke.
MutualExclusion ==
    \A p, q \in Procs : place[p] = "inside" /\ place[q] = "inside" => p = q

\* The flag is set exactly while somebody is inside: it is not lost in a
\* hand-over, and it is not left set with nobody to clear it.
LockedExact == locked <=> \E p \in Procs : place[p] = "inside"

\* The list holds exactly the waiting callers, each once: no wake-up is lost or
\* sent twice.
WaitersExact ==
    /\ \A p \in Procs : place[p] = "waiting" <=> \E i \in 1..Len(waiters) : waiters[i] = p
    /\ \A i, j \in 1..Len(waiters) : waiters[i] = waiters[j] => i = j

\* Nobody waits for a lock that is free (release() never clears the flag while
\* the list has members).
FreeHasNoWaiters == ~locked => waiters = << >>

\* The lock's invariant: the flag, the list and the callers' places agree.
MutexInv == MutexTypeOK /\ MutualExclusion /\ LockedExact /\ WaitersExact /\ FreeHasNoWaiters

Inside == {p \in Procs : place[p] = "inside"}

\* The callers in the order the lock owes them: the owner, then the waiters.
Line == IF Inside = {} THEN waiters ELSE <<CHOOSE p \in Inside : TRUE>> \o waiters

Fifo == INSTANCE FifoLock WITH line <- Line

\* The lock is granted in the order of the calls to acquire().
GrantedInOrder == Fifo!Spec

===============================================================================
