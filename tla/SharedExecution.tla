--------------------------- MODULE SharedExecution ---------------------------
(***************************************************************************)
(* What the idempotent tool executor promises its callers, without map,    *)
(* lock or task: an operation has one fate.  While somebody asks for it,   *)
(* it may be run, once, or be called off before; whoever asks, then or     *)
(* later, is told what became of it; a caller may give up.                 *)
(***************************************************************************)
EXTENDS Integers

CONSTANTS
    Callers,        \* who asks
    Operations      \* what for

VARIABLES
    fate,           \* what has become of each operation
    runs,           \* how often its handler was invoked
    asking,         \* the callers that have not been told yet
    op,             \* the operation each caller asked for last
    told            \* what each caller was told last

sharedVars == <<fate, runs, asking, op, told>>

Fates == {"completed", "failed", "indeterminate", "cancelled"}

SharedInit == /\ fate = [k \in Operations |-> "none"]
              /\ runs = [k \in Operations |-> 0]
              /\ asking = {}
              /\ op \in [Callers -> Operations]
              /\ told = [c \in Callers |-> "none"]

\* The handler is invoked for an operation without a fate.
Invoke(k) == /\ fate[k] = "none"
             /\ fate' = [fate EXCEPT ![k] = "running"]
             /\ runs' = [runs EXCEPT ![k] = @ + 1]

\* A caller asks, and may start the operation at once.
Ask(c, k) == /\ c \notin asking
             /\ asking' = asking \cup {c}
             /\ op' = [op EXCEPT ![c] = k]
             /\ Invoke(k) \/ UNCHANGED <<fate, runs>>
             /\ UNCHANGED told

\* A caller asks for what is decided already, and is told.
AskAgain(c, k) == /\ c \notin asking
                  /\ fate[k] \in Fates
                  /\ op' = [op EXCEPT ![c] = k]
                  /\ told' = [told EXCEPT ![c] = fate[k]]
                  /\ UNCHANGED <<fate, runs, asking>>

\* An operation is started for somebody who still asks for it.
Begin(k) == /\ \E c \in asking : op[c] = k
            /\ Invoke(k)
            /\ UNCHANGED <<asking, op, told>>

\* It is called off before it has begun.
CallOff(k) == /\ \E c \in asking : op[c] = k
              /\ fate[k] = "none"
              /\ fate' = [fate EXCEPT ![k] = "cancelled"]
              /\ UNCHANGED <<runs, asking, op, told>>

\* The handler is done, in one way or another.
Decide(k) == /\ fate[k] = "running"
             /\ fate' \in {[fate EXCEPT ![k] = r] : r \in Fates}
             /\ UNCHANGED <<runs, asking, op, told>>

\* A caller is told what has become of its operation.
Tell(c) == /\ c \in asking
           /\ fate[op[c]] \in Fates
           /\ told' = [told EXCEPT ![c] = fate[op[c]]]
           /\ asking' = asking \ {c}
           /\ UNCHANGED <<fate, runs, op>>

\* A caller gives up; that changes nothing about the operation.
GiveUp(c) == /\ c \in asking
             /\ told' = [told EXCEPT ![c] = "gave_up"]
             /\ asking' = asking \ {c}
             /\ UNCHANGED <<fate, runs, op>>

SharedNext == \/ \E c \in Callers : \/ \E k \in Operations : Ask(c, k) \/ AskAgain(c, k)
                                    \/ Tell(c)
                                    \/ GiveUp(c)
              \/ \E k \in Operations : Begin(k) \/ CallOff(k) \/ Decide(k)

SharedSpec == SharedInit /\ [][SharedNext]_sharedVars

===============================================================================
