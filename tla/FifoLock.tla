------------------------------- MODULE FifoLock -------------------------------
(***************************************************************************)
(* What a fair lock promises, abstractly: a line of requests in order of   *)
(* arrival, whose first member owns the lock until it leaves.              *)
(***************************************************************************)
EXTENDS Integers, Sequences

CONSTANT Procs

VARIABLE line

InLine(p) == \E i \in 1..Len(line) : line[i] = p

Init == line = << >>

Request(p) == ~InLine(p) /\ line' = Append(line, p)

Leave(p) == line # << >> /\ p = Head(line) /\ line' = Tail(line)

Next == \E p \in Procs : Request(p) \/ Leave(p)

Spec == Init /\ [][Next]_line

===============================================================================
