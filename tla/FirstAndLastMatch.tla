--------------------------- MODULE FirstAndLastMatch ---------------------------
(***************************************************************************)
(* dsa/first_and_last_match: two binary searches, one after the other, for *)
(* the first and the last place of target in a sorted list.  One step is   *)
(* one turn of a loop, or the end of one.                                  *)
(*                                                                         *)
(* The places are those of the code, from 0; the sequence is read at i + 1. *)
(***************************************************************************)
EXTENDS Integers, Sequences

CONSTANTS Lists,        \* the lists that are searched: "a nondecreasing array of integers"
          Targets       \* the integers that are looked for

Nondecreasing(list) == \A i, j \in 1..Len(list) : i <= j => list[i] <= list[j]

ASSUME SearchAssumption == /\ \A list \in Lists : list \in Seq(Int) /\ Nondecreasing(list)
                           /\ Targets \subseteq Int

VARIABLES
    lang,
    values, target,     \* the arguments
    pc,                 \* "first" or "last" search, or "done"
    left, right,        \* the variables of the loop
    match,              \* its variable result
    first               \* what first_search() returned

searchVars == <<lang, values, target, pc, left, right, match, first>>

SearchInit ==
    /\ lang \in {"py", "ts"}
    /\ values \in Lists
    /\ target \in Targets
    /\ pc = "first"
    /\ left = 0 /\ right = Len(values) - 1
    /\ match = -1
    /\ first = -1

\* answer.py leaves out `left +`.
Mid == IF lang = "py" THEN (right - left) \div 2 ELSE left + (right - left) \div 2

\* Mutant: the last search goes on to the left too, and returns the first place.
HitLeftwards ==
    /\ values[Mid + 1] = target
    /\ match' = Mid
    /\ right' = Mid - 1 /\ UNCHANGED left

\* A turn of the loop where values[mid] is target: the search goes on, to the left for
\* the first place and to the right for the last one.
Hit ==
    /\ values[Mid + 1] = target
    /\ match' = Mid
    /\ IF pc = "first" THEN right' = Mid - 1 /\ UNCHANGED left
                       ELSE left' = Mid + 1 /\ UNCHANGED right

\* Mutant: the middle itself is not excluded.
PassToMid ==
    /\ values[Mid + 1] # target
    /\ IF values[Mid + 1] < target THEN left' = Mid /\ UNCHANGED right
                                   ELSE right' = Mid - 1 /\ UNCHANGED left
    /\ UNCHANGED match

\* A turn where it is not.
Pass ==
    /\ values[Mid + 1] # target
    /\ IF values[Mid + 1] < target THEN left' = Mid + 1 /\ UNCHANGED right
                                   ELSE right' = Mid - 1 /\ UNCHANGED left
    /\ UNCHANGED match

Turn ==
    /\ pc # "done" /\ left <= right
    /\ Hit \/ Pass
    /\ UNCHANGED <<lang, values, target, pc, first>>

\* first_search() returns and last_search() begins.
FirstReturns ==
    /\ pc = "first" /\ left > right
    /\ pc' = "last"
    /\ first' = match
    /\ left' = 0 /\ right' = Len(values) - 1
    /\ match' = -1
    /\ UNCHANGED <<lang, values, target>>

\* last_search() returns.
LastReturns ==
    /\ pc = "last" /\ left > right
    /\ pc' = "done"
    /\ UNCHANGED <<lang, values, target, left, right, match, first>>

SearchNext == Turn \/ FirstReturns \/ LastReturns

SearchSpec == SearchInit /\ [][SearchNext]_searchVars

-----------------------------------------------------------------------------
(* Properties                                                              *)

Places == {i \in 0..Len(values) - 1 : values[i + 1] = target}

\* What is returned are the first and the last place of target, or -1 twice if there is
\* none -- in answer.py too, whenever it returns: its middle strays out of left..right,
\* and still never makes it forget or overlook a place.
SearchIsExact ==
    pc = "done" =>
        IF Places = {} THEN first = -1 /\ match = -1
        ELSE /\ first \in Places /\ \A i \in Places : first <= i
             /\ match \in Places /\ \A i \in Places : i <= match

\* The search of answer.ts returns.  (That of answer.py may run for ever, and does on
\* the first example of question.md, where left and the middle stay in the same half.)
SearchEnds == (pc = "first" /\ lang = "ts") ~> (pc = "done")

===============================================================================
