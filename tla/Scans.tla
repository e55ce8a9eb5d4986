--------------------------------- MODULE Scans ---------------------------------
(***************************************************************************)
(* Two exercises that read their input once: dsa/evaluate_postfix_expression *)
(* and dsa/event_frequency_counter, in both languages.                      *)
(***************************************************************************)
EXTENDS Integers, Sequences, SequencesExt, TLC

\* The tokens int() and Number() read: Number() takes an empty token for 0.
NumberOf(lang) ==
    LET canonical == "0" :> 0 @@ "2" :> 2 @@ "-7" :> -7
    IN  IF lang = "py" THEN canonical ELSE canonical @@ "" :> 0

Operators == {"+", "-", "*", "/"}

\* int(left / right) and Math.trunc() round towards zero.
Truncated(left, right) ==
    LET Magnitude(n) == IF n < 0 THEN -n ELSE n
        quotient     == Magnitude(left) \div Magnitude(right)
    IN  IF (left < 0) = (right < 0) THEN quotient ELSE -quotient

Apply(op, left, right) ==
    CASE op = "+" -> left + right
      [] op = "-" -> left - right
      [] op = "*" -> left * right
      [] op = "/" -> Truncated(left, right)

Fails(code) == [ok |-> FALSE, code |-> code]

\* One turn of the loop, on the stack of a scan that has not failed.
EvaluateToken(lang, stack, token) ==
    LET n     == Len(stack)
        Stack(s) == [ok |-> TRUE, stack |-> s]
    IN  CASE token \in DOMAIN NumberOf(lang) -> Stack(Append(stack, NumberOf(lang)[token]))
          [] token \notin DOMAIN NumberOf(lang) \cup Operators -> Fails("malformed")
          [] OTHER ->
                IF n < 2 THEN Fails("malformed")
                ELSE IF token = "/" /\ stack[n] = 0 THEN Fails("division_by_zero")
                ELSE Stack(Append(SubSeq(stack, 1, n - 2), Apply(token, stack[n - 1], stack[n])))

EvaluatePostfix(lang, tokens) ==
    LET Step(s, token) == IF s.ok THEN EvaluateToken(lang, s.stack, token) ELSE s
        end == FoldLeft(Step, [ok |-> TRUE, stack |-> << >>], tokens)
    IN  IF ~end.ok THEN end
        ELSE IF Len(end.stack) # 1 THEN Fails("malformed")
        ELSE [ok |-> TRUE, value |-> end.stack[1]]

-----------------------------------------------------------------------------

\* counts: the events in the order of their first occurrence, and how often each occurs.
Counted(counts, event) ==
    LET i == SelectInSeq(counts, LAMBDA c : c.event = event)
    IN  IF i = 0 THEN Append(counts, [event |-> event, count |-> 1])
        ELSE [counts EXCEPT ![i].count = @ + 1]

\* The last element is None if there is no event.
MostFrequentEvent(events) ==
    LET Higher(best, entry) == IF best = << >> \/ entry.count > Head(best).count
                               THEN <<entry>> ELSE best
    IN  FoldLeft(Higher, << >>, FoldLeft(Counted, << >>, events))

-----------------------------------------------------------------------------
(* What the results must be.                                               *)

\* The value of an expression, as the set of at most one number: a postfix expression
\* is a number, or two expressions and their operator; undefined if it divides by zero.
RECURSIVE ValueOf(_, _)
ValueOf(lang, tokens) ==
    IF Len(tokens) = 1 THEN {NumberOf(lang)[t] : t \in ToSet(tokens) \cap DOMAIN NumberOf(lang)}
    ELSE UNION {
        LET op == Last(tokens)
            lefts  == ValueOf(lang, SubSeq(tokens, 1, k))
            rights == ValueOf(lang, SubSeq(tokens, k + 1, Len(tokens) - 1))
        IN  CASE op \in {"+", "-", "*"} -> {Apply(op, l, r) : l \in lefts, r \in rights}
              [] op = "/" -> UNION {{q \in -(l * l)..l * l : (l - q * r) * l >= 0
                                              /\ (l - q * r) * (l - q * r) < r * r} :
                                    l \in lefts, r \in rights \ {0}}
              [] OTHER -> {}
        : k \in 1..Len(tokens) - 2 }

\* A result is the value of the expression; a failure is reported exactly if there is
\* none.
PostfixExact(lang, tokens, result) ==
    IF result.ok THEN ValueOf(lang, tokens) = {result.value}
    ELSE tokens = << >> \/ ValueOf(lang, tokens) = {}

\* The event that occurs most often and, among equals, occurs first.
FrequencyExact(events, result) ==
    LET Occurrences(e) == {i \in DOMAIN events : events[i] = e}
        First(e)       == CHOOSE i \in Occurrences(e) : \A j \in Occurrences(e) : i <= j
        Beats(e, f)    == \/ Cardinality(Occurrences(e)) > Cardinality(Occurrences(f))
                          \/ /\ Cardinality(Occurrences(e)) = Cardinality(Occurrences(f))
                             /\ First(e) < First(f)
    IN  IF events = << >> THEN result = << >>
        ELSE LET winner == CHOOSE e \in ToSet(events) : \A f \in ToSet(events) \ {e} : Beats(e, f)
             IN  result = <<[event |-> winner, count |-> Cardinality(Occurrences(winner))]>>

===============================================================================
