----------------------------- MODULE SafeGeneration -----------------------------
(***************************************************************************)
(* technical/content_filter_integration: calls of generate_with_safety(),  *)
(* each of which classifies its input, generates, classifies the output    *)
(* and returns one result.  The calls share nothing but the caller's abort *)
(* signal, which may fire between and during the three awaits.  answer.ts  *)
(* (safety_lang = "ts") blocks what is not allowed; answer.py              *)
(* (safety_lang = "py") blocks a BlockedDecision and goes on with any      *)
(* other answer that has a field `allowed`.                                *)
(*                                                                         *)
(* Data abstraction.  A text is blank or not; an answer of the classifier  *)
(* is one of the two decisions or malformed: "truthy" says something else  *)
(* for allowed = true, "untyped" allowed = false but is no BlockedDecision, *)
(* "fieldless" is an object without `allowed`, "null" is no object.  A     *)
(* decision has the other fields of its type, a malformed answer may not.  *)
(***************************************************************************)
CONSTANT Calls

VARIABLES
    stage,          \* "start", the service a call awaits, or "end"
    inputDecision,
    outputDecision,
    result,
    signal,
    safety_lang     \* which of the two implementations runs: "py" | "ts"

safetyVars == <<stage, inputDecision, outputDecision, result, signal, safety_lang>>

Malformed == {"truthy", "untyped", "fieldless", "null"}
Decisions == {"allowed", "blocked"} \cup Malformed
Services  == {"filter_input", "generator", "filter_output"}
Failures  == {"invalid_input", "filter_unavailable", "model_failed", "cancelled"}
Results   == {"completed", "blocked_input", "blocked_output", "threw"} \cup Failures

SafetyIdle == /\ stage = [c \in Calls |-> "start"]
              /\ inputDecision = [c \in Calls |-> "none"]
              /\ outputDecision = [c \in Calls |-> "none"]
              /\ result = [c \in Calls |-> "none"]
              /\ signal = FALSE

SafetyInit == safety_lang \in {"py", "ts"} /\ SafetyIdle

Await(c, service) == /\ stage' = [stage EXCEPT ![c] = service]
                     /\ UNCHANGED result

End(c, r) == /\ stage' = [stage EXCEPT ![c] = "end"]
             /\ result' = [result EXCEPT ![c] = r]

\* Mutant: the signal is only passed on, not looked at.
ProceedUnchecked(c, service) == Await(c, service)

\* Before each service is called the signal is looked at.
Proceed(c, service) == \/ signal /\ End(c, "cancelled")
                       \/ ~signal /\ Await(c, service)

\* The error of a service is a cancellation if the signal fired.
Fail(c, code) == End(c, IF signal THEN "cancelled" ELSE code)

\* To read `allowed` raises, outside of the try; a property that is not there is undefined.
Throws(d) == d = "null" \/ (safety_lang = "py" /\ d = "fieldless")

\* The decision is taken for a block.
Blocks(d) == d = "blocked" \/ (safety_lang = "ts" /\ d \in {"untyped", "fieldless"})

\* The call goes on after the decision.
Passes(d) == d \in {"allowed", "truthy"} \/ (safety_lang = "py" /\ d = "untyped")

-----------------------------------------------------------------------------

\* generate_with_safety() is called with a blank or a proper input.
Call(c, blank) ==
    /\ stage[c] = "start"
    /\ \/ ~signal /\ blank /\ End(c, "invalid_input")
       \/ (signal \/ ~blank) /\ Proceed(c, "filter_input")
    /\ UNCHANGED <<inputDecision, outputDecision, signal, safety_lang>>

\* The classifier answers for the input.
ClassifyInput(c, d) ==
    /\ stage[c] = "filter_input"
    /\ inputDecision' = [inputDecision EXCEPT ![c] = d]
    /\ \/ Throws(d) /\ End(c, "threw")
       \/ Blocks(d) /\ End(c, "blocked_input")
       \/ Passes(d) /\ Proceed(c, "generator")
    /\ UNCHANGED <<outputDecision, signal, safety_lang>>

\* The model answers.
Generate(c) ==
    /\ stage[c] = "generator"
    /\ Proceed(c, "filter_output")
    /\ UNCHANGED <<inputDecision, outputDecision, signal, safety_lang>>

\* The classifier answers for the output; the signal is not looked at any more.  In
\* Python a malformed answer may have no policyVersion to return.
ClassifyOutput(c, d) ==
    /\ stage[c] = "filter_output"
    /\ outputDecision' = [outputDecision EXCEPT ![c] = d]
    /\ \/ Throws(d) /\ End(c, "threw")
       \/ Blocks(d) /\ End(c, "blocked_output")
       \/ Passes(d) /\ End(c, "completed")
       \/ Passes(d) /\ d \in Malformed /\ safety_lang = "py" /\ End(c, "threw")
    /\ UNCHANGED <<inputDecision, signal, safety_lang>>

\* Mutant: an unavailable classifier lets the output pass (fail open).
ServiceFailsOpen(c) ==
    /\ \/ stage[c] = "filter_input" /\ Proceed(c, "generator")
       \/ stage[c] = "filter_output" /\ End(c, "completed")
       \/ stage[c] = "generator" /\ Fail(c, "model_failed")
    /\ UNCHANGED <<inputDecision, outputDecision, signal, safety_lang>>

\* A service raises an error or times out.
ServiceFails(c) ==
    /\ \/ stage[c] \in {"filter_input", "filter_output"} /\ Fail(c, "filter_unavailable")
       \/ stage[c] = "generator" /\ Fail(c, "model_failed")
    /\ UNCHANGED <<inputDecision, outputDecision, signal, safety_lang>>

\* In Python the task of a call may be cancelled while it awaits a service: the
\* CancelledError is turned into a result.
CancelTask(c) ==
    /\ safety_lang = "py"
    /\ stage[c] \in Services
    /\ End(c, "cancelled")
    /\ UNCHANGED <<inputDecision, outputDecision, signal, safety_lang>>

\* The caller aborts.
Abort == /\ ~signal
         /\ signal' = TRUE
         /\ UNCHANGED <<stage, inputDecision, outputDecision, result, safety_lang>>

SafetyNext ==
    \/ \E c \in Calls : \/ \E blank \in BOOLEAN : Call(c, blank)
                        \/ \E d \in Decisions : ClassifyInput(c, d) \/ ClassifyOutput(c, d)
                        \/ Generate(c)
                        \/ ServiceFails(c)
                        \/ CancelTask(c)
    \/ Abort

SafetySpec == SafetyInit /\ [][SafetyNext]_safetyVars

-----------------------------------------------------------------------------
(* Properties *)

\* The types of a call's local variables.
SafetyTypeOK ==
    /\ stage \in [Calls -> {"start", "end"} \cup Services]
    /\ inputDecision \in [Calls -> {"none"} \cup Decisions]
    /\ outputDecision \in [Calls -> {"none"} \cup Decisions]
    /\ result \in [Calls -> {"none"} \cup Results]
    /\ signal \in BOOLEAN
    /\ safety_lang \in {"py", "ts"}

\* What the classifier must have said of a text that goes on: in answer.ts that it is
\* allowed, or something that counts as true there; in answer.py not that it is blocked.
LetThrough(d) == d \in IF safety_lang = "ts" THEN {"allowed", "truthy"}
                       ELSE {"allowed", "truthy", "untyped"}

\* The model works on no other input, and what is returned was let through twice.
OnlyAllowedPasses ==
    \A c \in Calls :
        /\ stage[c] \in {"generator", "filter_output"} => LetThrough(inputDecision[c])
        /\ result[c] = "completed" =>
               LetThrough(inputDecision[c]) /\ LetThrough(outputDecision[c])

\* A decision to block is obeyed.
BlockIsObeyed ==
    \A c \in Calls :
        /\ inputDecision[c] = "blocked" => result[c] = "blocked_input"
        /\ outputDecision[c] = "blocked" => result[c] = "blocked_output"

\* "Blocked input must not reach the model" and "classify generated output before
\* returning it", whatever the classifier did instead of answering, whatever failed,
\* was cancelled or was aborted on the way of each call.
GatesHold == SafetyTypeOK /\ OnlyAllowedPasses /\ BlockIsObeyed

\* After the abort no service is called any more.
NoCallAfterAbort ==
    [][ signal => \A c \in Calls : stage'[c] \in Services => stage'[c] = stage[c] ]_safetyVars

\* question.md: "Classifier timeout, malformed response, or unavailability returns
\* `filter_unavailable`; do not bypass it.": the model is not called after a malformed
\* answer that does not even claim to allow the input.  (Checked in a run that expects a
\* violation.)
MalformedNotBypassed ==
    \A c \in Calls : inputDecision[c] \in Malformed \ {"truthy"} =>
                       stage[c] \notin {"generator", "filter_output"}

===============================================================================
