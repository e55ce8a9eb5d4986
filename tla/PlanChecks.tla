------------------------------ MODULE PlanChecks ------------------------------
(***************************************************************************)
(* technical/agent_plan_validator: what validate_plan(steps, policy)       *)
(* checks of a plan before it searches for cycles, in both languages.  A   *)
(* plan is a sequence of steps; the result is a sequence of issues.  The   *)
(* callbacks of the policy are sets: the arguments it accepts and the      *)
(* approval references it trusts.                                          *)
(*                                                                         *)
(* An estimate is an integer, infinite, or NaN, which compares false with  *)
(* everything; the tokens stand for the cost too, which is treated alike.  *)
(***************************************************************************)
EXTENDS Integers, Sequences, SequencesExt

CONSTANTS
    NaN, Infinity,  \* floats: not a number, and above every number
    NoStep,         \* the step_id of an issue of the whole plan
    NoRef,          \* approval_ref = None
    MaxSteps        \* 20 in the code

\* A list of steps; what fields a step has is left to the checks.
IsPlan(steps) ==
    /\ steps \in Seq(ToSet(steps))
    /\ \A s \in ToSet(steps) : s.depends_on \in Seq(ToSet(s.depends_on))

Below(a, b) == a \notin {NaN, Infinity} /\ b # NaN /\ (b = Infinity \/ a < b)

Plus(a, b) == IF NaN \in {a, b} THEN NaN ELSE IF Infinity \in {a, b} THEN Infinity ELSE a + b

When(condition, id, code) ==
    IF condition THEN <<[step_id |-> id, code |-> code]>> ELSE << >>

\* The issues `Check` finds for each step in turn.
InStepOrder(Check(_), steps) == FlattenSeq([i \in DOMAIN steps |-> Check(i)])

\* step_by_id: the first step that bears each id.
StepById(steps) ==
    [id \in {s.id : s \in ToSet(steps)} |-> steps[SelectInSeq(steps, LAMBDA s : s.id = id)]]

-----------------------------------------------------------------------------
(* The checks of one step.                                                 *)

DuplicateStep(steps, i) ==
    When(\E j \in 1..i - 1 : steps[j].id = steps[i].id, steps[i].id, "duplicate_step")

\* answer.py lets NaN and infinity pass; answer.ts asks for a finite number.
InvalidEstimate(lang, s) ==
    \/ Below(s.estimated_tokens, 0)
    \/ lang = "ts" /\ s.estimated_tokens \in {NaN, Infinity}

\* answer.py asks whether there is a reference, answer.ts whether it is truthy.
MissingRef(lang, s) == s.approval_ref = NoRef \/ (lang = "ts" /\ s.approval_ref = "")

\* A dependency that is repeated or names no step, in the order of the list.
DependencyIssues(steps, i) ==
    LET deps == steps[i].depends_on IN
    FlattenSeq([k \in DOMAIN deps |->
          When(\E j \in 1..k - 1 : deps[j] = deps[k], steps[i].id, "duplicate_dependency")
       \o When(deps[k] \notin DOMAIN StepById(steps), steps[i].id, "missing_dependency")])

StepIssues(lang, steps, policy, i) ==
    LET s == steps[i] IN
       When(InvalidEstimate(lang, s), s.id, "invalid_estimate")
    \o When(s.tool_name \notin policy.allowed_tools \cap policy.authorized_tools,
            s.id, "tool_forbidden")
    \o When(s.args \notin policy.valid_args, s.id, "invalid_arguments")
    \o When(/\ s.tool_name \in policy.high_risk_tools
            /\ \/ MissingRef(lang, s)
               \/ s.approval_ref \notin policy.valid_approvals,
            s.id, "approval_required")
    \o DependencyIssues(steps, i)

\* answer.py leaves out the estimates it has reported.
Total(lang, steps) ==
    FoldLeft(LAMBDA sum, s : IF lang = "py" /\ InvalidEstimate(lang, s) THEN sum
                             ELSE Plus(sum, s.estimated_tokens),
             0, steps)

BudgetIssue(lang, steps, policy) ==
    When(Below(policy.max_tokens, Total(lang, steps)), NoStep, "budget_exceeded")

-----------------------------------------------------------------------------

\* The issues that do not come from the search for cycles.
CheckIssues(lang, steps, policy) ==
    LET tooMany    == When(Len(steps) > MaxSteps, NoStep, "too_many_steps")
        duplicates == InStepOrder(LAMBDA i : DuplicateStep(steps, i), steps)
        checks     == InStepOrder(LAMBDA i : StepIssues(lang, steps, policy, i), steps)
        budget     == BudgetIssue(lang, steps, policy)
    IN  tooMany \o (IF lang = "py" THEN duplicates \o checks \o budget
                                   ELSE budget \o duplicates \o checks)

-----------------------------------------------------------------------------
(* What the result must be.                                                *)

\* The policy lets a step run: its tool, its arguments and, at high risk, its approval.
Permitted(lang, s, policy) ==
    /\ s.tool_name \in policy.allowed_tools /\ s.tool_name \in policy.authorized_tools
    /\ s.args \in policy.valid_args
    /\ s.tool_name \in policy.high_risk_tools =>
          ~MissingRef(lang, s) /\ s.approval_ref \in policy.valid_approvals

\* Every step has an id of its own and depends on steps of the plan, on each once.
WellFormed(steps) ==
    /\ \A i, j \in DOMAIN steps : steps[i].id = steps[j].id => i = j
    /\ \A i \in DOMAIN steps :
          LET deps == steps[i].depends_on
          IN  /\ \A k, l \in DOMAIN deps : deps[k] = deps[l] => k = l
              /\ \A k \in DOMAIN deps : \E j \in DOMAIN steps : steps[j].id = deps[k]

===============================================================================
