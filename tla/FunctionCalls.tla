----------------------------- MODULE FunctionCalls -----------------------------
(***************************************************************************)
(* The exercises whose answer is a function: nothing outlives a call, so a *)
(* behaviour is one call in one language, from its arguments to its result. *)
(* The functions are the operators of the modules extended here; the binary *)
(* searches of FirstAndLastMatch take a step for every turn of their loops, *)
(* and validate_plan() one for every call or return of its search.         *)
(***************************************************************************)
EXTENDS PlanValidator, RequestCalls, TraceCorrelator, DependencyOrder, Traversals, Scans,
        FirstAndLastMatch

CONSTANTS
    Traces,         \* sequences of events
    Dependencies,   \* sequences of pairs of tasks
    Trees, Grids, Expressions, EventNames

CONSTANTS TaskCount, Rows, Cols

vars == <<requestVars, searchVars, planVars>>

\* No search: the loop variables are not in use.
SearchIdle == /\ lang = "py" /\ values = << >> /\ target = 0 /\ pc = "done"
              /\ left = 0 /\ right = -1 /\ match = -1 /\ first = -1

PlanIdle == PlanBegins /\ plan_lang = "py" /\ plan = << >>

Init ==
    \/ call = [fn |-> "firstAndLastMatch"] /\ answer = NoAnswer /\ SearchInit /\ PlanIdle
    \/ call = [fn |-> "validate_plan"] /\ answer = NoAnswer /\ SearchIdle /\ PlanInit
    \/ RequestInit /\ SearchIdle /\ PlanIdle
    \/ /\ answer = NoAnswer /\ SearchIdle /\ PlanIdle
       /\ \/ Called("dependency_order", Languages, Dependencies)
          \/ Called("evaluatePostfix", Languages, Expressions)
          \/ Called("correlateAgentTraces", {"ts"}, Traces)
          \/ Called("mostFrequentEvent", {"ts"}, EventNames)
          \/ Called("tree", {"ts"}, Trees)
          \/ Called("countIslands", {"ts"}, Grids)

CorrelateReturns     == Returns("correlateAgentTraces", CorrelateAgentTraces(call.args))

OrderReturns         == Returns("dependency_order",
                                OrderOfTasks(call.lang, TaskCount, call.args))

PostfixReturns       == Returns("evaluatePostfix", EvaluatePostfix(call.lang, call.args))

EventReturns         == Returns("mostFrequentEvent", MostFrequentEvent(call.args))

\* The three walks of a tree.
TreeReturns          == Returns("tree", [recursive |-> MaximumDepth(call.args, 1),
                                         queue     |-> MaximumQueueAlt(call.args),
                                         levels    |-> LevelOrder(call.args)])

IslandsReturns       == Returns("countIslands", CountIslands(call.args, Rows, Cols))

FunctionReturns ==
    \/ ChooseModelReturns \/ GetStatusReturns \/ CorrelateReturns
    \/ OrderReturns \/ PostfixReturns \/ EventReturns \/ TreeReturns \/ IslandsReturns

SearchStep == call.fn = "firstAndLastMatch" /\ SearchNext /\ UNCHANGED <<requestVars, planVars>>

PlanStep == call.fn = "validate_plan" /\ PlanNext /\ UNCHANGED <<requestVars, searchVars>>

Next == \/ FunctionReturns /\ UNCHANGED <<searchVars, planVars>>
        \/ SearchStep
        \/ PlanStep

\* A loop that is entered runs on.
Spec == Init /\ [][Next]_vars /\ WF_vars(SearchStep)

-----------------------------------------------------------------------------
(* Properties                                                              *)

\* The other exercises return what their definition asks for: no issue only for a plan
\* that can run to its end; the events of each trace, and each cycle of parents once,
\* though searches share their marks; the order of tasks, the value of the expression,
\* the winner among equals, each level of the tree, the number of islands.
ExercisesExact ==
    /\ AcceptedCanRun
    /\ Returned("correlateAgentTraces") => TracesExact(call.args, answer)
    /\ Returned("dependency_order") => OrderExact(call.lang, TaskCount, call.args, answer)
    /\ Returned("evaluatePostfix") => PostfixExact(call.lang, call.args, answer)
    /\ Returned("mostFrequentEvent") => FrequencyExact(call.args, answer)
    /\ Returned("tree") => /\ answer.levels = Levels(call.args)
                           /\ answer.recursive = Len(Levels(call.args))
                           /\ answer.queue = Len(Levels(call.args))
    /\ Returned("countIslands") => answer = Cardinality(Islands(call.args))

\* answer.py and answer.ts answer alike -- plans with the same issues (of cycles
\* CyclesExact says so), routes with the same model, the legacy API with the same account
\* or failure, expressions with the same value -- but for the inputs named here: estimates
\* that are NaN, infinite or negative and approval references that are empty, ids the
\* languages order differently, what AdapterDiffers lists, and empty tokens.
ImplementationsAgree ==
    /\ RoutersAgree /\ AdaptersAgree
    /\ PlanReturned =>
          \/ \E s \in ToSet(plan) : s.estimated_tokens \notin Nat \/ s.approval_ref = ""
          \/ {issue \in ToSet(issues) : issue.code # "cycle"}
                = ToSet(CheckIssues(Other(plan_lang), plan, Policy))
    /\ Returned("evaluatePostfix") =>
          Contains(call.args, "") \/ answer = EvaluatePostfix(Other(call.lang), call.args)

===============================================================================
