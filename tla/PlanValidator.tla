----------------------------- MODULE PlanValidator -----------------------------
(***************************************************************************)
(* technical/agent_plan_validator: validate_plan(steps, policy), in both   *)
(* languages: the checks of PlanChecks, and then a search for cycles from  *)
(* each step in turn.  The searches share visited and visiting.            *)
(*                                                                         *)
(* A step is a call or a return of has_cycle().  A frame of the recursion  *)
(* is the id it was called with: its loop needs no place of its own, since *)
(* every dependency it has gone past is unknown or has been visited.       *)
(***************************************************************************)
EXTENDS PlanChecks

CONSTANTS
    Plans,          \* sequences of steps
    Policy

ASSUME PlanAssumption == \A p \in Plans : IsPlan(p)

VARIABLES
    plan_lang, plan,    \* the language, and the argument `steps`
    root,               \* the step the search began from, 0 before the first search
    path,               \* the ids of the calls of has_cycle() in progress, outermost first
    visiting, visited,
    issues

planVars == <<plan_lang, plan, root, path, visiting, visited, issues>>

PlanBegins == root = 0 /\ path = << >> /\ visiting = {} /\ visited = {} /\ issues = << >>

PlanInit == PlanBegins /\ plan_lang \in {"py", "ts"} /\ plan \in Plans

Known == DOMAIN StepById(plan)
DependsOn(id) == StepById(plan)[id].depends_on

\* The checks before the first search.
Check ==
    /\ root = 0
    /\ issues' = CheckIssues(plan_lang, plan, Policy)
    /\ root' = 1
    /\ UNCHANGED <<plan_lang, plan, path, visiting, visited>>

\* The outermost has_cycle() returns, all calls with it, and the next search is due.
SearchReturns(cycle) ==
    /\ issues' = issues \o When(cycle, plan[root].id, "cycle")
    /\ root' = root + 1
    /\ path' = << >>

\* A search begins; answer.ts clears visiting before, answer.py does not.
SearchFrom ==
    /\ root \in DOMAIN plan /\ path = << >>
    /\ LET id    == plan[root].id
           marks == IF plan_lang = "ts" THEN {} ELSE visiting
       IN  \/ /\ id \in marks \cup visited
              /\ SearchReturns(id \in marks)
              /\ visiting' = marks
           \/ /\ id \notin marks \cup visited
              /\ path' = <<id>>
              /\ visiting' = marks \cup {id}
              /\ UNCHANGED <<root, issues>>
    /\ UNCHANGED <<plan_lang, plan, visited>>

Top == path[Len(path)]

\* The call on top goes on to dependency dep: it has gone past those before it.
Reaches(dep) ==
    \E k \in DOMAIN DependsOn(Top) :
       /\ dep = DependsOn(Top)[k]
       /\ dep \in Known \ visited
       /\ \A j \in 1..k - 1 : DependsOn(Top)[j] \notin Known \ visited

Descend(dep) ==
    /\ path # << >> /\ Reaches(dep)
    /\ dep \notin visiting
    /\ path' = Append(path, dep)
    /\ visiting' = visiting \cup {dep}
    /\ UNCHANGED <<plan_lang, plan, root, visited, issues>>

\* The cycle is returned through all frames, which leave their ids in visiting.
FindCycle(dep) ==
    /\ path # << >> /\ Reaches(dep)
    /\ dep \in visiting
    /\ SearchReturns(TRUE)
    /\ UNCHANGED <<plan_lang, plan, visiting, visited>>

PassedAll == \A k \in DOMAIN DependsOn(Top) : DependsOn(Top)[k] \notin Known \ visited

\* One frame less; the search is over with the last one.
FrameReturns ==
    IF Len(path) = 1 THEN SearchReturns(FALSE)
    ELSE path' = SubSeq(path, 1, Len(path) - 1) /\ UNCHANGED <<root, issues>>

\* Mutant: a step stays in visiting when its call returns.
LeaveMarked ==
    /\ path # << >> /\ PassedAll
    /\ visited' = visited \cup {Top}
    /\ FrameReturns
    /\ UNCHANGED <<plan_lang, plan, visiting>>

\* has_cycle() returns False.
Leave ==
    /\ path # << >> /\ PassedAll
    /\ visiting' = visiting \ {Top}
    /\ visited' = visited \cup {Top}
    /\ FrameReturns
    /\ UNCHANGED <<plan_lang, plan>>

PlanNext == \/ Check \/ SearchFrom \/ Leave
            \/ \E dep \in Known : Descend(dep) \/ FindCycle(dep)

PlanSpec == PlanInit /\ [][PlanNext]_planVars

-----------------------------------------------------------------------------
(* Properties                                                              *)

PlanReturned == root > Len(plan)

\* Steps that wait for one another: each for one of them.
WaitTogether(ids) == \A id \in ids : \E k \in DOMAIN DependsOn(id) : DependsOn(id)[k] \in ids

\* A step that can never run; in a plan, which is finite, one that leads to a cycle.
NeverRuns(id) == \E ids \in SUBSET Known : id \in ids /\ WaitTogether(ids)

ReportsCycle(id) == \E i \in DOMAIN issues : issues[i] = [step_id |-> id, code |-> "cycle"]

\* Exactly the steps that can never run because a cycle is among their prerequisites are
\* reported, whatever marks earlier searches have left, and whichever of them found it.
CyclesExact ==
    PlanReturned => \A i \in DOMAIN plan : ReportsCycle(plan[i].id) <=> NeverRuns(plan[i].id)

\* "Rejects malformed, cyclic, unauthorized, or over-budget plans before any step
\* can run": the steps of an accepted plan can be put into an order in which each
\* one runs after its prerequisites, with every tool permitted, every high-risk
\* step approved, and the sum of all estimates within the budget.  (An estimate
\* that is NaN passes answer.py, and with it any total.)
AcceptedCanRun ==
    PlanReturned /\ issues = << >> =>
        /\ Len(plan) <= MaxSteps
        /\ \E run \in SetToSeqs(DOMAIN plan) :
              \A k \in DOMAIN run : \A dep \in ToSet(plan[run[k]].depends_on) :
                 \E j \in 1..k - 1 : plan[run[j]].id = dep
        /\ WellFormed(plan)
        /\ \A s \in ToSet(plan) : Permitted(plan_lang, s, Policy)
        /\ \/ plan_lang = "py" /\ \E s \in ToSet(plan) : s.estimated_tokens = NaN
           \/ /\ \A s \in ToSet(plan) : s.estimated_tokens \in Nat
              /\ FoldLeft(LAMBDA sum, s : sum + s.estimated_tokens, 0, plan) <= Policy.max_tokens

===============================================================================
