------------------------------ MODULE ModelRouter ------------------------------
(***************************************************************************)
(* technical/model_router_decision_function: choose_model(request,         *)
(* candidates, preference_order), in both languages.  IdRank[lang][id] is  *)
(* the place of an id in the order by which the language compares strings: *)
(* < compares code points, localeCompare() compares letters first.         *)
(***************************************************************************)
EXTENDS Integers, Sequences, SequencesExt

CONSTANT IdRank

Languages == {"py", "ts"}

\* Both languages order the same ids, each in one line.
ASSUME IdRankAssumption ==
    /\ DOMAIN IdRank["py"] = DOMAIN IdRank["ts"]
    /\ \A lang \in Languages : \A id, o \in DOMAIN IdRank[lang] :
          IdRank[lang][id] \in Int /\ (IdRank[lang][id] = IdRank[lang][o] => id = o)

\* The arguments of a call that are well typed; any preference_order is.
IsModel(model) ==
    /\ model.id \in DOMAIN IdRank["py"]
    /\ model.quality_score \in Int
    /\ model.estimated_cost_usd \in Int
    /\ model.estimated_latency_ms \in Int

IsRoute(route) ==
    /\ route.candidates \in Seq({m \in ToSet(route.candidates) : IsModel(m)})
    /\ route.preference_order \in Seq(STRING)

Preferences == {"quality", "cost", "latency"}

NoModel(code) == [ok |-> FALSE, code |-> code]

\* Each preference exactly once.
ValidPolicy(preference_order) ==
    /\ Len(preference_order) = 3
    /\ ToSet(preference_order) = Preferences

\* The hard constraints.
Eligible(request, model) ==
    /\ model.healthy
    /\ request.tenant_id \in model.allowed_tenants
    /\ request.region \in model.regions
    /\ request.required_capabilities \subseteq model.capabilities
    /\ request.context_tokens <= model.max_context_tokens
    /\ model.estimated_cost_usd <= request.max_cost_usd
    /\ model.estimated_latency_ms <= request.max_latency_ms

\* How good a model is by one preference: the smaller, the better.
Demerit(preference, model) ==
    CASE preference = "quality" -> -model.quality_score
      [] preference = "cost"    -> model.estimated_cost_usd
      [] preference = "latency" -> model.estimated_latency_ms

\* Mutant: no tie-breaker, the first of equals is chosen.
KeyWithoutId(lang, preference_order, model) ==
    [i \in DOMAIN preference_order |-> Demerit(preference_order[i], model)]

SortKey(lang, preference_order, model) ==
    Append([i \in DOMAIN preference_order |-> Demerit(preference_order[i], model)],
           IdRank[lang][model.id])

\* The order of tuples: decided by the first place where they differ.
KeyLess(a, b) ==
    \E i \in DOMAIN a : a[i] < b[i] /\ \A j \in 1..i - 1 : a[j] = b[j]

\* sorted(valid_models)[0]: sorting is stable, the first of equals is taken.
ChooseModel(lang, request, candidates, preference_order) ==
    LET valid_models == {i \in 1..Len(candidates) : Eligible(request, candidates[i])}
        Key(i)       == SortKey(lang, preference_order, candidates[i])
        chosen       == CHOOSE i \in valid_models : \A o \in valid_models :
                           IF o < i THEN KeyLess(Key(i), Key(o)) ELSE ~KeyLess(Key(o), Key(i))
    IN  IF ~ValidPolicy(preference_order) THEN NoModel("invalid_policy")
        ELSE IF valid_models = {} THEN NoModel("no_eligible_model")
        ELSE [ok |-> TRUE, model |-> candidates[chosen].id]

-----------------------------------------------------------------------------
(* What the result must be.                                                *)

\* The best of a set by one preference alone.
Finest(models, preference) ==
    {m \in models : \A o \in models : Demerit(preference, m) <= Demerit(preference, o)}

\* Among the models that meet every hard constraint, the preferences narrow the
\* choice one after the other and the smallest id is taken of what is left: no
\* constraint is relaxed for a better score, and the order of the input is irrelevant.
Recommended(lang, request, candidates, preference_order) ==
    LET eligible == {m \in ToSet(candidates) : Eligible(request, m)}
        best     == Finest(Finest(Finest(eligible, preference_order[1]),
                                  preference_order[2]), preference_order[3])
        ids      == {m.id : m \in best}
    IN  {id \in ids : \A o \in ids : IdRank[lang][id] <= IdRank[lang][o]}

RoutesBest(lang, request, candidates, preference_order, result) ==
    IF preference_order \notin SetToSeqs(Preferences) THEN result = NoModel("invalid_policy")
    ELSE LET best == Recommended(lang, request, candidates, preference_order)
         IN  IF best = {} THEN result = NoModel("no_eligible_model")
             ELSE result.ok /\ best = {result.model}

===============================================================================
