------------------------------ MODULE RequestCalls ------------------------------
(***************************************************************************)
(* Two exercises whose answer is a function: choose_model() and get_status(). *)
(* Nothing outlives a call, so a behaviour is one call in one language,     *)
(* from its arguments to what it returns.                                   *)
(***************************************************************************)
EXTENDS ModelRouter, LegacyAdapter

CONSTANTS
    NoAnswer,
    Routes,         \* records of request, candidates and preference_order
    Outcomes        \* what the legacy client does

ASSUME RequestAssumption == /\ \A route \in Routes : IsRoute(route)
                            /\ \A outcome \in Outcomes : IsOutcome(outcome)

VARIABLES
    call,           \* the function, its language and its arguments
    answer          \* NoAnswer until the function returns

requestVars == <<call, answer>>

Called(function, langs, arguments) ==
    call \in {[fn |-> function, lang |-> l, args |-> a] : l \in langs, a \in arguments}

RequestInit ==
    /\ answer = NoAnswer
    /\ Called("choose_model", Languages, Routes) \/ Called("get_status", Languages, Outcomes)

Returns(function, value) ==
    /\ call.fn = function /\ answer = NoAnswer
    /\ answer' = value
    /\ UNCHANGED call

ChooseModelReturns ==
    Returns("choose_model", ChooseModel(call.lang, call.args.request, call.args.candidates,
                                        call.args.preference_order))

GetStatusReturns == Returns("get_status", GetStatus(call.lang, call.args))

RequestNext == ChooseModelReturns \/ GetStatusReturns

RequestSpec == RequestInit /\ [][RequestNext]_requestVars

-----------------------------------------------------------------------------
(* Properties                                                              *)

Returned(function) == call.fn = function /\ answer # NoAnswer

\* The model chosen is the one of narrowing the eligible ones by each preference in
\* turn and taking the smallest id, whatever the order of the input; no hard
\* constraint is relaxed to have one.
RouteIsBest ==
    Returned("choose_model") =>
        RoutesBest(call.lang, call.args.request, call.args.candidates,
                   call.args.preference_order, answer)

\* The adapter lets nothing of the legacy API through but accounts it says, in the
\* application's vocabulary, and five kinds of failure.
AdapterIsolates == Returned("get_status") => Isolates(call.lang, call.args, answer)

Other(lang) == IF lang = "py" THEN "ts" ELSE "py"

\* answer.py and answer.ts choose the same model, but for ids they order differently.
RoutersAgree ==
    Returned("choose_model") =>
        \/ \E m, o \in ToSet(call.args.candidates) :
              IdRank["py"][m.id] < IdRank["py"][o.id] /\ IdRank["ts"][m.id] > IdRank["ts"][o.id]
        \/ answer = ChooseModel(Other(call.lang), call.args.request, call.args.candidates,
                                call.args.preference_order)

\* They read the same account or failure, but for what AdapterDiffers lists.
AdaptersAgree ==
    Returned("get_status") =>
        AdapterDiffers(call.args) \/ answer = GetStatus(Other(call.lang), call.args)

===============================================================================
