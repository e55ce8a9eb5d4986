---------------------------- MODULE MCFunctionCalls ----------------------------
\* The inputs: for each function families of arguments that vary what it looks at.
EXTENDS FunctionCalls

Upto(n, S) == UNION {[1..k -> S] : k \in 0..n}

\* Plans of three steps with any dependencies; with ids that repeat; and plans of up
\* to two steps that differ in what the policy looks at.
Step(id, deps, tool, args, ref, tokens) ==
    [id |-> id, depends_on |-> deps, tool_name |-> tool, args |-> args, approval_ref |-> ref,
     estimated_tokens |-> tokens]

Waiting(id, deps) == Step(id, deps, "read", "good", NoRef, 1)

MCPlans ==
    LET deps == Upto(2, 1..3) \cup {<<9>>} 
        checked == {Step(id, << >>, tool, args, ref, tokens) :
                       id \in {1}, tool \in {"read", "wipe", "spend", "write"},
                       args \in {"good", "bad"}, ref \in {NoRef, "valid", "stale"},
                       tokens \in {-1, 2, NaN}}
        others  == {Step(1, << >>, tool, "good", ref, tokens) : tool \in {"read", "write"},
                       ref \in {NoRef, "", "valid"}, tokens \in {2, NaN, Infinity}}
    IN  {<<Waiting(1, d), Waiting(2, e), Waiting(3, f)>> : d \in deps, e \in deps, f \in deps}
        \cup {[i \in 1..4 |-> Waiting(ids[i], IF i = 4 THEN << >> ELSE <<up[i]>>)] :
                 ids \in [1..4 -> 1..3], up \in [1..3 -> 1..3]}
        \cup {<<s>> : s \in checked \cup others}
        \cup {<<s, [t EXCEPT !.id = 2, !.depends_on = <<1>>]>> : s \in checked, t \in checked}
        \cup {<<s, [t EXCEPT !.id = 2]>> : s \in others, t \in others}

MCPolicy == [allowed_tools |-> {"read", "write", "wipe"}, 
             authorized_tools |-> {"read", "write", "spend"}, high_risk_tools |-> {"write"},
             valid_args |-> {"good"}, valid_approvals |-> {"valid", ""}, max_tokens |-> 3]

\* Candidates that meet each constraint or not, next to one that meets all; three that
\* rank differently; and preference orders that are none.
Candidate(id, healthy, tenants, capabilities, context, scores) ==
    [id |-> id, healthy |-> healthy, allowed_tenants |-> tenants, regions |-> {"eu"},
     capabilities |-> capabilities, max_context_tokens |-> context,
     quality_score |-> scores[1], estimated_cost_usd |-> scores[2],
     estimated_latency_ms |-> scores[3]]

Usable(id, scores) == Candidate(id, TRUE, {"t"}, {"json", "tools"}, 2, scores)

MCRoutes ==
    LET request == [tenant_id |-> "t", region |-> "eu", required_capabilities |-> {"json"},
                    context_tokens |-> 2, max_cost_usd |-> 2, max_latency_ms |-> 2]
        orders  == SetToSeqs(Preferences)
        Route(order, candidates) ==
            [request |-> request, candidates |-> candidates, preference_order |-> order]
        better  == {Candidate("a", h, t, c, n, s) : h \in BOOLEAN, t \in {{}, {"t", "u"}},
                       c \in {{}, {"json"}}, n \in 1..3, s \in {3} \X (1..3) \X (1..3)}
    IN  {Route(o, <<Usable("c", <<1, 2, 2>>), b>>) : o \in orders, b \in better}
        \cup {Route(o, <<b>>) : o \in orders, b \in better}
        \cup {Route(o, <<Usable("c", s), Usable("a", t), Usable("B", u)>>) : o \in orders,
                 s \in (1..2) \X (1..2) \X (1..2), t \in (1..2) \X (1..2) \X (1..2),
                 u \in (1..2) \X (1..2) \X (1..2)}
        \cup {Route(o, <<Usable("c", <<1, 1, 1>>)>>) : o \in Upto(4, Preferences \cup {"speed"})}

\* < takes capital letters first.
MCIdRank == [py |-> [B |-> 1, a |-> 2, c |-> 3], ts |-> [a |-> 1, B |-> 2, c |-> 3]]

\* What the client may do: raise, fail, or answer with a body of any of these fields.
MCOutcomes ==
    LET fields == {"error", "status_code", "account_id", "updated_at", "state", "accountId",
                "updatedAt"}
        Texts(field) == CASE field = "error" -> {"MISSING", "INTERNAL", Null}
                          [] field = "status_code" -> {"A", "C", "X", "constructor", Number}
                          [] field = "state" -> {"SUSPENDED", "A", Null}
                          [] field \in {"updated_at", "updatedAt"} -> {"noon", Null, Number}
                          [] OTHER -> {"acct", Blank, Number}
        Bodies(present) == {b \in [present -> UNION {Texts(f) : f \in fields}] :
                               \A f \in present : b[f] \in Texts(f)}
        v1 == {"status_code", "account_id", "updated_at"}
        v2 == {"state", "accountId", "updatedAt"}
        Answer(status, header, body) == [status |-> status, retry_after |-> header, body |-> body]
    IN  {[error |-> e] : e \in {"TimeoutError", "CancelledError", "AbortError", "OSError"}}
        \cup {Answer(s, "", NotObject) : s \in {200, 404, 500, 503}}
        \cup {Answer(429, h, NotObject) : h \in {"", "soon", "0", "30", "-1", "1_0", " ", "1e1",
                                                   "1.5", "0x1e"}}
        \cup {Answer(200, "", b) : b \in UNION {Bodies(p) :
                 p \in SUBSET v1 \cup SUBSET v2 \cup {v1 \cup {"state", "accountId"},
                       {"error", "status_code", "account_id"}, {"error"}}}}

\* Up to four events of one trace, and three events of two.
Event(trace, span, parent, timestamp, valid) ==
    [trace |-> trace, span |-> span, parent |-> parent, timestamp |-> timestamp, valid |-> valid]

MCTraces ==
    LET parents == 1..4 \cup {9, NoParent} IN
    {[i \in 1..4 |-> Event("t", i, up[i], (i * 3) % 4, TRUE)] : up \in [1..4 -> parents]}
    \cup {[i \in 1..3 |-> Event(traces[i], spans[i], up[i], times[i], i # 2)] :
             traces \in [1..3 -> {"t", "u"}], spans \in [1..3 -> 1..2],
             up \in [1..3 -> {1, 2, NoParent}], times \in {<<1, 1, 1>>, <<2, 1, 1>>}}

MCDependencies == Upto(3, (0..2) \X (0..2))

MCTrees == {t \in SUBSET (1..13) : \A n \in t : n = 1 \/ n \div 2 \in t}

MCGrids == SUBSET ((0..2) \X (0..2))

MCExpressions == Upto(5, {"2", "-7", "0", "/", "-", "x"}) \cup Upto(3, {"", "2", "+", "*"})

MCEventNames == Upto(5, {"a", "b", "c"})

MCLists == {s \in Upto(5, 1..3) : Nondecreasing(s)}

MCTargets == 0..4

===============================================================================
