---------------------------- MODULE TraceCorrelator ----------------------------
(***************************************************************************)
(* technical/agent_trace_correlator: correlateAgentTraces(events).  Events  *)
(* of one trace -- tenant, workflow and trace id together -- become one     *)
(* summary.  This is answer.ts: answer.py instantiates typing.Dict, which   *)
(* raises TypeError whatever the events are.                                *)
(*                                                                         *)
(* The blank names and bad attempts an event may have are one flag, valid.  *)
(***************************************************************************)
EXTENDS Integers, Sequences, FiniteSets, SequencesExt, Paths

CONSTANT NoParent

SpanIds(events) == {e.span : e \in ToSet(events)}

\* spans: the first event of a span stands for it.
ParentOf(events, span) == events[SelectInSeq(events, LAMBDA e : e.span = span)].parent

\* hasParentCycle() walks from parent to parent; all it meets stays in visited.
RECURSIVE ParentWalk(_, _, _, _)
ParentWalk(events, span, visited, path) ==
    CASE span \in path    -> [cycle |-> TRUE, visited |-> visited]
      [] span \in visited \ path -> [cycle |-> FALSE, visited |-> visited]
      [] OTHER ->
            LET parent == ParentOf(events, span)
            IN  IF parent \in SpanIds(events)
                THEN ParentWalk(events, parent, visited \cup {span}, path \cup {span})
                ELSE [cycle |-> FALSE, visited |-> visited \cup {span}]

\* The searches share visited: only the first one to reach a cycle reports it.
ParentCycles(events) ==
    LET Search(acc, e) ==
            LET walk == ParentWalk(events, e.span, acc.visited, {})
            IN  IF e.span \in acc.visited THEN acc
                ELSE [visited |-> walk.visited,
                      found   |-> IF walk.cycle THEN Append(acc.found, e.span) ELSE acc.found]
    IN  FoldLeft(Search, [visited |-> {}, found |-> << >>], events).found

Issue(code, span) == [code |-> code, span |-> span]

EventIssues(events, e) ==
       (IF e.valid THEN << >> ELSE <<Issue("invalid_event", e.span)>>)
    \o (IF Len(SelectSeq(events, LAMBDA f : f.span = e.span)) > 1
        THEN <<Issue("duplicate_span", e.span)>> ELSE << >>)
    \o (IF e.parent \notin SpanIds(events) \cup {NoParent}
        THEN <<Issue("missing_parent", e.span)>> ELSE << >>)

\* A stable sort by timestamp, then by span.
Sorted(events) ==
    LET Earlier(i, j) ==
            LET a == events[i]  b == events[j] IN
            \/ a.timestamp < b.timestamp
            \/ a.timestamp = b.timestamp /\ a.span < b.span
            \/ a.timestamp = b.timestamp /\ a.span = b.span /\ i < j
        places == SetToSortSeq(DOMAIN events, Earlier)
    IN  [k \in DOMAIN events |-> events[places[k]]]

Summary(trace, events) ==
    [trace |-> trace, events |-> Sorted(events),
     issues |-> FlattenSeq([i \in DOMAIN events |-> EventIssues(events, events[i])])
                \o [i \in DOMAIN ParentCycles(events) |->
                       Issue("parent_cycle", ParentCycles(events)[i])]]

CorrelateAgentTraces(events) ==
    LET Group(traces, e) == IF Contains(traces, e.trace) THEN traces ELSE Append(traces, e.trace)
        grouped == FoldLeft(Group, << >>, events)
    IN  [i \in DOMAIN grouped |->
            Summary(grouped[i], SelectSeq(events, LAMBDA e : e.trace = grouped[i]))]

-----------------------------------------------------------------------------
(* What the result must be.                                                *)

\* The spans that are reached from a span along parents.
Above(events, span) ==
    LET Up(s, t) == ParentOf(events, s) = t IN ReachedFrom(span, SpanIds(events), Up)

\* The cycles of the parents of a trace, each the set of its spans.
Cycles(events) ==
    {Above(events, s) : s \in {x \in SpanIds(events) : x \in Above(events, x)}}

\* Every cycle of parents is reported exactly once, at a span from which it is
\* reached, whatever the order of the events.
CyclesOnce(events, issues) ==
    LET at == {i \in DOMAIN issues : issues[i].code = "parent_cycle"}
    IN  /\ Cardinality(at) = Cardinality(Cycles(events))
        /\ \A c \in Cycles(events) : \E i \in at : c \subseteq Above(events, issues[i].span)

\* Every trace has one summary, with its own events, none lost or repeated, by time.
TracesExact(events, summaries) ==
    /\ {s.trace : s \in ToSet(summaries)} = {e.trace : e \in ToSet(events)}
    /\ \A i, j \in DOMAIN summaries : summaries[i].trace = summaries[j].trace => i = j
    /\ \A s \in ToSet(summaries) :
          LET own == SelectSeq(events, LAMBDA e : e.trace = s.trace)
          IN  /\ CyclesOnce(own, s.issues)
              /\ \E p \in Permutations(DOMAIN own) : s.events = [i \in DOMAIN own |-> own[p[i]]]
              /\ \A i, j \in DOMAIN own : i < j => s.events[i].timestamp <= s.events[j].timestamp

===============================================================================
