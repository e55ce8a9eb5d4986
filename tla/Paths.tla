--------------------------------- MODULE Paths ---------------------------------
\* Reachability in a finite graph, given by its nodes and a test for its edges.
EXTENDS Naturals, FiniteSets

\* The nodes that paths of one edge or more lead to from node n.
ReachedFrom(n, nodes, Edge(_, _)) ==
    LET Next(N) == {y \in nodes : \E x \in N : Edge(x, y)}
        within[k \in Nat] == IF k = 0 THEN Next({n})
                             ELSE LET N == within[k - 1] IN N \cup Next(N)
    IN  within[Cardinality(nodes)]

===============================================================================
