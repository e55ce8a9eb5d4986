------------------------------- MODULE Traversals -------------------------------
(***************************************************************************)
(* Three exercises that walk a structure recursively:                      *)
(* dsa/binary_tree_maximum_depth, dsa/binary_tree_level_order and          *)
(* dsa/count_connected_islands.                                            *)
(*                                                                         *)
(* A tree is the set of the places of its nodes: the root is 1, and the    *)
(* children of node n are 2n and 2n + 1.  A grid is the set of its land.   *)
(***************************************************************************)
EXTENDS Integers, Sequences, FiniteSets, FiniteSetsExt, SequencesExt, Paths

Children(tree, n) == SelectSeq(<<2 * n, 2 * n + 1>>, LAMBDA c : c \in tree)

\* maximumDepth() of the subtree at n.
RECURSIVE MaximumDepth(_, _)
MaximumDepth(tree, n) ==
    IF n \notin tree THEN 0
    ELSE LET left  == MaximumDepth(tree, 2 * n)
             right == MaximumDepth(tree, 2 * n + 1)
         IN  Max({left, right}) + 1

\* maximumQueueAlt(): each turn of the loop replaces a level by the next one.
RECURSIVE QueueDepth(_, _, _)
QueueDepth(tree, queue, depth) ==
    IF queue = << >> THEN depth
    ELSE QueueDepth(tree, FlattenSeq([i \in DOMAIN queue |-> Children(tree, queue[i])]), depth + 1)

MaximumQueueAlt(tree) == IF tree = {} THEN 0 ELSE QueueDepth(tree, <<1>>, 0)

\* levelOrder(): traverse() opens a level when it first comes that deep.
RECURSIVE Traverse(_, _, _, _)
Traverse(tree, n, level, result) ==
    IF n \notin tree THEN result
    ELSE LET opened == IF Len(result) = level THEN Append(result, << >>) ELSE result
             here   == [opened EXCEPT ![level + 1] = Append(@, n)]
         IN  Traverse(tree, 2 * n + 1, level + 1, Traverse(tree, 2 * n, level + 1, here))

LevelOrder(tree) == Traverse(tree, 1, 0, << >>)

-----------------------------------------------------------------------------

\* explore(): down, up, right, left.
RECURSIVE Explore(_, _, _, _)
Explore(land, row, col, visited) ==
    IF <<row, col>> \in visited \/ <<row, col>> \notin land THEN visited
    ELSE LET down  == Explore(land, row + 1, col, visited \cup {<<row, col>>})
             up    == Explore(land, row - 1, col, down)
             right == Explore(land, row, col + 1, up)
         IN  Explore(land, row, col - 1, right)

\* The cells in the order of the two loops.
InReadingOrder(rows, cols) ==
    [i \in 1..rows * cols |-> <<(i - 1) \div cols, (i - 1) % cols>>]

CountIslands(land, rows, cols) ==
    LET Visit(acc, cell) ==
            IF cell \in land \ acc.visited
            THEN [count   |-> acc.count + 1,
                  visited |-> Explore(land, cell[1], cell[2], acc.visited)]
            ELSE acc
    IN  FoldLeft(Visit, [count |-> 0, visited |-> {}], InReadingOrder(rows, cols)).count

-----------------------------------------------------------------------------
(* What the results must be.                                               *)

\* Level k is made of the places 2^k to 2^(k + 1) - 1, from left to right: both ways to
\* find the depth give the number of levels, and the traversal, which never sees a
\* level as a whole, returns each level complete and in order.
Levels(tree) ==
    LET depth == CHOOSE d \in 0..Cardinality(tree) :
                     /\ \A n \in tree : n < 2 ^ d
                     /\ d > 0 => \E n \in tree : n >= 2 ^ (d - 1)
    IN  [k \in 1..depth |-> SetToSortSeq({n \in tree : 2 ^ (k - 1) <= n /\ n < 2 ^ k},
                                         LAMBDA a, b : a < b)]

\* The islands are the classes of cells that paths of neighbours connect.
Islands(land) ==
    LET Near(a, b) == \/ a[1] = b[1] /\ a[2] - b[2] \in {-1, 1}
                      \/ a[2] = b[2] /\ a[1] - b[1] \in {-1, 1}
    IN  {{c} \cup ReachedFrom(c, land, Near) : c \in land}

===============================================================================
