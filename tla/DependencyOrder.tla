---------------------------- MODULE DependencyOrder ----------------------------
(***************************************************************************)
(* dsa/dependency_order: an order of the tasks 0 .. task_count - 1, in both *)
(* languages.  dependencies is a sequence of pairs; the code reads a pair   *)
(* <<task, dependency>>.                                                    *)
(***************************************************************************)
EXTENDS Integers, Sequences, SequencesExt, Paths

\* Set.add(): a member that is there already keeps its place.
Add(members, x) == IF Contains(members, x) THEN members ELSE Append(members, x)

\* dependency_map: the dependencies of each task.  A Set is walked in the order of
\* insertion; a set of small integers, in ascending order.
DependencyMap(lang, task_count, dependencies) ==
    [t \in 0..task_count - 1 |->
        LET pairs == SelectSeq(dependencies, LAMBDA p : p[1] = t)
            seen  == [i \in DOMAIN pairs |-> pairs[i][2]]
        IN  IF lang = "ts" THEN FoldLeft(Add, << >>, seen)
            ELSE SetToSortSeq(ToSet(seen), LAMBDA a, b : a < b)]

\* Mutant: a task is marked as visited before its dependencies are searched.
RECURSIVE DfsPreorder(_, _, _)
DfsPreorder(dependency_map, task, s) ==
    IF task \in s.visiting THEN [s EXCEPT !.ok = FALSE]
    ELSE IF task \in ToSet(s.visited) THEN s
    ELSE LET Into(acc, dep) == IF acc.ok THEN DfsPreorder(dependency_map, dep, acc) ELSE acc
             after == FoldLeft(Into, [s EXCEPT !.visiting = @ \cup {task},
                                               !.visited = Append(@, task)],
                               dependency_map[task])
         IN  IF after.ok THEN [after EXCEPT !.visiting = @ \ {task}] ELSE after

\* dfs(): visited is kept in the order of insertion.
RECURSIVE Dfs(_, _, _)
Dfs(dependency_map, task, s) ==
    IF task \in s.visiting THEN [s EXCEPT !.ok = FALSE]
    ELSE IF task \in ToSet(s.visited) THEN s
    ELSE LET Into(acc, dep) == IF acc.ok THEN Dfs(dependency_map, dep, acc) ELSE acc
             after == FoldLeft(Into, [s EXCEPT !.visiting = @ \cup {task}], dependency_map[task])
         IN  IF after.ok
             THEN [after EXCEPT !.visiting = @ \ {task}, !.visited = Append(@, task)]
             ELSE after

\* The result: visited, which answer.py keeps as a set of small integers.
OrderOfTasks(lang, task_count, dependencies) ==
    LET map         == DependencyMap(lang, task_count, dependencies)
        Try(s, t)   == IF s.ok THEN Dfs(map, t, s) ELSE s
        s           == FoldLeft(Try, [visiting |-> {}, visited |-> << >>, ok |-> TRUE],
                                [i \in 1..task_count |-> i - 1])
    IN  IF ~s.ok THEN << >>
        ELSE IF lang = "ts" THEN s.visited
        ELSE SetToSortSeq(ToSet(s.visited), LAMBDA a, b : a < b)

-----------------------------------------------------------------------------
(* What the result must be.                                                *)

\* Nothing is returned exactly if the dependencies have a cycle; otherwise every task
\* is returned once, and in answer.ts after all it depends on.
OrderExact(lang, task_count, dependencies, result) ==
    LET tasks == 0..task_count - 1
        Edge(a, b) == Contains(dependencies, <<a, b>>)
    IN  IF \E t \in tasks : t \in ReachedFrom(t, tasks, Edge) THEN result = << >>
        ELSE /\ Len(result) = task_count /\ ToSet(result) = tasks
             /\ lang = "ts" => \A i, j \in DOMAIN result :
                                  Contains(dependencies, <<result[i], result[j]>>) => j < i

===============================================================================
