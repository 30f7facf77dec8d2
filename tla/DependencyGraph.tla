--------------------------- MODULE DependencyGraph --------------------------
(***************************************************************************)
(* services/task_dependencies.py, _has_cycle: the search for cycles in the *)
(* graph of a board.  A graph maps every task to what it depends on.       *)
(*                                                                         *)
(* The code searches depth first from every node.  A search carries the    *)
(* nodes visited so far, and stops at the first node it meets on its path. *)
(***************************************************************************)
EXTENDS FiniteSets, FiniteSetsExt

CONSTANT Tasks

\* A board has finitely many tasks: a search of its graph comes to an end.
ASSUME TasksAssumption == IsFiniteSet(Tasks)

\* any(dfs(n) for n in next), where search is dfs as it stands on this path.
Visit(search, visited, next) ==
    FoldSet(LAMBDA n, seen : IF seen.found THEN seen ELSE search[n][seen.visited],
            [found |-> FALSE, visited |-> visited], next)

\* Fault: a visited node is skipped before the path is looked at.
Dfs_VisitedFirst(edges) ==
    LET dfs[off \in SUBSET Tasks] ==
          [at \in Tasks |-> [visited \in SUBSET Tasks |->
             IF at \in visited THEN [found |-> FALSE, visited |-> visited]
             ELSE IF at \notin off THEN [found |-> TRUE, visited |-> visited]
             ELSE Visit(dfs[off \ {at}], visited \cup {at}, edges[at])]]
    IN  dfs

\* Fault: a node stays on the path when its search ends.
Dfs_KeepsPath(edges) ==
    LET dfs[off \in SUBSET Tasks] ==
          [at \in Tasks |-> [visited \in SUBSET Tasks |->
             IF at \in visited THEN [found |-> TRUE, visited |-> visited]
             ELSE Visit(dfs[off \ {at}], visited \cup {at}, edges[at])]]
    IN  dfs

\* dfs(at), by the tasks that are off the path to it.
Dfs(edges) ==
    LET dfs[off \in SUBSET Tasks] ==
          [at \in Tasks |-> [visited \in SUBSET Tasks |->
             IF at \notin off THEN [found |-> TRUE, visited |-> visited]
             ELSE IF at \in visited THEN [found |-> FALSE, visited |-> visited]
             ELSE Visit(dfs[off \ {at}], visited \cup {at}, edges[at])]]
    IN  dfs

HasCycle(nodes, edges) == Visit(Dfs(edges)[Tasks], {}, nodes).found

-----------------------------------------------------------------------------
\* Going from dependency to dependency one may stay for ever among the tasks
\* of some set: in a finite graph, exactly when a task depends on itself.
Cyclic(edges) == \E S \in SUBSET Tasks : S # {} /\ \A t \in S : edges[t] \cap S # {}
=============================================================================
