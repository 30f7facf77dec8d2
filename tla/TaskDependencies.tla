--------------------------- MODULE TaskDependencies -------------------------
(***************************************************************************)
(* services/task_dependencies.py: the dependency graph of a board, edited  *)
(* by concurrent requests while tasks are created and deleted.             *)
(*                                                                         *)
(* An edit validates against the committed graph, deletes the rows of its  *)
(* task that it sees, and inserts the new ones at its commit.  No lock is  *)
(* held between the validation and the commit.                             *)
(***************************************************************************)
EXTENDS DependencyGraph

CONSTANTS Editors, None

VARIABLES live,  \* tasks that exist
          gone,  \* tasks that were deleted: an id is never used again
          deps,  \* deps[t]: committed TaskDependency rows of t
          edit   \* edit[e]: local state of an editing request

vars == <<live, gone, deps, edit>>

Idle == [pc |-> "idle", task |-> None, ask |-> {}, cleared |-> {}]

\* Type invariant; rows point to tasks that exist, from tasks that exist,
\* as the foreign keys of models/task_dependencies.py say, and never to
\* their own task.
TypeOK ==
    /\ live \subseteq Tasks /\ gone \subseteq Tasks \ live
    /\ deps \in [Tasks -> SUBSET live]
    /\ edit \in [Editors -> [pc : {"idle", "validate", "clear", "insert"},
                             task : Tasks \cup {None},
                             ask : SUBSET Tasks, cleared : SUBSET Tasks]]
    /\ \A t \in Tasks : t \notin deps[t]
    /\ \A t \in Tasks \ live : deps[t] = {}

Init == /\ live = {}
        /\ gone = {}
        /\ deps = [t \in Tasks |-> {}]
        /\ edit = [e \in Editors |-> Idle]

-----------------------------------------------------------------------------
\* create_task: a new task with its first dependencies, in one transaction.
\* Nothing depends on it yet, so that no cycle can close through it.
CreateTask(t, ds) ==
    /\ t \notin live \cup gone
    /\ ds \subseteq live
    /\ live' = live \cup {t}
    /\ deps' = [deps EXCEPT ![t] = ds]
    /\ UNCHANGED <<gone, edit>>

\* A request asks for the dependencies ds of task t.
Begin(e, t, ds) ==
    /\ edit[e].pc = "idle"
    /\ t \in live
    /\ edit' = [edit EXCEPT ![e] = [Idle EXCEPT !.pc = "validate", !.task = t, !.ask = ds]]
    /\ UNCHANGED <<live, gone, deps>>

\* The board's graph with the edit of e laid over it.
Overlay(e) == [deps EXCEPT ![edit[e].task] = edit[e].ask]

\* validate_dependency_update: no task depends on itself, an empty edit is
\* accepted as it is, every dependency exists, no cycle closes.
Accepted(e) ==
    LET ask == edit[e].ask IN
    /\ edit[e].task \notin ask
    /\ ask # {} => /\ ask \subseteq live
                   /\ ~ HasCycle(live, Overlay(e))

Validate(e) ==
    /\ edit[e].pc = "validate"
    /\ edit' = [edit EXCEPT ![e] = IF Accepted(e) THEN [@ EXCEPT !.pc = "clear"] ELSE Idle]
    /\ UNCHANGED <<live, gone, deps>>

\* replace_task_dependencies deletes the rows it sees, which the others keep
\* seeing until the commit.  A second delete of these rows waits for that
\* commit and finds them gone, which is what it finds here.
Clear(e) ==
    /\ edit[e].pc = "clear"
    /\ edit' = [edit EXCEPT ![e].pc = "insert", ![e].cleared = deps[edit[e].task]]
    /\ UNCHANGED <<live, gone, deps>>

\* Rows of the edited task that another request committed after the delete.
Kept(e) == deps[edit[e].task] \ edit[e].cleared

\* The flush and the commit.  Foreign keys refuse a task that is gone, the
\* unique constraint a row that is there.
Insert(e) ==
    /\ edit[e].pc = "insert"
    /\ edit[e].task \in live /\ edit[e].ask \subseteq live
    /\ Kept(e) \cap edit[e].ask = {}
    /\ deps' = [deps EXCEPT ![edit[e].task] = Kept(e) \cup edit[e].ask]
    /\ edit' = [edit EXCEPT ![e] = Idle]
    /\ UNCHANGED <<live, gone>>

\* The request ends without a commit: a constraint refused it, a later check
\* of update_task rejected it, or the process stopped.
Abort(e) ==
    /\ edit[e].pc \in {"clear", "insert"}
    /\ edit' = [edit EXCEPT ![e] = Idle]
    /\ UNCHANGED <<live, gone, deps>>

\* Fault: only the rows of the deleted task itself go with it.
Detached_OwnRowsOnly(t) == [deps EXCEPT ![t] = {}]

\* delete_task_and_related_records drops the rows of t in both directions.
Detached(t) == [u \in Tasks |-> IF u = t THEN {} ELSE deps[u] \ {t}]

DeleteTask(t) ==
    /\ t \in live
    /\ live' = live \ {t}
    /\ gone' = gone \cup {t}
    /\ deps' = Detached(t)
    /\ UNCHANGED edit

Next == \/ \E t \in Tasks : \E ds \in SUBSET live : CreateTask(t, ds)
        \/ \E e \in Editors, t \in Tasks : \E ds \in SUBSET Tasks : Begin(e, t, ds)
        \/ \E e \in Editors : Validate(e) \/ Clear(e) \/ Insert(e) \/ Abort(e)
        \/ \E t \in Tasks : DeleteTask(t)

Spec == Init /\ [][Next]_vars

-----------------------------------------------------------------------------
\* No committed task depends, through other tasks, on itself: the tasks of a
\* cycle would block one another for ever.  The check sees the graph as it
\* was when the request validated.
Acyclic == ~ Cyclic(deps)

\* The search of _has_cycle answers exactly whether a cycle exists, also
\* where two chains meet in one task, and whatever order it takes them in.
CycleCheckExact ==
    \A e \in Editors :
        edit[e].pc = "validate" /\ edit[e].ask \subseteq live \ {edit[e].task} =>
        (HasCycle(live, Overlay(e)) <=> Cyclic(Overlay(e)))

=============================================================================
