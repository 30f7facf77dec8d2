------------------------ MODULE TaskDependenciesProofs -----------------------
(***************************************************************************)
(* Proof that the rows of the dependency graph stay well formed, for any   *)
(* number of tasks and of concurrent edits and deletions; that the search  *)
(* for cycles is exact; and that the graph stays acyclic while edits do    *)
(* not overlap.                                                            *)
(***************************************************************************)
EXTENDS TaskDependencies, TLAPS, FiniteSetTheorems, WellFoundedInduction

EditState == [pc : {"idle", "validate", "clear", "insert"},
              task : Tasks \cup {None},
              ask : SUBSET Tasks, cleared : SUBSET Tasks]

\* The graph: no row to a task that does not exist, from one, or to its own task.
GraphOK ==
    /\ live \subseteq Tasks /\ gone \subseteq Tasks \ live
    /\ deps \in [Tasks -> SUBSET live]
    /\ \A t \in Tasks : t \notin deps[t]
    /\ \A t \in Tasks \ live : deps[t] = {}

\* A request that runs is about a task, and an edit that was accepted does not ask its
\* task to depend on itself: the graph needs it at the commit, after the request looked.
Sound(r) == /\ r.pc # "idle" => r.task \in Tasks
            /\ r.pc \in {"clear", "insert"} => r.task \notin r.ask
EditsOK == edit \in [Editors -> EditState] /\ \A e \in Editors : Sound(edit[e])

IInv == GraphOK /\ EditsOK

\* The edit state of one request is replaced by a well formed one.
LEMMA EditStep ==
    ASSUME EditsOK, NEW e \in Editors, NEW r \in EditState, Sound(r),
           edit' = [edit EXCEPT ![e] = r]
    PROVE  EditsOK'
BY DEF EditsOK

LEMMA IdleOK == Idle \in EditState /\ Idle.pc = "idle" /\ Sound(Idle)
BY DEF Idle, EditState, Sound

\* Every request, commit, abort and deletion keeps the graph well formed.
LEMMA StepKeepsGraph ==
    ASSUME IInv, [Next]_vars
    PROVE  IInv'
<1>a. GraphOK /\ EditsOK
  BY DEF IInv
<1>b. GraphOK' /\ EditsOK' => IInv'
  BY DEF IInv
<1>c. UNCHANGED <<live, gone, deps>> => GraphOK'
  BY <1>a DEF GraphOK
<1>d. UNCHANGED edit => EditsOK'
  BY <1>a DEF EditsOK
<1>1. ASSUME NEW t \in Tasks, NEW ds \in SUBSET live, CreateTask(t, ds) PROVE IInv'
  <2>1. /\ live' = live \cup {t} /\ gone' = gone /\ t \notin live \cup gone /\ ds \subseteq live
        /\ \A u \in Tasks : deps'[u] = IF u = t THEN ds ELSE deps[u]
        /\ deps' \in [Tasks -> SUBSET live']
    BY <1>1, <1>a DEF CreateTask, GraphOK
  <2>2. GraphOK'
    BY <1>a, <2>1 DEF GraphOK
  <2> QED
    BY <1>1, <1>b, <1>d, <2>2 DEF CreateTask
<1>2. ASSUME NEW e \in Editors, NEW t \in Tasks, NEW ds \in SUBSET Tasks, Begin(e, t, ds)
      PROVE  IInv'
  <2> DEFINE r == [Idle EXCEPT !.pc = "validate", !.task = t, !.ask = ds]
  <2>1. r \in EditState /\ Sound(r)
    BY DEF Idle, EditState, Sound
  <2>2. edit' = [edit EXCEPT ![e] = r]
    BY <1>2 DEF Begin
  <2> HIDE DEF r
  <2> QED
    BY <1>2, <1>a, <1>b, <1>c, <2>1, <2>2, EditStep DEF Begin
<1>3. ASSUME NEW e \in Editors, Validate(e) PROVE IInv'
  <2>1. edit[e] \in EditState /\ edit[e].task \in Tasks
    BY <1>3, <1>a DEF EditsOK, Sound, Validate
  <2>2. CASE Accepted(e)
    <3> DEFINE r == [edit[e] EXCEPT !.pc = "clear"]
    <3>1. r \in EditState /\ Sound(r)
      BY <2>1, <2>2 DEF EditState, Accepted, Sound
    <3>2. edit' = [edit EXCEPT ![e] = r]
      BY <1>3, <2>2 DEF Validate
    <3> HIDE DEF r
    <3> QED
      BY <1>3, <1>a, <1>b, <1>c, <3>1, <3>2, EditStep DEF Validate
  <2>3. CASE ~ Accepted(e)
    <3>1. edit' = [edit EXCEPT ![e] = Idle]
      BY <1>3, <2>3 DEF Validate
    <3> QED
      BY <1>3, <1>a, <1>b, <1>c, <3>1, IdleOK, EditStep DEF Validate
  <2> QED
    BY <2>2, <2>3
<1>4. ASSUME NEW e \in Editors, Clear(e) PROVE IInv'
  <2> DEFINE r == [edit[e] EXCEPT !.pc = "insert", !.cleared = deps[edit[e].task]]
  <2>1. edit[e] \in EditState /\ edit[e].task \in Tasks /\ edit[e].task \notin edit[e].ask
    BY <1>4, <1>a DEF EditsOK, Sound, Clear
  <2>2. deps[edit[e].task] \in SUBSET Tasks
    BY <1>a, <2>1 DEF GraphOK
  <2>3. r \in EditState /\ Sound(r)
    BY <2>1, <2>2 DEF EditState, Sound
  <2>4. edit' = [edit EXCEPT ![e] = r]
    BY <1>4 DEF Clear
  <2> HIDE DEF r
  <2> QED
    BY <1>4, <1>a, <1>b, <1>c, <2>3, <2>4, EditStep DEF Clear
<1>5. ASSUME NEW e \in Editors, Insert(e) PROVE IInv'
  <2>1. EditsOK'
    BY <1>5, <1>a, IdleOK, EditStep DEF Insert
  <2> DEFINE t == edit[e].task
             ds == Kept(e) \cup edit[e].ask
  <2>2. /\ t \in live /\ ds \subseteq live /\ t \notin ds
        /\ deps' = [deps EXCEPT ![t] = ds] /\ UNCHANGED <<live, gone>>
    BY <1>5, <1>a DEF Insert, Kept, GraphOK, EditsOK, Sound
  <2> HIDE DEF t, ds
  <2>3. GraphOK'
    BY <1>a, <2>2 DEF GraphOK
  <2> QED
    BY <1>b, <2>1, <2>3
<1>6. ASSUME NEW e \in Editors, Abort(e) PROVE IInv'
  BY <1>6, <1>a, <1>b, <1>c, IdleOK, EditStep DEF Abort
<1>7. ASSUME NEW t \in Tasks, DeleteTask(t) PROVE IInv'
  <2>1. /\ live' = live \ {t} /\ gone' = gone \cup {t}
        /\ deps' = [u \in Tasks |-> IF u = t THEN {} ELSE deps[u] \ {t}]
    BY <1>7 DEF DeleteTask, Detached
  <2>2. GraphOK'
    BY <1>a, <2>1 DEF GraphOK
  <2> QED
    BY <1>7, <1>b, <1>d, <2>2 DEF DeleteTask
<1>8. CASE UNCHANGED vars
  BY <1>8, <1>b, <1>c, <1>d DEF vars
<1> QED
  BY <1>1, <1>2, <1>3, <1>4, <1>5, <1>6, <1>7, <1>8 DEF Next

\* For any number of tasks and concurrent edits, no committed row points to a task that
\* is gone, from one, or to its own task.
THEOREM TypeCorrect == Spec => []TypeOK
<1>1. Init => IInv
  BY IdleOK DEF Init, IInv, GraphOK, EditsOK
<1>2. IInv => TypeOK
  BY DEF IInv, GraphOK, EditsOK, TypeOK, EditState
<1> QED
  BY <1>1, <1>2, StepKeepsGraph, PTL DEF Spec

-----------------------------------------------------------------------------
(***************************************************************************)
(* Recursion and induction over the subsets of a finite set.  The library  *)
(* states both for an operator, which no prover at hand can instantiate;   *)
(* here they are stated for sets and functions.  A proof by induction is   *)
(* one about a smallest counterexample.                                    *)
(***************************************************************************)
\* Every nonempty collection of subsets of a finite set has a smallest member.
LEMMA Smallest ==
    ASSUME NEW T, IsFiniteSet(T), NEW C \in SUBSET (SUBSET T), C # {}
    PROVE  \E s \in C : \A r \in C : r \subseteq s => r = s
<1> DEFINE R == StrictSubsetOrdering(T)
<1>1. IsWellFoundedOn(R, SUBSET T)
  BY FS_FiniteSubsetsOfFinite, FS_StrictSubsetOrderingWellFounded, Zenon
<1>2. PICK s \in C : \A r \in C : ~ (<<r, s>> \in R)
  <2> HIDE DEF R
  <2> QED
    BY <1>1, WFMin, Zenon
<1> QED
  BY <1>2 DEF StrictSubsetOrdering

\* f[s] is computed from the values of f at the sets that lack one element of s.
Below(f, s) == [x \in s |-> f[s \ {x}]]
Solves(f, step, A) == \A s \in SUBSET A : f[s] = step[s][Below(f, s)]

\* Two solutions of one recursion agree.
LEMMA SolutionsAgree ==
    ASSUME NEW T, IsFiniteSet(T), NEW step, NEW A \in SUBSET T,
           NEW f, NEW g, Solves(f, step, A), Solves(g, step, A)
    PROVE  \A s \in SUBSET A : f[s] = g[s]
<1> DEFINE C == {s \in SUBSET A : f[s] # g[s]}
<1> SUFFICES ASSUME C # {} PROVE FALSE
  OBVIOUS
<1>1. PICK s \in C : \A r \in C : r \subseteq s => r = s
  <2>1. C \in SUBSET (SUBSET T)
    OBVIOUS
  <2> HIDE DEF C
  <2> QED
    BY <2>1, Smallest
<1>2. \A x \in s : f[s \ {x}] = g[s \ {x}]
  BY <1>1
<1>3. Below(f, s) = Below(g, s)
  BY <1>2 DEF Below
<1> QED
  BY <1>1, <1>3 DEF Solves

\* The recursion has a solution, whatever is computed by its steps.
LEMMA SubsetRecursion ==
    ASSUME NEW T, IsFiniteSet(T), NEW V, NEW step,
           \A s \in SUBSET T : step[s] \in [[s -> V] -> V]
    PROVE  \E f \in [SUBSET T -> V] : Solves(f, step, T)
<1> DEFINE C == {A \in SUBSET T : ~ \E f \in [SUBSET T -> V] : Solves(f, step, A)}
<1> SUFFICES ASSUME C # {} PROVE FALSE
  OBVIOUS
<1>1. PICK A \in C : \A B \in C : B \subseteq A => B = A
  <2>1. C \in SUBSET (SUBSET T)
    OBVIOUS
  <2> HIDE DEF C
  <2> QED
    BY <2>1, Smallest
<1>2. \A s \in SUBSET A : s # A => \E f \in [SUBSET T -> V] : Solves(f, step, s)
  BY <1>1
<1> DEFINE sol(s) == CHOOSE f \in [SUBSET T -> V] : Solves(f, step, s)
           v == step[{}][[x \in {} |-> x]]
           G == [s \in SUBSET T |-> IF s \subseteq A /\ s # A THEN sol(s)[s] ELSE v]
           H == [s \in SUBSET T |-> IF s = A THEN step[A][Below(G, A)] ELSE G[s]]
<1>3. \A s \in SUBSET A : s # A => sol(s) \in [SUBSET T -> V] /\ Solves(sol(s), step, s)
  BY <1>2
<1> HIDE DEF sol
<1>4. v \in V
  <2>1. [x \in {} |-> x] \in [{} -> V] /\ {} \in SUBSET T
    OBVIOUS
  <2> QED
    BY <2>1
<1> HIDE DEF v
<1>5. G \in [SUBSET T -> V]
  BY <1>3, <1>4, <1>1
<1>6. \A s \in SUBSET A : s # A => G[s] = sol(s)[s]
  BY <1>1
<1> HIDE DEF G
<1>7. \A s \in SUBSET A : Below(G, s) \in [s -> V]
  BY <1>1, <1>5 DEF Below
<1>8. H \in [SUBSET T -> V]
  <2>1. step[A][Below(G, A)] \in V
    BY <1>1, <1>7
  <2> QED
    BY <2>1, <1>5
<1>9. \A s \in SUBSET A : H[s] = IF s = A THEN step[A][Below(G, A)] ELSE G[s]
  BY <1>1
<1> HIDE DEF H
<1>10. ASSUME NEW s \in SUBSET A PROVE Below(H, s) = Below(G, s)
  BY <1>9 DEF Below
<1>11. ASSUME NEW s \in SUBSET A, s # A PROVE G[s] = step[s][Below(G, s)]
  <2>1. Solves(sol(s), step, s)
    BY <1>3, <1>11
  <2>2. ASSUME NEW x \in s PROVE sol(s)[s \ {x}] = G[s \ {x}]
    <3> DEFINE r == s \ {x}
    <3>1. r \in SUBSET A /\ r # A /\ r \in SUBSET T /\ r \subseteq s
      BY <1>1
    <3>2. Solves(sol(r), step, r) /\ G[r] = sol(r)[r]
      BY <1>3, <1>6, <3>1
    <3>3. Solves(sol(s), step, r)
      BY <2>1, <3>1 DEF Solves
    <3> HIDE DEF r
    <3>4. sol(s)[r] = sol(r)[r]
      BY <3>1, <3>2, <3>3, SolutionsAgree
    <3> QED
      BY <3>2, <3>4 DEF r
  <2>3. Below(sol(s), s) = Below(G, s)
    BY <2>2 DEF Below
  <2>4. sol(s)[s] = step[s][Below(sol(s), s)]
    BY <2>1 DEF Solves
  <2> QED
    BY <2>3, <2>4, <1>6, <1>11
<1>12. Solves(H, step, A)
  BY <1>9, <1>10, <1>11 DEF Solves
<1> QED
  BY <1>1, <1>8, <1>12

-----------------------------------------------------------------------------
(***************************************************************************)
(* The search is exact.  Visit and dfs are recursive functions; first      *)
(* their definitions are shown to hold as equations, then what they answer *)
(* is shown by induction on the nodes of a visit and on the tasks that are *)
(* off the path.                                                           *)
(***************************************************************************)
Answer == [found : BOOLEAN, visited : SUBSET Tasks]
Searches == [Tasks -> [SUBSET Tasks -> Answer]]

\* The search goes on at n unless it has found a cycle.
GoesOn(search, seen, n) == IF seen.found THEN seen ELSE search[n][seen.visited]

\* it[s] is the answer of Visit after the nodes of s.
OneByOne(search, visited, next, it) ==
    /\ it \in [SUBSET next -> Answer]
    /\ it[{}] = [found |-> FALSE, visited |-> visited]
    /\ \A s \in SUBSET next : s # {} => \E n \in s : it[s] = GoesOn(search, it[s \ {n}], n)
    /\ Visit(search, visited, next) = it[next]

\* Visit takes the nodes one at a time, in some order.
LEMMA VisitsOneByOne ==
    ASSUME NEW search \in Searches, NEW visited \in SUBSET Tasks, NEW next \in SUBSET Tasks
    PROVE  \E it : OneByOne(search, visited, next, it)
<1> DEFINE base == [found |-> FALSE, visited |-> visited]
           pick(s) == CHOOSE n \in s : TRUE
           Def(g, s) == IF s = {} THEN base ELSE GoesOn(search, g[s \ {pick(s)}], pick(s))
           step == [s \in SUBSET next |-> [h \in [s -> Answer] |->
                     IF s = {} THEN base ELSE GoesOn(search, h[pick(s)], pick(s))]]
           it == CHOOSE g : g = [s \in SUBSET next |-> Def(g, s)]
<1>1. Visit(search, visited, next) = it[next]
  BY Zenon DEF Visit, FoldSet, MapThenFoldSet, GoesOn
<1>2. base \in Answer
  BY DEF Answer
<1>3. \A s \in SUBSET next : s # {} => pick(s) \in s
  OBVIOUS
<1> HIDE DEF base, pick
<1>4. \A r \in Answer, n \in Tasks : GoesOn(search, r, n) \in Answer
  BY DEF Answer, Searches, GoesOn
<1>5. ASSUME NEW s \in SUBSET next PROVE step[s] \in [[s -> Answer] -> Answer]
  <2>1. \A h \in [s -> Answer] : s # {} => GoesOn(search, h[pick(s)], pick(s)) \in Answer
    BY <1>3, <1>4
  <2>2. step[s] = [h \in [s -> Answer] |->
                     IF s = {} THEN base ELSE GoesOn(search, h[pick(s)], pick(s))]
    OBVIOUS
  <2> HIDE DEF step
  <2> QED
    BY <1>2, <2>1, <2>2
<1>6. PICK f \in [SUBSET next -> Answer] : Solves(f, step, next)
  <2>1. IsFiniteSet(next)
    BY TasksAssumption, FS_Subset DEF TasksAssumption
  <2> HIDE DEF step
  <2> QED
    BY <1>5, <2>1, SubsetRecursion
<1>7. ASSUME NEW s \in SUBSET next PROVE f[s] = Def(f, s)
  <2>1. Below(f, s) \in [s -> Answer] /\ \A n \in s : Below(f, s)[n] = f[s \ {n}]
    BY DEF Below
  <2>2. f[s] = step[s][Below(f, s)]
    BY <1>6 DEF Solves
  <2> QED
    BY <2>1, <2>2, <1>3
<1>8. it = [s \in SUBSET next |-> Def(it, s)]
  <2>1. f = [s \in SUBSET next |-> Def(f, s)]
    <3> HIDE DEF Def
    <3> QED
      BY <1>7
  <2> HIDE DEF Def
  <2> QED
    BY <2>1, Zenon
<1> HIDE DEF it
<1>9. \A s \in SUBSET next : it[s] = Def(it, s)
  <2> HIDE DEF Def
  <2> QED
    BY <1>8
<1>10. it \in [SUBSET next -> Answer]
  <2> DEFINE C == {s \in SUBSET next : it[s] \notin Answer}
  <2> SUFFICES ASSUME C # {} PROVE FALSE
    <3> HIDE DEF Def
    <3> QED
      BY <1>8
  <2>1. PICK s \in C : \A r \in C : r \subseteq s => r = s
    <3>1. C \in SUBSET (SUBSET next) /\ IsFiniteSet(next)
      BY TasksAssumption, FS_Subset DEF TasksAssumption
    <3> HIDE DEF C
    <3> QED
      BY <3>1, Smallest
  <2>2. s # {}
    BY <1>2, <1>9, <2>1
  <2>3. PICK n \in s : n = pick(s)
    BY <1>3, <2>1, <2>2
  <2>4. it[s] = GoesOn(search, it[s \ {n}], n)
    BY <1>9, <2>1, <2>2, <2>3
  <2>5. n \in Tasks /\ s \ {n} \in SUBSET next /\ s \ {n} \notin C
    BY <2>1
  <2> HIDE DEF Def, step
  <2> QED
    BY <1>4, <2>1, <2>4, <2>5
<1>11. it[{}] = base
  BY <1>9
<1>12. ASSUME NEW s \in SUBSET next, s # {}
       PROVE  \E n \in s : it[s] = GoesOn(search, it[s \ {n}], n)
  BY <1>3, <1>9, <1>12
<1> QED
  BY <1>1, <1>10, <1>11, <1>12 DEF base, OneByOne

\* Visit answers with what is found and visited.
LEMMA VisitType ==
    ASSUME NEW search \in Searches, NEW visited \in SUBSET Tasks, NEW next \in SUBSET Tasks
    PROVE  Visit(search, visited, next) \in Answer
<1>1. PICK it : OneByOne(search, visited, next, it)
  BY VisitsOneByOne
<1>2. next \in SUBSET next
  OBVIOUS
<1> QED
  BY <1>1, <1>2 DEF OneByOne

\* The body of dfs, where search is dfs for a longer path.
DfsStep(edges, search, off, at, visited) ==
    IF at \notin off THEN [found |-> TRUE, visited |-> visited]
    ELSE IF at \in visited THEN [found |-> FALSE, visited |-> visited]
    ELSE Visit(search, visited \cup {at}, edges[at])

\* The recursion of dfs is well founded, and its definition holds as an equation.
LEMMA DfsEquation ==
    ASSUME NEW edges \in [Tasks -> SUBSET Tasks]
    PROVE  /\ Dfs(edges) \in [SUBSET Tasks -> Searches]
           /\ \A off \in SUBSET Tasks, at \in Tasks, visited \in SUBSET Tasks :
                  Dfs(edges)[off][at][visited]
                      = DfsStep(edges, Dfs(edges)[off \ {at}], off, at, visited)
<1> DEFINE Def(g, off) == [at \in Tasks |-> [visited \in SUBSET Tasks |->
                             DfsStep(edges, g[off \ {at}], off, at, visited)]]
           step == [off \in SUBSET Tasks |-> [h \in [off -> Searches] |->
                      [at \in Tasks |-> [visited \in SUBSET Tasks |->
                         DfsStep(edges, h[at], off, at, visited)]]]]
           dfs == CHOOSE g : g = [off \in SUBSET Tasks |-> Def(g, off)]
<1>1. Dfs(edges) = dfs
  BY Zenon DEF Dfs, DfsStep
<1>2. ASSUME NEW off \in SUBSET Tasks, NEW h \in [off -> Searches],
             NEW at \in Tasks, NEW visited \in SUBSET Tasks
      PROVE  DfsStep(edges, h[at], off, at, visited) \in Answer
  <2>1. CASE at \in off
    <3>1. Visit(h[at], visited \cup {at}, edges[at]) \in Answer
      BY <2>1, VisitType
    <3> QED
      BY <2>1, <3>1 DEF DfsStep, Answer
  <2>2. CASE at \notin off
    BY <2>2 DEF DfsStep, Answer
  <2> QED
    BY <2>1, <2>2
<1>3. ASSUME NEW off \in SUBSET Tasks PROVE step[off] \in [[off -> Searches] -> Searches]
  <2>1. \A h \in [off -> Searches] :
           [at \in Tasks |-> [visited \in SUBSET Tasks |->
               DfsStep(edges, h[at], off, at, visited)]] \in Searches
    BY <1>2 DEF Searches
  <2>2. step[off] = [h \in [off -> Searches] |->
                      [at \in Tasks |-> [visited \in SUBSET Tasks |->
                         DfsStep(edges, h[at], off, at, visited)]]]
    OBVIOUS
  <2> HIDE DEF step
  <2> QED
    BY <2>1, <2>2
<1>4. PICK f \in [SUBSET Tasks -> Searches] : Solves(f, step, Tasks)
  <2> HIDE DEF step
  <2> QED
    BY <1>3, TasksAssumption, SubsetRecursion DEF TasksAssumption
<1>5. ASSUME NEW off \in SUBSET Tasks PROVE f[off] = Def(f, off)
  <2>1. Below(f, off) \in [off -> Searches] /\ \A n \in off : Below(f, off)[n] = f[off \ {n}]
    BY DEF Below
  <2>2. f[off] = step[off][Below(f, off)]
    BY <1>4 DEF Solves
  <2>3. f[off] = [at \in Tasks |-> [visited \in SUBSET Tasks |->
                    DfsStep(edges, Below(f, off)[at], off, at, visited)]]
    BY <2>1, <2>2
  <2>4. ASSUME NEW at \in Tasks, NEW visited \in SUBSET Tasks
        PROVE  DfsStep(edges, Below(f, off)[at], off, at, visited)
                 = DfsStep(edges, f[off \ {at}], off, at, visited)
    BY <2>1 DEF DfsStep
  <2> QED
    BY <2>3, <2>4
<1>6. dfs = [off \in SUBSET Tasks |-> Def(dfs, off)]
  <2>1. f = [off \in SUBSET Tasks |-> Def(f, off)]
    <3> HIDE DEF Def
    <3> QED
      BY <1>5
  <2> HIDE DEF Def
  <2> QED
    BY <2>1, Zenon
<1> HIDE DEF dfs
<1>7. \A off \in SUBSET Tasks : dfs[off] = Def(dfs, off)
  <2> HIDE DEF Def
  <2> QED
    BY <1>6
<1>8. ASSUME NEW off \in SUBSET Tasks, NEW at \in Tasks, NEW visited \in SUBSET Tasks
      PROVE  dfs[off][at][visited] = DfsStep(edges, dfs[off \ {at}], off, at, visited)
  <2>1. dfs[off] = Def(dfs, off)
    BY <1>7
  <2>2. Def(dfs, off)[at] = [v \in SUBSET Tasks |->
                               DfsStep(edges, dfs[off \ {at}], off, at, v)]
    OBVIOUS
  <2> HIDE DEF Def, step
  <2> QED
    BY <2>1, <2>2
<1>9. dfs \in [SUBSET Tasks -> Searches]
  <2> DEFINE C == {off \in SUBSET Tasks : dfs[off] \notin Searches}
  <2> SUFFICES ASSUME C # {} PROVE FALSE
    <3> HIDE DEF Def
    <3> QED
      BY <1>6
  <2>1. PICK off \in C : \A r \in C : r \subseteq off => r = off
    <3>1. C \in SUBSET (SUBSET Tasks)
      OBVIOUS
    <3> HIDE DEF C
    <3> QED
      BY <3>1, Smallest, TasksAssumption DEF TasksAssumption
  <2> DEFINE h == [at \in off |-> dfs[off \ {at}]]
  <2>2. h \in [off -> Searches]
    BY <2>1
  <2>3. ASSUME NEW at \in Tasks, NEW visited \in SUBSET Tasks
        PROVE  DfsStep(edges, dfs[off \ {at}], off, at, visited) \in Answer
    <3>1. DfsStep(edges, dfs[off \ {at}], off, at, visited)
            = DfsStep(edges, h[at], off, at, visited)
      BY DEF DfsStep
    <3> HIDE DEF h
    <3> QED
      BY <1>2, <2>1, <2>2, <3>1
  <2>4. Def(dfs, off) \in Searches
    BY <2>3 DEF Searches
  <2> HIDE DEF Def, step
  <2> QED
    BY <1>7, <2>1, <2>4
<1> QED
  BY <1>1, <1>8, <1>9

\* Every task that was left behind is known to lead into no cycle: what it depends on
\* was left behind too, and one cannot stay among such tasks for ever.
Explored(edges, visited, path) ==
    /\ \A u \in visited \ path : edges[u] \subseteq visited \ path
    /\ ~ \E S \in SUBSET (visited \ path) : S # {} /\ \A u \in S : edges[u] \cap S # {}

\* Every task on the path depends on another one there or on n, the next.
LeadsTo(edges, path, n) == \A u \in path : edges[u] \cap (path \cup {n}) # {}

\* An answer is right: the search only adds to what was visited, finds only cycles
\* there are, and if it finds none leaves every task of next explored behind it.
Right(edges, path, visited, next, r) ==
    /\ r \in Answer
    /\ visited \subseteq r.visited
    /\ r.found /\ (\A n \in next : LeadsTo(edges, path, n)) => Cyclic(edges)
    /\ ~ r.found /\ Explored(edges, visited, path)
           => Explored(edges, r.visited, path) /\ next \subseteq r.visited \ path

RightFrom(edges, path, search) ==
    \A n \in Tasks, visited \in SUBSET Tasks :
        path \subseteq visited => Right(edges, path, visited, {n}, search[n][visited])

\* If each search of a node is right, so is the search of several, one after the other.
LEMMA VisitIsRight ==
    ASSUME NEW edges \in [Tasks -> SUBSET Tasks], NEW path \in SUBSET Tasks,
           NEW search \in Searches, RightFrom(edges, path, search),
           NEW visited \in SUBSET Tasks, path \subseteq visited, NEW next \in SUBSET Tasks
    PROVE  Right(edges, path, visited, next, Visit(search, visited, next))
<1>0. PICK it : OneByOne(search, visited, next, it)
  BY VisitsOneByOne
<1>1. /\ it \in [SUBSET next -> Answer]
      /\ it[{}] = [found |-> FALSE, visited |-> visited]
      /\ \A s \in SUBSET next : s # {} =>
             \E n \in s : it[s] = GoesOn(search, it[s \ {n}], n)
      /\ Visit(search, visited, next) = it[next]
  BY <1>0 DEF OneByOne
<1> DEFINE C == {s \in SUBSET next : ~ Right(edges, path, visited, s, it[s])}
<1> SUFFICES ASSUME C # {} PROVE FALSE
  <2>1. next \in SUBSET next
    OBVIOUS
  <2> QED
    BY <1>1, <2>1
<1>2. PICK s \in C : \A r \in C : r \subseteq s => r = s
  <2>1. C \in SUBSET (SUBSET next) /\ IsFiniteSet(next)
    BY TasksAssumption, FS_Subset DEF TasksAssumption
  <2> HIDE DEF C
  <2> QED
    BY <2>1, Smallest
<1>3. s \in SUBSET next /\ ~ Right(edges, path, visited, s, it[s])
  BY <1>2
<1>4. s # {}
  <2>1. Right(edges, path, visited, {}, it[{}])
    BY <1>1 DEF Right, Answer
  <2> QED
    BY <1>3, <2>1
<1>5. PICK n \in s : it[s] = GoesOn(search, it[s \ {n}], n)
  BY <1>1, <1>3, <1>4
<1> DEFINE r == it[s \ {n}]
           t == search[n][r.visited]
<1>6. Right(edges, path, visited, s \ {n}, r)
  <2>1. s \ {n} \in SUBSET next /\ s \ {n} \notin C
    BY <1>2
  <2> QED
    BY <2>1
<1>7. r \in Answer /\ visited \subseteq r.visited /\ r.visited \in SUBSET Tasks
  BY <1>6 DEF Right, Answer
<1>8. Right(edges, path, r.visited, {n}, t)
  <2>1. n \in Tasks /\ path \subseteq r.visited
    BY <1>3, <1>7
  <2> QED
    BY <1>7, <2>1 DEF RightFrom
<1> HIDE DEF r, t, C
<1>9. CASE r.found
  <2>1. it[s] = r
    BY <1>5, <1>9 DEF GoesOn, r
  <2> QED
    BY <1>3, <1>6, <1>9, <2>1 DEF Right
<1>10. CASE ~ r.found
  <2>1. it[s] = t
    BY <1>5, <1>10 DEF GoesOn, r, t
  <2>2. t \in Answer /\ visited \subseteq t.visited /\ r.visited \subseteq t.visited
    BY <1>7, <1>8 DEF Right
  <2>3. ASSUME t.found, \A m \in s : LeadsTo(edges, path, m) PROVE Cyclic(edges)
    BY <1>8, <2>3 DEF Right
  <2>4. ASSUME ~ t.found, Explored(edges, visited, path)
        PROVE  Explored(edges, t.visited, path) /\ s \subseteq t.visited \ path
    <3>1. Explored(edges, r.visited, path) /\ s \ {n} \subseteq r.visited \ path
      BY <1>6, <1>10, <2>4 DEF Right
    <3>2. Explored(edges, t.visited, path) /\ n \in t.visited \ path
      BY <1>8, <2>4, <3>1 DEF Right
    <3> QED
      BY <2>2, <3>1, <3>2
  <2> QED
    BY <1>3, <2>1, <2>2, <2>3, <2>4 DEF Right
<1> QED
  BY <1>9, <1>10

\* dfs is right: at a task of its own path, at one visited before, and at a new one
\* by the searches of what that one depends on.
LEMMA DfsIsRight ==
    ASSUME NEW edges \in [Tasks -> SUBSET Tasks], NEW off \in SUBSET Tasks
    PROVE  RightFrom(edges, Tasks \ off, Dfs(edges)[off])
<1> DEFINE C == {o \in SUBSET Tasks : ~ RightFrom(edges, Tasks \ o, Dfs(edges)[o])}
<1> SUFFICES ASSUME C # {} PROVE FALSE
  OBVIOUS
<1>1. PICK o \in C : \A p \in C : p \subseteq o => p = o
  <2>1. C \in SUBSET (SUBSET Tasks)
    OBVIOUS
  <2> HIDE DEF C
  <2> QED
    BY <2>1, Smallest, TasksAssumption DEF TasksAssumption
<1> DEFINE path == Tasks \ o
<1>2. o \in SUBSET Tasks /\ ~ RightFrom(edges, path, Dfs(edges)[o])
  BY <1>1
<1>3. PICK at \in Tasks, visited \in SUBSET Tasks :
          /\ path \subseteq visited
          /\ ~ Right(edges, path, visited, {at}, Dfs(edges)[o][at][visited])
  BY <1>2 DEF RightFrom
<1> DEFINE t == DfsStep(edges, Dfs(edges)[o \ {at}], o, at, visited)
<1>4. ~ Right(edges, path, visited, {at}, t)
  BY <1>2, <1>3, DfsEquation
<1>5. CASE at \notin o
  <2>1. t = [found |-> TRUE, visited |-> visited] /\ at \in path
    BY <1>5 DEF DfsStep
  <2>2. ASSUME LeadsTo(edges, path, at) PROVE Cyclic(edges)
    <3>1. path \in SUBSET Tasks /\ path # {} /\ \A u \in path : edges[u] \cap path # {}
      BY <2>1, <2>2 DEF LeadsTo
    <3> QED
      BY <3>1 DEF Cyclic
  <2> QED
    BY <1>4, <2>1, <2>2 DEF Right, Answer
<1>6. CASE at \in o /\ at \in visited
  <2>1. t = [found |-> FALSE, visited |-> visited] /\ at \in visited \ path
    BY <1>6 DEF DfsStep
  <2> QED
    BY <1>4, <2>1 DEF Right, Answer
<1>7. CASE at \in o /\ at \notin visited
  <2> DEFINE search == Dfs(edges)[o \ {at}]
             path1 == path \cup {at}
             visited1 == visited \cup {at}
             next == edges[at]
  <2>1. t = Visit(search, visited1, next)
    BY <1>7 DEF DfsStep
  <2>2. RightFrom(edges, path1, search)
    <3>1. o \ {at} \in SUBSET Tasks /\ o \ {at} \notin C
      BY <1>1, <1>7
    <3>2. Tasks \ (o \ {at}) = path1
      BY <1>7
    <3> QED
      BY <3>1, <3>2
  <2>3. search \in Searches
    BY <1>2, DfsEquation
  <2>4. /\ path1 \in SUBSET Tasks /\ visited1 \in SUBSET Tasks /\ next \in SUBSET Tasks
        /\ path1 \subseteq visited1 /\ visited1 \ path1 = visited \ path
        /\ at \notin path
    BY <1>3, <1>7
  <2> HIDE DEF t, C, search
  <2>5. Right(edges, path1, visited1, next, t)
    BY <2>1, <2>2, <2>3, <2>4, VisitIsRight
  <2>6. t \in Answer /\ visited \subseteq t.visited /\ at \in t.visited
    BY <2>5 DEF Right
  <2>7. ASSUME t.found, LeadsTo(edges, path, at) PROVE Cyclic(edges)
    <3>1. \A n \in next : LeadsTo(edges, path1, n)
      BY <2>7 DEF LeadsTo
    <3> QED
      BY <2>5, <2>7, <3>1 DEF Right
  <2>8. ASSUME ~ t.found, Explored(edges, visited, path)
        PROVE  Explored(edges, t.visited, path)
    <3>1. Explored(edges, visited1, path1)
      BY <2>4, <2>8 DEF Explored
    <3>2. Explored(edges, t.visited, path1) /\ next \subseteq t.visited \ path1
      BY <2>5, <2>8, <3>1 DEF Right
    <3>3. t.visited \ path = (t.visited \ path1) \cup {at}
      BY <2>4, <2>6
    <3>4. \A u \in t.visited \ path : edges[u] \subseteq t.visited \ path1
      BY <3>2, <3>3 DEF Explored
    <3>5. ASSUME NEW S \in SUBSET (t.visited \ path), S # {}, \A u \in S : edges[u] \cap S # {}
          PROVE  FALSE
      <4> DEFINE R == S \ {at}
      <4>1. \A u \in S : edges[u] \cap R # {}
        BY <3>4, <3>5
      <4>2. R # {} /\ R \in SUBSET (t.visited \ path1)
        BY <3>5, <4>1
      <4> QED
        BY <3>2, <4>1, <4>2 DEF Explored
    <3> QED
      BY <3>3, <3>4, <3>5 DEF Explored
  <2> QED
    BY <1>4, <2>4, <2>6, <2>7, <2>8 DEF Right
<1> QED
  BY <1>5, <1>6, <1>7

\* _has_cycle is exact for every graph: it finds a cycle if and only if there is one, in
\* whatever order it takes the nodes and what they depend on.
THEOREM HasCycleIsExact ==
    ASSUME NEW nodes \in SUBSET Tasks, NEW edges \in [Tasks -> SUBSET nodes]
    PROVE  HasCycle(nodes, edges) <=> Cyclic(edges)
<1>1. edges \in [Tasks -> SUBSET Tasks]
  OBVIOUS
<1> DEFINE t == Visit(Dfs(edges)[Tasks], {}, nodes)
<1>2. Right(edges, {}, {}, nodes, t)
  <2>1. RightFrom(edges, {}, Dfs(edges)[Tasks])
    <3>1. Tasks \in SUBSET Tasks /\ Tasks \ Tasks = {}
      OBVIOUS
    <3>2. RightFrom(edges, Tasks \ Tasks, Dfs(edges)[Tasks])
      BY <1>1, <3>1, DfsIsRight
    <3> QED
      BY <3>1, <3>2
  <2>2. Dfs(edges)[Tasks] \in Searches
    BY <1>1, DfsEquation
  <2>3. {} \in SUBSET Tasks /\ {} \subseteq {}
    OBVIOUS
  <2> QED
    BY <1>1, <2>1, <2>2, <2>3, VisitIsRight
<1>3. HasCycle(nodes, edges) <=> t.found
  BY DEF HasCycle
<1> HIDE DEF t
<1>4. t.found => Cyclic(edges)
  BY <1>2 DEF Right, LeadsTo
<1>5. ASSUME ~ t.found, NEW S \in SUBSET Tasks, S # {}, \A u \in S : edges[u] \cap S # {}
      PROVE  FALSE
  <2>1. Explored(edges, {}, {})
    BY DEF Explored
  <2>2. Explored(edges, t.visited, {}) /\ nodes \subseteq t.visited
    BY <1>2, <1>5, <2>1 DEF Right
  <2> DEFINE R == S \cap nodes
  <2>3. \A u \in S : edges[u] \cap R # {}
    BY <1>5
  <2>4. R # {} /\ R \in SUBSET (t.visited \ {})
    BY <1>5, <2>2, <2>3
  <2> QED
    BY <2>2, <2>3, <2>4 DEF Explored
<1> QED
  BY <1>3, <1>4, <1>5 DEF Cyclic

\* Whatever was committed since a request began, the search it makes when it validates
\* answers exactly whether its edit closes a cycle in the graph as it then is.
THEOREM CycleCheckExactHolds == Spec => []CycleCheckExact
<1>1. Init => IInv
  BY IdleOK DEF Init, IInv, GraphOK, EditsOK
<1>2. IInv => CycleCheckExact
  <2> SUFFICES ASSUME IInv, NEW e \in Editors, edit[e].pc = "validate",
                      edit[e].ask \subseteq live \ {edit[e].task}
               PROVE  HasCycle(live, Overlay(e)) <=> Cyclic(Overlay(e))
    BY DEF CycleCheckExact
  <2>1. live \in SUBSET Tasks /\ Overlay(e) \in [Tasks -> SUBSET live]
    BY DEF IInv, GraphOK, Overlay
  <2> QED
    BY <2>1, HasCycleIsExact
<1> QED
  BY <1>1, <1>2, StepKeepsGraph, PTL DEF Spec

-----------------------------------------------------------------------------
(***************************************************************************)
(* The graph stays acyclic while edits come one at a time.                 *)
(***************************************************************************)
\* No two edits are under way at once.
Alone == \A e, f \in Editors : edit[e].pc # "idle" /\ edit[f].pc # "idle" => e = f

\* What a request knows of a graph that others still extend and prune: its task was
\* there; an edit that was accepted asks for tasks that were there and would close no
\* cycle if it committed now; and the rows it will replace are all among those it saw.
Fits(e) ==
    /\ edit[e].pc # "idle" => edit[e].task \in live \cup gone
    /\ edit[e].pc \in {"clear", "insert"} =>
           edit[e].ask \subseteq live \cup gone /\ ~ Cyclic(Overlay(e))
    /\ edit[e].pc = "insert" => deps[edit[e].task] \subseteq edit[e].cleared

AInv == IInv /\ Acyclic /\ \A e \in Editors : Fits(e)

\* A graph with fewer edges has no new cycle.
LEMMA FewerEdges ==
    ASSUME NEW E, NEW F, \A u \in Tasks : F[u] \subseteq E[u], ~ Cyclic(E)
    PROVE  ~ Cyclic(F)
<1> SUFFICES ASSUME NEW S \in SUBSET Tasks, S # {}, \A u \in S : F[u] \cap S # {}
             PROVE  FALSE
  BY DEF Cyclic
<1>1. \A u \in S : E[u] \cap S # {}
  OBVIOUS
<1> QED
  BY <1>1 DEF Cyclic

\* No cycle goes through a task that no other depends on, whatever it depends on.
LEMMA NewSource ==
    ASSUME NEW E, NEW F, NEW t \in Tasks,
           \A u \in Tasks : t \notin F[u],
           \A u \in Tasks \ {t} : F[u] \subseteq E[u],
           ~ Cyclic(E)
    PROVE  ~ Cyclic(F)
<1> SUFFICES ASSUME NEW S \in SUBSET Tasks, S # {}, \A u \in S : F[u] \cap S # {}
             PROVE  FALSE
  BY DEF Cyclic
<1> DEFINE R == S \ {t}
<1>1. \A u \in S : F[u] \cap R # {}
  OBVIOUS
<1>2. R # {} /\ R \in SUBSET Tasks
  BY <1>1
<1>3. \A u \in R : E[u] \cap R # {}
  BY <1>1
<1> QED
  BY <1>2, <1>3 DEF Cyclic

\* Another task comes or goes and the request goes on: what it knows stays true when the
\* graph loses edges, or gains them only at a task on which nothing depends.
LEMMA OthersKeepFits ==
    ASSUME IInv, NEW e \in Editors, Fits(e), edit' = edit,
           live \cup gone \subseteq live' \cup gone',
           deps' \in [Tasks -> SUBSET Tasks],
           \/ \A u \in Tasks : deps'[u] \subseteq deps[u]
           \/ \E t \in Tasks \ (live \cup gone) :
                  /\ \A u \in Tasks : t \notin deps'[u]
                  /\ \A u \in Tasks \ {t} : deps'[u] = deps[u]
    PROVE  Fits(e)'
<1> DEFINE a == edit[e].task
<1>1. CASE edit[e].pc = "idle"
  BY <1>1 DEF Fits
<1>2. CASE edit[e].pc # "idle"
  <2>1. /\ a \in Tasks /\ a \in live \cup gone
        /\ deps \in [Tasks -> SUBSET live]
    BY <1>2 DEF IInv, GraphOK, EditsOK, Sound, Fits
  <2>2. deps'[a] \subseteq deps[a]
    BY <2>1
  <2>3. ASSUME edit[e].pc \in {"clear", "insert"}
        PROVE  ~ Cyclic(Overlay(e)')
    <3> DEFINE E == [deps EXCEPT ![a] = edit[e].ask]
               F == [deps' EXCEPT ![a] = edit[e].ask]
    <3>1. ~ Cyclic(E) /\ edit[e].ask \subseteq live \cup gone
      BY <2>3 DEF Fits, Overlay
    <3>2. /\ \A u \in Tasks : E[u] = IF u = a THEN edit[e].ask ELSE deps[u]
          /\ \A u \in Tasks : F[u] = IF u = a THEN edit[e].ask ELSE deps'[u]
      BY <2>1
    <3>3. Overlay(e)' = F
      BY DEF Overlay
    <3> HIDE DEF E, F, a
    <3>4. CASE \A u \in Tasks : deps'[u] \subseteq deps[u]
      <4>1. \A u \in Tasks : F[u] \subseteq E[u]
        BY <3>2, <3>4
      <4> QED
        BY <3>1, <3>3, <4>1, FewerEdges
    <3>5. CASE \E t \in Tasks \ (live \cup gone) :
                  /\ \A u \in Tasks : t \notin deps'[u]
                  /\ \A u \in Tasks \ {t} : deps'[u] = deps[u]
      <4>1. PICK t \in Tasks \ (live \cup gone) :
                  /\ \A u \in Tasks : t \notin deps'[u]
                  /\ \A u \in Tasks \ {t} : deps'[u] = deps[u]
        BY <3>5
      <4>2. \A u \in Tasks : t \notin F[u]
        BY <3>1, <3>2, <4>1
      <4>3. \A u \in Tasks \ {t} : F[u] \subseteq E[u]
        BY <3>2, <4>1
      <4> QED
        BY <3>1, <3>3, <4>2, <4>3, NewSource
    <3> QED
      BY <3>4, <3>5
  <2> QED
    BY <2>1, <2>2, <2>3 DEF Fits
<1> QED
  BY <1>1, <1>2

\* A step of one request that leaves the graph alone is none of the others' business.
LEMMA OwnStep ==
    ASSUME IInv, NEW e \in Editors, \A f \in Editors : Fits(f),
           UNCHANGED <<live, gone, deps>>,
           NEW r, edit' = [edit EXCEPT ![e] = r],
           Fits(e)'
    PROVE  \A f \in Editors : Fits(f)'
<1> SUFFICES ASSUME NEW f \in Editors, f # e PROVE Fits(f)'
  OBVIOUS
<1>1. edit'[f] = edit[f]
  BY DEF IInv, EditsOK
<1>2. Overlay(f)' = Overlay(f)
  BY <1>1 DEF Overlay
<1> QED
  BY <1>1, <1>2 DEF Fits

\* With one edit at a time no step closes a cycle.
LEMMA StepClosesNoCycle ==
    ASSUME AInv, Alone, [Next]_vars
    PROVE  AInv'
<1>a. IInv /\ IInv' /\ Acyclic /\ \A e \in Editors : Fits(e)
  BY StepKeepsGraph DEF AInv
<1>b. GraphOK /\ edit \in [Editors -> EditState] /\ \A e \in Editors : Sound(edit[e])
  BY <1>a DEF IInv, EditsOK
<1>c. GraphOK' /\ deps' \in [Tasks -> SUBSET Tasks]
  BY <1>a DEF IInv, GraphOK
<1>d. UNCHANGED deps => Acyclic'
  BY <1>a DEF Acyclic
<1>1. ASSUME NEW t \in Tasks, NEW ds \in SUBSET live, CreateTask(t, ds) PROVE AInv'
  <2>1. /\ t \in Tasks \ (live \cup gone) /\ live \cup gone \subseteq live' \cup gone'
        /\ \A u \in Tasks : t \notin deps'[u]
        /\ \A u \in Tasks \ {t} : deps'[u] = deps[u]
    BY <1>1, <1>b DEF CreateTask, GraphOK
  <2>2. Acyclic'
    <3>1. \A u \in Tasks \ {t} : deps'[u] \subseteq deps[u]
      BY <2>1
    <3> QED
      BY <1>a, <2>1, <3>1, NewSource DEF Acyclic
  <2>3. \A e \in Editors : Fits(e)'
    BY <1>1, <1>a, <1>c, <2>1, OthersKeepFits DEF CreateTask
  <2> QED
    BY <1>a, <2>2, <2>3 DEF AInv
<1>2. ASSUME NEW e \in Editors, NEW t \in Tasks, NEW ds \in SUBSET Tasks, Begin(e, t, ds)
      PROVE  AInv'
  <2> DEFINE r == [Idle EXCEPT !.pc = "validate", !.task = t, !.ask = ds]
  <2>1. r.pc = "validate" /\ r.task = t
    BY DEF Idle
  <2>2. t \in live /\ UNCHANGED <<live, gone, deps>> /\ edit' = [edit EXCEPT ![e] = r]
    BY <1>2 DEF Begin
  <2> HIDE DEF r
  <2>3. edit'[e] = r
    BY <2>2, <1>b
  <2>4. Fits(e)'
    BY <2>1, <2>2, <2>3 DEF Fits
  <2>5. \A f \in Editors : Fits(f)'
    BY <1>a, <2>2, <2>4, OwnStep
  <2> QED
    BY <1>a, <1>d, <2>2, <2>5 DEF AInv
<1>3. ASSUME NEW e \in Editors, Validate(e) PROVE AInv'
  <2> DEFINE r == IF Accepted(e) THEN [edit[e] EXCEPT !.pc = "clear"] ELSE Idle
  <2>1. /\ edit[e] \in EditState /\ edit[e].pc = "validate"
        /\ edit[e].task \in Tasks /\ edit[e].task \in live \cup gone
    BY <1>3, <1>a, <1>b DEF Validate, Sound, Fits
  <2>2. UNCHANGED <<live, gone, deps>> /\ edit' = [edit EXCEPT ![e] = r]
    BY <1>3 DEF Validate
  <2>3. ASSUME Accepted(e) PROVE edit[e].ask \subseteq live /\ ~ Cyclic(Overlay(e))
    <3>1. CASE edit[e].ask = {}
      <4>1. \A u \in Tasks : Overlay(e)[u] \subseteq deps[u]
        BY <1>b, <2>1, <3>1 DEF Overlay, GraphOK
      <4> QED
        BY <1>a, <3>1, <4>1, FewerEdges DEF Acyclic
    <3>2. CASE edit[e].ask # {}
      <4>1. edit[e].ask \subseteq live /\ ~ HasCycle(live, Overlay(e))
        BY <2>3, <3>2 DEF Accepted
      <4>2. live \in SUBSET Tasks /\ Overlay(e) \in [Tasks -> SUBSET live]
        BY <1>b, <2>1, <4>1 DEF Overlay, GraphOK
      <4> QED
        BY <4>1, <4>2, HasCycleIsExact
    <3> QED
      BY <3>1, <3>2
  <2>4. Fits(e)'
    <3>1. edit'[e] = r
      BY <2>2, <1>b
    <3>2. CASE Accepted(e)
      <4>1. /\ edit'[e].pc = "clear" /\ edit'[e].task = edit[e].task
            /\ edit'[e].ask = edit[e].ask
        BY <2>1, <3>1, <3>2 DEF EditState
      <4>2. Overlay(e)' = Overlay(e)
        BY <2>2, <4>1 DEF Overlay
      <4> QED
        BY <2>1, <2>2, <2>3, <3>2, <4>1, <4>2 DEF Fits
    <3>3. CASE ~ Accepted(e)
      BY <3>1, <3>3 DEF Fits, Idle
    <3> QED
      BY <3>2, <3>3
  <2> HIDE DEF r
  <2>5. \A f \in Editors : Fits(f)'
    BY <1>a, <2>2, <2>4, OwnStep
  <2> QED
    BY <1>a, <1>d, <2>2, <2>5 DEF AInv
<1>4. ASSUME NEW e \in Editors, Clear(e) PROVE AInv'
  <2> DEFINE r == [edit[e] EXCEPT !.pc = "insert", !.cleared = deps[edit[e].task]]
  <2>1. edit[e] \in EditState /\ edit[e].pc = "clear"
    BY <1>4, <1>b DEF Clear
  <2>2. UNCHANGED <<live, gone, deps>> /\ edit' = [edit EXCEPT ![e] = r]
    BY <1>4 DEF Clear
  <2>3. /\ r.pc = "insert" /\ r.task = edit[e].task /\ r.ask = edit[e].ask
        /\ r.cleared = deps[edit[e].task]
    BY <2>1 DEF EditState
  <2> HIDE DEF r
  <2>4. edit'[e] = r
    BY <2>2, <1>b
  <2>5. Overlay(e)' = Overlay(e)
    BY <2>2, <2>3, <2>4 DEF Overlay
  <2>6. Fits(e)'
    BY <1>a, <2>1, <2>2, <2>3, <2>4, <2>5 DEF Fits
  <2>7. \A f \in Editors : Fits(f)'
    BY <1>a, <2>2, <2>6, OwnStep
  <2> QED
    BY <1>a, <1>d, <2>2, <2>7 DEF AInv
<1>5. ASSUME NEW e \in Editors, Insert(e) PROVE AInv'
  <2>1. edit[e].pc = "insert" /\ edit' = [edit EXCEPT ![e] = Idle]
    BY <1>5 DEF Insert
  <2>2. Kept(e) = {}
    BY <1>a, <2>1 DEF Kept, Fits
  <2>3. deps' = Overlay(e)
    BY <1>5, <2>2 DEF Insert, Overlay
  <2>4. Acyclic'
    BY <1>a, <2>1, <2>3 DEF Acyclic, Fits
  <2>5. \A f \in Editors : edit'[f].pc = "idle"
    BY <1>b, <2>1, IdleOK DEF Alone
  <2> QED
    BY <1>a, <2>4, <2>5 DEF AInv, Fits
<1>6. ASSUME NEW e \in Editors, Abort(e) PROVE AInv'
  <2>1. UNCHANGED <<live, gone, deps>> /\ edit' = [edit EXCEPT ![e] = Idle]
    BY <1>6 DEF Abort
  <2>2. edit'[e].pc = "idle"
    BY <1>b, <2>1, IdleOK
  <2>3. \A f \in Editors : Fits(f)'
    <3>1. Fits(e)'
      BY <2>2 DEF Fits
    <3> QED
      BY <1>a, <2>1, <3>1, OwnStep
  <2> QED
    BY <1>a, <1>d, <2>1, <2>3 DEF AInv
<1>7. ASSUME NEW t \in Tasks, DeleteTask(t) PROVE AInv'
  <2>1. /\ live \cup gone \subseteq live' \cup gone' /\ edit' = edit
        /\ \A u \in Tasks : deps'[u] \subseteq deps[u]
    BY <1>7 DEF DeleteTask, Detached
  <2>2. Acyclic'
    BY <1>a, <2>1, FewerEdges DEF Acyclic
  <2>3. \A e \in Editors : Fits(e)'
    BY <1>a, <1>c, <2>1, OthersKeepFits
  <2> QED
    BY <1>a, <2>2, <2>3 DEF AInv
<1>8. CASE UNCHANGED vars
  <2>1. UNCHANGED <<live, gone, deps, edit>>
    BY <1>8 DEF vars
  <2>2. \A e \in Editors : Fits(e)'
    BY <1>a, <2>1 DEF Fits, Overlay
  <2> QED
    BY <1>a, <1>d, <2>1, <2>2 DEF AInv
<1> QED
  BY <1>1, <1>2, <1>3, <1>4, <1>5, <1>6, <1>7, <1>8 DEF Next

\* If no two edits overlap, then creations, deletions, accepted edits, refused ones and
\* interrupted ones never close a cycle, although an edit commits after others have
\* changed the graph that it validated.
THEOREM AcyclicHolds == Spec /\ []Alone => []Acyclic
<1>1. Init => AInv
  <2> SUFFICES ASSUME Init PROVE AInv
    OBVIOUS
  <2>1. IInv
    BY IdleOK DEF Init, IInv, GraphOK, EditsOK
  <2>2. Acyclic
    BY DEF Init, Acyclic, Cyclic
  <2>3. \A e \in Editors : Fits(e)
    BY IdleOK DEF Init, Fits
  <2> QED
    BY <2>1, <2>2, <2>3 DEF AInv
<1>2. AInv => Acyclic
  BY DEF AInv
<1>3. AInv /\ Alone /\ [Next]_vars => AInv'
  BY StepClosesNoCycle
<1> QED
  BY <1>1, <1>2, <1>3, PTL DEF Spec
=============================================================================
