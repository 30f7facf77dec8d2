--------------------------- MODULE ApprovalsProofs --------------------------
(***************************************************************************)
(* Proofs about Approvals for every set of tasks, approvals, boards and    *)
(* concurrent requests.                                                    *)
(***************************************************************************)
EXTENDS Approvals, TLAPS

USE ApprovalsAssumption DEF locks

\* The part of TypeOK about the local state of approval requests and deletions.
WrOK == /\ wr \in [Writers -> WriterState]
        /\ \A w \in Writers : wr[w].pc # "idle" => wr[w].approval # None
DelOK == /\ del \in [Deleters -> DeleterState]
         /\ \A d \in Deleters : del[d].pc # "idle" => del[d].task # None

\* A request's new local state keeps WrOK if it is well formed itself.
LEMMA WriterStep ==
    ASSUME WrOK, NEW w \in Writers, NEW r \in WriterState,
           r.pc # "idle" => r.approval # None, wr' = [wr EXCEPT ![w] = r]
    PROVE  WrOK'
BY DEF WrOK

\* The same for a task deletion.
LEMMA DeleterStep ==
    ASSUME DelOK, NEW d \in Deleters, NEW r \in DeleterState,
           r.pc # "idle" => r.task # None, del' = [del EXCEPT ![d] = r]
    PROVE  DelOK'
BY DEF DelOK

\* Every step leaves the variables in their types.
THEOREM TypeCorrect == Spec => []TypeOK
<1>1. Init => TypeOK
  BY DEF Init, TypeOK, IdleWriter, IdleDeleter, Rows, WriterState, DeleterState
<1>2. TypeOK /\ [Next]_vars => TypeOK'
  <2> SUFFICES ASSUME TypeOK, [Next]_vars PROVE TypeOK'
    OBVIOUS
  <2> USE DEF TypeOK, Rows, Statuses
  <2>a. IdleWriter \in WriterState /\ IdleWriter.pc = "idle"
    BY DEF IdleWriter, WriterState
  <2>b. IdleDeleter \in DeleterState /\ IdleDeleter.pc = "idle"
    BY DEF IdleDeleter, DeleterState
  <2>c. \A w \in Writers : Released(w) \in [Tasks -> Writers \cup {None}]
    BY DEF Released
  <2>d. \A w \in Writers : wr[w].pc # "idle" => wr[w].approval \in Approvals
    BY DEF WriterState
  <2>e. WrOK /\ DelOK
    BY DEF WrOK, DelOK
  <2>f. ASSUME WrOK', DelOK', live' \subseteq Tasks, status' \in [Approvals -> Rows],
               links' \in [Approvals -> SUBSET Tasks],
               primary' \in [Approvals -> Tasks \cup {None}],
               holder' \in [Tasks -> Writers \cup {None}],
               shared' \in [Tasks -> SUBSET Writers],
               owed' \in [Approvals -> Writers \cup {None, "lost"}]
        PROVE  TypeOK'
    BY <2>f DEF WrOK, DelOK
  <2>k. \A w \in Writers : [t \in Tasks |-> shared[t] \ {w}] \in [Tasks -> SUBSET Writers]
    OBVIOUS
  <2>g. ASSUME UNCHANGED del PROVE DelOK'
    BY <2>g, <2>e DEF DelOK
  <2>h. ASSUME UNCHANGED wr PROVE WrOK'
    BY <2>h, <2>e DEF WrOK
  <2>i. \A w \in Writers : wr' = [wr EXCEPT ![w] = IdleWriter] => WrOK'
    BY <2>a, <2>e, WriterStep
  <2>j. \A d \in Deleters : del' = [del EXCEPT ![d] = IdleDeleter] => DelOK'
    BY <2>b, <2>e, DeleterStep
  <2>1. ASSUME NEW w \in Writers, NEW a \in Approvals, NEW s \in Statuses,
               NEW ts \in SUBSET Tasks, StartCreate(w, a, ts, s)
        PROVE  TypeOK'
    <3> DEFINE r == [pc |-> IF s = "pending" /\ ts # {} THEN "lock" ELSE "write",
                     approval |-> a, target |-> s, prior |-> "unborn", tasks |-> ts]
    <3>1. r \in WriterState /\ r.approval # None
      BY DEF WriterState
    <3>2. wr' = [wr EXCEPT ![w] = r]
      BY <2>1 DEF StartCreate
    <3> HIDE DEF r
    <3>3. WrOK'
      BY <2>e, <3>1, <3>2, WriterStep
    <3> QED
      BY <2>1, <2>f, <2>g, <3>3 DEF StartCreate
  <2>2. ASSUME NEW w \in Writers, NEW a \in Approvals, NEW s \in Statuses,
               StartUpdate(w, a, s)
        PROVE  TypeOK'
    <3> DEFINE r == [pc |-> IF s = "pending" /\ status[a] # "pending" THEN "loaded" ELSE "write",
                     approval |-> a, target |-> s, prior |-> status[a], tasks |-> {}]
    <3>1. r \in WriterState /\ r.approval # None
      BY DEF WriterState
    <3>2. wr' = [wr EXCEPT ![w] = r]
      BY <2>2 DEF StartUpdate
    <3> HIDE DEF r
    <3>3. WrOK'
      BY <2>e, <3>1, <3>2, WriterStep
    <3> QED
      BY <2>2, <2>f, <2>g, <3>3 DEF StartUpdate
  <2>3. ASSUME NEW w \in Writers, LoadTasks(w) PROVE TypeOK'
    <3> DEFINE ts == TasksOf(wr[w].approval)
               r  == [wr[w] EXCEPT !.tasks = ts, !.pc = IF ts = {} THEN "write" ELSE "lock"]
    <3>1. wr[w] \in WriterState /\ wr[w].pc = "loaded"
      BY <2>3 DEF LoadTasks
    <3>2. ts \in SUBSET Tasks
      BY <3>1, <2>d DEF TasksOf
    <3>3. wr' = [wr EXCEPT ![w] = r]
      BY <2>3, <3>1 DEF LoadTasks
    <3> HIDE DEF ts
    <3>4. r \in WriterState /\ r.approval # None
      BY <3>1, <3>2 DEF WriterState
    <3> HIDE DEF r
    <3>5. WrOK'
      BY <2>e, <3>3, <3>4, WriterStep
    <3> QED
      BY <2>3, <2>f, <2>g, <3>5 DEF LoadTasks
  <2>4. ASSUME NEW w \in Writers, LockNext(w) PROVE TypeOK'
    BY <2>4, <2>f, <2>g, <2>h DEF LockNext
  <2>5. ASSUME NEW w \in Writers, CheckConflicts(w) PROVE TypeOK'
    <3>1. CASE Conflict(w)
      BY <2>5, <3>1, <2>c, <2>f, <2>g, <2>i, <2>k DEF CheckConflicts, Finish
    <3>2. CASE ~Conflict(w)
      <4>1. [wr[w] EXCEPT !.pc = "write"] \in WriterState
        BY DEF WriterState
      <4>2. wr' = [wr EXCEPT ![w] = [wr[w] EXCEPT !.pc = "write"]]
        BY <2>5, <3>2 DEF CheckConflicts
      <4>3. [wr[w] EXCEPT !.pc = "write"].approval # None
        BY <2>5 DEF CheckConflicts, WriterState
      <4>4. WrOK'
        BY <2>e, <4>1, <4>2, <4>3, WriterStep
      <4> QED
        BY <2>5, <3>2, <4>4, <2>f, <2>g DEF CheckConflicts
    <3> QED
      BY <3>1, <3>2
  <2>6. ASSUME NEW w \in Writers, Insert(w) PROVE TypeOK'
    <3>1. wr[w].target \in Rows /\ wr[w].tasks \in SUBSET Tasks
      BY DEF WriterState
    <3>2. WrOK' /\ DelOK' /\ holder' \in [Tasks -> Writers \cup {None}]
      BY <2>6, <2>c, <2>g, <2>i DEF Insert, Finish
    <3>3. shared' \in [Tasks -> SUBSET Writers]
      BY <2>6, <2>k DEF Insert, Finish
    <3>4. /\ status' = [status EXCEPT ![wr[w].approval] = wr[w].target]
          /\ links' = [links EXCEPT ![wr[w].approval] = wr[w].tasks]
          /\ \E p \in Tasks \cup {None} :
                primary' = [primary EXCEPT ![wr[w].approval] = p]
          /\ UNCHANGED <<live, owed>>
      BY <2>6 DEF Insert
    <3>5. /\ status' \in [Approvals -> Rows]
          /\ links' \in [Approvals -> SUBSET Tasks]
      BY <3>1, <3>4
    <3>7. primary' \in [Approvals -> Tasks \cup {None}]
      BY <3>4
    <3>6. live' \subseteq Tasks /\ owed' \in [Approvals -> Writers \cup {None, "lost"}]
      BY <3>4
    <3> QED
      BY <2>f, <3>2, <3>3, <3>5, <3>6, <3>7
  <2>16. ASSUME NEW w \in Writers, KeyShareNext(w) PROVE TypeOK'
    <3>1. PICK t \in Tasks :
            IF t \in live
            THEN shared' = [shared EXCEPT ![t] = @ \cup {w}] /\ UNCHANGED <<holder, wr>>
            ELSE Finish(w)
      BY <2>16 DEF KeyShareNext, Lacking, WriterState
    <3>2. CASE t \in live
      BY <2>16, <3>1, <3>2, <2>f, <2>g, <2>h DEF KeyShareNext
    <3>3. CASE t \notin live
      BY <2>16, <3>1, <3>3, <2>c, <2>f, <2>g, <2>i, <2>k DEF KeyShareNext, Finish
    <3> QED
      BY <3>2, <3>3
  <2>7. ASSUME NEW w \in Writers, Save(w) PROVE TypeOK'
    <3> DEFINE r == [wr[w] EXCEPT !.pc = "refresh", !.tasks = {}, !.target = "unborn"]
    <3>1. r \in WriterState /\ (wr[w].pc # "idle" => r.approval # None)
      <4>1. wr[w] \in WriterState
        OBVIOUS
      <4>2. r \in WriterState /\ r.approval = wr[w].approval
        BY <4>1 DEF WriterState
      <4> QED
        BY <4>2
    <3>2. wr' = [wr EXCEPT ![w] = IF Exists(wr[w].approval) THEN r ELSE IdleWriter]
      BY <2>7 DEF Save
    <3>3. WrOK'
      <4>1. CASE Exists(wr[w].approval)
        <5>1. wr' = [wr EXCEPT ![w] = r] /\ wr[w].pc = "write"
          BY <2>7, <3>2, <4>1 DEF Save
        <5> HIDE DEF r
        <5> QED
          BY <2>e, <3>1, <5>1, WriterStep
      <4>2. CASE ~Exists(wr[w].approval)
        BY <3>2, <4>2, <2>i
      <4> QED
        BY <4>1, <4>2
    <3>4. wr[w].target \in Rows
      BY DEF WriterState
    <3>5. status' \in [Approvals -> Rows]
      BY <2>7, <3>4 DEF Save
    <3>6. owed' \in [Approvals -> Writers \cup {None, "lost"}]
      BY <2>7 DEF Save
    <3> QED
      BY <2>7, <3>3, <3>5, <3>6, <2>c, <2>f, <2>g DEF Save
  <2>8. ASSUME NEW w \in Writers, Refresh(w) PROVE TypeOK'
    <3>1. CASE Reportable(w)
      <4> DEFINE r == [wr[w] EXCEPT !.pc = "send", !.target = status[wr[w].approval]]
      <4>1. r \in WriterState /\ r.approval # None
        <5>1. /\ wr[w] \in WriterState /\ wr[w].approval \in Approvals
              /\ wr[w].approval # None /\ status[wr[w].approval] \in Rows
          BY <2>8, <2>d DEF Refresh
        <5>2. r \in WriterState /\ r.approval = wr[w].approval
          BY <5>1 DEF WriterState
        <5> QED
          BY <5>1, <5>2
      <4>2. wr' = [wr EXCEPT ![w] = r]
        BY <2>8, <3>1 DEF Refresh
      <4> HIDE DEF r
      <4>3. WrOK'
        BY <2>e, <4>1, <4>2, WriterStep
      <4> QED
        BY <2>8, <4>3, <2>f, <2>g DEF Refresh
    <3>2. CASE ~Reportable(w)
      BY <2>8, <3>2, <2>f, <2>g, <2>i DEF Refresh
    <3> QED
      BY <3>1, <3>2
  <2>9. ASSUME NEW w \in Writers, Notify(w) PROVE TypeOK'
    <3>1. owed' \in [Approvals -> Writers \cup {None, "lost"}]
      BY <2>9 DEF Notify
    <3> QED
      BY <2>9, <3>1, <2>f, <2>g, <2>i DEF Notify
  <2>10. ASSUME NEW w \in Writers, Abort(w) PROVE TypeOK'
    <3>1. owed' \in [Approvals -> Writers \cup {None, "lost"}]
      BY <2>10 DEF Abort
    <3> QED
      BY <2>10, <3>1, <2>c, <2>f, <2>g, <2>i, <2>k DEF Abort, Finish
  <2>11. ASSUME NEW d \in Deleters, NEW t \in Tasks, StartDelete(d, t) PROVE TypeOK'
    <3> DEFINE r == [IdleDeleter EXCEPT !.pc = "unlink", !.task = t,
                       !.primaries = {a \in Approvals : Exists(a) /\ primary[a] = t}]
    <3>1. r \in DeleterState /\ r.task # None
      BY DEF DeleterState, IdleDeleter
    <3>2. del' = [del EXCEPT ![d] = r]
      BY <2>11 DEF StartDelete
    <3> HIDE DEF r
    <3>3. DelOK'
      BY <2>e, <3>1, <3>2, DeleterStep
    <3> QED
      BY <2>11, <3>3, <2>f, <2>h DEF StartDelete
  <2>12. ASSUME NEW d \in Deleters, Unlink(d) PROVE TypeOK'
    <3>1. PICK h \in [Approvals -> Tasks \cup {None}] :
            del' = [del EXCEPT ![d].pc = "finish", ![d].heir = h,
                               ![d].cut = {a \in Approvals : del[d].task \in links[a]}]
      BY <2>12 DEF Unlink
    <3> DEFINE r == [del[d] EXCEPT !.pc = "finish", !.heir = h,
                                   !.cut = {a \in Approvals : del[d].task \in links[a]}]
    <3>2. r \in DeleterState /\ r.task # None
      <4>1. del[d] \in DeleterState /\ del[d].task # None
        BY <2>12 DEF Unlink
      <4>2. r \in DeleterState /\ r.task = del[d].task
        BY <4>1 DEF DeleterState
      <4> QED
        BY <4>1, <4>2
    <3>3. del' = [del EXCEPT ![d] = r]
      BY <3>1
    <3> HIDE DEF r
    <3>4. DelOK'
      BY <2>e, <3>2, <3>3, DeleterStep
    <3> QED
      BY <2>12, <3>4, <2>f, <2>h DEF Unlink
  <2>13. ASSUME NEW d \in Deleters, FinishDelete(d) PROVE TypeOK'
    <3>1. DelOK' /\ WrOK'
      BY <2>13, <2>h, <2>j DEF FinishDelete
    <3>2. del[d].heir \in [Approvals -> Tasks \cup {None}]
      BY DEF DeleterState
    <3>3. /\ live' \subseteq Tasks /\ status' \in [Approvals -> Rows]
          /\ links' \in [Approvals -> SUBSET Tasks]
          /\ owed' \in [Approvals -> Writers \cup {None, "lost"}]
      <4>1. CASE Deletable(d)
        <5>1. live' = live \ {del[d].task}
          BY <2>13, <4>1 DEF FinishDelete
        <5>2. links' = [a \in Approvals |-> links[a] \ {del[d].task}]
          BY <2>13, <4>1 DEF FinishDelete
        <5>3. status' = [a \in Approvals |->
                           IF a \in Orphaned(d) THEN "deleted" ELSE status[a]]
          BY <2>13, <4>1 DEF FinishDelete
        <5>4. owed' = [a \in Approvals |-> IF a \in Orphaned(d) THEN None ELSE owed[a]]
          BY <2>13, <4>1 DEF FinishDelete
        <5> QED
          BY <5>1, <5>2, <5>3, <5>4
      <4>2. CASE ~Deletable(d)
        BY <2>13, <4>2 DEF FinishDelete
      <4> QED
        BY <4>1, <4>2
    <3>4. primary' \in [Approvals -> Tasks \cup {None}]
      BY <2>13, <3>2 DEF FinishDelete
    <3>5. UNCHANGED <<holder, shared>>
      BY <2>13 DEF FinishDelete
    <3> QED
      BY <3>1, <3>3, <3>4, <3>5, <2>f
  <2>14. ASSUME NEW d \in Deleters, AbortDelete(d) PROVE TypeOK'
    BY <2>14, <2>f, <2>h, <2>j DEF AbortDelete
  <2>15. CASE UNCHANGED vars
    BY <2>15 DEF vars
  <2> QED
    BY <2>1, <2>2, <2>3, <2>4, <2>5, <2>6, <2>7, <2>8, <2>9, <2>10, <2>11, <2>12,
       <2>13, <2>14, <2>15, <2>16 DEF Next
<1> QED
  BY <1>1, <1>2, PTL DEF Spec

\* Steps that leave the tables alone keep what is said about tables only.
LEMMA TablesUnchanged ==
    ASSUME OnePending, PrimaryLinked, UNCHANGED <<live, status, links, primary>>
    PROVE  OnePending' /\ PrimaryLinked' /\ (\A a \in Approvals : TasksOf(a)' = TasksOf(a))
BY DEF OnePending, PrimaryLinked, TasksOf

\* Under PrimaryLinked an approval counts exactly against its linked tasks.
LEMMA TasksAreLinks ==
    ASSUME PrimaryLinked, NEW a \in Approvals
    PROVE  TasksOf(a) = links[a] /\ TasksOf(a) \subseteq live
BY DEF PrimaryLinked, TasksOf

\* What IInv says of the local state r of writer w, while the tables and the locks
\* stay as they are.
RequestOK(w, r) ==
    /\ r.pc # "idle"
    /\ r.approval \in Approvals
    /\ r.pc \in {"loaded", "lock", "write"} => r.target \in Statuses
    /\ \A t \in Tasks : holder[t] = w => r.pc \in {"lock", "write"} /\ t \in r.tasks
    /\ IF r.prior = "unborn"
       THEN /\ status[r.approval] = "unborn"
            /\ \A v \in Writers \ {w} : wr[v].pc # "idle" => wr[v].approval # r.approval
       ELSE status[r.approval] # "unborn"
    /\ r.pc \in {"lock", "write"} /\ r.target = "pending" /\ r.prior \notin {"pending", "unborn"}
         => TasksOf(r.approval) \subseteq r.tasks
    /\ r.pc = "write" /\ r.target = "pending" /\ r.prior # "pending" =>
         \A t \in r.tasks \cap live :
            /\ holder[t] = w
            /\ \A a \in Approvals \ {r.approval} :
                BoardOf[a] = BoardOf[r.approval] /\ status[a] = "pending" => t \notin TasksOf(a)

\* Steps of a writer that touch nothing but its own local state.
LEMMA LocalStep ==
    ASSUME TypeOK, IInv, NEW w \in Writers, NEW r \in WriterState, wr' = [wr EXCEPT ![w] = r],
           UNCHANGED <<live, status, links, primary, holder, del>>,
           RequestOK(w, r)
    PROVE  IInv'
<1> USE DEF IInv, RequestOK
<1>1. OnePending' /\ PrimaryLinked' /\ (\A a \in Approvals : TasksOf(a)' = TasksOf(a))
  BY TablesUnchanged
<1>2. \A v \in Writers : wr'[v] = IF v = w THEN r ELSE wr[v]
  BY DEF TypeOK
<1>3. LockDiscipline'
  BY <1>2 DEF LockDiscipline
<1>4. RowOfRequest'
  BY <1>2 DEF RowOfRequest
<1>5. Covered'
  <2> SUFFICES ASSUME NEW v \in Writers, wr'[v].pc \in {"lock", "write"}, Guarded(v)',
                      wr'[v].prior # "unborn"
               PROVE  TasksOf(wr[v].approval)' \subseteq wr'[v].tasks
    BY DEF Covered
  <2>1. wr'[v].approval \in Approvals
    BY <1>2 DEF TypeOK, WriterState
  <2> QED
    BY <1>1, <1>2, <2>1 DEF Covered, Guarded, TasksOf
<1>6. Checked'
  BY <1>1, <1>2 DEF Checked, Guarded
<1>7. HeirLinked'
  BY DEF HeirLinked
<1> QED
  BY <1>1, <1>3, <1>4, <1>5, <1>6, <1>7

\* Steps after which a writer is idle or only reports, and holds no lock.
LEMMA EndStep ==
    ASSUME TypeOK, IInv, NEW w \in Writers, NEW r \in WriterState, wr' = [wr EXCEPT ![w] = r],
           r.pc \in {"idle", "refresh", "send"},
           r.pc # "idle" => /\ r.approval = wr[w].approval
                            /\ r.prior = wr[w].prior
                            /\ wr[w].pc # "idle",
           \A t \in Tasks : holder'[t] = IF holder[t] = w THEN None ELSE holder[t],
           UNCHANGED <<live, status, links, primary, del>>
    PROVE  IInv'
<1> USE DEF IInv
<1>1. OnePending' /\ PrimaryLinked' /\ (\A a \in Approvals : TasksOf(a)' = TasksOf(a))
  BY TablesUnchanged
<1>2. \A v \in Writers : wr'[v] = IF v = w THEN r ELSE wr[v]
  BY DEF TypeOK
<1>3. LockDiscipline'
  BY <1>2 DEF LockDiscipline
<1>4. RowOfRequest'
  BY <1>2 DEF RowOfRequest
<1>5. Covered'
  <2> SUFFICES ASSUME NEW v \in Writers, wr'[v].pc \in {"lock", "write"}, Guarded(v)',
                      wr'[v].prior # "unborn"
               PROVE  TasksOf(wr[v].approval)' \subseteq wr'[v].tasks
    BY DEF Covered
  <2>1. v # w /\ wr[v].approval \in Approvals
    BY <1>2 DEF TypeOK, WriterState
  <2> QED
    BY <1>1, <1>2, <2>1 DEF Covered, Guarded, TasksOf
<1>6. Checked'
  <2> SUFFICES ASSUME NEW v \in Writers, wr'[v].pc = "write", Guarded(v)',
                      NEW t \in wr'[v].tasks \cap live
               PROVE  /\ holder'[t] = v
                      /\ \A b \in Approvals \ {wr'[v].approval} :
                          BoardOf[b] = BoardOf[wr'[v].approval] /\ status[b] = "pending"
                              => t \notin TasksOf(b)'
    BY DEF Checked
  <2>1. v # w /\ wr'[v] = wr[v] /\ t \in Tasks
    BY <1>2 DEF TypeOK
  <2> QED
    BY <1>1, <2>1 DEF Checked, Guarded
<1>7. HeirLinked'
  BY DEF HeirLinked
<1> QED
  BY <1>1, <1>3, <1>4, <1>5, <1>6, <1>7

\* Writer w ends its transaction by writing status s to the row of approval a, and
\* goes on with the local state r.
Writes(w, a, s, r) ==
    /\ wr[w].pc = "write" /\ a = wr[w].approval
    /\ s = "pending" => Guarded(w)
    /\ status' = [status EXCEPT ![a] = s]
    /\ wr' = [wr EXCEPT ![w] = r]
    /\ r.pc \in {"idle", "refresh"}
    /\ r.pc = "refresh" => r.approval = a /\ r.prior = wr[w].prior /\ r.prior # "unborn"
    /\ \A t \in Tasks : holder'[t] = IF holder[t] = w THEN None ELSE holder[t]
    /\ UNCHANGED <<live, del>>
    /\ \A b \in Approvals \ {a} : links'[b] = links[b] /\ primary'[b] = primary[b]
    /\ links'[a] \subseteq wr[w].tasks \/ s # "pending"
    /\ links'[a] = links[a] \/ status[a] = "unborn"

\* The heart of the argument: a row becomes pending, or is rewritten, by a request
\* that holds the locks of all its tasks, so no other request can be between its
\* own check and its own commit on one of them.
LEMMA WriteRow ==
    ASSUME TypeOK, IInv, PrimaryLinked', NEW w \in Writers, NEW a \in Approvals,
           NEW s \in Statuses, NEW r \in WriterState, Writes(w, a, s, r)
    PROVE  IInv'
<1> USE DEF IInv, Writes
<1>1. \A v \in Writers : wr'[v] = IF v = w THEN r ELSE wr[v]
  BY DEF TypeOK
<1>2. \A b \in Approvals \ {a} : TasksOf(b)' = TasksOf(b) /\ status'[b] = status[b]
  BY DEF TasksOf, TypeOK
<1>3. status'[a] = s
  BY DEF TypeOK
<1>4. TasksOf(a)' = links'[a] /\ TasksOf(a)' \subseteq live
  BY TasksAreLinks DEF TasksOf, PrimaryLinked
<1>5. s = "pending" =>
        \A t \in TasksOf(a)' :
            /\ holder[t] = w
            /\ \A b \in Approvals \ {a} :
                BoardOf[b] = BoardOf[a] /\ status[b] = "pending" => t \notin TasksOf(b)
  BY <1>4 DEF Checked, TypeOK
<1>6. OnePending'
  <2> SUFFICES ASSUME NEW b \in Approvals, NEW c \in Approvals, b # c,
                      BoardOf[b] = BoardOf[c], status'[b] = "pending", status'[c] = "pending"
               PROVE  TasksOf(b)' \cap TasksOf(c)' = {}
    BY DEF OnePending
  <2>1. CASE b # a /\ c # a
    BY <1>2, <2>1 DEF OnePending
  <2>2. CASE b = a
    BY <1>2, <1>3, <1>5, <2>2
  <2>3. CASE c = a
    BY <1>2, <1>3, <1>5, <2>3
  <2> QED
    BY <2>1, <2>2, <2>3
<1>7. LockDiscipline'
  BY <1>1 DEF LockDiscipline
<1>8. RowOfRequest'
  <2>1. s # "unborn"
    BY ApprovalsAssumption DEF Statuses
  <2> SUFFICES ASSUME NEW v \in Writers, wr'[v].pc # "idle"
               PROVE  /\ wr'[v].pc \in {"loaded", "lock", "write"} => wr'[v].target \in Statuses
                      /\ IF wr'[v].prior = "unborn"
                         THEN /\ status'[wr'[v].approval] = "unborn"
                              /\ \A u \in Writers \ {v} :
                                   wr'[u].pc # "idle" => wr'[u].approval # wr'[v].approval
                         ELSE status'[wr'[v].approval] # "unborn"
    BY DEF RowOfRequest
  <2>2. wr'[v].approval \in Approvals
    BY <1>1 DEF TypeOK, WriterState
  <2>3. CASE v = w
    BY <1>1, <1>3, <2>1, <2>3
  <2>4. CASE v # w /\ wr[v].prior = "unborn"
    <3>1. wr[v].approval # a
      BY <1>1, <2>4 DEF RowOfRequest
    <3> QED
      BY <1>1, <1>2, <2>2, <2>4, <3>1 DEF RowOfRequest
  <2>5. CASE v # w /\ wr[v].prior # "unborn"
    BY <1>1, <1>2, <1>3, <2>1, <2>2, <2>5 DEF RowOfRequest
  <2> QED
    BY <2>3, <2>4, <2>5
<1>9. Covered'
  <2> SUFFICES ASSUME NEW v \in Writers, NEW b \in Approvals, b = wr'[v].approval,
                      wr'[v].pc \in {"lock", "write"}, Guarded(v)', wr'[v].prior # "unborn"
               PROVE  TasksOf(b)' \subseteq wr'[v].tasks
    <3>1. \A v \in Writers : wr'[v].pc \in {"lock", "write"} => wr'[v].approval \in Approvals
      BY <1>1 DEF TypeOK, WriterState
    <3> QED
      BY <3>1 DEF Covered, TasksOf
  <2>1. v # w /\ wr'[v] = wr[v]
    BY <1>1
  <2>2. TasksOf(b) \subseteq wr[v].tasks /\ status[b] # "unborn"
    BY <2>1 DEF Covered, Guarded, RowOfRequest
  <2>3. CASE b = a
    <3>1. TasksOf(a) = links[a]
      BY TasksAreLinks
    <3>2. links'[a] = links[a]
      BY <2>2, <2>3
    <3> QED
      BY <1>4, <2>1, <2>2, <2>3, <3>1, <3>2
  <2>4. CASE b # a
    BY <1>2, <2>1, <2>2, <2>4
  <2> QED
    BY <2>3, <2>4
<1>10. Checked'
  <2> SUFFICES ASSUME NEW v \in Writers, wr'[v].pc = "write", Guarded(v)',
                      NEW t \in wr'[v].tasks \cap live
               PROVE  /\ holder'[t] = v
                      /\ \A b \in Approvals \ {wr[v].approval} :
                          BoardOf[b] = BoardOf[wr[v].approval] /\ status'[b] = "pending"
                              => t \notin TasksOf(b)'
    BY <1>1 DEF Checked
  <2>1. v # w /\ wr'[v] = wr[v] /\ t \in Tasks
    BY <1>1 DEF TypeOK
  <2>2. holder[t] = v
    BY <2>1 DEF Checked, Guarded
  <2>3. ASSUME NEW b \in Approvals \ {wr[v].approval}, status'[b] = "pending",
               BoardOf[b] = BoardOf[wr[v].approval]
        PROVE  t \notin TasksOf(b)'
    <3>1. CASE b = a
      BY <1>3, <1>5, <2>1, <2>2, <2>3, <3>1
    <3>2. CASE b # a
      BY <1>2, <2>1, <2>3, <3>2 DEF Checked, Guarded
    <3> QED
      BY <3>1, <3>2
  <2> QED
    BY <2>1, <2>2, <2>3
<1>11. HeirLinked'
  <2>1. s # "unborn"
    BY ApprovalsAssumption DEF Statuses
  <2> SUFFICES ASSUME NEW d \in Deleters, del[d].pc # "idle", NEW b \in del[d].primaries
               PROVE  /\ status'[b] # "unborn"
                      /\ del[d].pc = "finish" /\ del[d].heir[b] \in live
                           => del[d].heir[b] \in links'[b] \ {del[d].task}
    BY DEF HeirLinked
  <2>2. b \in Approvals /\ status[b] # "unborn"
    BY DEF HeirLinked, TypeOK, DeleterState
  <2>3. links'[b] = links[b]
    BY <2>2
  <2> QED
    BY <1>2, <1>3, <2>1, <2>2, <2>3 DEF HeirLinked
<1> QED
  BY <1>6, <1>7, <1>8, <1>9, <1>10, <1>11

\* Steps of a deletion that touch nothing but its own local state.
LEMMA DeleterLocalStep ==
    ASSUME TypeOK, IInv, NEW d \in Deleters, NEW r \in DeleterState, del' = [del EXCEPT ![d] = r],
           UNCHANGED <<live, status, links, primary, holder, wr>>,
           r.pc # "idle" => \A a \in r.primaries :
              /\ status[a] # "unborn"
              /\ r.pc = "finish" /\ r.heir[a] \in live => r.heir[a] \in links[a] \ {r.task}
    PROVE  IInv'
<1> USE DEF IInv
<1>1. OnePending' /\ PrimaryLinked'
  BY TablesUnchanged
<1>2. LockDiscipline' /\ RowOfRequest'
  BY DEF LockDiscipline, RowOfRequest
<1>3. Covered'
  BY DEF Covered, Guarded, TasksOf
<1>4. Checked'
  BY DEF Checked, Guarded, TasksOf
<1>5. \A e \in Deleters : del'[e] = IF e = d THEN r ELSE del[e]
  BY DEF TypeOK
<1>6. HeirLinked'
  BY <1>5 DEF HeirLinked
<1> QED
  BY <1>1, <1>2, <1>3, <1>4, <1>6

\* A deletion that goes through: no approval keeps the task, each gets a primary
\* task it is still linked to, and no task set grows.
LEMMA DeleteRow ==
    ASSUME TypeOK, IInv, NEW d \in Deleters, FinishDelete(d), Deletable(d)
    PROVE  IInv'
<1> USE DEF IInv
<1> DEFINE t == del[d].task
<1>1. /\ live' = live \ {t}
      /\ holder[t] = None
      /\ UNCHANGED <<holder, wr>>
      /\ del[d].pc = "finish"
  BY DEF FinishDelete
<1>2. \A a \in Approvals :
        /\ links'[a] = links[a] \ {t}
        /\ status'[a] = IF a \in Orphaned(d) THEN "deleted" ELSE status[a]
        /\ primary'[a] = IF a \in del[d].primaries THEN del[d].heir[a] ELSE primary[a]
  BY DEF FinishDelete
<1>3. \A a \in del[d].primaries : a \in Approvals /\ status[a] # "unborn"
  BY <1>1 DEF HeirLinked, TypeOK, DeleterState
<1>4. \A a \in Approvals : status[a] = "unborn" <=> status'[a] = "unborn"
  BY <1>2, <1>3 DEF Orphaned
<1>5. \A a \in del[d].primaries :
        IF del[d].heir[a] = None THEN links[a] \subseteq {t}
                                 ELSE del[d].heir[a] \in links[a] \ {t}
  <2> SUFFICES ASSUME NEW a \in del[d].primaries
               PROVE  IF del[d].heir[a] = None THEN links[a] \subseteq {t}
                                               ELSE del[d].heir[a] \in links[a] \ {t}
    OBVIOUS
  <2>1. CASE del[d].heir[a] = None
    BY <2>1 DEF Deletable, Orphaned, Repointed
  <2>2. CASE del[d].heir[a] # None
    <3>1. del[d].heir[a] \in live
      BY <2>2 DEF Deletable, Repointed
    <3> QED
      BY <1>1, <2>2, <3>1 DEF HeirLinked
  <2> QED
    BY <2>1, <2>2
<1>6. \A a \in Approvals : primary[a] = t => a \in del[d].primaries
  BY DEF Deletable
<1>7. None \notin live
  BY ApprovalsAssumption DEF TypeOK
<1>8. PrimaryLinked'
  <2> SUFFICES ASSUME NEW a \in Approvals
               PROVE  /\ links'[a] \subseteq live'
                      /\ IF links'[a] = {} THEN primary'[a] = None ELSE primary'[a] \in links'[a]
    BY DEF PrimaryLinked
  <2>1. links[a] \subseteq live /\ links'[a] = links[a] \ {t}
    BY <1>2 DEF PrimaryLinked
  <2>2. CASE a \in del[d].primaries
    BY <1>1, <1>2, <1>5, <1>7, <2>1, <2>2
  <2>3. CASE a \notin del[d].primaries
    <3>1. primary'[a] = primary[a] /\ primary[a] # t
      BY <1>2, <1>6, <2>3
    <3>2. IF links[a] = {} THEN primary[a] = None ELSE primary[a] \in links[a]
      BY DEF PrimaryLinked
    <3> QED
      BY <1>1, <2>1, <3>1, <3>2
  <2> QED
    BY <2>2, <2>3
<1>9. \A a \in Approvals : TasksOf(a)' \subseteq TasksOf(a) \ {t}
  <2> SUFFICES ASSUME NEW a \in Approvals PROVE TasksOf(a)' \subseteq TasksOf(a) \ {t}
    OBVIOUS
  <2>1. TasksOf(a) = links[a]
    BY TasksAreLinks
  <2>2. TasksOf(a)' = links'[a]
    BY <1>8 DEF PrimaryLinked, TasksOf
  <2> QED
    BY <1>2, <2>1, <2>2
<1>10. \A a \in Approvals : status'[a] = "pending" => status[a] = "pending"
  BY <1>2
<1> HIDE DEF t
<1>11. OnePending'
  BY <1>9, <1>10 DEF OnePending
<1>12. LockDiscipline'
  BY <1>1 DEF LockDiscipline
<1>13. \A v \in Writers : wr[v].pc # "idle" => wr[v].approval \in Approvals
  BY DEF TypeOK, WriterState
<1>14. RowOfRequest'
  BY <1>1, <1>4, <1>13 DEF RowOfRequest
<1>15. Covered'
  <2> SUFFICES ASSUME NEW v \in Writers, wr[v].pc \in {"lock", "write"}, Guarded(v),
                      wr[v].prior # "unborn"
               PROVE  TasksOf(wr[v].approval)' \subseteq wr[v].tasks
    BY <1>1 DEF Covered, Guarded
  <2> DEFINE b == wr[v].approval
  <2>1. b \in Approvals /\ b' = b
    BY <1>1, <1>13
  <2>2. TasksOf(b) \subseteq wr[v].tasks
    BY DEF Covered
  <2>3. TasksOf(b)' \subseteq TasksOf(b)
    BY <1>9, <2>1 DEF TasksOf
  <2> QED
    BY <2>2, <2>3
<1>16. Checked'
  BY <1>1, <1>9, <1>10 DEF Checked, Guarded
<1>17. HeirLinked'
  <2> SUFFICES ASSUME NEW e \in Deleters, del'[e].pc # "idle", NEW a \in del'[e].primaries
               PROVE  /\ status'[a] # "unborn"
                      /\ del'[e].pc = "finish" /\ del'[e].heir[a] \in live'
                           => del'[e].heir[a] \in links'[a] \ {del'[e].task}
    BY DEF HeirLinked
  <2>1. e # d /\ del'[e] = del[e]
    BY DEF FinishDelete, TypeOK, IdleDeleter
  <2>2. a \in Approvals
    BY <2>1 DEF TypeOK, DeleterState
  <2> QED
    BY <1>1, <1>2, <1>4, <2>1, <2>2 DEF HeirLinked
<1> QED
  BY <1>8, <1>11, <1>12, <1>14, <1>15, <1>16, <1>17

\* Every step of a request or a deletion keeps the inductive invariant.
LEMMA StepKeepsIInv ==
    ASSUME TypeOK, IInv, ShareDiscipline, [Next]_vars
    PROVE  IInv'
<1> DEFINE NoLock(w) == \A t \in Tasks : holder[t] # w
<1>a. \A w \in Writers : wr[w].pc \notin {"lock", "write"} => NoLock(w)
  BY DEF IInv, LockDiscipline
<1>b. IdleWriter \in WriterState /\ IdleWriter.pc = "idle"
  BY DEF IdleWriter, WriterState, Rows
<1>c. \A w \in Writers : /\ wr[w] \in WriterState
                         /\ wr[w].pc # "idle" => wr[w].approval \in Approvals
  BY DEF TypeOK, WriterState
<1>d. \A w \in Writers, t \in Tasks : Released(w)[t] = IF holder[t] = w THEN None ELSE holder[t]
  BY DEF Released
<1>e. ASSUME NEW w \in Writers, wr' = [wr EXCEPT ![w] = IdleWriter], holder' = Released(w),
             UNCHANGED <<live, status, links, primary, del>>
      PROVE  IInv'
  BY <1>b, <1>d, <1>e, EndStep
<1>f. Statuses \subseteq Rows /\ "unborn" \notin Statuses /\ "pending" \in Statuses
  BY ApprovalsAssumption DEF Statuses, Rows
<1> HIDE DEF NoLock
<1>1. ASSUME NEW w \in Writers, NEW a \in Approvals, NEW s \in Statuses,
             NEW ts \in SUBSET Tasks, StartCreate(w, a, ts, s)
      PROVE  IInv'
  <2> DEFINE r == [pc |-> IF s = "pending" /\ ts # {} THEN "lock" ELSE "write",
                   approval |-> a, target |-> s, prior |-> "unborn", tasks |-> ts]
  <2>1. /\ r \in WriterState
        /\ r.pc \in {"lock", "write"} /\ r.approval = a /\ r.prior = "unborn" /\ r.target = s
        /\ r.pc = "write" /\ r.target = "pending" => r.tasks = {}
    BY <1>f DEF WriterState, Rows
  <2>2. /\ wr' = [wr EXCEPT ![w] = r]
        /\ UNCHANGED <<live, status, links, primary, holder, del>>
        /\ status[a] = "unborn" /\ \A v \in Writers : wr[v].approval # a
    BY <1>1 DEF StartCreate
  <2>3. NoLock(w)
    BY <1>1, <1>a DEF StartCreate
  <2> HIDE DEF r
  <2>4. RequestOK(w, r)
    BY <1>f, <2>1, <2>2, <2>3 DEF NoLock, RequestOK
  <2> QED
    BY <2>1, <2>2, <2>4, LocalStep
<1>2. ASSUME NEW w \in Writers, NEW a \in Approvals, NEW s \in Statuses, StartUpdate(w, a, s)
      PROVE  IInv'
  <2> DEFINE r == [pc |-> IF s = "pending" /\ status[a] # "pending" THEN "loaded" ELSE "write",
                   approval |-> a, target |-> s, prior |-> status[a], tasks |-> {}]
  <2>1. status[a] \in Statuses
    BY <1>2 DEF StartUpdate, Exists
  <2>2. /\ r \in WriterState
        /\ r.pc \in {"loaded", "write"} /\ r.approval = a /\ r.prior = status[a] /\ r.target = s
        /\ r.tasks = {}
        /\ r.pc = "write" /\ r.target = "pending" => r.prior = "pending"
    BY <1>f, <2>1 DEF WriterState
  <2>3. /\ wr' = [wr EXCEPT ![w] = r]
        /\ UNCHANGED <<live, status, links, primary, holder, del>>
    BY <1>2 DEF StartUpdate
  <2>4. NoLock(w)
    BY <1>2, <1>a DEF StartUpdate
  <2> HIDE DEF r
  <2>5. RequestOK(w, r)
    BY <1>f, <2>1, <2>2, <2>3, <2>4 DEF NoLock, RequestOK
  <2> QED
    BY <2>2, <2>3, <2>5, LocalStep
<1>3. ASSUME NEW w \in Writers, LoadTasks(w) PROVE IInv'
  <2> DEFINE ts == TasksOf(wr[w].approval)
             r  == [wr[w] EXCEPT !.tasks = ts, !.pc = IF ts = {} THEN "write" ELSE "lock"]
  <2>1. wr[w].pc = "loaded" /\ wr[w].approval \in Approvals
    BY <1>3, <1>c DEF LoadTasks
  <2>2. ts \in SUBSET Tasks
    BY <2>1 DEF TasksOf, TypeOK
  <2>3. /\ wr' = [wr EXCEPT ![w] = r]
        /\ UNCHANGED <<live, status, links, primary, holder, del>>
    BY <1>3, <2>1 DEF LoadTasks, TypeOK
  <2> HIDE DEF ts
  <2>4. /\ r \in WriterState /\ r.pc \in {"lock", "write"} /\ r.approval = wr[w].approval
        /\ r.prior = wr[w].prior /\ r.target = wr[w].target /\ r.tasks = ts
        /\ r.pc = "write" => r.tasks = {}
    BY <1>c, <2>2 DEF WriterState
  <2>5. /\ r.target \in Statuses
        /\ IF r.prior = "unborn"
           THEN /\ status[r.approval] = "unborn"
                /\ \A v \in Writers \ {w} : wr[v].pc # "idle" => wr[v].approval # r.approval
           ELSE status[r.approval] # "unborn"
    BY <2>1, <2>4 DEF IInv, RowOfRequest
  <2>6. NoLock(w) /\ TasksOf(r.approval) \subseteq r.tasks
    BY <1>a, <2>1, <2>4 DEF ts
  <2> HIDE DEF r
  <2>7. RequestOK(w, r)
    BY <1>f, <2>1, <2>4, <2>5, <2>6 DEF NoLock, RequestOK
  <2> QED
    BY <2>3, <2>4, <2>7, LocalStep
<1>4. ASSUME NEW w \in Writers, LockNext(w) PROVE IInv'
  <2>1. /\ UNCHANGED <<live, status, links, primary, wr, del>>
        /\ wr[w].pc = "lock"
    BY <1>4 DEF LockNext
  <2>2. PICK t \in Tasks : /\ t \in wr[w].tasks \cap live
                           /\ holder[t] = None
                           /\ holder' = [holder EXCEPT ![t] = w]
    BY <1>4 DEF LockNext, NextRow, Unlocked
  <2>3. \A u \in Tasks : holder'[u] = IF u = t THEN w ELSE holder[u]
    BY <2>2 DEF TypeOK
  <2>4. OnePending' /\ PrimaryLinked' /\ (\A a \in Approvals : TasksOf(a)' = TasksOf(a))
    BY <2>1, TablesUnchanged DEF IInv
  <2>5. LockDiscipline'
    BY <2>1, <2>2, <2>3 DEF IInv, LockDiscipline
  <2>6. RowOfRequest' /\ HeirLinked'
    BY <2>1 DEF IInv, RowOfRequest, HeirLinked
  <2>7. Covered'
    BY <2>1 DEF IInv, Covered, Guarded, TasksOf
  <2>8. Checked'
    <3> SUFFICES ASSUME NEW v \in Writers, wr[v].pc = "write", Guarded(v),
                        NEW u \in wr[v].tasks \cap live
                 PROVE  /\ holder'[u] = v
                        /\ \A a \in Approvals \ {wr[v].approval} :
                            BoardOf[a] = BoardOf[wr[v].approval] /\ status[a] = "pending"
                                => u \notin TasksOf(a)'
      BY <2>1 DEF Checked, Guarded
    <3>1. u \in Tasks /\ holder[u] = v
      BY DEF IInv, Checked, TypeOK
    <3>2. holder'[u] = v
      BY <2>2, <2>3, <3>1, ApprovalsAssumption
    <3> QED
      BY <2>4, <3>2 DEF IInv, Checked
  <2> QED
    BY <2>4, <2>5, <2>6, <2>7, <2>8 DEF IInv
<1>5. ASSUME NEW w \in Writers, CheckConflicts(w) PROVE IInv'
  <2>1. CASE Conflict(w)
    BY <1>5, <1>e, <2>1 DEF CheckConflicts, Finish
  <2>2. CASE ~Conflict(w)
    <3> DEFINE r == [wr[w] EXCEPT !.pc = "write"]
    <3>1. /\ wr' = [wr EXCEPT ![w] = r]
          /\ UNCHANGED <<live, status, links, primary, holder, del>>
          /\ wr[w].pc = "lock" /\ Unlocked(w) = {} /\ wr[w].approval \in Approvals
      BY <1>5, <1>c, <2>2 DEF CheckConflicts, TypeOK
    <3>2. /\ r \in WriterState /\ r.pc = "write" /\ r.approval = wr[w].approval
          /\ r.prior = wr[w].prior /\ r.target = wr[w].target /\ r.tasks = wr[w].tasks
      BY <1>c DEF WriterState
    <3>3. \A t \in r.tasks \cap live :
            /\ holder[t] = w
            /\ \A a \in Approvals \ {r.approval} :
                BoardOf[a] = BoardOf[r.approval] /\ status[a] = "pending" => t \notin TasksOf(a)
      BY <2>2, <3>1, <3>2 DEF Unlocked, Conflict
    <3>4. /\ r.target \in Statuses
          /\ IF r.prior = "unborn"
             THEN /\ status[r.approval] = "unborn"
                  /\ \A v \in Writers \ {w} : wr[v].pc # "idle" => wr[v].approval # r.approval
             ELSE status[r.approval] # "unborn"
      BY <3>1, <3>2 DEF IInv, RowOfRequest
    <3>5. \A t \in Tasks : holder[t] = w => t \in r.tasks
      BY <3>2 DEF IInv, LockDiscipline
    <3>6. r.target = "pending" /\ r.prior \notin {"pending", "unborn"}
             => TasksOf(r.approval) \subseteq r.tasks
      BY <3>1, <3>2 DEF IInv, Covered, Guarded
    <3> HIDE DEF r
    <3>7. RequestOK(w, r)
      BY <3>1, <3>2, <3>3, <3>4, <3>5, <3>6 DEF RequestOK
    <3> QED
      BY <3>1, <3>2, <3>7, LocalStep
  <2> QED
    BY <2>1, <2>2
<1>6. ASSUME NEW w \in Writers, Insert(w) PROVE IInv'
  <2>1. /\ wr[w].pc = "write" /\ wr[w].prior = "unborn"
        /\ wr' = [wr EXCEPT ![w] = IdleWriter] /\ holder' = Released(w)
        /\ UNCHANGED <<live, del>>
    BY <1>6 DEF Insert, Finish
  <2>3. wr[w].tasks \subseteq live
    BY <1>6 DEF Insert, Lacking, IInv, LockDiscipline, ShareDiscipline, TypeOK, WriterState
  <2>4. PICK a \in Approvals, s \in Statuses : /\ a = wr[w].approval
                                               /\ s = wr[w].target
                                               /\ status[a] = "unborn"
    BY <2>1, <1>c DEF IInv, RowOfRequest
  <2>5. PICK p \in Tasks \cup {None} :
          /\ IF wr[w].tasks = {} THEN p = None ELSE p \in wr[w].tasks
          /\ primary' = [primary EXCEPT ![a] = p]
    BY <1>6, <2>3, <2>4 DEF Insert
  <2>6. status' = [status EXCEPT ![a] = s]
    BY <1>6, <2>3, <2>4 DEF Insert
  <2>7. links' = [links EXCEPT ![a] = wr[w].tasks]
    BY <1>6, <2>3, <2>4 DEF Insert
  <2>8. links'[a] = wr[w].tasks /\ primary'[a] = p
    BY <2>5, <2>7 DEF TypeOK
  <2>9. \A b \in Approvals \ {a} : links'[b] = links[b] /\ primary'[b] = primary[b]
    BY <2>5, <2>7 DEF TypeOK
  <2>10. PrimaryLinked'
    BY <2>1, <2>3, <2>5, <2>8, <2>9 DEF IInv, PrimaryLinked
  <2>11. \A t \in Tasks : holder'[t] = IF holder[t] = w THEN None ELSE holder[t]
    BY <1>d, <2>1
  <2>12. s = "pending" => Guarded(w)
    BY <2>1, <2>4 DEF Guarded
  <2> DEFINE r == IdleWriter
  <2>13. /\ r \in WriterState /\ wr' = [wr EXCEPT ![w] = r]
         /\ r.pc \in {"idle", "refresh"}
         /\ r.pc = "refresh" => r.approval = a /\ r.prior = wr[w].prior /\ r.prior # "unborn"
    BY <1>b, <2>1
  <2> HIDE DEF r
  <2>14. Writes(w, a, s, r)
    BY <2>1, <2>4, <2>6, <2>8, <2>9, <2>11, <2>12, <2>13 DEF Writes
  <2> QED
    BY <2>10, <2>13, <2>14, WriteRow
<1>16. ASSUME NEW w \in Writers, KeyShareNext(w) PROVE IInv'
  <2>1. UNCHANGED <<live, status, links, primary, del>>
    BY <1>16 DEF KeyShareNext
  <2>2. CASE Finish(w)
    BY <1>e, <2>1, <2>2 DEF Finish
  <2>3. CASE UNCHANGED <<holder, wr>>
    BY <2>1, <2>3 DEF IInv, OnePending, PrimaryLinked, LockDiscipline, RowOfRequest, Covered,
       Checked, HeirLinked, Guarded, TasksOf
  <2> QED
    BY <1>16, <2>2, <2>3 DEF KeyShareNext
<1>7. ASSUME NEW w \in Writers, Save(w) PROVE IInv'
  <2> DEFINE a == wr[w].approval
             s == wr[w].target
             r == [wr[w] EXCEPT !.pc = "refresh", !.tasks = {}, !.target = "unborn"]
  <2>1. /\ wr[w].pc = "write" /\ wr[w].prior # "unborn" /\ holder' = Released(w)
        /\ UNCHANGED <<live, links, primary, del>>
    BY <1>7 DEF Save
  <2>2. a \in Approvals /\ s \in Statuses
    BY <2>1, <1>c DEF IInv, RowOfRequest
  <2>3. r \in WriterState /\ r.pc = "refresh" /\ r.approval = a /\ r.prior = wr[w].prior
    BY <1>c DEF WriterState, Rows
  <2>4. CASE ~Exists(a)
    BY <1>7, <1>e, <2>1, <2>4 DEF Save
  <2>5. CASE Exists(a) /\ s = wr[w].prior
    <3>1. wr' = [wr EXCEPT ![w] = r] /\ UNCHANGED status
      BY <1>7, <2>5 DEF Save, TypeOK
    <3> HIDE DEF r, a
    <3> QED
      BY <1>d, <2>1, <2>3, <3>1, EndStep DEF a
  <2>6. CASE Exists(a) /\ s # wr[w].prior
    <3>1. wr' = [wr EXCEPT ![w] = r] /\ status' = [status EXCEPT ![a] = s]
      BY <1>7, <2>6 DEF Save, TypeOK
    <3>2. s = "pending" => Guarded(w)
      BY <2>6 DEF Guarded
    <3>3. PrimaryLinked'
      BY <2>1 DEF IInv, PrimaryLinked
    <3>4. s = "pending" => links[a] \subseteq wr[w].tasks
      BY <2>1, <2>2, <3>2, TasksAreLinks DEF IInv, Covered
    <3>5. a = wr[w].approval
      OBVIOUS
    <3> HIDE DEF a, r, s
    <3>6. links'[a] \subseteq wr[w].tasks \/ s # "pending"
      BY <2>1, <3>4
    <3>7. links'[a] = links[a]
      BY <2>1
    <3>8. \A t \in Tasks : holder'[t] = IF holder[t] = w THEN None ELSE holder[t]
      BY <1>d, <2>1
    <3>9. \A b \in Approvals \ {a} : links'[b] = links[b] /\ primary'[b] = primary[b]
      BY <2>1
    <3>10. /\ r.pc \in {"idle", "refresh"}
           /\ r.pc = "refresh" => r.approval = a /\ r.prior = wr[w].prior /\ r.prior # "unborn"
      BY <2>1, <2>3
    <3>11. Writes(w, a, s, r)
      BY <2>1, <3>1, <3>2, <3>5, <3>6, <3>7, <3>8, <3>9, <3>10 DEF Writes
    <3> QED
      BY <2>2, <2>3, <3>3, <3>11, WriteRow
  <2> QED
    BY <2>4, <2>5, <2>6
<1>8. ASSUME NEW w \in Writers, Refresh(w) PROVE IInv'
  <2>1. /\ wr[w].pc = "refresh" /\ NoLock(w)
        /\ UNCHANGED <<live, status, links, primary, holder, del>>
    BY <1>8, <1>a DEF Refresh
  <2>2. \A t \in Tasks : holder'[t] = IF holder[t] = w THEN None ELSE holder[t]
    BY <2>1 DEF NoLock
  <2>3. CASE Reportable(w)
    <3> DEFINE r == [wr[w] EXCEPT !.pc = "send", !.target = status[wr[w].approval]]
    <3>1. wr' = [wr EXCEPT ![w] = r]
      BY <1>8, <2>3 DEF Refresh, TypeOK
    <3>2. status[wr[w].approval] \in Rows
      BY <1>c, <2>1 DEF TypeOK
    <3>3. /\ r \in WriterState /\ r.pc = "send"
          /\ r.approval = wr[w].approval /\ r.prior = wr[w].prior
      BY <1>c, <3>2 DEF WriterState
    <3> HIDE DEF r
    <3> QED
      BY <2>1, <2>2, <3>1, <3>3, EndStep
  <2>4. CASE ~Reportable(w)
    BY <1>8, <1>b, <2>1, <2>2, <2>4, EndStep DEF Refresh
  <2> QED
    BY <2>3, <2>4
<1>9. ASSUME NEW w \in Writers, Notify(w) PROVE IInv'
  <2>1. /\ NoLock(w) /\ wr' = [wr EXCEPT ![w] = IdleWriter]
        /\ UNCHANGED <<live, status, links, primary, holder, del>>
    BY <1>9, <1>a DEF Notify
  <2>2. \A t \in Tasks : holder'[t] = IF holder[t] = w THEN None ELSE holder[t]
    BY <2>1 DEF NoLock
  <2> QED
    BY <1>b, <2>1, <2>2, EndStep
<1>10. ASSUME NEW w \in Writers, Abort(w) PROVE IInv'
  BY <1>10, <1>e DEF Abort, Finish
<1>11. ASSUME NEW d \in Deleters, NEW t \in Tasks, StartDelete(d, t) PROVE IInv'
  <2> DEFINE r == [IdleDeleter EXCEPT !.pc = "unlink", !.task = t,
                     !.primaries = {a \in Approvals : Exists(a) /\ primary[a] = t}]
  <2>1. /\ r \in DeleterState /\ r.pc = "unlink"
        /\ \A a \in r.primaries : Exists(a)
    BY DEF DeleterState, IdleDeleter
  <2>2. /\ del' = [del EXCEPT ![d] = r]
        /\ UNCHANGED <<live, status, links, primary, holder, wr>>
    BY <1>11 DEF StartDelete
  <2> HIDE DEF r
  <2> QED
    BY <1>f, <2>1, <2>2, DeleterLocalStep DEF Exists
<1>12. ASSUME NEW d \in Deleters, Unlink(d) PROVE IInv'
  <2>1. PICK h \in [Approvals -> Tasks \cup {None}] :
          /\ \A a \in Approvals :
               IF a \in del[d].primaries /\ Remaining(d, a) # {}
               THEN h[a] \in Remaining(d, a)
               ELSE h[a] = None
          /\ del' = [del EXCEPT ![d].pc = "finish", ![d].heir = h,
                                ![d].cut = {a \in Approvals : del[d].task \in links[a]}]
    BY <1>12 DEF Unlink
  <2> DEFINE r == [del[d] EXCEPT !.pc = "finish", !.heir = h,
                                 !.cut = {a \in Approvals : del[d].task \in links[a]}]
  <2>2. /\ del[d] \in DeleterState /\ del[d].pc = "unlink"
        /\ UNCHANGED <<live, status, links, primary, holder, wr>>
    BY <1>12 DEF Unlink, TypeOK
  <2>3. /\ r \in DeleterState /\ r.primaries = del[d].primaries
        /\ r.task = del[d].task /\ r.heir = h
    BY <2>2 DEF DeleterState
  <2>4. del' = [del EXCEPT ![d] = r]
    BY <2>1 DEF TypeOK
  <2>5. \A a \in r.primaries : a \in Approvals /\ status[a] # "unborn"
    BY <2>2, <2>3 DEF IInv, HeirLinked, DeleterState
  <2>6. None \notin live
    BY ApprovalsAssumption DEF TypeOK
  <2>7. \A a \in r.primaries : r.heir[a] \in live => r.heir[a] \in links[a] \ {r.task}
    BY <2>1, <2>3, <2>5, <2>6 DEF Remaining
  <2> HIDE DEF r
  <2> QED
    BY <2>2, <2>3, <2>4, <2>5, <2>7, DeleterLocalStep
<1>13. ASSUME NEW d \in Deleters, FinishDelete(d) PROVE IInv'
  <2>1. CASE Deletable(d)
    BY <1>13, <2>1, DeleteRow
  <2>2. CASE ~Deletable(d)
    <3>1. IdleDeleter \in DeleterState /\ IdleDeleter.pc = "idle"
      BY DEF DeleterState, IdleDeleter
    <3> QED
      BY <1>13, <2>2, <3>1, DeleterLocalStep DEF FinishDelete
  <2> QED
    BY <2>1, <2>2
<1>14. ASSUME NEW d \in Deleters, AbortDelete(d) PROVE IInv'
  <2>1. IdleDeleter \in DeleterState /\ IdleDeleter.pc = "idle"
    BY DEF DeleterState, IdleDeleter
  <2> QED
    BY <1>14, <2>1, DeleterLocalStep DEF AbortDelete
<1>15. CASE UNCHANGED vars
  BY <1>15 DEF vars, IInv, OnePending, PrimaryLinked, LockDiscipline, RowOfRequest, Covered,
     Checked, HeirLinked, Guarded, TasksOf
<1> QED
  BY <1>1, <1>2, <1>3, <1>4, <1>5, <1>6, <1>7, <1>8, <1>9, <1>10, <1>11, <1>12, <1>13,
     <1>14, <1>15, <1>16 DEF Next

\* Every step keeps the discipline of the weaker locks.
LEMMA StepKeepsShares ==
    ASSUME TypeOK, ShareDiscipline, [Next]_vars
    PROVE  ShareDiscipline'
<1> USE DEF ShareDiscipline
<1>a. ASSUME NEW w \in Writers, \A v \in Writers \ {w} : wr'[v] = wr[v], UNCHANGED live,
             \A t \in Tasks : shared'[t] \subseteq shared[t] \ {w}
      PROVE  ShareDiscipline'
  BY <1>a DEF TypeOK
<1>b. ASSUME NEW w \in Writers, Finish(w), UNCHANGED live PROVE ShareDiscipline'
  <2>1. \A v \in Writers \ {w} : wr'[v] = wr[v]
    BY <1>b DEF Finish, TypeOK
  <2>2. \A t \in Tasks : shared'[t] \subseteq shared[t] \ {w}
    BY <1>b DEF Finish
  <2> QED
    BY <1>a, <1>b, <2>1, <2>2
<1>1. ASSUME NEW w \in Writers,
             \/ \E a \in Approvals, s \in Statuses :
                  \/ \E ts \in SUBSET Tasks : StartCreate(w, a, ts, s)
                  \/ StartUpdate(w, a, s)
             \/ LoadTasks(w) \/ Save(w) \/ Refresh(w) \/ Notify(w)
      PROVE  ShareDiscipline'
  <2>1. wr[w].pc # "write" \/ wr[w].prior # "unborn"
    BY <1>1 DEF StartCreate, StartUpdate, LoadTasks, Save, Refresh, Notify
  <2>2. UNCHANGED <<shared, live>> /\ \A v \in Writers \ {w} : wr'[v] = wr[v]
    BY <1>1 DEF StartCreate, StartUpdate, LoadTasks, Save, Refresh, Notify, TypeOK
  <2> QED
    BY <1>a, <2>1, <2>2
<1>2. ASSUME NEW w \in Writers, LockNext(w) PROVE ShareDiscipline'
  BY <1>2 DEF LockNext
<1>3. ASSUME NEW w \in Writers, CheckConflicts(w) PROVE ShareDiscipline'
  <2>1. CASE Conflict(w)
    BY <1>3, <1>b, <2>1 DEF CheckConflicts
  <2>2. CASE ~Conflict(w)
    <3>1. UNCHANGED <<shared, live>> /\ \A v \in Writers \ {w} : wr'[v] = wr[v]
      BY <1>3, <2>2 DEF CheckConflicts, TypeOK
    <3> QED
      BY <1>3, <1>a, <3>1 DEF CheckConflicts
  <2> QED
    BY <2>1, <2>2
<1>4. ASSUME NEW w \in Writers, KeyShareNext(w) PROVE ShareDiscipline'
  <2>1. /\ wr[w].pc = "write" /\ wr[w].prior = "unborn" /\ UNCHANGED live
    BY <1>4 DEF KeyShareNext
  <2>2. PICK t \in Lacking(w) :
          IF t \in live
          THEN shared' = [shared EXCEPT ![t] = @ \cup {w}] /\ UNCHANGED <<holder, wr>>
          ELSE Finish(w)
    BY <1>4 DEF KeyShareNext
  <2>3. t \in wr[w].tasks
    BY <2>2 DEF Lacking
  <2>4. CASE t \in live
    BY <2>1, <2>2, <2>3, <2>4 DEF TypeOK
  <2>5. CASE t \notin live
    BY <1>b, <2>1, <2>2, <2>5
  <2> QED
    BY <2>4, <2>5
<1>5. ASSUME NEW w \in Writers, Insert(w) \/ Abort(w) PROVE ShareDiscipline'
  BY <1>5, <1>b DEF Insert, Abort
<1>6. ASSUME NEW d \in Deleters, FinishDelete(d) PROVE ShareDiscipline'
  BY <1>6 DEF FinishDelete
<1>7. ASSUME NEW d \in Deleters,
             \/ \E t \in Tasks : StartDelete(d, t)
             \/ Unlink(d) \/ AbortDelete(d)
      PROVE  ShareDiscipline'
  BY <1>7 DEF StartDelete, Unlink, AbortDelete
<1>8. CASE UNCHANGED vars
  BY <1>8 DEF vars
<1> QED
  BY <1>1, <1>2, <1>3, <1>4, <1>5, <1>6, <1>7, <1>8 DEF Next

\* The weaker locks are held by nobody but creates that are inserting.
THEOREM SharesHeld == Spec => []ShareDiscipline
<1>1. Init => ShareDiscipline
  BY DEF Init, ShareDiscipline
<1>2. TypeOK /\ ShareDiscipline /\ [Next]_vars => ShareDiscipline'
  BY StepKeepsShares
<1> QED
  BY <1>1, <1>2, TypeCorrect, PTL DEF Spec

\* The inductive invariant: locks, checks and task sets stay aligned however requests,
\* deletions and aborts interleave.
THEOREM Inductive == Spec => []IInv
<1>1. Init => IInv
  BY ApprovalsAssumption DEF Init, IInv, OnePending, PrimaryLinked, LockDiscipline, RowOfRequest,
     Covered, Checked, HeirLinked, IdleWriter, IdleDeleter
<1>2. TypeOK /\ IInv /\ ShareDiscipline /\ [Next]_vars => IInv'
  BY StepKeepsIInv
<1> QED
  BY <1>1, <1>2, TypeCorrect, SharesHeld, PTL DEF Spec

\* Two pending approvals of a board never name the same task.
THEOREM OnePendingHolds == Spec => []OnePending
<1>1. IInv => OnePending
  BY DEF IInv
<1> QED
  BY <1>1, Inductive, PTL

\* No approval points at a deleted task or has a primary task outside its links.
THEOREM PrimaryLinkedHolds == Spec => []PrimaryLinked
<1>1. IInv => PrimaryLinked
  BY DEF IInv
<1> QED
  BY <1>1, Inductive, PTL

-----------------------------------------------------------------------------
(* The waits between approval requests                                     *)

\* A request that is locking holds only rows that come before the ones it lacks.
LockOrder ==
    \A w \in Writers : wr[w].pc = "lock" =>
        \A t \in Tasks, u \in Unlocked(w) : holder[t] = w => t < u

\* Every step keeps the order of the locks.
LEMMA StepKeepsLockOrder ==
    ASSUME TypeOK, TypeOK', IInv, LockOrder, [Next]_vars
    PROVE  LockOrder'
<1> SUFFICES ASSUME NEW v \in Writers, wr'[v].pc = "lock", NEW t \in Tasks,
                    NEW u \in Unlocked(v)', holder'[t] = v
             PROVE  t < u
  BY DEF LockOrder
<1> USE DEF LockOrder
<1>a. u \in Tasks /\ u \in wr'[v].tasks /\ u \in live' /\ holder'[u] # v
  BY DEF Unlocked, TypeOK
<1>b. ASSUME wr'[v] = wr[v], live' \subseteq live, UNCHANGED holder PROVE t < u
  BY <1>a, <1>b DEF Unlocked
<1>c. ASSUME \A x \in Tasks : holder[x] # v, UNCHANGED holder PROVE t < u
  BY <1>c
<1>d. wr[v].pc \notin {"lock", "write"} => \A x \in Tasks : holder[x] # v
  BY DEF IInv, LockDiscipline
<1>1. ASSUME NEW w \in Writers, NEW a \in Approvals, NEW s \in Statuses, NEW ts \in SUBSET Tasks,
             StartCreate(w, a, ts, s)
      PROVE  t < u
  BY <1>1, <1>b, <1>c, <1>d DEF StartCreate, TypeOK
<1>2. ASSUME NEW w \in Writers, NEW a \in Approvals, NEW s \in Statuses, StartUpdate(w, a, s)
      PROVE  t < u
  BY <1>2, <1>b, <1>c, <1>d DEF StartUpdate, TypeOK
<1>3. ASSUME NEW w \in Writers, LoadTasks(w) PROVE t < u
  <2>1. CASE v = w
    BY <1>3, <1>c, <1>d, <2>1 DEF LoadTasks
  <2>2. CASE v # w
    BY <1>3, <1>b, <2>2 DEF LoadTasks, TypeOK
  <2> QED
    BY <2>1, <2>2
<1>4. ASSUME NEW w \in Writers, LockNext(w) PROVE t < u
  <2>1. PICK x \in Tasks : /\ NextRow(w, x) /\ holder[x] = None
                           /\ holder' = [holder EXCEPT ![x] = w]
    BY <1>4 DEF LockNext
  <2>2. UNCHANGED <<wr, live>> /\ wr[v].pc = "lock"
    BY <1>4 DEF LockNext
  <2>3. u \in Unlocked(v)
    <3>1. CASE u = x /\ v = w
      BY <1>a, <2>1, <3>1 DEF TypeOK
    <3>2. CASE u # x
      BY <1>a, <2>1, <2>2, <3>2 DEF TypeOK, Unlocked
    <3>3. CASE u = x /\ v # w
      <4>1. holder[u] # v
        BY <2>1, <3>3, ApprovalsAssumption
      <4> QED
        BY <1>a, <2>2, <4>1 DEF Unlocked
    <3> QED
      BY <3>1, <3>2, <3>3
  <2>4. CASE t = x
    <3>1. v = w
      BY <2>1, <2>4 DEF TypeOK
    <3>2. x <= u /\ u # x
      BY <1>a, <2>1, <2>3, <3>1 DEF NextRow, TypeOK
    <3> QED
      BY <2>4, <3>2, <1>a, ApprovalsAssumption
  <2>5. CASE t # x
    BY <2>1, <2>2, <2>3, <2>5 DEF TypeOK
  <2> QED
    BY <2>4, <2>5
<1>5. ASSUME NEW w \in Writers,
             \/ CheckConflicts(w) \/ Insert(w) \/ Save(w) \/ Refresh(w) \/ Notify(w) \/ Abort(w)
      PROVE  t < u
  <2>1. wr'[w].pc # "lock"
    BY <1>5 DEF CheckConflicts, Insert, Save, Refresh, Notify, Abort, Finish, IdleWriter, TypeOK, WriterState
  <2>2. v # w /\ wr'[v] = wr[v]
    BY <1>5, <2>1 DEF CheckConflicts, Insert, Save, Refresh, Notify, Abort, Finish, TypeOK
  <2>3. /\ \A x \in Tasks : holder'[x] = v <=> holder[x] = v
        /\ UNCHANGED live
    BY <1>5, <2>2, ApprovalsAssumption
    DEF CheckConflicts, Insert, Save, Refresh, Notify, Abort, Finish, Released
  <2> QED
    BY <1>a, <2>2, <2>3 DEF Unlocked
<1>6. ASSUME NEW d \in Deleters,
             \/ \E x \in Tasks : StartDelete(d, x)
             \/ Unlink(d) \/ FinishDelete(d) \/ AbortDelete(d)
      PROVE  t < u
  BY <1>6, <1>b DEF StartDelete, Unlink, FinishDelete, AbortDelete
<1>7. CASE UNCHANGED vars
  BY <1>7, <1>b DEF vars
<1>8. ASSUME NEW w \in Writers, KeyShareNext(w) PROVE t < u
  <2>1. CASE UNCHANGED <<holder, wr>>
    BY <1>8, <1>b, <2>1 DEF KeyShareNext
  <2>2. CASE Finish(w)
    <3>1. v # w /\ wr'[v] = wr[v]
      BY <2>2 DEF Finish, IdleWriter, TypeOK
    <3>2. /\ \A x \in Tasks : holder'[x] = v <=> holder[x] = v
          /\ UNCHANGED live
      BY <1>8, <2>2, <3>1, ApprovalsAssumption DEF KeyShareNext, Finish, Released
    <3> QED
      BY <1>a, <3>1, <3>2 DEF Unlocked
  <2> QED
    BY <1>8, <2>1, <2>2 DEF KeyShareNext
<1> QED
  BY <1>1, <1>2, <1>3, <1>4, <1>5, <1>6, <1>7, <1>8 DEF Next

\* No circle of waiting approval requests consists of guarded ones, as long as there is no
\* infinite ascending chain of tasks.  A guarded request that inserts already has every row
\* it needs, so all of them would be in the lock statement, where nobody holds a weaker
\* lock: the greatest row that somebody of the circle waits for is held by somebody who
\* would have to wait for a greater one.
THEOREM NoDeadlockHolds ==
    ASSUME \A S \in SUBSET Tasks : S # {} => \E x \in S : \A y \in S : y <= x
    PROVE  Spec => []NoDeadlock
<1>1. Init => LockOrder
  BY DEF Init, LockOrder, IdleWriter
<1>2. TypeOK /\ TypeOK' /\ IInv /\ LockOrder /\ [Next]_vars => LockOrder'
  BY StepKeepsLockOrder
<1>3. TypeOK /\ IInv /\ ShareDiscipline /\ LockOrder => NoDeadlock
  <2> SUFFICES ASSUME TypeOK, IInv, ShareDiscipline, LockOrder,
                      NEW G \in SUBSET Writers, G # {},
                      \A v \in G : \E w \in G : WaitsFor(v, w),
                      \A v \in G : Guarded(v)
               PROVE  FALSE
    BY DEF NoDeadlock
  <2>1. \A v \in G : wr[v].pc = "lock"
    <3> SUFFICES ASSUME NEW v \in G, wr[v].pc # "lock" PROVE FALSE
      OBVIOUS
    <3>1. PICK w \in G : WaitsFor(v, w)
      OBVIOUS
    <3>2. PICK t \in Lacking(v) : holder[t] = w /\ v # w /\ wr[v].pc = "write"
      BY <3>1 DEF WaitsFor
    <3>3. t \in wr[v].tasks /\ t \in Tasks
      BY <3>2 DEF Lacking, TypeOK, WriterState
    <3>4. t \in live
      BY <3>2, <3>3 DEF IInv, LockDiscipline
    <3>5. holder[t] = v
      BY <3>2, <3>3, <3>4 DEF IInv, Checked
    <3> QED
      BY <3>2, <3>5
  <2>2. \A v \in G : \E t \in Tasks, w \in G : NextRow(v, t) /\ holder[t] = w
    <3> SUFFICES ASSUME NEW v \in G
                 PROVE  \E t \in Tasks, w \in G : NextRow(v, t) /\ holder[t] = w
      OBVIOUS
    <3>1. PICK w \in G : WaitsFor(v, w)
      OBVIOUS
    <3>2. PICK t \in Tasks : NextRow(v, t) /\ w \in {holder[t]} \cup shared[t]
      BY <2>1, <3>1 DEF WaitsFor
    <3>3. w \notin shared[t]
      BY <2>1 DEF ShareDiscipline
    <3> QED
      BY <3>2, <3>3
  <2> DEFINE Awaited == {t \in Tasks : \E v \in G, w \in G : NextRow(v, t) /\ holder[t] = w}
  <2>3. Awaited # {}
    BY <2>2
  <2>4. PICK x \in Awaited : \A y \in Awaited : y <= x
    BY <2>3
  <2>5. PICK w \in G : holder[x] = w
    BY <2>4
  <2>6. PICK y \in Tasks, z \in G : NextRow(w, y) /\ holder[y] = z
    BY <2>2
  <2>7. x < y
    BY <2>1, <2>4, <2>5, <2>6 DEF LockOrder, NextRow
  <2>8. y <= x
    BY <2>4, <2>6
  <2>9. x \in Nat /\ y \in Nat
    BY <2>4, <2>6, ApprovalsAssumption
  <2> HIDE DEF Awaited
  <2> QED
    BY <2>7, <2>8, <2>9
<1> QED
  BY <1>1, <1>2, <1>3, TypeCorrect, SharesHeld, Inductive, PTL DEF Spec

-----------------------------------------------------------------------------
(* The reports to the board lead                                           *)

\* Only decisions are owed to the lead, by a request that will report them.
ReportsOwed ==
    /\ DecisionReported
    /\ \A a \in Approvals : owed[a] \in Writers => status[a] \in Decisions

\* Every step keeps it: a request that writes over a decision takes the debt over or
\* clears it, and one that only reads leaves it to the request that has it.
LEMMA StepKeepsReports ==
    ASSUME TypeOK, TypeOK', IInv, ReportsOwed, [Next]_vars
    PROVE  ReportsOwed'
<1> DEFINE Owes(a, r, s) ==
              /\ r.approval = a /\ s \in Decisions
              /\ \/ r.pc = "refresh" /\ r.prior # s
                 \/ r.pc = "send" /\ r.target = s
<1>a. ASSUME NEW a \in Approvals, owed[a] \in Writers
      PROVE  Owes(a, wr[owed[a]], status[a])
  BY <1>a DEF ReportsOwed, DecisionReported, TypeOK
<1>b. ASSUME \A a \in Approvals : owed'[a] \in Writers => Owes(a, wr'[owed'[a]], status'[a])
      PROVE  ReportsOwed'
  BY <1>b DEF ReportsOwed, DecisionReported
<1>c. ASSUME NEW w \in Writers, NEW a \in Approvals, owed[a] = w
      PROVE  wr[w].pc \in {"refresh", "send"}
  BY <1>a, <1>c, ApprovalsAssumption
<1>d. ASSUME NEW w \in Writers, wr[w].pc \notin {"refresh", "send"},
             \A v \in Writers \ {w} : wr'[v] = wr[v],
             UNCHANGED <<status, owed>>
      PROVE  ReportsOwed'
  <2> SUFFICES ASSUME NEW a \in Approvals, owed[a] \in Writers
               PROVE  Owes(a, wr'[owed[a]], status[a])
    BY <1>b, <1>d
  <2>1. owed[a] # w
    BY <1>c, <1>d
  <2> QED
    BY <1>a, <1>d, <2>1
<1> HIDE DEF Owes
<1>1. ASSUME NEW w \in Writers,
             \/ \E a \in Approvals, s \in Statuses :
                  \/ \E ts \in SUBSET Tasks : StartCreate(w, a, ts, s)
                  \/ StartUpdate(w, a, s)
             \/ LoadTasks(w) \/ CheckConflicts(w)
      PROVE  ReportsOwed'
  BY <1>1, <1>d DEF StartCreate, StartUpdate, LoadTasks, CheckConflicts, Finish, TypeOK
<1>2. ASSUME NEW w \in Writers, LockNext(w) PROVE ReportsOwed'
  BY <1>2 DEF LockNext, ReportsOwed, DecisionReported
<1>3. ASSUME NEW w \in Writers, Insert(w) PROVE ReportsOwed'
  <2>1. wr[w].approval \in Approvals /\ status[wr[w].approval] = "unborn" /\ wr[w].pc = "write"
    BY <1>3 DEF Insert, IInv, RowOfRequest, TypeOK, WriterState
  <2>2. owed[wr[w].approval] \notin Writers
    BY <2>1, ApprovalsAssumption DEF ReportsOwed
  <2>3. /\ \A v \in Writers \ {w} : wr'[v] = wr[v]
        /\ \A a \in Approvals \ {wr[w].approval} : status'[a] = status[a]
        /\ UNCHANGED owed
    BY <1>3 DEF Insert, Finish, TypeOK
  <2> SUFFICES ASSUME NEW a \in Approvals, owed[a] \in Writers
               PROVE  Owes(a, wr'[owed[a]], status'[a])
    BY <1>b, <2>3
  <2>4. owed[a] # w /\ a # wr[w].approval
    BY <1>c, <2>1, <2>2
  <2> QED
    BY <1>a, <2>3, <2>4
<1>4. ASSUME NEW w \in Writers, Save(w) PROVE ReportsOwed'
  <2> DEFINE b == wr[w].approval
  <2>1. /\ b \in Approvals /\ wr[w].pc = "write" /\ wr[w].target \in Statuses
        /\ \A v \in Writers \ {w} : wr'[v] = wr[v]
    BY <1>4 DEF Save, TypeOK, WriterState, IInv, RowOfRequest
  <2>2. CASE ~(Exists(b) /\ wr[w].target # wr[w].prior)
    BY <1>4, <1>d, <2>1, <2>2 DEF Save
  <2>3. CASE Exists(b) /\ wr[w].target # wr[w].prior
    <3>1. /\ status' = [status EXCEPT ![b] = wr[w].target]
          /\ owed' = [owed EXCEPT ![b] = IF wr[w].target \in Decisions THEN w ELSE None]
      BY <1>4, <2>3 DEF Save
    <3>2. wr' = [wr EXCEPT ![w].pc = "refresh", ![w].tasks = {}, ![w].target = "unborn"]
      BY <1>4, <2>3 DEF Save
    <3>3. wr'[w].pc = "refresh" /\ wr'[w].approval = b /\ wr'[w].prior = wr[w].prior
      BY <3>2 DEF TypeOK, WriterState
    <3> SUFFICES ASSUME NEW a \in Approvals, owed'[a] \in Writers
                 PROVE  Owes(a, wr'[owed'[a]], status'[a])
      BY <1>b
    <3>4. CASE a = b
      <4>1. owed'[a] = w /\ status'[a] = wr[w].target /\ wr[w].target \in Decisions
        BY <2>1, <3>1, <3>4 DEF TypeOK
      <4> QED
        BY <2>3, <3>3, <3>4, <4>1 DEF Owes
    <3>5. CASE a # b
      <4>1. owed'[a] = owed[a] /\ status'[a] = status[a]
        BY <3>1, <3>5 DEF TypeOK
      <4>2. owed[a] # w
        BY <1>c, <2>1
      <4> QED
        BY <1>a, <2>1, <4>1, <4>2
    <3> QED
      BY <3>4, <3>5
  <2> QED
    BY <2>2, <2>3
<1>5. ASSUME NEW w \in Writers, Refresh(w) PROVE ReportsOwed'
  <2>1. UNCHANGED <<status, owed>> /\ \A v \in Writers \ {w} : wr'[v] = wr[v]
    BY <1>5 DEF Refresh, TypeOK
  <2> SUFFICES ASSUME NEW a \in Approvals, owed[a] \in Writers
               PROVE  Owes(a, wr'[owed[a]], status[a])
    BY <1>b, <2>1
  <2>2. CASE owed[a] = w
    <3>1. wr[w].approval = a /\ wr[w].prior # status[a] /\ status[a] \in Decisions
      BY <1>5, <1>a, <2>2 DEF Refresh, Owes
    <3>2. wr' = [wr EXCEPT ![w].pc = "send", ![w].target = status[a]]
      BY <1>5, <3>1 DEF Refresh, Reportable
    <3>3. wr'[w].approval = a /\ wr'[w].pc = "send" /\ wr'[w].target = status[a]
      BY <3>1, <3>2 DEF TypeOK, WriterState
    <3> QED
      BY <2>2, <3>1, <3>3 DEF Owes
  <2>3. CASE owed[a] # w
    BY <1>a, <2>1, <2>3
  <2> QED
    BY <2>2, <2>3
<1>6. ASSUME NEW w \in Writers, Notify(w) PROVE ReportsOwed'
  <2> DEFINE b == wr[w].approval
  <2>1. /\ b \in Approvals /\ wr[w].pc = "send" /\ UNCHANGED status
        /\ \A v \in Writers \ {w} : wr'[v] = wr[v]
    BY <1>6 DEF Notify, TypeOK, WriterState
  <2>2. /\ \A a \in Approvals \ {b} : owed'[a] = owed[a]
        /\ IF wr[w].target = status[b]
           THEN owed'[b] \in {None, "lost"} \/ (owed'[b] = owed[b] /\ owed[b] # w)
           ELSE owed'[b] = owed[b]
    BY <1>6, <2>1 DEF Notify, TypeOK
  <2> SUFFICES ASSUME NEW a \in Approvals, owed'[a] \in Writers
               PROVE  Owes(a, wr'[owed'[a]], status'[a])
    BY <1>b
  <2>3. /\ owed'[a] = owed[a] /\ owed[a] \in Writers
        /\ a = b => wr[w].target # status[b] \/ owed[b] # w
    BY <2>1, <2>2, ApprovalsAssumption
  <2>4. owed[a] # w
    BY <1>a, <2>1, <2>3 DEF Owes
  <2> QED
    BY <1>a, <2>1, <2>3, <2>4
<1>7. ASSUME NEW w \in Writers, Abort(w) PROVE ReportsOwed'
  <2>1. /\ \A v \in Writers \ {w} : wr'[v] = wr[v]
        /\ \A a \in Approvals : owed'[a] = IF owed[a] = w THEN "lost" ELSE owed[a]
        /\ UNCHANGED status
    BY <1>7 DEF Abort, Finish, TypeOK
  <2> SUFFICES ASSUME NEW a \in Approvals, owed'[a] \in Writers
               PROVE  Owes(a, wr'[owed'[a]], status'[a])
    BY <1>b
  <2> QED
    BY <1>a, <2>1
<1>8. ASSUME NEW d \in Deleters, FinishDelete(d) PROVE ReportsOwed'
  <2>1. CASE ~Deletable(d)
    BY <1>8, <2>1 DEF FinishDelete, ReportsOwed, DecisionReported
  <2>2. CASE Deletable(d)
    <3>1. /\ UNCHANGED wr
          /\ \A a \in Approvals :
               /\ status'[a] = IF a \in Orphaned(d) THEN "deleted" ELSE status[a]
               /\ owed'[a] = IF a \in Orphaned(d) THEN None ELSE owed[a]
      BY <1>8, <2>2 DEF FinishDelete
    <3> QED
      BY <1>a, <1>b, <3>1
  <2> QED
    BY <2>1, <2>2
<1>9. ASSUME NEW d \in Deleters,
             \/ \E x \in Tasks : StartDelete(d, x)
             \/ Unlink(d) \/ AbortDelete(d)
      PROVE  ReportsOwed'
  BY <1>9 DEF StartDelete, Unlink, AbortDelete, ReportsOwed, DecisionReported
<1>10. CASE UNCHANGED vars
  BY <1>10 DEF vars, ReportsOwed, DecisionReported
<1>11. ASSUME NEW w \in Writers, KeyShareNext(w) PROVE ReportsOwed'
  BY <1>11, <1>d DEF KeyShareNext, Finish, TypeOK
<1> QED
  BY <1>1, <1>2, <1>3, <1>4, <1>5, <1>6, <1>7, <1>8, <1>9, <1>10, <1>11 DEF Next

\* A decision that was written is taken to the lead by the request that wrote it, or was
\* written over, or was lost with its try, whatever the request reads back after its commit.
THEOREM DecisionReportedHolds == Spec => []DecisionReported
<1>1. Init => ReportsOwed
  BY DEF Init, ReportsOwed, DecisionReported
<1>2. TypeOK /\ TypeOK' /\ IInv /\ ReportsOwed /\ [Next]_vars => ReportsOwed'
  BY StepKeepsReports
<1>3. ReportsOwed => DecisionReported
  BY DEF ReportsOwed
<1> QED
  BY <1>1, <1>2, <1>3, TypeCorrect, Inductive, PTL DEF Spec

-----------------------------------------------------------------------------
(* Approvals implements ApprovalLedger: each commit is one step of the     *)
(* ledger, and nothing else changes it.                                    *)

\* An approval that a deletion took for its task's own, and that has lost every
\* link since, has been deleted by another deletion of the same task.
OrphansAreDeleted ==
    \A d \in Deleters : del[d].pc # "idle" =>
        \A a \in del[d].primaries : links[a] = {} => status[a] = "deleted"

-----------------------------------------------------------------------------
\* A create that goes through files an approval: its check still holds at its commit.
LEMMA InsertIsFile ==
    ASSUME TypeOK, IInv, ShareDiscipline, NEW w \in Writers, Insert(w)
    PROVE  \/ Ledger!Next
           \/ UNCHANGED <<status, links>>
<1> DEFINE a  == wr[w].approval
           ts == wr[w].tasks
           s  == wr[w].target
<1>2. ts \subseteq live
  BY DEF Insert, Lacking, IInv, LockDiscipline, ShareDiscipline, TypeOK, WriterState
<1>3. a \in Approvals /\ ts \in SUBSET Tasks /\ s \in Statuses /\ status[a] = "unborn"
  BY DEF Insert, TypeOK, WriterState, IInv, RowOfRequest
<1>4. /\ status' = [status EXCEPT ![a] = s]
      /\ links' = [links EXCEPT ![a] = ts]
  BY <1>2 DEF Insert
<1>5. s = "pending" => ~Ledger!Taken(a, ts)
  <2> SUFFICES ASSUME s = "pending", NEW b \in Approvals \ {a}, BoardOf[b] = BoardOf[a],
                      status[b] = "pending", NEW t \in links[b] \cap ts
               PROVE  FALSE
    BY DEF Ledger!Taken
  <2>1. t \in TasksOf(b)
    BY DEF TasksOf
  <2>2. t \notin TasksOf(b)
    BY <1>2 DEF Insert, IInv, Checked, Guarded
  <2> QED
    BY <2>1, <2>2
<1>6. Ledger!File(a, ts, s)
  BY <1>3, <1>4, <1>5 DEF Ledger!File
<1>7. s \in Ledger!Statuses
  BY <1>3 DEF Statuses, Ledger!Statuses
<1> QED
  BY <1>3, <1>6, <1>7 DEF Ledger!Next

\* An update that writes decides or reopens: a reopened approval holds the locks of
\* all its tasks, and none of them is taken.
LEMMA SaveIsDecide ==
    ASSUME TypeOK, IInv, NEW w \in Writers, Save(w)
    PROVE  \/ Ledger!Next
           \/ UNCHANGED <<status, links>>
<1> DEFINE a == wr[w].approval
           s == wr[w].target
           writes == Exists(a) /\ s # wr[w].prior
<1>1. CASE ~writes
  BY <1>1 DEF Save
<1>2. CASE writes
  <2>1. a \in Approvals /\ s \in Statuses /\ wr[w].prior # "unborn" /\ wr[w].pc = "write"
    BY DEF Save, TypeOK, WriterState, IInv, RowOfRequest
  <2>2. status' = [status EXCEPT ![a] = s] /\ links' = links
    BY <1>2 DEF Save
  <2>3. s = "pending" => ~Ledger!Taken(a, links[a])
    <3> SUFFICES ASSUME s = "pending", NEW b \in Approvals \ {a}, BoardOf[b] = BoardOf[a],
                        status[b] = "pending", NEW t \in links[b] \cap links[a]
                 PROVE  FALSE
      BY DEF Ledger!Taken
    <3>1. t \in TasksOf(b) /\ t \in TasksOf(a) /\ t \in live
      BY <2>1, TasksAreLinks DEF IInv
    <3>2. Guarded(w)
      BY <1>2 DEF Guarded
    <3>3. t \in wr[w].tasks
      BY <2>1, <3>1, <3>2 DEF IInv, Covered
    <3>4. t \notin TasksOf(b)
      BY <2>1, <3>1, <3>2, <3>3 DEF IInv, Checked
    <3> QED
      BY <3>1, <3>4
  <2>4. Ledger!Decide(a, s)
    BY <1>2, <2>1, <2>2, <2>3 DEF Ledger!Decide, Ledger!Statuses, Exists, Statuses
  <2>5. s \in Ledger!Statuses
    BY <2>1 DEF Statuses, Ledger!Statuses
  <2> QED
    BY <2>1, <2>4, <2>5 DEF Ledger!Next
<1> QED
  BY <1>1, <1>2

\* A deletion that goes through removes exactly the approvals that named nothing else.
LEMMA DeleteIsForget ==
    ASSUME TypeOK, IInv, OrphansAreDeleted, NEW d \in Deleters, FinishDelete(d), Deletable(d)
    PROVE  Ledger!Forget(del[d].task)
<1> DEFINE t == del[d].task
<1>1. /\ status' = [a \in Approvals |-> IF a \in Orphaned(d) THEN "deleted" ELSE status[a]]
      /\ links' = [a \in Approvals |-> links[a] \ {t}]
      /\ del[d].pc = "finish"
  BY DEF FinishDelete
<1>2. \A a \in Approvals : a \in Orphaned(d) => links[a] = {t} \/ status[a] = "deleted"
  BY <1>1 DEF Deletable, Orphaned, OrphansAreDeleted
<1>3. \A a \in Approvals : links[a] = {t} => a \in Orphaned(d)
  <2> SUFFICES ASSUME NEW a \in Approvals, links[a] = {t} PROVE a \in Orphaned(d)
    OBVIOUS
  <2>1. a \in del[d].primaries
    BY DEF IInv, PrimaryLinked, Deletable
  <2>2. a \notin Repointed(d)
    BY <1>1, <2>1 DEF Deletable, Repointed, IInv, HeirLinked
  <2> QED
    BY <2>1, <2>2 DEF Orphaned
<1>4. \A a \in Approvals :
         (IF a \in Orphaned(d) THEN "deleted" ELSE status[a])
       = (IF links[a] = {t} THEN "deleted" ELSE status[a])
  BY <1>2, <1>3
<1> QED
  BY <1>1, <1>4 DEF Ledger!Forget

-----------------------------------------------------------------------------
\* Every step keeps the invariant on orphans.
LEMMA StepKeepsOrphans ==
    ASSUME TypeOK, IInv, OrphansAreDeleted, [Next]_vars
    PROVE  OrphansAreDeleted'
<1> USE DEF OrphansAreDeleted
<1>a. \A d \in Deleters : del[d].primaries \subseteq Approvals
  BY DEF TypeOK, DeleterState
<1>b. \A w \in Writers : wr[w].pc # "idle" => wr[w].approval \in Approvals
  BY DEF TypeOK, WriterState
<1>1. CASE UNCHANGED <<status, links, del>>
  BY <1>1
<1>2. ASSUME NEW w \in Writers, Insert(w) PROVE OrphansAreDeleted'
  <2>1. wr[w].approval \in Approvals /\ status[wr[w].approval] = "unborn"
    BY <1>2, <1>b DEF Insert, IInv, RowOfRequest
  <2>2. \A d \in Deleters : del[d].pc # "idle" => wr[w].approval \notin del[d].primaries
    BY <2>1 DEF IInv, HeirLinked
  <2>3. \A a \in Approvals \ {wr[w].approval} : status'[a] = status[a] /\ links'[a] = links[a]
    BY <1>2 DEF Insert, TypeOK
  <2>4. UNCHANGED del
    BY <1>2 DEF Insert
  <2> QED
    BY <1>a, <2>2, <2>3, <2>4
<1>3. ASSUME NEW w \in Writers, Save(w) PROVE OrphansAreDeleted'
  <2>1. UNCHANGED <<links, del>>
    BY <1>3 DEF Save
  <2>2. \A a \in Approvals : status[a] = "deleted" => status'[a] = "deleted"
    <3>1. CASE UNCHANGED status
      BY <3>1
    <3>2. CASE ~UNCHANGED status
      <4>1. Exists(wr[w].approval)
            /\ status' = [status EXCEPT ![wr[w].approval] = wr[w].target]
        BY <1>3, <3>2 DEF Save
      <4>2. "deleted" \notin Statuses
        BY ApprovalsAssumption DEF Statuses
      <4> QED
        BY <4>1, <4>2 DEF Exists, TypeOK
    <3> QED
      BY <3>1, <3>2
  <2> QED
    BY <1>a, <2>1, <2>2
<1>4. ASSUME NEW d \in Deleters, NEW t \in Tasks, StartDelete(d, t) PROVE OrphansAreDeleted'
  <2>1. UNCHANGED <<status, links>>
    BY <1>4 DEF StartDelete
  <2>2. \A a \in Approvals : primary[a] = t => links[a] # {}
    BY ApprovalsAssumption DEF IInv, PrimaryLinked
  <2>3. del'[d].primaries = {a \in Approvals : Exists(a) /\ primary[a] = t}
    BY <1>4 DEF StartDelete, TypeOK, DeleterState, IdleDeleter
  <2>4. \A e \in Deleters \ {d} : del'[e] = del[e]
    BY <1>4 DEF StartDelete, TypeOK
  <2> QED
    BY <2>1, <2>2, <2>3, <2>4
<1>5. ASSUME NEW d \in Deleters, Unlink(d) PROVE OrphansAreDeleted'
  <2>1. UNCHANGED <<status, links>> /\ del[d].pc = "unlink"
    BY <1>5 DEF Unlink
  <2>2. del'[d].primaries = del[d].primaries
    BY <1>5 DEF Unlink, TypeOK, DeleterState
  <2>3. \A e \in Deleters \ {d} : del'[e] = del[e]
    BY <1>5 DEF Unlink, TypeOK
  <2> QED
    BY <2>1, <2>2, <2>3
<1>6. ASSUME NEW d \in Deleters, FinishDelete(d) PROVE OrphansAreDeleted'
  <2>1. del'[d].pc = "idle" /\ \A e \in Deleters \ {d} : del'[e] = del[e]
    BY <1>6 DEF FinishDelete, TypeOK, IdleDeleter
  <2>2. CASE ~Deletable(d)
    BY <1>6, <2>1, <2>2 DEF FinishDelete
  <2>3. CASE Deletable(d)
    <3>1. Ledger!Forget(del[d].task)
      BY <1>6, <2>3, DeleteIsForget
    <3>2. \A a \in Approvals : links'[a] = {} /\ (links[a] = {} => status[a] = "deleted")
                                  => status'[a] = "deleted"
      BY <3>1 DEF Ledger!Forget, TypeOK
    <3>3. \A a \in Approvals : links[a] = {} => links'[a] = {}
      BY <3>1 DEF Ledger!Forget
    <3> QED
      BY <1>a, <2>1, <3>2, <3>3
  <2> QED
    BY <2>2, <2>3
<1>7. ASSUME NEW d \in Deleters, AbortDelete(d) PROVE OrphansAreDeleted'
  BY <1>7 DEF AbortDelete, TypeOK, IdleDeleter
<1>8. ASSUME NEW w \in Writers,
             \/ \E a \in Approvals, s \in Statuses :
                  \/ \E ts \in SUBSET Tasks : StartCreate(w, a, ts, s)
                  \/ StartUpdate(w, a, s)
             \/ LoadTasks(w) \/ LockNext(w) \/ CheckConflicts(w) \/ KeyShareNext(w)
             \/ Refresh(w) \/ Notify(w) \/ Abort(w)
      PROVE  UNCHANGED <<status, links, del>>
  BY <1>8 
  DEF StartCreate, StartUpdate, LoadTasks, LockNext, CheckConflicts, KeyShareNext, Refresh,
      Notify, Abort
<1> QED
  BY <1>1, <1>2, <1>3, <1>4, <1>5, <1>6, <1>7, <1>8 DEF Next, vars

\* Every step of the requests is a step of the ledger, or leaves it alone.
LEMMA StepRefines ==
    ASSUME TypeOK, IInv, ShareDiscipline, OrphansAreDeleted, [Next]_vars
    PROVE  [Ledger!Next]_(Ledger!ledger)
<1> SUFFICES Ledger!Next \/ UNCHANGED <<status, links>>
  BY DEF Ledger!ledger
<1>1. ASSUME NEW w \in Writers,
             \/ \E a \in Approvals, s \in Statuses :
                  \/ \E ts \in SUBSET Tasks : StartCreate(w, a, ts, s)
                  \/ StartUpdate(w, a, s)
             \/ LoadTasks(w) \/ LockNext(w) \/ CheckConflicts(w) \/ KeyShareNext(w)
             \/ Refresh(w) \/ Notify(w) \/ Abort(w)
      PROVE  UNCHANGED <<status, links>>
  BY <1>1 
  DEF StartCreate, StartUpdate, LoadTasks, LockNext, CheckConflicts, KeyShareNext, Refresh,
      Notify, Abort
<1>2. ASSUME NEW d \in Deleters,
             \/ \E t \in Tasks : StartDelete(d, t)
             \/ Unlink(d) \/ AbortDelete(d)
      PROVE  UNCHANGED <<status, links>>
  BY <1>2 DEF StartDelete, Unlink, AbortDelete
<1>3. ASSUME NEW d \in Deleters, FinishDelete(d)
      PROVE  Ledger!Next \/ UNCHANGED <<status, links>>
  <2>1. CASE Deletable(d)
    <3>1. del[d].task \in Tasks
      BY <1>3 DEF FinishDelete, TypeOK, DeleterState
    <3> QED
      BY <1>3, <2>1, <3>1, DeleteIsForget DEF Ledger!Next
  <2>2. CASE ~Deletable(d)
    BY <1>3, <2>2 DEF FinishDelete
  <2> QED
    BY <2>1, <2>2
<1>4. CASE UNCHANGED vars
  BY <1>4 DEF vars
<1> QED
  BY <1>1, <1>2, <1>3, <1>4, InsertIsFile, SaveIsDecide DEF Next

\* The interleaved requests, with their aborts, implement the atomic ledger.
THEOREM Refinement == Spec => LedgerSpec
<1>1. Init => Ledger!Init /\ OrphansAreDeleted
  BY DEF Init, Ledger!Init, OrphansAreDeleted, IdleDeleter
<1>2. TypeOK /\ IInv /\ OrphansAreDeleted /\ [Next]_vars => OrphansAreDeleted'
  BY StepKeepsOrphans
<1>3. TypeOK /\ IInv /\ ShareDiscipline /\ OrphansAreDeleted /\ [Next]_vars => [Ledger!Next]_(Ledger!ledger)
  BY StepRefines
<1> QED
  BY <1>1, <1>2, <1>3, TypeCorrect, SharesHeld, Inductive, PTL DEF Spec, LedgerSpec, Ledger!Spec

=============================================================================
