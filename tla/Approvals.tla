------------------------------ MODULE Approvals -----------------------------
(***************************************************************************)
(* backend/app/api/approvals.py and services/approval_task_links.py, with  *)
(* the part of task deletion (api/tasks.py) that rewrites approvals.       *)
(*                                                                         *)
(* Every request is one READ COMMITTED transaction: a statement sees what  *)
(* is committed when it starts.  What a transaction writes is flushed and  *)
(* committed in one action; the rows it locks with SELECT ... FOR UPDATE   *)
(* stay locked from the statement to the end of the transaction.           *)
(***************************************************************************)
EXTENDS Naturals, FiniteSets

CONSTANTS Tasks,      \* task ids, ordered as the database orders them
          Approvals,  \* ids of approvals that can be created
          Decisions,  \* the statuses that resolve an approval: approved, rejected
          Boards,
          BoardOf,    \* the board an approval is created on
          Writers,    \* concurrent requests that create or update approvals
          Deleters,   \* concurrent requests that delete a task
          None

ASSUME ApprovalsAssumption ==
    /\ Tasks \subseteq Nat
    /\ BoardOf \in [Approvals -> Boards]
    /\ None \notin Tasks \cup Approvals \cup Writers
    /\ None \notin Nat
    /\ "lost" \notin Writers /\ None # "lost"
    /\ Decisions \cap {"pending", "unborn", "deleted"} = {}

VARIABLES live,     \* ids of the tasks that exist
          status,   \* status[a]; "unborn" before the row exists, "deleted" after
          links,    \* links[a]: tasks of a's ApprovalTaskLink rows
          primary,  \* primary[a]: Approval.task_id
          holder,   \* holder[t]: the writer that holds row t FOR UPDATE
          shared,   \* shared[t]: the writers whose foreign keys hold row t FOR KEY SHARE
          owed,     \* owed[a]: the update that wrote a decision the lead has not been sent
                    \* yet; "lost" once it was tried in vain or will never be tried
          wr,       \* wr[w]: local state of an approval request
          del       \* del[d]: local state of a task deletion

locks   == <<holder, shared>>
vars == <<live, status, links, primary, locks, owed, wr, del>>

Statuses  == Decisions \cup {"pending"}
Rows      == Statuses \cup {"unborn", "deleted"}

IdleWriter  == [pc |-> "idle", approval |-> None, target |-> "unborn",
                prior |-> "unborn", tasks |-> {}]
IdleDeleter == [pc |-> "idle", task |-> None, primaries |-> {}, cut |-> {},
                heir |-> [a \in Approvals |-> None]]

WriterState == [pc : {"idle", "loaded", "lock", "write", "refresh", "send"},
                approval : Approvals \cup {None}, target : Rows, prior : Rows,
                tasks : SUBSET Tasks]
DeleterState == [pc : {"idle", "unlink", "finish"}, task : Tasks \cup {None},
                 primaries : SUBSET Approvals, cut : SUBSET Approvals,
                 heir : [Approvals -> Tasks \cup {None}]]

\* Type invariant; a running request has an approval or a task it is about.
TypeOK ==
    /\ live \subseteq Tasks
    /\ status \in [Approvals -> Rows]
    /\ links \in [Approvals -> SUBSET Tasks]
    /\ primary \in [Approvals -> Tasks \cup {None}]
    /\ holder \in [Tasks -> Writers \cup {None}]
    /\ shared \in [Tasks -> SUBSET Writers]
    /\ owed \in [Approvals -> Writers \cup {None, "lost"}]
    /\ wr \in [Writers -> WriterState]
    /\ del \in [Deleters -> DeleterState]
    /\ \A w \in Writers : wr[w].pc # "idle" => wr[w].approval # None
    /\ \A d \in Deleters : del[d].pc # "idle" => del[d].task # None

Init ==
    /\ live = Tasks
    /\ status = [a \in Approvals |-> "unborn"]
    /\ links = [a \in Approvals |-> {}]
    /\ primary = [a \in Approvals |-> None]
    /\ holder = [t \in Tasks |-> None]
    /\ shared = [t \in Tasks |-> {}]
    /\ owed = [a \in Approvals |-> None]
    /\ wr = [w \in Writers |-> IdleWriter]
    /\ del = [d \in Deleters |-> IdleDeleter]

Exists(a) == status[a] \in Statuses

\* Fault: the primary task is used without the test for NULL.
TasksOf_NullPrimary(a) == IF links[a] # {} THEN links[a] ELSE {primary[a]}

\* The tasks an approval counts against: its link rows, or the primary task of
\* a row written before links existed.
TasksOf(a) == IF links[a] # {} THEN links[a] ELSE {primary[a]} \ {None}

\* Fault: rows locked by others are skipped instead of waited for.
Unlocked_SkipLocked(w) == {t \in wr[w].tasks \cap live : holder[t] = None}

\* Rows of the lock statement that writer w does not hold yet.  Rows of deleted
\* tasks are not returned, so they are not locked.
Unlocked(w) == {t \in wr[w].tasks \cap live : holder[t] # w}

\* Fault: the lock statement has no ORDER BY.
NextRow_AnyOrder(w, t) == t \in Unlocked(w)

\* The row the lock statement of w waits for or takes next.
NextRow(w, t) == t \in Unlocked(w) /\ \A u \in Unlocked(w) : t <= u

\* pending_approval_conflicts_by_task, with the request's own approval excluded.
Conflict(w) ==
    \E a \in Approvals \ {wr[w].approval} :
        /\ BoardOf[a] = BoardOf[wr[w].approval]
        /\ status[a] = "pending"
        /\ TasksOf(a) \cap wr[w].tasks # {}

Released(w) == [t \in Tasks |-> IF holder[t] = w THEN None ELSE holder[t]]

\* The transaction ends: locks are released and the request is over.
Finish(w) == /\ holder' = Released(w)
             /\ shared' = [t \in Tasks |-> shared[t] \ {w}]
             /\ wr' = [wr EXCEPT ![w] = IdleWriter]

-----------------------------------------------------------------------------
(* create_approval.  Only a pending approval for some task is checked.     *)

StartCreate(w, a, ts, s) ==
    /\ wr[w].pc = "idle"
    /\ status[a] = "unborn"
    /\ \A v \in Writers : wr[v].approval # a
    /\ wr' = [wr EXCEPT ![w] =
                [pc |-> IF s = "pending" /\ ts # {} THEN "lock" ELSE "write",
                 approval |-> a, target |-> s, prior |-> "unborn", tasks |-> ts]]
    /\ UNCHANGED <<live, status, links, primary, locks, owed, del>>

\* lock_tasks_for_approval: row locks are taken one by one in the order of ids.
LockNext(w) ==
    /\ wr[w].pc = "lock"
    /\ \E t \in Tasks :
        /\ NextRow(w, t)
        /\ holder[t] = None /\ shared[t] = {}
        /\ holder' = [holder EXCEPT ![t] = w]
    /\ UNCHANGED <<live, status, links, primary, shared, owed, wr, del>>

\* The conflict queries run after the lock statement has returned every row.
CheckConflicts(w) ==
    /\ wr[w].pc = "lock"
    /\ Unlocked(w) = {}
    /\ IF Conflict(w)
       THEN Finish(w)
       ELSE /\ wr' = [wr EXCEPT ![w].pc = "write"]
            /\ UNCHANGED locks
    /\ UNCHANGED <<live, status, links, primary, owed, del>>

\* Tasks of a create whose rows its foreign keys are yet to lock.  A transaction that
\* holds a row FOR UPDATE has the weaker lock too.
Lacking(w) == {t \in wr[w].tasks : holder[t] # w /\ w \notin shared[t]}

\* The row of the approval, then each link row, refers to a task: the foreign key waits
\* for a row that is locked FOR UPDATE, and fails on a task that is gone.  The order is
\* the client's.
KeyShareNext(w) ==
    /\ wr[w].pc = "write"
    /\ wr[w].prior = "unborn"
    /\ \E t \in Lacking(w) :
        IF t \in live
        THEN /\ holder[t] = None
             /\ shared' = [shared EXCEPT ![t] = @ \cup {w}]
             /\ UNCHANGED <<holder, wr>>
        ELSE Finish(w)
    /\ UNCHANGED <<live, status, links, primary, owed, del>>

\* The commit of a create; task_ids[0] is the primary task.
Insert(w) ==
    LET r == wr[w] IN
    /\ r.pc = "write"
    /\ r.prior = "unborn"
    /\ Lacking(w) = {}
    /\ status' = [status EXCEPT ![r.approval] = r.target]
    /\ links' = [links EXCEPT ![r.approval] = r.tasks]
    /\ \E p \in Tasks \cup {None} :
        /\ IF r.tasks = {} THEN p = None ELSE p \in r.tasks
        /\ primary' = [primary EXCEPT ![r.approval] = p]
    /\ Finish(w)
    /\ UNCHANGED <<live, owed, del>>

-----------------------------------------------------------------------------
(* update_approval.  The status is read without a lock; only a request     *)
(* that makes a decided approval pending again loads and locks its tasks.  *)

StartUpdate(w, a, s) ==
    /\ wr[w].pc = "idle"
    /\ Exists(a)
    /\ wr' = [wr EXCEPT ![w] =
                [pc |-> IF s = "pending" /\ status[a] # "pending" THEN "loaded" ELSE "write",
                 approval |-> a, target |-> s, prior |-> status[a], tasks |-> {}]]
    /\ UNCHANGED <<live, status, links, primary, locks, owed, del>>

LoadTasks(w) ==
    /\ wr[w].pc = "loaded"
    /\ LET ts == TasksOf(wr[w].approval) IN
       wr' = [wr EXCEPT ![w].tasks = ts, ![w].pc = IF ts = {} THEN "write" ELSE "lock"]
    /\ UNCHANGED <<live, status, links, primary, locks, owed, del>>

\* The ORM writes the status only if it differs from the one it loaded; an
\* UPDATE or a refresh of a deleted row raises.
Save(w) ==
    LET r == wr[w] IN
    /\ r.pc = "write"
    /\ r.prior # "unborn"
    /\ holder' = Released(w)
    /\ IF Exists(r.approval)
       THEN wr' = [wr EXCEPT ![w].pc = "refresh", ![w].tasks = {}, ![w].target = "unborn"]
       ELSE wr' = [wr EXCEPT ![w] = IdleWriter]
    /\ IF Exists(r.approval) /\ r.target # r.prior
       THEN /\ status' = [status EXCEPT ![r.approval] = r.target]
            /\ owed' = [owed EXCEPT ![r.approval] = IF r.target \in Decisions THEN w ELSE None]
       ELSE UNCHANGED <<status, owed>>
    /\ UNCHANGED <<live, links, primary, shared, del>>

\* Fault: only the first decision on an approval is worth a message.
Reportable_FirstOnly(w) == status[wr[w].approval] \in Decisions /\ wr[w].prior = "pending"

\* The lead is notified when the status read back is a decision that differs
\* from the status loaded at first.
Reportable(w) == status[wr[w].approval] \in Decisions \ {wr[w].prior}

\* After the commit the row is read again.
Refresh(w) ==
    /\ wr[w].pc = "refresh"
    /\ IF Reportable(w)
       THEN wr' = [wr EXCEPT ![w].pc = "send", ![w].target = status[wr[w].approval]]
       ELSE wr' = [wr EXCEPT ![w] = IdleWriter]
    /\ UNCHANGED <<live, status, links, primary, locks, owed, del>>

\* _notify_lead_on_approval_resolution: the message is sent, or it is not, because the
\* board has no lead, the lead no session or the board no gateway (which nobody is told),
\* because the gateway refuses it (which is recorded), or by an exception that is logged.
Notify(w) ==
    LET a == wr[w].approval IN
    /\ wr[w].pc = "send"
    /\ IF wr[w].target = status[a]
       THEN \/ owed' = [owed EXCEPT ![a] = None]
            \/ owed' = [owed EXCEPT ![a] = IF @ = w THEN "lost" ELSE @]
       ELSE UNCHANGED owed
    /\ wr' = [wr EXCEPT ![w] = IdleWriter]
    /\ UNCHANGED <<live, status, links, primary, locks, del>>

\* The process dies or the client goes away, or PostgreSQL makes the transaction the victim
\* of a deadlock: what is not committed is rolled back and nothing more happens for this
\* request.
Abort(w) ==
    /\ wr[w].pc # "idle"
    /\ Finish(w)
    /\ owed' = [a \in Approvals |-> IF owed[a] = w THEN "lost" ELSE owed[a]]
    /\ UNCHANGED <<live, status, links, primary, del>>

-----------------------------------------------------------------------------
(* delete_task_and_related_records, restricted to what it does to approvals *)

StartDelete(d, t) ==
    /\ del[d].pc = "idle"
    /\ t \in live
    /\ del' = [del EXCEPT ![d] = [IdleDeleter EXCEPT
                  !.pc = "unlink", !.task = t,
                  !.primaries = {a \in Approvals : Exists(a) /\ primary[a] = t}]]
    /\ UNCHANGED <<live, status, links, primary, locks, owed, wr>>

\* Fault: the remaining links are read before those of the task are deleted.
Remaining_ReadEarly(d, a) == links[a]

\* load_task_ids_by_approval, after the links of the deleted task are gone.
Remaining(d, a) == links[a] \ {del[d].task}

\* The task's links are deleted, then every approval whose primary task goes
\* away is given one of its remaining tasks, if it has any.
Unlink(d) ==
    /\ del[d].pc = "unlink"
    /\ \E h \in [Approvals -> Tasks \cup {None}] :
        /\ \A a \in Approvals :
             IF a \in del[d].primaries /\ Remaining(d, a) # {}
             THEN h[a] \in Remaining(d, a)
             ELSE h[a] = None
        /\ del' = [del EXCEPT ![d].pc = "finish", ![d].heir = h,
                              ![d].cut = {a \in Approvals : del[d].task \in links[a]}]
    /\ UNCHANGED <<live, status, links, primary, locks, owed, wr>>

\* Approvals whose primary task changes, and approvals that are deleted.
Repointed(d) == {a \in del[d].primaries : del[d].heir[a] # None}

\* Fault: an approval whose last task goes is kept, with a NULL task_id.
Orphaned_KeptWithoutTask(d) == {}

Orphaned(d) == del[d].primaries \ Repointed(d)

\* What the foreign keys and the row counts of the final flush demand.
Deletable(d) ==
    LET t == del[d].task IN
    /\ \A a \in Repointed(d) : Exists(a) /\ del[d].heir[a] \in live
    /\ \A a \in Orphaned(d) : links[a] \subseteq {t}
    /\ \A a \in Approvals : t \in links[a] => a \in del[d].cut
    /\ \A a \in Approvals : primary[a] = t => a \in del[d].primaries

FinishDelete(d) ==
    LET t == del[d].task IN
    /\ del[d].pc = "finish"
    /\ holder[t] = None /\ shared[t] = {}
    /\ \A a \in Repointed(d) : holder[del[d].heir[a]] = None
    /\ IF Deletable(d)
       THEN /\ live' = live \ {t}
            /\ links' = [a \in Approvals |-> links[a] \ {t}]
            /\ status' = [a \in Approvals |-> IF a \in Orphaned(d) THEN "deleted" ELSE status[a]]
            /\ primary' = [a \in Approvals |->
                             IF a \in del[d].primaries THEN del[d].heir[a] ELSE primary[a]]
            /\ owed' = [a \in Approvals |-> IF a \in Orphaned(d) THEN None ELSE owed[a]]
       ELSE UNCHANGED <<live, links, status, primary, owed>>
    /\ del' = [del EXCEPT ![d] = IdleDeleter]
    /\ UNCHANGED <<locks, wr>>

AbortDelete(d) ==
    /\ del[d].pc # "idle"
    /\ del' = [del EXCEPT ![d] = IdleDeleter]
    /\ UNCHANGED <<live, status, links, primary, locks, owed, wr>>

-----------------------------------------------------------------------------
Next ==
    \/ \E w \in Writers :
        \/ \E a \in Approvals, s \in Statuses :
            \/ \E ts \in SUBSET Tasks : StartCreate(w, a, ts, s)
            \/ StartUpdate(w, a, s)
        \/ LoadTasks(w) \/ LockNext(w) \/ CheckConflicts(w)
        \/ KeyShareNext(w) \/ Insert(w) \/ Save(w) \/ Refresh(w) \/ Notify(w) \/ Abort(w)
    \/ \E d \in Deleters :
        \/ \E t \in Tasks : StartDelete(d, t)
        \/ Unlink(d) \/ FinishDelete(d) \/ AbortDelete(d)

Spec == Init /\ [][Next]_vars

-----------------------------------------------------------------------------
(* Properties                                                              *)

\* Two pending approvals of one board never name the same task, however create,
\* reopen and delete requests interleave (api/approvals.py:158, docs:605).
OnePending ==
    \A a, b \in Approvals :
        a # b /\ BoardOf[a] = BoardOf[b] /\ status[a] = "pending" /\ status[b] = "pending"
            => TasksOf(a) \cap TasksOf(b) = {}

\* No approval points at a deleted task, and an approval that names tasks has one
\* of them as its primary task: the repointing in delete_task_and_related_records
\* leaves nothing dangling, and no row needs the fallback for rows without links.
PrimaryLinked ==
    \A a \in Approvals :
        /\ links[a] \subseteq live
        /\ IF links[a] = {} THEN primary[a] = None ELSE primary[a] \in links[a]

\* w makes its approval pending: it takes the rows of its tasks FOR UPDATE, in order.
Guarded(w) == wr[w].target = "pending" /\ wr[w].prior # "pending"

\* v is in its lock statement or its inserts, and a row it needs is held by w in a mode
\* that makes it wait.
WaitsFor(v, w) ==
    /\ v # w
    /\ \/ wr[v].pc = "lock" /\ \E t \in Tasks : NextRow(v, t) /\ w \in {holder[t]} \cup shared[t]
       \/ /\ wr[v].pc = "write" /\ wr[v].prior = "unborn"
          /\ \E t \in Lacking(v) : holder[t] = w

\* Approval requests that wait for one another in a circle never all come with the lock
\* statement (the "deterministic order" of lock_tasks_for_approval): every circle goes
\* through a create with another status than pending, whose foreign keys take the rows
\* without it, in the order of the client.
NoDeadlock ==
    \A G \in SUBSET Writers :
        G # {} /\ (\A v \in G : \E w \in G : WaitsFor(v, w)) => \E v \in G : ~Guarded(v)

\* Every decision written by an update is taken to the board lead: until the message has
\* been sent, the request that wrote it is still going to try, although it decides what to
\* send from a status it reads back after others may have written the row.  A decision is
\* lost only by a try that found nobody to tell or failed (Notify) or with a request that
\* died between its commit and the try (Abort); none slips through untried.
DecisionReported ==
    \A a \in Approvals :
        owed[a] \in Writers =>
            LET r == wr[owed[a]] IN
            /\ r.approval = a
            /\ \/ r.pc = "refresh" /\ r.prior # status[a]
               \/ r.pc = "send" /\ r.target = status[a]

\* The requests, with all their steps, implement the atomic ledger.
Ledger == INSTANCE ApprovalLedger WITH status <- status, links <- links
LedgerSpec == Ledger!Spec

\* What the documentation says without mentioning boards: only one pending
\* approval per task (docs/board-onboarding-guide.md:605).
OnePendingPerTask ==
    \A a, b \in Approvals :
        a # b /\ status[a] = "pending" /\ status[b] = "pending"
            => TasksOf(a) \cap TasksOf(b) = {}

-----------------------------------------------------------------------------
(* The inductive invariant behind OnePending                               *)

\* Row locks belong to running transactions, on live tasks they asked for.
LockDiscipline ==
    \A t \in Tasks, w \in Writers :
        holder[t] = w => wr[w].pc \in {"lock", "write"} /\ t \in wr[w].tasks \cap live

\* The weaker locks belong to creates that are inserting, on live tasks they name.
ShareDiscipline ==
    \A t \in Tasks : \A w \in shared[t] :
        wr[w].pc = "write" /\ wr[w].prior = "unborn" /\ t \in wr[w].tasks \cap live

\* A create owns an id nobody else uses; an update works on a row that was written.
RowOfRequest ==
    \A w \in Writers :
        wr[w].pc # "idle" =>
            /\ wr[w].pc \in {"loaded", "lock", "write"} => wr[w].target \in Statuses
            /\ IF wr[w].prior = "unborn"
               THEN /\ status[wr[w].approval] = "unborn"
                    /\ \A v \in Writers \ {w} :
                           wr[v].pc # "idle" => wr[v].approval # wr[w].approval
               ELSE status[wr[w].approval] # "unborn"

\* A reopening request locks every task its approval counts against.
Covered ==
    \A w \in Writers :
        wr[w].pc \in {"lock", "write"} /\ Guarded(w) /\ wr[w].prior # "unborn"
            => TasksOf(wr[w].approval) \subseteq wr[w].tasks

\* Between its check and its commit a request holds every task, and no other
\* approval is pending on any of them.
Checked ==
    \A w \in Writers :
        wr[w].pc = "write" /\ Guarded(w) =>
            \A t \in wr[w].tasks \cap live :
                /\ holder[t] = w
                /\ \A a \in Approvals \ {wr[w].approval} :
                    BoardOf[a] = BoardOf[wr[w].approval] /\ status[a] = "pending"
                        => t \notin TasksOf(a)

\* The new primary task of an approval is still linked to it unless it is gone.
HeirLinked ==
    \A d \in Deleters : del[d].pc # "idle" => \A a \in del[d].primaries :
        /\ status[a] # "unborn"
        /\ del[d].pc = "finish" /\ del[d].heir[a] \in live
             => del[d].heir[a] \in links[a] \ {del[d].task}

IInv == /\ OnePending
        /\ PrimaryLinked
        /\ LockDiscipline
        /\ RowOfRequest
        /\ Covered
        /\ Checked
        /\ HeirLinked
=============================================================================
