------------------------------ MODULE TaskBoard -----------------------------
(***************************************************************************)
(* The tasks of one board: PATCH /tasks/{id} by board leads, worker agents *)
(* and administrators, the board rules that gate status changes, and the   *)
(* reset of dependents when a finished task is reopened (api/tasks.py).    *)
(*                                                                         *)
(* A request reads the row, decides, flushes its UPDATE (which locks the   *)
(* row), checks the gates and commits; comment and reset of dependents are *)
(* committed by later transactions of the same request.                    *)
(***************************************************************************)
EXTENDS Naturals, DependencyGraph

CONSTANTS Agents, Requests,
          Rules,     \* board rules that are switched on
          Payloads,  \* the PATCH bodies that are sent, with their sender
          Creates,   \* the rows administrators create
          Commenters, \* agents that use the comments endpoint
          Linkable,  \* tasks that approvals are asked for
          Overlap,   \* whether requests and approvals interleave
          CanCrash,  \* whether a request can be cut off half way
          None, Same \* no agent; a field that is not in the body

VARIABLES rows,     \* rows[t]: status, assigned agent, whether in_progress_at is set
          deps,     \* deps[t]: the tasks t depends on
          pend,     \* tasks with a pending approval
          appr,     \* tasks with an approved approval
          said,     \* said[t]: who commented since t was started or went back to inbox
          lock,     \* lock[t]: the request whose UPDATE of row t is not committed
          req,      \* req[r]: local state of a request
          excused   \* history: <<t, d>>, t goes on although d was reopened or added

vars == <<rows, deps, pend, appr, said, lock, req, excused>>

Statuses == {"inbox", "in_progress", "review", "done"}
Fields   == {"status", "agent", "since"}
Row      == [status : Statuses \cup {"absent"}, agent : Agents \cup {None}, since : BOOLEAN]
Payload  == [actor : Agents \cup {"lead", "admin"}, status : Statuses \cup {Same},
             agent : Agents \cup {None, Same}, deps : (SUBSET Tasks) \cup {Same},
             comment : BOOLEAN]

ASSUME TaskBoardAssumption ==
    /\ Tasks \subseteq Nat  \* in the order of their ids
    /\ Rules \subseteq {"approval", "review", "pending", "lead_only"}
    /\ {Overlap, CanCrash} \subseteq BOOLEAN
    /\ Commenters \subseteq Agents /\ Linkable \subseteq Tasks /\ Agents \cap {"lead", "admin"} = {}
    /\ Payloads \subseteq Payload
    /\ Creates \subseteq [status : Statuses, agent : Agents \cup {None}, deps : SUBSET Tasks]
    /\ None \notin Requests /\ Same \notin Statuses

Absent  == [status |-> "absent", agent |-> None, since |-> FALSE]
InInbox == [status |-> "inbox", agent |-> None, since |-> FALSE]
Idle    == [pc |-> "idle", task |-> None, ask |-> None, seen |-> Absent, new |-> Absent,
            dirty |-> {}, kids |-> <<>>]

\* Type invariant; an uncommitted UPDATE is that of a request between its flush and
\* its commit, on the task the request is about, or on a dependent it resets.
TypeOK ==
    /\ rows \in [Tasks -> Row]
    /\ deps \in [Tasks -> SUBSET Tasks]
    /\ pend \subseteq Tasks /\ appr \subseteq Tasks
    /\ said \in [Tasks -> SUBSET (Agents \cup {"admin"})]
    /\ lock \in [Tasks -> Requests \cup {None}]
    /\ excused \subseteq Tasks \X Tasks
    /\ \A r \in Requests :
        /\ req[r].pc \in {"idle", "rules", "write", "gates", "commit", "refresh",
                          "comment", "reconcile", "reset"}
        /\ req[r].task \in Tasks \cup {None} /\ req[r].ask \in Payload \cup {None}
        /\ req[r].seen \in Row /\ req[r].new \in Row /\ req[r].dirty \subseteq Fields
        /\ DOMAIN req[r].kids \subseteq Tasks
    /\ \A t \in Tasks : lock[t] # None =>
          \/ req[lock[t]].pc \in {"gates", "commit"} /\ req[lock[t]].task = t
          \/ req[lock[t]].pc = "reset" /\ t \in DOMAIN req[lock[t]].kids

Init ==
    /\ rows = [t \in Tasks |-> Absent]
    /\ deps = [t \in Tasks |-> {}]
    /\ pend = {} /\ appr = {}
    /\ said = [t \in Tasks |-> {}]
    /\ lock = [t \in Tasks |-> None]
    /\ req = [r \in Requests |-> Idle]
    /\ excused = {}

Exists(t) == rows[t].status # "absent"
Active(t) == rows[t].status \in {"in_progress", "review"}
Dependents(d) == {t \in Tasks : d \in deps[t]}

\* Somebody else may act: always, or only between two requests.
Quiet == Overlap \/ \A r \in Requests : req[r].pc = "idle"

\* Fault: the session of a refused request is not rolled back.
Release_KeepsRow(r) == [t \in Tasks |-> IF lock[t] = r /\ req[r].pc # "gates" THEN None ELSE lock[t]]

Release(r) == [t \in Tasks |-> IF lock[t] = r THEN None ELSE lock[t]]

\* blocked_by_dependency_ids
Blocking(ds) == {d \in ds : rows[d].status # "done"}

\* validate_dependency_update, with the graph as it is committed.
ValidDeps(t, ds) ==
    /\ t \notin ds
    /\ ds # {} => /\ \A d \in ds : Exists(d)
                  /\ ~ HasCycle({x \in Tasks : Exists(x)}, [deps EXCEPT ![t] = ds])

-----------------------------------------------------------------------------
(* create_task: administrators only; no gate looks at the initial status.  *)

CreateTask(t, c) ==
    /\ Quiet
    /\ ~Exists(t)
    /\ ValidDeps(t, c.deps)
    /\ Blocking(c.deps) # {} => c.agent = None /\ c.status = "inbox"
    /\ rows' = [rows EXCEPT ![t] = [status |-> c.status, agent |-> c.agent, since |-> FALSE]]
    /\ deps' = [deps EXCEPT ![t] = c.deps]
    /\ UNCHANGED <<pend, appr, said, lock, req, excused>>

-----------------------------------------------------------------------------
(* update_task                                                             *)

Load(r, t, p) ==
    /\ req[r].pc = "idle"
    /\ Quiet
    /\ Exists(t)
    /\ req' = [req EXCEPT ![r] = [Idle EXCEPT !.pc = "rules", !.task = t, !.ask = p,
                                              !.seen = rows[t]]]
    /\ UNCHANGED <<rows, deps, pend, appr, said, lock, excused>>

EffectiveDeps(r) == IF req[r].ask.deps = Same THEN deps[req[r].task] ELSE req[r].ask.deps

\* replace_task_dependencies is refused for a finished task and for a bad graph.
DepsAllowed(r) ==
    req[r].ask.deps # Same =>
        req[r].seen.status # "done" /\ ValidDeps(req[r].task, req[r].ask.deps)

\* _apply_lead_task_update: what a lead may ask, and the row it leaves.
LeadAllowed(r) ==
    LET p == req[r].ask IN
    /\ DepsAllowed(r)
    /\ Blocking(EffectiveDeps(r)) # {} => p.agent = Same /\ p.status = Same
    /\ p.status # Same => req[r].seen.status = "review" /\ p.status \in {"done", "inbox"}

LeadRow(r) ==
    LET p == req[r].ask
        s == req[r].seen
    IN  IF p.status = "inbox" THEN InInbox
        ELSE [s EXCEPT !.agent = IF p.agent = Same THEN @ ELSE p.agent,
                       !.status = IF p.status = Same THEN @ ELSE p.status]

\* _apply_non_lead_agent_task_rules: workers send a status or a comment.
AgentAllowed(r) ==
    LET p == req[r].ask IN
    /\ p.agent = Same /\ p.deps = Same
    /\ p.status # Same =>
          /\ req[r].seen.agent \in {None, p.actor}
          /\ "lead_only" \notin Rules
          /\ p.status # "inbox" => Blocking(deps[req[r].task]) = {}

\* Fault: sending a task to review leaves in_progress_at behind.
AgentRow_ReviewKeepsTime(r) ==
    LET p == req[r].ask
        s == req[r].seen
    IN  CASE p.status = Same -> s
          [] p.status = "inbox" -> InInbox
          [] p.status = "review" -> [s EXCEPT !.status = "review", !.agent = None]
          [] OTHER -> [status |-> p.status, agent |-> p.actor,
                       since |-> s.since \/ p.status = "in_progress"]

AgentRow(r) ==
    LET p == req[r].ask
        s == req[r].seen
    IN  CASE p.status = Same -> s
          [] p.status \in {"inbox", "review"} -> [InInbox EXCEPT !.status = p.status]
          [] OTHER -> [status |-> p.status, agent |-> p.actor,
                       since |-> s.since \/ p.status = "in_progress"]

\* _apply_admin_task_rules: a blocked task goes back to the inbox unless it is done
\* and stays done; the remaining fields of the body are written last.
ForcedReset(r) ==
    /\ Blocking(EffectiveDeps(r)) # {}
    /\ ~(req[r].seen.status = "done" /\ req[r].ask.status \in {Same, "done"})

AdminRow(r) ==
    LET p == req[r].ask
        s == req[r].seen
    IN  IF ForcedReset(r) THEN InInbox
        ELSE [status |-> IF p.status = Same THEN s.status ELSE p.status,
              agent  |-> IF p.agent # Same THEN p.agent
                         ELSE IF p.status \in {"inbox", "review"} THEN None ELSE s.agent,
              since  |-> CASE p.status \in {"inbox", "review"} -> FALSE
                           [] p.status = "in_progress" -> TRUE
                           [] OTHER -> s.since]

\* The attributes an UPDATE writes: those that differ from what was loaded, and
\* in_progress_at whenever it is stamped.
Dirty(seen, new, stamped) ==
    {f \in Fields : \/ f = "status" /\ new.status # seen.status
                    \/ f = "agent" /\ new.agent # seen.agent
                    \/ f = "since" /\ (new.since # seen.since \/ stamped)}
Merge(row, new, dirty) ==
    [status |-> IF "status" \in dirty THEN new.status ELSE row.status,
     agent  |-> IF "agent" \in dirty THEN new.agent ELSE row.agent,
     since  |-> IF "since" \in dirty THEN new.since ELSE row.since]

\* The rules of the sender decide on the row to write, or refuse.
Allowed(r) == CASE req[r].ask.actor = "lead" -> LeadAllowed(r)
                [] req[r].ask.actor = "admin" -> DepsAllowed(r)
                [] OTHER -> AgentAllowed(r)
NewRow(r) == CASE req[r].ask.actor = "lead" -> LeadRow(r)
               [] req[r].ask.actor = "admin" -> AdminRow(r)
               [] OTHER -> AgentRow(r)

ApplyRules(r) ==
    LET new == NewRow(r)
        stamped == req[r].ask.status = "in_progress" /\ new.status = "in_progress"
    IN  /\ req[r].pc = "rules"
        /\ req' = [req EXCEPT ![r] =
                     IF Allowed(r)
                     THEN [@ EXCEPT !.pc = "write", !.new = new,
                                    !.dirty = Dirty(req[r].seen, new, stamped)]
                     ELSE Idle]
        /\ UNCHANGED <<rows, deps, pend, appr, said, lock, excused>>

\* The first query of the gates flushes the UPDATE, which waits for the row.
Flush(r) ==
    /\ req[r].pc = "write"
    /\ lock[req[r].task] = None
    /\ lock' = [lock EXCEPT ![req[r].task] = r]
    /\ req' = [req EXCEPT ![r].pc = "gates"]
    /\ UNCHANGED <<rows, deps, pend, appr, said, excused>>

\* The sender asked for a status other than the one it saw.
StatusRequested(r) == req[r].ask.status \notin {Same, req[r].seen.status}

PendingGate(r) ==
    "pending" \in Rules /\ StatusRequested(r) /\ req[r].new.status # req[r].seen.status
        => req[r].task \notin pend

\* Fault: the gate compares the new status with itself.
EntersDone_NewStatus(r) == req[r].new.status # "done" /\ req[r].ask.status = "done"

EntersDone(r) == req[r].seen.status # "done" /\ req[r].new.status = "done"

DoneGate(r) ==
    EntersDone(r) => /\ "review" \in Rules => req[r].seen.status = "review"
                     /\ "approval" \in Rules => req[r].task \in appr

\* Entering review needs a comment, sent along or made by the assignee since
\* in_progress_at.  Leads are not asked for one: they cannot enter review.
CommentGate(r) ==
    LET p == req[r].ask
        s == req[r].seen
        author == IF req[r].new.agent # None THEN req[r].new.agent ELSE s.agent
    IN  p.actor # "lead" /\ p.status = "review" /\ req[r].new.status = "review" =>
            p.comment \/ (s.since /\ author \in said[req[r].task])

CheckGates(r) ==
    /\ req[r].pc = "gates"
    /\ IF PendingGate(r) /\ DoneGate(r) /\ CommentGate(r)
       THEN req' = [req EXCEPT ![r].pc = "commit"] /\ UNCHANGED lock
       ELSE req' = [req EXCEPT ![r] = Idle] /\ lock' = Release(r)
    /\ UNCHANGED <<rows, deps, pend, appr, said, excused>>

\* What was decided becomes visible.  A lead's request ends here: it can only move a
\* task out of review, so its own reconciliation of dependents changes no row.
Commit(r) ==
    LET t == req[r].task
        p == req[r].ask
        row == Merge(rows[t], req[r].new, req[r].dirty)
        fresh == row.status = "inbox" \/ ("since" \in req[r].dirty /\ row.since)
        late == IF p.deps = Same \/ row.status \notin {"in_progress", "review"} THEN {}
                ELSE {<<t, d>> : d \in Blocking(p.deps)}
    IN  /\ req[r].pc = "commit"
        /\ rows' = [rows EXCEPT ![t] = row]
        /\ deps' = IF p.deps = Same THEN deps ELSE [deps EXCEPT ![t] = p.deps]
        /\ said' = [said EXCEPT ![t] = IF fresh THEN {} ELSE @]
        /\ lock' = Release(r)
        /\ req' = [req EXCEPT ![r] = IF p.actor = "lead" THEN Idle ELSE [@ EXCEPT !.pc = "refresh"]]
        /\ excused' = {e \in excused \cup late :
                         /\ e[1] = t => row.status \in {"in_progress", "review"}
                         /\ e[2] = t => row.status # "done"}
        /\ UNCHANGED <<pend, appr>>

\* The row is read back; what follows uses the status found now.
Refresh(r) ==
    /\ req[r].pc = "refresh"
    /\ req' = [req EXCEPT ![r].pc = IF req[r].ask.comment THEN "comment" ELSE "reconcile",
                          ![r].new = rows[req[r].task]]
    /\ UNCHANGED <<rows, deps, pend, appr, said, lock, excused>>

\* _record_task_comment_from_update, in a transaction of its own.
Comment(r) ==
    /\ req[r].pc = "comment"
    /\ said' = [said EXCEPT ![req[r].task] = @ \cup {req[r].ask.actor}]
    /\ req' = [req EXCEPT ![r].pc = "reconcile"]
    /\ UNCHANGED <<rows, deps, pend, appr, lock, excused>>

Reopened(r) == req[r].seen.status = "done" /\ req[r].new.status # "done"

\* Fault: only tasks that are being worked on are reset.
NeedsReset_InProgressOnly(t) == rows[t].status = "in_progress"

NeedsReset(t) == rows[t].status # "done" /\ rows[t] # InInbox

\* _reconcile_dependents_for_dependency_toggle loads the dependents ...
Reconcile(r) ==
    /\ req[r].pc = "reconcile"
    /\ LET ks == {t \in Dependents(req[r].task) : NeedsReset(t)} IN
       req' = [req EXCEPT ![r] =
                 IF Reopened(r) /\ ks # {}
                 THEN [@ EXCEPT !.pc = "reset", !.kids = [t \in ks |-> rows[t]]]
                 ELSE Idle]
    /\ UNCHANGED <<rows, deps, pend, appr, said, lock, excused>>

\* Fault: the rows are taken in the order in which they were loaded.
NextKids_Loaded(r) == {t \in DOMAIN req[r].kids : lock[t] # r}

\* ... and their UPDATEs, which one flush sends in the order of the ids, wait for the
\* rows one by one ...
NextKids(r) == {t \in DOMAIN req[r].kids : /\ lock[t] # r
                                           /\ \A u \in DOMAIN req[r].kids : u < t => lock[u] = r}

TakeKid(r) ==
    /\ req[r].pc = "reset"
    /\ \E t \in NextKids(r) : lock[t] = None /\ lock' = [lock EXCEPT ![t] = r]
    /\ UNCHANGED <<rows, deps, pend, appr, said, req, excused>>

\* ... until all of them are back in the inbox.
ResetDependents(r) ==
    LET ks == DOMAIN req[r].kids IN
    /\ req[r].pc = "reset"
    /\ \A t \in ks : lock[t] = r
    /\ rows' = [t \in Tasks |-> IF t \in ks
                                THEN Merge(rows[t], InInbox, Dirty(req[r].kids[t], InInbox, FALSE))
                                ELSE rows[t]]
    /\ said' = [t \in Tasks |-> IF t \in ks THEN {} ELSE said[t]]
    /\ lock' = Release(r)
    /\ req' = [req EXCEPT ![r] = Idle]
    /\ excused' = {e \in excused : e[1] \notin ks}
    /\ UNCHANGED <<deps, pend, appr>>

\* The request is cut off: what it committed stays, the rest never happens.
Crash(r) ==
    /\ CanCrash
    /\ req[r].pc # "idle"
    /\ lock' = Release(r)
    /\ req' = [req EXCEPT ![r] = Idle]
    /\ excused' = excused \cup
         IF req[r].pc \in {"refresh", "comment", "reconcile", "reset"} /\ req[r].seen.status = "done"
         THEN {<<t, req[r].task>> : t \in {u \in Dependents(req[r].task) : Active(u)}}
         ELSE {}
    /\ UNCHANGED <<rows, deps, pend, appr, said>>

\* create_task_comment by an agent.
AddComment(t, a) ==
    /\ Quiet
    /\ Exists(t)
    /\ said' = [said EXCEPT ![t] = @ \cup {a}]
    /\ UNCHANGED <<rows, deps, pend, appr, lock, req, excused>>

-----------------------------------------------------------------------------
(* The approvals of the tasks (module Approvals has the details).          *)

\* Fault: the approval API does not lock the rows of the tasks.
RowFree_NoLock(t) == TRUE

\* SELECT ... FOR UPDATE waits for an uncommitted UPDATE of the row.
RowFree(t) == lock[t] = None

AskApproval(t) ==
    /\ Quiet /\ Exists(t) /\ t \in Linkable \ pend /\ RowFree(t)
    /\ pend' = pend \cup {t}
    /\ \E keep \in BOOLEAN : appr' = IF keep THEN appr ELSE appr \ {t}
    /\ UNCHANGED <<rows, deps, said, lock, req, excused>>

DecideApproval(t) ==
    /\ Quiet /\ t \in pend
    /\ pend' = pend \ {t}
    /\ \E ok \in BOOLEAN : appr' = IF ok THEN appr \cup {t} ELSE appr
    /\ UNCHANGED <<rows, deps, said, lock, req, excused>>

Revoke(t) ==
    /\ Quiet /\ t \in appr
    /\ appr' = appr \ {t}
    /\ UNCHANGED <<rows, deps, pend, said, lock, req, excused>>

-----------------------------------------------------------------------------
Step(r) == \/ ApplyRules(r) \/ Flush(r) \/ CheckGates(r) \/ Commit(r) \/ Refresh(r)
           \/ Comment(r) \/ Reconcile(r) \/ TakeKid(r) \/ ResetDependents(r)

Next ==
    \/ \E t \in Tasks :
        \/ \E c \in Creates : CreateTask(t, c)
        \/ \E a \in Commenters : AddComment(t, a)
        \/ AskApproval(t) \/ DecideApproval(t) \/ Revoke(t)
        \/ \E r \in Requests, p \in Payloads : Load(r, t, p)
    \/ \E r \in Requests : Step(r) \/ Crash(r)

Spec == Init /\ [][Next]_vars

-----------------------------------------------------------------------------
(* Properties                                                              *)

\* A task is worked on or reviewed only while its dependencies are done, whoever
\* started it; the exceptions are a dependency a lead added later, a reset that a
\* crash cut off, and a reopened dependency whose request is still to reset it.
Ready ==
    \A t \in Tasks : \A d \in deps[t] :
        Active(t) /\ rows[d].status # "done" =>
            \/ <<t, d>> \in excused
            \/ \E r \in Requests : /\ req[r].task = d
                                   /\ req[r].pc \in {"refresh", "comment", "reconcile", "reset"}
                                   /\ req[r].seen.status = "done"

\* in_progress_at, which the metrics and the comment gate read, is never left behind
\* on a task that went to the inbox or to review, on any of the paths there.
Stamped ==
    \A t \in Tasks : rows[t].since => rows[t].status \in {"in_progress", "done"}

\* Every way for an existing task to become done passes every gate at once: its
\* approval, the review, no open approval and no open dependency.
DoneEarned ==
    [][\A t \in Tasks :
         Exists(t) /\ rows[t].status # "done" /\ rows'[t].status = "done" =>
            /\ "approval" \in Rules => t \in appr
            /\ "review" \in Rules => rows[t].status = "review"
            /\ "pending" \in Rules => t \notin pend
            /\ \A d \in deps'[t] : rows[d].status = "done"]_vars

\* No requested status change commits while an approval of the task is pending, even
\* when the approval is asked for at the same time: one waits for the other's row lock.
PendingHolds ==
    [][\A r \in Requests :
         req[r].pc = "commit" /\ req'[r].pc # "commit" /\ StatusRequested(r)
            /\ rows'[req[r].task].status # rows[req[r].task].status /\ "pending" \in Rules
            => req[r].task \notin pend]_vars

\* The rows whose locks a request needs for its next step, and those who hold them.
Wanted(r) == CASE req[r].pc = "write" -> {req[r].task}
               [] req[r].pc = "reset" -> NextKids(r)
               [] OTHER -> {}
WaitsFor(r) == {lock[t] : t \in Wanted(r)} \ {None, r}

\* However many updates change a task and reset the same dependents at once, they never
\* wait for each other's rows in a circle.
NoUpdateCircle ==
    ~ \E S \in SUBSET Requests : S # {} /\ \A r \in S : WaitsFor(r) \cap S # {}
=============================================================================
