----------------------------- MODULE TaskStream ------------------------------
(***************************************************************************)
(* The stream of task events (src/backend/app/api/tasks.py).  Requests     *)
(* that change a task commit the row first and the activity event in a     *)
(* second transaction, or both in one, or, when an agent is deleted, the   *)
(* row alone; an open stream polls the events by time and sends, for each  *)
(* one it has not sent, the task as it is at the poll.                     *)
(*                                                                         *)
(* A row is reduced to a version, the time written in updated_at and       *)
(* whether it exists.  Clock readings may be equal.  Comment events, which *)
(* carry no task, are left out.  One reader is modelled: BoardPage is what *)
(* reads it.                                                               *)
(***************************************************************************)
EXTENDS Naturals, Sequences, FiniteSets, SequencesExt, FiniteSetsExt

CONSTANTS Tasks,      \* tasks the board may have
          Old,        \* tasks it has at the start
          Jobs,       \* requests that change a task, whoever sends them
          MaxClock,   \* bound: clock readings
          MaxSent,    \* bound: requests sent
          None

ASSUME TaskStreamAssumption ==
    /\ MaxClock \in Nat /\ MaxSent \in Nat
    /\ Old \subseteq Tasks /\ Tasks \cap Jobs = {}
    /\ IsFiniteSet(Tasks) /\ IsFiniteSet(Jobs)

VARIABLES clock,
          row,    \* row[t]: the task's row
          job,    \* job[j]: a request and how far its handler has got
          log,    \* committed activity events
          conn    \* the generator of an open stream and what it has sent

streamVars == <<clock, row, job, log, conn>>

Kinds == {"create", "update", "joint", "silent", "delete"}
Payload == [task : Tasks, ver : Nat, at : 0..MaxClock]
Event == [id : Jobs \cup Tasks, task : Tasks, ts : 0..MaxClock]

StreamTypeOK ==
    /\ clock \in 0..MaxClock
    /\ row \in [Tasks -> [ver : Nat, at : 0..MaxClock, live : BOOLEAN]]
    /\ job \in [Jobs -> [pc : {"new", "sent", "written", "recorded", "failed"}, kind : Kinds,
                         task : Tasks \cup {None}, ver : Nat, at : 0..MaxClock]]
    /\ log \subseteq Event
    /\ conn \in [up : BOOLEAN, last : 0..MaxClock, seen : SUBSET (Jobs \cup Tasks), pipe : Seq(Payload)]

NewJob == [pc |-> "new", kind |-> "update", task |-> None, ver |-> 0, at |-> 0]
Closed == [up |-> FALSE, last |-> 0, seen |-> {}, pipe |-> <<>>]

\* Old tasks have their task.created event, named after the task.
StreamInit ==
    /\ clock = 0
    /\ row = [t \in Tasks |-> [ver |-> IF t \in Old THEN 1 ELSE 0, at |-> 0, live |-> t \in Old]]
    /\ job = [j \in Jobs |-> NewJob]
    /\ log = {[id |-> t, task |-> t, ts |-> 0] : t \in Old}
    /\ conn = Closed

Tick == /\ clock < MaxClock
        /\ clock' = clock + 1
        /\ UNCHANGED <<row, job, log, conn>>

-----------------------------------------------------------------------------
(* Requests *)

\* A request arrives.  A created task has a fresh identifier.
Request(j, k, t) ==
    /\ job[j].pc = "new" /\ Cardinality({i \in Jobs : job[i].pc # "new"}) < MaxSent
    /\ IF k = "create" THEN \A i \in Jobs : job[i].task # t /\ row[t].ver = 0
                       ELSE row[t].ver > 0
    /\ job' = [job EXCEPT ![j] = [NewJob EXCEPT !.pc = "sent", !.kind = k, !.task = t, !.at = clock]]

\* create_task, _finalize_updated_task: the row is committed with its new time.
Write(j) ==
    LET t == job[j].task
        r == [ver |-> row[t].ver + 1, at |-> clock, live |-> TRUE]
    IN  /\ job[j].pc = "sent" /\ job[j].kind \in {"create", "update"}
        /\ job[j].kind = "update" => row[t].live
        /\ row' = [row EXCEPT ![t] = r]
        /\ job' = [job EXCEPT ![j].pc = "written", ![j].ver = r.ver, ![j].at = clock]
        /\ UNCHANGED <<clock, log, conn>>

\* record_activity and its commit.  The event's time is taken when the event is
\* built, before the commit that shows it to others.
Record(j) ==
    /\ job[j].pc = "written" /\ row[job[j].task].live
    /\ \E ts \in job[j].at..clock : log' = log \cup {[id |-> j, task |-> job[j].task, ts |-> ts]}
    /\ job' = [job EXCEPT ![j].pc = "recorded"]
    /\ UNCHANGED <<clock, row, conn>>

\* A lead's update, and the reset of a dependent when a task is reopened, commit the
\* row and its event together; their time is taken while the request runs.
Join(j) ==
    LET t == job[j].task
    IN  /\ job[j].pc = "sent" /\ job[j].kind = "joint" /\ row[t].live
        /\ \E now \in job[j].at..clock :
              /\ row' = [row EXCEPT ![t] = [ver |-> row[t].ver + 1, at |-> now, live |-> TRUE]]
              /\ log' = log \cup {[id |-> j, task |-> t, ts |-> now]}
              /\ job' = [job EXCEPT ![j].pc = "recorded", ![j].ver = row[t].ver + 1, ![j].at = now]
        /\ UNCHANGED <<clock, conn>>

\* The deletion of an agent takes its tasks from it and those in progress back to the
\* inbox; no event tells of it.
Unassign(j) ==
    LET t == job[j].task
    IN  /\ job[j].pc = "sent" /\ job[j].kind = "silent" /\ row[t].live
        /\ row' = [row EXCEPT ![t] = [ver |-> row[t].ver + 1, at |-> clock, live |-> TRUE]]
        /\ job' = [job EXCEPT ![j].pc = "recorded"]
        /\ UNCHANGED <<clock, log, conn>>

\* delete_task_and_related_records: one transaction takes the row and its events;
\* no event tells of it.
Erase(j) ==
    LET t == job[j].task
    IN  /\ job[j].pc = "sent" /\ job[j].kind = "delete" /\ row[t].live
        /\ row' = [row EXCEPT ![t].live = FALSE]
        /\ log' = {e \in log : e.task # t}
        /\ job' = [job EXCEPT ![j].pc = "recorded"]
        /\ UNCHANGED <<clock, conn>>

\* A request is refused, or cut off between its two commits (as it is when the
\* task is deleted there: the event has lost what it refers to).
Fail(j) == /\ job[j].pc \in {"sent", "written"}
           /\ job' = [job EXCEPT ![j].pc = "failed"]
           /\ UNCHANGED <<clock, row, log, conn>>

Handle(j) == Write(j) \/ Record(j) \/ Join(j) \/ Unassign(j) \/ Erase(j) \/ Fail(j)

-----------------------------------------------------------------------------
(* The stream *)

\* Fault: events of the time reached are not fetched again.
X_Fetched == {e \in log : e.ts > conn.last /\ row[e.task].live}

\* _fetch_task_events
Fetched == {e \in log : e.ts >= conn.last /\ row[e.task].live}

Unseen == {e \in Fetched : e.id \notin conn.seen}

\* The orders in which events may come: by time, those of one time in any order.
Orders(S) == {s \in [1..Cardinality(S) -> S] :
                 \A m, n \in DOMAIN s : m < n => s[m] # s[n] /\ s[m].ts <= s[n].ts}

\* The task as it is at the poll.
Told(e) == [task |-> e.task, ver |-> row[e.task].ver, at |-> row[e.task].at]

\* One round of _task_event_generator; a round without news changes nothing.  seen_ids
\* keeps the last SSE_SEEN_MAX (2000) events, more than are sent here.
Poll ==
    /\ conn.up /\ Unseen # {}
    /\ \E s \in Orders(Unseen) :
          conn' = [conn EXCEPT !.seen = @ \cup {e.id : e \in Unseen},
                               !.last = Max({@} \cup {e.ts : e \in Unseen}),
                               !.pipe = @ \o [n \in DOMAIN s |-> Told(s[n])]]
    /\ UNCHANGED <<clock, row, job, log>>

\* stream_tasks: the reader says where to start, or the server's clock does.
Open(since) == /\ ~conn.up
               /\ conn' = [Closed EXCEPT !.up = TRUE, !.last = since]
               /\ UNCHANGED <<clock, row, job, log>>

\* The connection breaks; what was in it is lost.
Close == /\ conn.up
         /\ conn' = Closed
         /\ UNCHANGED <<clock, row, job, log>>
=============================================================================
