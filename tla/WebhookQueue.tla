----------------------------- MODULE WebhookQueue ---------------------------
(***************************************************************************)
(* Inbound webhooks: api/board_webhooks.py stores a payload and queues its *)
(* delivery in Redis; services/queue_worker.py takes deliveries off the    *)
(* queue, notifies an agent through the gateway and schedules retries.     *)
(*                                                                         *)
(* The queue is a list, pushed on the left and popped on the right, and a  *)
(* sorted set of retries by due time.  Every Redis command is a step of    *)
(* its own.  Time is abstract: a retry is not due until Tick says so.      *)
(***************************************************************************)
EXTENDS Naturals, Sequences, FiniteSets, SequencesExt

CONSTANTS Payloads,       \* webhook payloads that may arrive
          Workers,        \* worker processes
          MaxRetries,     \* rq_dispatch_max_retries
          MaxInterrupts,  \* bound: interruptions of workers
          None

VARIABLES stage,       \* stage[p]: what the ingest request has done
          ready,       \* the Redis list, left end first
          later, due,  \* the sorted set: retries whose time is to come, has come
          wk,          \* wk[w]: local state of a worker
          told,        \* payloads an agent was notified of
          ended,       \* ended[p]: how a worker finished with p, if it did
          refused,     \* payloads whose message the gateway refused
          lost,        \* payloads a worker held when it was interrupted
          interrupts   \* interruptions so far

vars == <<stage, ready, later, due, wk, told, ended, refused, lost, interrupts>>

\* QueuedTask: the payload it carries and the attempts made before.
Envelope == [id : Payloads, attempts : 0..MaxRetries]

ASSUME WebhookQueueAssumption ==
    /\ MaxRetries \in Nat /\ MaxInterrupts \in Nat
    /\ IsFiniteSet(Payloads)
    /\ None \notin Envelope

Waiting == [pc |-> "idle", batch |-> {}, item |-> None, timed |-> FALSE]

\* Type invariant; no envelope carries more attempts than the cap allows, and a
\* worker has a delivery in hand exactly while it works on one.
TypeOK ==
    /\ stage \in [Payloads -> {"new", "stored", "queued", "unqueued"}]
    /\ ready \in Seq(Envelope)
    /\ later \subseteq Envelope /\ due \subseteq Envelope /\ later \cap due = {}
    /\ wk \in [Workers -> [pc : {"idle", "push", "unschedule", "plan", "wait", "held", "sent", "failed"},
                           batch : SUBSET Envelope, item : Envelope \cup {None}, timed : BOOLEAN]]
    /\ \A w \in Workers : wk[w].item = None <=> wk[w].pc \notin {"held", "sent", "failed"}
    /\ told \subseteq Payloads /\ refused \subseteq Payloads /\ lost \subseteq Payloads
    /\ ended \in [Payloads -> {"no", "done", "dropped"}]
    /\ interrupts \in 0..MaxInterrupts

Init == /\ stage = [p \in Payloads |-> "new"]
        /\ ready = <<>> /\ later = {} /\ due = {}
        /\ wk = [w \in Workers |-> Waiting]
        /\ told = {} /\ refused = {} /\ lost = {}
        /\ ended = [p \in Payloads |-> "no"]
        /\ interrupts = 0

-----------------------------------------------------------------------------
(* ingest_board_webhook *)

\* The payload and its board memory are committed.
Store(p) ==
    /\ stage[p] = "new"
    /\ stage' = [stage EXCEPT ![p] = "stored"]
    /\ UNCHANGED <<ready, later, due, wk, told, ended, refused, lost, interrupts>>

\* enqueue_webhook_delivery answers success whatever enqueue_task, which
\* catches the errors of Redis, returns.
ReportsQueued(pushed) == TRUE

\* The delivery is pushed, or Redis fails; without a success the request
\* notifies the agent itself.
Enqueue(p, pushed) ==
    /\ stage[p] = "stored"
    /\ stage' = [stage EXCEPT ![p] = IF pushed THEN "queued" ELSE "unqueued"]
    /\ ready' = IF pushed THEN <<[id |-> p, attempts |-> 0]>> \o ready ELSE ready
    /\ told' = IF ReportsQueued(pushed) THEN told ELSE told \cup {p}
    /\ UNCHANGED <<later, due, wk, ended, refused, lost, interrupts>>

-----------------------------------------------------------------------------
(* _drain_ready_scheduled_tasks, one Redis command after the other *)

Tick(i) ==
    /\ i \in later
    /\ later' = later \ {i} /\ due' = due \cup {i}
    /\ UNCHANGED <<stage, ready, wk, told, ended, refused, lost, interrupts>>

\* Fault: the retries that are due are taken out of the set before they are pushed.
Peek_TakesThem(w) ==
    /\ wk[w].pc = "idle"
    /\ wk' = [wk EXCEPT ![w] = [Waiting EXCEPT !.pc = IF due = {} THEN "plan" ELSE "push", !.batch = due]]
    /\ due' = {}
    /\ UNCHANGED <<stage, ready, later, told, ended, refused, lost, interrupts>>

\* zrangebyscore: the retries that are due.
Peek(w) ==
    /\ wk[w].pc = "idle"
    /\ wk' = [wk EXCEPT ![w] = [Waiting EXCEPT !.pc = IF due = {} THEN "plan" ELSE "push", !.batch = due]]
    /\ UNCHANGED <<stage, ready, later, due, told, ended, refused, lost, interrupts>>

\* The orders in which the members of S can come due.
Orders(S) == {s \in [1..Cardinality(S) -> S] : \A i \in S : \E n \in DOMAIN s : s[n] = i}

\* lpush: the first to be due is pushed first, so that it is popped first.
Push(w) ==
    /\ wk[w].pc = "push"
    /\ \E s \in Orders(wk[w].batch) : ready' = s \o ready
    /\ wk' = [wk EXCEPT ![w].pc = "unschedule"]
    /\ UNCHANGED <<stage, later, due, told, ended, refused, lost, interrupts>>

\* Fault: the pushed retries stay in the set.
Unschedule_KeepsThem(w) ==
    /\ wk[w].pc = "unschedule"
    /\ wk' = [wk EXCEPT ![w] = [Waiting EXCEPT !.pc = "plan"]]
    /\ UNCHANGED <<stage, ready, later, due, told, ended, refused, lost, interrupts>>

\* zrem
Unschedule(w) ==
    /\ wk[w].pc = "unschedule"
    /\ later' = later \ wk[w].batch /\ due' = due \ wk[w].batch
    /\ wk' = [wk EXCEPT ![w] = [Waiting EXCEPT !.pc = "plan"]]
    /\ UNCHANGED <<stage, ready, told, ended, refused, lost, interrupts>>

\* Fault: only the retries that are due already are looked at.
Scheduled_DueOnly == due

Scheduled == later \cup due

\* The next due time bounds the wait; without one brpop waits for ever.
Plan(w) ==
    /\ wk[w].pc = "plan"
    /\ wk' = [wk EXCEPT ![w].pc = "wait", ![w].timed = (Scheduled # {})]
    /\ UNCHANGED <<stage, ready, later, due, told, ended, refused, lost, interrupts>>

\* brpop: dequeue_task hands the oldest delivery to flush_queue.
Pop(w) ==
    /\ wk[w].pc = "wait" /\ ready # <<>>
    /\ wk' = [wk EXCEPT ![w] = [Waiting EXCEPT !.pc = "held", !.item = Last(ready)]]
    /\ ready' = Front(ready)
    /\ UNCHANGED <<stage, later, due, told, ended, refused, lost, interrupts>>

\* The wait times out.  dequeue_task drains again and flush_queue returns to
\* the loop, which calls it again: one drain stands for both.
TimeOut(w) ==
    /\ wk[w].pc = "wait" /\ ready = <<>> /\ wk[w].timed
    /\ wk' = [wk EXCEPT ![w] = Waiting]
    /\ UNCHANGED <<stage, ready, later, due, told, ended, refused, lost, interrupts>>

-----------------------------------------------------------------------------
(* process_webhook_queue_task *)

\* _notify_target_agent: the agent gets the message; or there is no payload,
\* webhook, agent or gateway any more; or the gateway refuses the message,
\* which try_send_agent_message returns as a value nobody looks at.
Notify(w) ==
    LET p == wk[w].item.id IN
    /\ wk[w].pc = "held"
    /\ wk' = [wk EXCEPT ![w].pc = "sent"]
    /\ \/ told' = told \cup {p} /\ UNCHANGED refused
       \/ UNCHANGED <<told, refused>>
       \/ refused' = refused \cup {p} /\ UNCHANGED told
    /\ UNCHANGED <<stage, ready, later, due, ended, lost, interrupts>>

\* The database raises, before the message is sent or at the commit after it.
Fail(w) ==
    /\ wk[w].pc \in {"held", "sent"}
    /\ wk' = [wk EXCEPT ![w].pc = "failed"]
    /\ UNCHANGED <<stage, ready, later, due, told, ended, refused, lost, interrupts>>

Succeed(w) ==
    /\ wk[w].pc = "sent"
    /\ ended' = [ended EXCEPT ![wk[w].item.id] = "done"]
    /\ wk' = [wk EXCEPT ![w] = Waiting]
    /\ UNCHANGED <<stage, ready, later, due, told, refused, lost, interrupts>>

\* Fault: the attempt that failed is not counted.
Exhausted_OneMore(i) == i.attempts > MaxRetries

Exhausted(i) == i.attempts + 1 > MaxRetries

\* requeue_if_failed: the delivery is dropped at the cap, or scheduled with
\* one attempt more (zadd: an equal member only changes its due time).
Requeue(w) ==
    LET i == wk[w].item
        again == [i EXCEPT !.attempts = @ + 1]
    IN
    /\ wk[w].pc = "failed"
    /\ IF Exhausted(i)
       THEN ended' = [ended EXCEPT ![i.id] = "dropped"] /\ UNCHANGED <<later, due>>
       ELSE later' = later \cup {again} /\ due' = due \ {again} /\ UNCHANGED ended
    /\ wk' = [wk EXCEPT ![w] = Waiting]
    /\ UNCHANGED <<stage, ready, told, refused, lost, interrupts>>

\* The process stops and is started again, or Redis fails a command and the
\* loop starts over: what the worker held is gone.
Interrupt(w) ==
    /\ interrupts < MaxInterrupts
    /\ wk[w].pc # "idle"
    /\ interrupts' = interrupts + 1
    /\ lost' = IF wk[w].item = None THEN lost ELSE lost \cup {wk[w].item.id}
    /\ wk' = [wk EXCEPT ![w] = Waiting]
    /\ UNCHANGED <<stage, ready, later, due, told, ended, refused>>

Work(w) == \/ Peek(w) \/ Push(w) \/ Unschedule(w) \/ Plan(w) \/ Pop(w) \/ TimeOut(w)
           \/ Notify(w) \/ Fail(w) \/ Succeed(w) \/ Requeue(w)

Next == \/ \E p \in Payloads : Store(p) \/ \E pushed \in BOOLEAN : Enqueue(p, pushed)
        \/ \E i \in later : Tick(i)
        \/ \E w \in Workers : Work(w) \/ Interrupt(w)

Spec == Init /\ [][Next]_vars

\* A worker that runs goes on, and the clock does.
FairSpec == /\ Spec
            /\ \A w \in Workers : WF_vars(Work(w))
            /\ \A i \in Envelope : WF_vars(Tick(i))

-----------------------------------------------------------------------------
\* Copies of a delivery in Redis and in the hands of the workers.
InList(p)  == {n \in 1..Len(ready) : ready[n].id = p}
InSet(p)   == {i \in Scheduled : i.id = p}
Holders(p) == {w \in Workers : wk[w].item # None /\ wk[w].item.id = p}
InFlight(p) == InList(p) # {} \/ InSet(p) # {} \/ Holders(p) # {}

\* No delivery goes missing between two Redis commands: once queued it is in
\* the list, scheduled or held by a worker until a worker is done with it,
\* unless a worker was interrupted while it held that very delivery.
Accounted ==
    \A p \in Payloads :
        stage[p] = "queued" =>
            InFlight(p) \/ ended[p] # "no" \/ p \in lost

\* What a drain has pushed and not yet removed from the set.
Moving == UNION {wk[w].batch : w \in {v \in Workers : wk[v].pc = "unschedule"}}
Copies(p) == Cardinality(InList(p)) + Cardinality(InSet(p) \ Moving) + Cardinality(Holders(p))

\* A delivery is duplicated only when a worker is interrupted in its drain: what was
\* pushed is then pushed again.  Each interruption can double the copies, no more,
\* and without one there is a single copy, whatever else fails.
CopiesBounded == \A p \in Payloads : Copies(p) <= 2^interrupts

\* Every queued delivery comes to an end: the worker does not sleep through
\* the due time of a retry, and retries do not go on for ever.
Settles == \A p \in Payloads :
    stage[p] = "queued" ~> (ended[p] # "no" \/ p \in lost)

\* "Failed deliveries are retried with exponential backoff": a delivery that
\* failed and reached no agent is still to be tried, or used up its retries.
FailedIsRetried ==
    \A p \in refused \ told : InFlight(p) \/ ended[p] = "dropped" \/ p \in lost
=============================================================================
