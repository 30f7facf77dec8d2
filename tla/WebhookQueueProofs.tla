-------------------------- MODULE WebhookQueueProofs ------------------------
(***************************************************************************)
(* Proofs about WebhookQueue: types and the cap on retries for any number  *)
(* of workers, and that one worker loses no delivery between two Redis     *)
(* commands.                                                               *)
(***************************************************************************)
EXTENDS WebhookQueue, FiniteSetTheorems, TLAPS

Busy == {"held", "sent", "failed"}
WorkerState == [pc : {"idle", "push", "unschedule", "plan", "wait", "held", "sent", "failed"},
                batch : SUBSET Envelope, item : Envelope \cup {None}, timed : BOOLEAN]
\* The part of TypeOK about workers, and about the rest.
WkOK == /\ wk \in [Workers -> WorkerState]
        /\ \A w \in Workers : wk[w].item = None <=> wk[w].pc \notin Busy
RestOK ==
    /\ stage \in [Payloads -> {"new", "stored", "queued", "unqueued"}]
    /\ ready \in Seq(Envelope)
    /\ later \subseteq Envelope /\ due \subseteq Envelope /\ later \cap due = {}
    /\ told \subseteq Payloads /\ refused \subseteq Payloads /\ lost \subseteq Payloads
    /\ ended \in [Payloads -> {"no", "done", "dropped"}]
    /\ interrupts \in 0..MaxInterrupts

LEMMA TypeParts == TypeOK <=> WkOK /\ RestOK
BY DEF TypeOK, WkOK, RestOK, WorkerState, Busy

\* A worker's new local state keeps WkOK if it is well formed itself.
LEMMA WorkerStep ==
    ASSUME WkOK, NEW w \in Workers, NEW r \in WorkerState,
           r.item = None <=> r.pc \notin Busy, wk' = [wk EXCEPT ![w] = r]
    PROVE  WkOK' /\ wk'[w] = r /\ \A v \in Workers \ {w} : wk'[v] = wk[v]
BY DEF WkOK

\* Finitely many payloads with a capped number of attempts make finitely many
\* envelopes, so a batch can be put in an order.
LEMMA EnvelopesFinite == IsFiniteSet(Envelope)
<1>1. IsFiniteSet(0..MaxRetries)
  BY WebhookQueueAssumption, FS_Interval
<1>2. IsFiniteSet(Payloads \X (0..MaxRetries))
  BY <1>1, WebhookQueueAssumption, FS_Product
<1> DEFINE f == [x \in Payloads \X (0..MaxRetries) |-> [id |-> x[1], attempts |-> x[2]]]
<1>3. f \in Surjection(Payloads \X (0..MaxRetries), Envelope)
  <2>1. f \in [Payloads \X (0..MaxRetries) -> Envelope]
    BY DEF Envelope
  <2>2. ASSUME NEW e \in Envelope
        PROVE  \E x \in Payloads \X (0..MaxRetries) : f[x] = e
    <3>1. e.id \in Payloads /\ e.attempts \in 0..MaxRetries
          /\ e = [id |-> e.id, attempts |-> e.attempts]
      BY DEF Envelope
    <3>2. <<e.id, e.attempts>> \in Payloads \X (0..MaxRetries)
      BY <3>1
    <3>3. f[<<e.id, e.attempts>>] = e
      BY <3>1, <3>2
    <3> QED
      BY <3>2, <3>3
  <2> QED
    BY <2>1, <2>2 DEF Surjection
<1> HIDE DEF f
<1> QED
  BY <1>2, <1>3, FS_Surjection

\* ... and has a size.
LEMMA BatchesFinite ==
    ASSUME NEW S \in SUBSET Envelope
    PROVE  Cardinality(S) \in Nat
BY EnvelopesFinite, FS_Subset, FS_CardinalityType

\* The list l holds every member of S, and everything the list q held.
Holds(l, S, q) ==
    /\ l \in Seq(Envelope)
    /\ \A i \in S : \E n \in 1..Len(l) : l[n] = i
    /\ \A n \in 1..Len(q) : \E k \in 1..Len(l) : l[k] = q[n]

\* A push loses nothing: neither the batch nor what was in the list.
LEMMA Pushed ==
    ASSUME NEW S \in SUBSET Envelope, NEW s \in Orders(S), NEW q \in Seq(Envelope)
    PROVE  Holds(s \o q, S, q)
<1>1. Cardinality(S) \in Nat
  BY BatchesFinite
<1>2. s \in [1..Cardinality(S) -> S] /\ \A i \in S : \E n \in DOMAIN s : s[n] = i
  BY DEF Orders
<1>3. s \in Seq(Envelope) /\ Len(s) = Cardinality(S)
  BY <1>1, <1>2
<1>4. s \o q \in Seq(Envelope) /\ Len(s \o q) = Len(s) + Len(q)
  BY <1>3
<1>5. ASSUME NEW i \in S PROVE \E n \in 1..Len(s \o q) : (s \o q)[n] = i
  <2>1. PICK n \in 1..Len(s) : s[n] = i
    BY <1>2, <1>3
  <2>2. n \in 1..Len(s \o q) /\ (s \o q)[n] = s[n]
    BY <1>3, <1>4
  <2> QED
    BY <2>1, <2>2
<1>6. ASSUME NEW n \in 1..Len(q) PROVE \E k \in 1..Len(s \o q) : (s \o q)[k] = q[n]
  <2>1. Len(s) + n \in 1..Len(s \o q) /\ (s \o q)[Len(s) + n] = q[n]
    BY <1>3, <1>4
  <2> QED
    BY <2>1
<1> QED
  BY <1>4, <1>5, <1>6 DEF Holds

-----------------------------------------------------------------------------
(* Types                                                                   *)

\* Every step leaves the variables in their types; a requeued envelope respects the
\* cap because an exhausted one is dropped.
LEMMA StepKeepsType ==
    ASSUME TypeOK, [Next]_vars
    PROVE  TypeOK'
<1> USE WebhookQueueAssumption
<1>a. WkOK /\ RestOK
  BY TypeParts
<1>b. WkOK' /\ RestOK' => TypeOK'
  BY DEF TypeOK, WkOK, RestOK, WorkerState, Busy
<1>c. UNCHANGED wk => WkOK'
  BY <1>a DEF WkOK
<1>d. ASSUME NEW w \in Workers, wk' = [wk EXCEPT ![w] = Waiting] PROVE WkOK'
  <2>1. Waiting \in WorkerState /\ (Waiting.item = None <=> Waiting.pc \notin Busy)
    BY DEF Waiting, WorkerState, Busy
  <2> QED
    BY <1>a, <1>d, <2>1, WorkerStep
<1> USE DEF RestOK
<1>1. ASSUME NEW p \in Payloads, Store(p) PROVE TypeOK'
  BY <1>1, <1>a, <1>b, <1>c DEF Store
<1>2. ASSUME NEW p \in Payloads, NEW pushed \in BOOLEAN, Enqueue(p, pushed) PROVE TypeOK'
  <2>1. <<[id |-> p, attempts |-> 0]>> \o ready \in Seq(Envelope)
    BY <1>a DEF Envelope
  <2> QED
    BY <1>2, <1>a, <1>b, <1>c, <2>1 DEF Enqueue
<1>3. ASSUME NEW i \in later, Tick(i) PROVE TypeOK'
  BY <1>3, <1>a, <1>b, <1>c DEF Tick
<1>4. ASSUME NEW w \in Workers, Peek(w) PROVE TypeOK'
  <2> DEFINE r == [Waiting EXCEPT !.pc = IF due = {} THEN "plan" ELSE "push", !.batch = due]
  <2>1. due \subseteq Envelope
    BY <1>4, <1>a DEF Peek, RestOK
  <2>2. r \in WorkerState /\ (r.item = None <=> r.pc \notin Busy)
    BY <1>a, <2>1, WebhookQueueAssumption DEF WorkerState, Busy, Waiting
  <2>3. wk' = [wk EXCEPT ![w] = r]
    BY <1>4, <2>1 DEF Peek
  <2> HIDE DEF r
  <2>4. WkOK'
    BY <1>a, <2>2, <2>3, WorkerStep
  <2> QED
    BY <1>4, <1>a, <1>b, <2>4 DEF Peek
<1>5. ASSUME NEW w \in Workers, Push(w) PROVE TypeOK'
  <2> DEFINE r == [wk[w] EXCEPT !.pc = "unschedule"]
  <2>1. wk[w] \in WorkerState /\ wk[w].pc = "push" /\ wk[w].item = None
    BY <1>5, <1>a DEF Push, WkOK, Busy
  <2>2. r \in WorkerState /\ (r.item = None <=> r.pc \notin Busy)
    BY <1>a, <2>1, WebhookQueueAssumption DEF WorkerState, Busy, Waiting
  <2>3. wk' = [wk EXCEPT ![w] = r]
    BY <1>5, <2>1 DEF Push
  <2> HIDE DEF r
  <2>4. WkOK'
    BY <1>a, <2>2, <2>3, WorkerStep
  <2>5. wk[w].batch \in SUBSET Envelope
    BY <2>1 DEF WorkerState
  <2>6. PICK s \in Orders(wk[w].batch) : ready' = s \o ready
    BY <1>5 DEF Push
  <2>7. ready' \in Seq(Envelope)
    <3>1. ready \in Seq(Envelope)
      BY <1>a
    <3>2. Holds(s \o ready, wk[w].batch, ready)
      BY <2>5, <3>1, Pushed
    <3> QED
      BY <2>6, <3>2 DEF Holds
  <2> QED
    BY <1>5, <1>a, <1>b, <2>4, <2>7 DEF Push
<1>6. ASSUME NEW w \in Workers, Unschedule(w) PROVE TypeOK'
  <2> DEFINE r == [Waiting EXCEPT !.pc = "plan"]
  <2>2. r \in WorkerState /\ (r.item = None <=> r.pc \notin Busy)
    BY <1>a, WebhookQueueAssumption DEF WorkerState, Busy, Waiting
  <2>3. wk' = [wk EXCEPT ![w] = r]
    BY <1>6 DEF Unschedule
  <2> HIDE DEF r
  <2>4. WkOK'
    BY <1>a, <2>2, <2>3, WorkerStep
  <2> QED
    BY <1>6, <1>a, <1>b, <2>4 DEF Unschedule
<1>7. ASSUME NEW w \in Workers, Plan(w) PROVE TypeOK'
  <2> DEFINE r == [wk[w] EXCEPT !.pc = "wait", !.timed = (Scheduled # {})]
  <2>1. wk[w] \in WorkerState /\ wk[w].pc = "plan" /\ wk[w].item = None
    BY <1>7, <1>a DEF Plan, WkOK, Busy
  <2>2. r \in WorkerState /\ (r.item = None <=> r.pc \notin Busy)
    BY <1>a, <2>1, WebhookQueueAssumption DEF WorkerState, Busy, Waiting
  <2>3. wk' = [wk EXCEPT ![w] = r]
    BY <1>7, <2>1 DEF Plan
  <2> HIDE DEF r
  <2>4. WkOK'
    BY <1>a, <2>2, <2>3, WorkerStep
  <2> QED
    BY <1>7, <1>a, <1>b, <2>4 DEF Plan
<1>8. ASSUME NEW w \in Workers, Pop(w) PROVE TypeOK'
  <2> DEFINE r == [Waiting EXCEPT !.pc = "held", !.item = Last(ready)]
  <2>1. Last(ready) \in Envelope /\ Front(ready) \in Seq(Envelope)
    BY <1>8, <1>a DEF Pop, Last, Front
  <2>2. r \in WorkerState /\ (r.item = None <=> r.pc \notin Busy)
    BY <1>a, <2>1, WebhookQueueAssumption DEF WorkerState, Busy, Waiting
  <2>3. wk' = [wk EXCEPT ![w] = r]
    BY <1>8, <2>1 DEF Pop
  <2> HIDE DEF r
  <2>4. WkOK'
    BY <1>a, <2>2, <2>3, WorkerStep
  <2> QED
    BY <1>8, <1>a, <1>b, <2>1, <2>4 DEF Pop
<1>9. ASSUME NEW w \in Workers, TimeOut(w) PROVE TypeOK'
  BY <1>9, <1>a, <1>b, <1>d DEF TimeOut
<1>e. ASSUME NEW w \in Workers, wk[w].pc \in Busy PROVE wk[w].item \in Envelope
  BY <1>e, <1>a DEF WkOK, WorkerState
<1>f. ASSUME NEW w \in Workers, wk[w].pc \in Busy, NEW pc \in Busy, wk' = [wk EXCEPT ![w].pc = pc]
      PROVE  WkOK'
  <2> DEFINE r == [wk[w] EXCEPT !.pc = pc]
  <2>1. wk[w] \in WorkerState /\ wk[w].item # None
    BY <1>f, <1>a DEF WkOK
  <2>2. r \in WorkerState /\ r.pc = pc /\ r.item = wk[w].item
    BY <2>1 DEF WorkerState, Busy
  <2>3. wk' = [wk EXCEPT ![w] = r]
    BY <1>f
  <2> HIDE DEF r
  <2> QED
    BY <1>a, <2>1, <2>2, <2>3, WorkerStep
<1>10. ASSUME NEW w \in Workers, Notify(w) PROVE TypeOK'
  <2>1. wk[w].pc \in Busy /\ WkOK'
    BY <1>10, <1>f DEF Notify, Busy
  <2>2. wk[w].item.id \in Payloads
    BY <1>e, <2>1 DEF Envelope
  <2> QED
    BY <1>10, <1>a, <1>b, <2>1, <2>2 DEF Notify
<1>11. ASSUME NEW w \in Workers, Fail(w) PROVE TypeOK'
  <2>1. WkOK'
    BY <1>11, <1>f DEF Fail, Busy
  <2> QED
    BY <1>11, <1>a, <1>b, <2>1 DEF Fail
<1>12. ASSUME NEW w \in Workers, Succeed(w) PROVE TypeOK'
  BY <1>12, <1>a, <1>b, <1>d DEF Succeed
<1>13. ASSUME NEW w \in Workers, Requeue(w) PROVE TypeOK'
  <2> DEFINE i == wk[w].item
             again == [i EXCEPT !.attempts = @ + 1]
  <2>1. i \in Envelope
    BY <1>13, <1>e DEF Requeue, Busy
  <2>2. WkOK'
    BY <1>13, <1>d DEF Requeue
  <2>3. CASE Exhausted(i)
    BY <1>13, <1>a, <1>b, <2>2, <2>3 DEF Requeue
  <2>4. CASE ~Exhausted(i)
    <3>1. again \in Envelope
      BY <2>1, <2>4 DEF Exhausted, Envelope
    <3>2. later' = later \cup {again} /\ due' = due \ {again}
          /\ UNCHANGED <<stage, ready, told, ended, refused, lost, interrupts>>
      BY <1>13, <2>4 DEF Requeue
    <3> HIDE DEF again
    <3> QED
      BY <1>a, <1>b, <2>2, <3>1, <3>2
  <2> QED
    BY <2>3, <2>4
<1>14. ASSUME NEW w \in Workers, Interrupt(w) PROVE TypeOK'
  <2>1. WkOK'
    BY <1>14, <1>d DEF Interrupt
  <2>2. wk[w].item # None => wk[w].item.id \in Payloads
    BY <1>a, <1>e DEF WkOK, Envelope
  <2>3. lost' \subseteq Payloads
    BY <1>14, <1>a, <2>2 DEF Interrupt
  <2>4. interrupts' \in 0..MaxInterrupts
    BY <1>14, <1>a DEF Interrupt
  <2> QED
    BY <1>14, <1>a, <1>b, <2>1, <2>3, <2>4 DEF Interrupt
<1>15. CASE UNCHANGED vars
  BY <1>15, <1>a, <1>b, <1>c DEF vars
<1> QED
  BY <1>1, <1>2, <1>3, <1>4, <1>5, <1>6, <1>7, <1>8, <1>9, <1>10, <1>11, <1>12, <1>13,
     <1>14, <1>15 DEF Next, Work

\* The queue is well typed, for any number of workers: in particular no envelope ever
\* carries more attempts than rq_dispatch_max_retries allows.
THEOREM TypeCorrect == Spec => []TypeOK
<1>1. Init => TypeOK
  BY WebhookQueueAssumption DEF Init, TypeOK, Waiting, Envelope
<1> QED
  BY <1>1, StepKeepsType, PTL DEF Spec

-----------------------------------------------------------------------------
(* No delivery goes missing                                                *)

Listed(p) == \E n \in 1..Len(ready) : ready[n].id = p
Found(p) == \/ Listed(p)
            \/ \E i \in later \cup due : i.id = p
            \/ \E w \in Workers : wk[w].item # None /\ wk[w].item.id = p

LEMMA FoundInFlight ==
    /\ \A p \in Payloads : InFlight(p) <=> Found(p)
    /\ (\A p \in Payloads : InFlight(p) <=> Found(p))'
BY DEF InFlight, InList, InSet, Holders, Scheduled, Found, Listed

\* Every queued delivery is somewhere or was settled, and what a worker is about to take
\* out of the set has been pushed to the list.
QueueInv ==
    /\ \A p \in Payloads : stage[p] = "queued" => Found(p) \/ ended[p] # "no" \/ p \in lost
    /\ \A w \in Workers : wk[w].pc = "unschedule" => \A i \in wk[w].batch : Listed(i.id)

\* A single worker keeps it at every Redis command, failure and interruption.
LEMMA StepKeepsQueue ==
    ASSUME TypeOK, TypeOK', QueueInv, [Next]_vars, \A v, w \in Workers : v = w
    PROVE  QueueInv'
<1> DEFINE Settled(p) == ended[p] # "no" \/ p \in lost
           Kept(p) == stage[p] = "queued" => Found(p) \/ Settled(p)
           Ahead(w) == wk[w].pc = "unschedule" => \A i \in wk[w].batch : Listed(i.id)
<1>a. ASSUME \A p \in Payloads : Kept(p)', \A w \in Workers : Ahead(w)' PROVE QueueInv'
  BY <1>a DEF QueueInv
<1>b. \A p \in Payloads : Kept(p)
  BY DEF QueueInv
<1>c. \A w \in Workers : wk[w].item = None <=> wk[w].pc \notin Busy
  BY TypeParts DEF WkOK
<1>d. ASSUME NEW w \in Workers, wk'[w].pc # "unschedule" PROVE \A v \in Workers : Ahead(v)'
  BY <1>d
<1>e. ready \in Seq(Envelope) /\ later \cup due \subseteq Envelope
  BY TypeParts DEF RestOK
<1>f. ASSUME NEW w \in Workers, UNCHANGED <<stage, ready, later, due, ended, lost>>,
             wk'[w].item = wk[w].item, wk'[w].pc # "unschedule"
      PROVE  QueueInv'
  <2>1. \A p \in Payloads : Kept(p)'
    BY <1>b, <1>f DEF Found, Listed
  <2> QED
    BY <1>a, <1>d, <1>f, <2>1
<1>g. wk \in [Workers -> WorkerState]
  BY TypeParts DEF WkOK
<1>1. ASSUME NEW p \in Payloads, Store(p) PROVE QueueInv'
  <2>1. \A q \in Payloads : stage'[q] = "queued" => stage[q] = "queued"
    BY <1>1 DEF Store, TypeOK
  <2> QED
    BY <1>1, <2>1 DEF Store, QueueInv, Found, Listed
<1>2. ASSUME NEW p \in Payloads, NEW pushed \in BOOLEAN, Enqueue(p, pushed) PROVE QueueInv'
  <2>1. UNCHANGED <<later, due, wk, ended, lost>>
    BY <1>2 DEF Enqueue
  <2>2. \A q \in Payloads : stage'[q] = "queued" => stage[q] = "queued" \/ (q = p /\ pushed)
    BY <1>2 DEF Enqueue, TypeOK
  <2> DEFINE e == [id |-> p, attempts |-> 0]
  <2>3. pushed => Listed(p)'
    <3> SUFFICES ASSUME pushed PROVE Listed(p)'
      OBVIOUS
    <3>1. ready' = <<e>> \o ready /\ e.id = p
      BY <1>2 DEF Enqueue
    <3>2. 1 \in 1..Len(ready') /\ ready'[1] = e
      BY <1>e, <3>1
    <3> QED
      BY <3>1, <3>2 DEF Listed
  <2>4. \A x : Listed(x) => Listed(x)'
    <3>1. CASE ~pushed
      BY <1>2, <3>1 DEF Enqueue, Listed
    <3>2. CASE pushed
      <4>1. ready' = <<e>> \o ready
        BY <1>2, <3>2 DEF Enqueue
      <4>2. \A n \in 1..Len(ready) : n + 1 \in 1..Len(ready') /\ ready'[n + 1] = ready[n]
        BY <1>e, <4>1
      <4> QED
        BY <4>2 DEF Listed
    <3> QED
      BY <3>1, <3>2
  <2> QED
    BY <2>1, <2>2, <2>3, <2>4 DEF QueueInv, Found
<1>3. ASSUME NEW i \in later, Tick(i) PROVE QueueInv'
  <2>1. later' \cup due' = later \cup due /\ UNCHANGED <<stage, ready, wk, ended, lost>>
    BY <1>3 DEF Tick
  <2> QED
    BY <2>1 DEF QueueInv, Found, Listed
<1>4. ASSUME NEW w \in Workers, Peek(w) PROVE QueueInv'
  <2>1. wk[w].item = None
    BY <1>4, <1>c DEF Peek, Busy
  <2>2. wk'[w].item = None /\ wk'[w].pc # "unschedule"
    BY <1>4, <1>g DEF Peek, Waiting
  <2> QED
    BY <1>4, <1>f, <2>1, <2>2 DEF Peek
<1>5. ASSUME NEW w \in Workers, Push(w) PROVE QueueInv'
  <2>1. wk[w].batch \in SUBSET Envelope
    BY <1>g DEF WorkerState
  <2>2. PICK s \in Orders(wk[w].batch) : ready' = s \o ready
    BY <1>5 DEF Push
  <2>3. /\ \A i \in wk[w].batch : \E n \in 1..Len(ready') : ready'[n] = i
        /\ \A n \in 1..Len(ready) : \E k \in 1..Len(ready') : ready'[k] = ready[n]
    <3>1. ready \in Seq(Envelope)
      BY <1>e
    <3>2. Holds(s \o ready, wk[w].batch, ready)
      BY <2>1, <3>1, Pushed
    <3>3. Holds(ready', wk[w].batch, ready)
      BY <2>2, <3>2
    <3> QED
      BY <3>3 DEF Holds
  <2>4. (\A x : Listed(x) => Listed(x)') /\ \A i \in wk[w].batch : Listed(i.id)'
    BY <2>3 DEF Listed
  <2>5. wk'[w].item = wk[w].item /\ wk'[w].batch = wk[w].batch
    BY <1>5, <1>g DEF Push, WorkerState
  <2>6. UNCHANGED <<stage, later, due, ended, lost>>
    BY <1>5 DEF Push
  <2>7. \A v \in Workers : Ahead(v)'
    BY <2>4, <2>5
  <2>8. \A p \in Payloads : Kept(p)'
    BY <1>b, <2>4, <2>5, <2>6 DEF Found
  <2> QED
    BY <1>a, <2>7, <2>8
<1>6. ASSUME NEW w \in Workers, Unschedule(w) PROVE QueueInv'
  <2>1. wk[w].item = None /\ wk'[w].item = None /\ wk'[w].pc # "unschedule"
    BY <1>6, <1>c, <1>g DEF Unschedule, Waiting, Busy
  <2>2. /\ \A i \in (later \cup due) \ wk[w].batch : i \in later' \cup due'
        /\ UNCHANGED <<stage, ready, ended, lost>>
    BY <1>6 DEF Unschedule
  <2>3. \A i \in wk[w].batch : Listed(i.id)'
    BY <1>6, <2>2 DEF Unschedule, QueueInv, Listed
  <2>4. \A p \in Payloads : Found(p) => Found(p)'
    BY <2>1, <2>2, <2>3 DEF Found, Listed
  <2> QED
    BY <1>a, <1>b, <1>d, <2>1, <2>2, <2>4
<1>7. ASSUME NEW w \in Workers, Plan(w) PROVE QueueInv'
  <2>1. wk'[w].item = wk[w].item /\ wk'[w].pc # "unschedule"
    BY <1>7, <1>g DEF Plan, WorkerState
  <2> QED
    BY <1>7, <1>f, <2>1 DEF Plan
<1>8. ASSUME NEW w \in Workers, Pop(w) PROVE QueueInv'
  <2>1. wk[w].item = None /\ ready # <<>>
    BY <1>8, <1>c DEF Pop, Busy
  <2>2. wk'[w].item = Last(ready) /\ wk'[w].pc # "unschedule"
    BY <1>8, <1>g DEF Pop, Waiting
  <2>3. Last(ready) \in Envelope
    BY <1>e, <2>1 DEF Last
  <2>4. \A x : Listed(x) => Listed(x)' \/ Last(ready).id = x
    <3> SUFFICES ASSUME NEW x, NEW n \in 1..Len(ready), ready[n].id = x, Last(ready).id # x
                 PROVE  Listed(x)'
      BY DEF Listed
    <3>1. ready' = Front(ready)
      BY <1>8 DEF Pop
    <3>2. n \in 1..Len(ready') /\ ready'[n] = ready[n]
      BY <1>e, <2>1, <3>1 DEF Front, Last
    <3> QED
      BY <3>2 DEF Listed
  <2>5. UNCHANGED <<stage, later, due, ended, lost>>
    BY <1>8 DEF Pop
  <2>6. \A p \in Payloads : Found(p) => Found(p)'
    BY <2>1, <2>2, <2>3, <2>4, <2>5, WebhookQueueAssumption DEF Found
  <2> QED
    BY <1>a, <1>b, <1>d, <2>2, <2>5, <2>6
<1>9. ASSUME NEW w \in Workers, TimeOut(w) PROVE QueueInv'
  <2>1. wk[w].item = None /\ wk'[w].item = None /\ wk'[w].pc # "unschedule"
    BY <1>9, <1>c, <1>g DEF TimeOut, Waiting, Busy
  <2> QED
    BY <1>9, <1>f, <2>1 DEF TimeOut
<1>10. ASSUME NEW w \in Workers, Notify(w) \/ Fail(w) PROVE QueueInv'
  <2>1. wk'[w].item = wk[w].item /\ wk'[w].pc # "unschedule"
    BY <1>10, <1>g DEF Notify, Fail, WorkerState
  <2> QED
    BY <1>10, <1>f, <2>1 DEF Notify, Fail
<1>h. ASSUME NEW w \in Workers, wk[w].pc \in Busy, wk' = [wk EXCEPT ![w] = Waiting],
             UNCHANGED <<stage, ready>>,
             \A i \in later \cup due : i \in later' \cup due',
             \A p \in Payloads : Settled(p) => Settled(p)',
             \/ ended'[wk[w].item.id] # "no"
             \/ wk[w].item.id \in lost'
             \/ \E i \in later' \cup due' : i.id = wk[w].item.id
      PROVE  QueueInv'
  <2>1. wk'[w].pc # "unschedule"
    BY <1>h, <1>g DEF Waiting
  <2>2. ASSUME NEW p \in Payloads, Found(p) PROVE Found(p)' \/ Settled(p)'
    <3>1. CASE Listed(p)
      BY <1>h, <3>1 DEF Found, Listed
    <3>2. CASE \E i \in later \cup due : i.id = p
      BY <1>h, <3>2 DEF Found
    <3>3. CASE \E v \in Workers : wk[v].item # None /\ wk[v].item.id = p
      <4>1. wk[w].item.id = p
        BY <3>3
      <4> QED
        BY <1>h, <4>1 DEF Found
    <3> QED
      BY <2>2, <3>1, <3>2, <3>3 DEF Found
  <2> QED
    BY <1>a, <1>b, <1>d, <1>h, <2>1, <2>2
<1>11. ASSUME NEW w \in Workers, Succeed(w) PROVE QueueInv'
  <2>1. wk[w].pc \in Busy /\ wk[w].item.id \in Payloads
    BY <1>11, <1>c, <1>g DEF Succeed, Busy, WorkerState, Envelope
  <2>2. ended' = [ended EXCEPT ![wk[w].item.id] = "done"] /\ UNCHANGED lost
    BY <1>11 DEF Succeed
  <2>3. \A p \in Payloads : ended'[p] = IF p = wk[w].item.id THEN "done" ELSE ended[p]
    BY <2>2 DEF TypeOK
  <2>4. /\ \A p \in Payloads : Settled(p) => Settled(p)'
        /\ ended'[wk[w].item.id] # "no" \/ wk[w].item.id \in lost'
    BY <2>1, <2>2, <2>3
  <2> QED
    BY <1>11, <1>h, <2>1, <2>4 DEF Succeed
<1>12. ASSUME NEW w \in Workers, Requeue(w) PROVE QueueInv'
  <2>1. wk[w].pc \in Busy /\ wk[w].item \in Envelope
    BY <1>12, <1>c, <1>g DEF Requeue, Busy, WorkerState
  <2>2. wk[w].item.id \in Payloads
    BY <2>1 DEF Envelope
  <2>3. CASE Exhausted(wk[w].item)
    <3>1. ended' = [ended EXCEPT ![wk[w].item.id] = "dropped"] /\ UNCHANGED <<later, due, lost>>
      BY <1>12, <2>3 DEF Requeue
    <3>2. \A p \in Payloads : ended'[p] = IF p = wk[w].item.id THEN "dropped" ELSE ended[p]
      BY <3>1 DEF TypeOK
    <3>3. /\ \A p \in Payloads : Settled(p) => Settled(p)'
          /\ ended'[wk[w].item.id] # "no" \/ wk[w].item.id \in lost'
      BY <2>2, <3>1, <3>2
    <3> QED
      BY <1>12, <1>h, <2>1, <3>1, <3>3 DEF Requeue
  <2>4. CASE ~Exhausted(wk[w].item)
    <3> DEFINE again == [wk[w].item EXCEPT !.attempts = @ + 1]
    <3>1. later' = later \cup {again} /\ due' = due \ {again} /\ UNCHANGED <<ended, lost>>
      BY <1>12, <2>4 DEF Requeue
    <3>2. again.id = wk[w].item.id
      BY <2>1 DEF Envelope
    <3> HIDE DEF again
    <3>3. (\A i \in later \cup due : i \in later' \cup due') /\ again \in later'
      BY <3>1
    <3> QED
      BY <1>12, <1>h, <2>1, <3>1, <3>2, <3>3 DEF Requeue
  <2> QED
    BY <2>3, <2>4
<1>13. ASSUME NEW w \in Workers, Interrupt(w) PROVE QueueInv'
  <2>1. CASE wk[w].item = None
    <3>1. UNCHANGED lost
      BY <1>13, <2>1 DEF Interrupt
    <3>2. wk'[w].item = None /\ wk'[w].pc # "unschedule"
      BY <1>13, <1>g DEF Interrupt, Waiting
    <3> QED
      BY <1>13, <1>f, <2>1, <3>1, <3>2 DEF Interrupt
  <2>2. CASE wk[w].item # None
    <3>1. lost' = lost \cup {wk[w].item.id} /\ UNCHANGED ended
      BY <1>13, <2>2 DEF Interrupt
    <3>2. /\ wk[w].pc \in Busy /\ wk' = [wk EXCEPT ![w] = Waiting]
          /\ UNCHANGED <<stage, ready, later, due>>
      BY <1>13, <1>c, <2>2 DEF Interrupt
    <3>3. /\ \A p \in Payloads : Settled(p) => Settled(p)'
          /\ ended'[wk[w].item.id] # "no" \/ wk[w].item.id \in lost'
      BY <3>1
    <3> QED
      BY <1>h, <3>2, <3>3
  <2> QED
    BY <2>1, <2>2
<1>14. CASE UNCHANGED vars
  BY <1>14 DEF vars, QueueInv, Found, Listed
<1> QED
  BY <1>1, <1>2, <1>3, <1>4, <1>5, <1>6, <1>7, <1>8, <1>9, <1>10, <1>11, <1>12, <1>13,
     <1>14 DEF Next, Work

\* With one worker no delivery goes missing between two Redis commands, for any number
\* of payloads, retries and interruptions: only what a worker held when it was
\* interrupted is lost.
THEOREM AccountedHolds ==
    ASSUME \A v, w \in Workers : v = w
    PROVE  Spec => []Accounted
<1>1. Init => QueueInv
  BY DEF Init, QueueInv, Waiting
<1>2. TypeOK /\ TypeOK' /\ QueueInv /\ [Next]_vars => QueueInv'
  BY StepKeepsQueue
<1>3. QueueInv => Accounted
  BY FoundInFlight DEF QueueInv, Accounted
<1> QED
  BY <1>1, <1>2, <1>3, TypeCorrect, PTL DEF Spec

-----------------------------------------------------------------------------
(* Copies of a delivery *)

\* 2^n counts the subsets of n things, and a new thing doubles them.
LEMMA Doubling ==
    /\ 2^0 = 1
    /\ \A n \in Nat : 2^n \in Nat /\ 2^n >= 1 /\ 2^(n + 1) = 2 * 2^n
<1>1. ASSUME NEW n \in Nat
      PROVE  /\ IsFiniteSet(1..n) /\ IsFiniteSet(SUBSET (1..n))
             /\ Cardinality(SUBSET (1..n)) = 2^n /\ 2^n \in Nat /\ 2^n >= 1
  <2>1. IsFiniteSet(1..n) /\ Cardinality(1..n) = n
    BY FS_Interval
  <2>2. IsFiniteSet(SUBSET (1..n)) /\ Cardinality(SUBSET (1..n)) = 2^n
    BY <2>1, FS_SUBSET
  <2>3. SUBSET (1..n) # {}
    OBVIOUS
  <2>4. Cardinality(SUBSET (1..n)) \in Nat /\ Cardinality(SUBSET (1..n)) # 0
    BY <2>2, <2>3, FS_EmptySet, FS_CardinalityType
  <2> QED
    BY <2>1, <2>2, <2>4
<1>2. 2^0 = 1
  <2>1. SUBSET (1..0) = {{}}
    OBVIOUS
  <2> QED
    BY <1>1, <2>1, FS_Singleton
<1>3. ASSUME NEW n \in Nat PROVE 2^(n + 1) = 2 * 2^n
  <2> DEFINE Old == SUBSET (1..n)
             New == {X \in SUBSET (1..(n + 1)) : n + 1 \in X}
             f == [X \in Old |-> X \cup {n + 1}]
  <2>1. SUBSET (1..(n + 1)) = Old \cup New
    OBVIOUS
  <2>2. Old \cap New = {}
    OBVIOUS
  <2>3. f \in Bijection(Old, New)
    <3>1. f \in [Old -> New]
      OBVIOUS
    <3>2. ASSUME NEW X \in Old, NEW Y \in Old, f[X] = f[Y] PROVE X = Y
      <4>1. f[X] = X \cup {n + 1} /\ f[Y] = Y \cup {n + 1} /\ n + 1 \notin X /\ n + 1 \notin Y
        OBVIOUS
      <4> QED
        BY <3>2, <4>1
    <3>3. ASSUME NEW Y \in New PROVE \E X \in Old : f[X] = Y
      <4>1. Y \ {n + 1} \in Old /\ (Y \ {n + 1}) \cup {n + 1} = Y
        OBVIOUS
      <4> QED
        BY <4>1
    <3> QED
      BY <3>1, <3>2, <3>3 DEF Bijection, Injection, IsInjective, Surjection
  <2> HIDE DEF f
  <2>4. IsFiniteSet(Old) /\ Cardinality(Old) = 2^n /\ 2^n \in Nat
    BY <1>1
  <2>5. IsFiniteSet(New) /\ Cardinality(New) = 2^n
    BY <2>3, <2>4, FS_Bijection DEF ExistsBijection
  <2>6. n + 1 \in Nat /\ Cardinality(SUBSET (1..(n + 1))) = 2^(n + 1)
    <3> DEFINE k == n + 1
    <3>1. k \in Nat
      OBVIOUS
    <3> HIDE DEF k
    <3>2. Cardinality(SUBSET (1..k)) = 2^k
      BY <1>1, <3>1
    <3> QED
      BY <3>1, <3>2 DEF k
  <2>7. Cardinality(Old \cap New) = 0
    BY <2>2, FS_EmptySet
  <2>8. Cardinality(Old \cup New) = Cardinality(Old) + Cardinality(New) - Cardinality(Old \cap New)
    <3> HIDE DEF Old, New
    <3> QED
      BY <2>4, <2>5, FS_Union
  <2> HIDE DEF Old, New
  <2>9. PICK a : a = 2^n
    OBVIOUS
  <2>10. PICK b : b = 2^(n + 1)
    OBVIOUS
  <2>11. b = Cardinality(Old \cup New) /\ a \in Nat /\ Cardinality(Old) = a /\ Cardinality(New) = a
    BY <2>1, <2>4, <2>5, <2>6, <2>9, <2>10
  <2>12. b = 2 * a
    BY <2>7, <2>8, <2>11
  <2> QED
    BY <2>9, <2>10, <2>12
<1> QED
  BY <1>1, <1>2, <1>3

\* Where a delivery is in a list, and the envelopes of a set that carry it.
At(l, p) == {n \in 1..Len(l) : l[n].id = p}
Of(S, p) == {i \in S : i.id = p}

LEMMA Finite ==
    /\ \A l \in Seq(Envelope) : \A p : IsFiniteSet(At(l, p)) /\ Cardinality(At(l, p)) \in Nat
    /\ \A S \in SUBSET Envelope : \A p : IsFiniteSet(Of(S, p)) /\ Cardinality(Of(S, p)) \in Nat
<1>1. ASSUME NEW l \in Seq(Envelope), NEW p PROVE IsFiniteSet(At(l, p)) /\ Cardinality(At(l, p)) \in Nat
  <2>1. IsFiniteSet(1..Len(l)) /\ At(l, p) \in SUBSET (1..Len(l))
    BY FS_Interval DEF At
  <2> QED
    BY <2>1, FS_Subset, FS_CardinalityType
<1>2. ASSUME NEW S \in SUBSET Envelope, NEW p PROVE IsFiniteSet(Of(S, p)) /\ Cardinality(Of(S, p)) \in Nat
  <2>1. Of(S, p) \in SUBSET Envelope
    BY DEF Of
  <2> QED
    BY <2>1, EnvelopesFinite, FS_Subset, FS_CardinalityType
<1> QED
  BY <1>1, <1>2

\* Copies add up when lists are joined.
LEMMA JoinCount ==
    ASSUME NEW s \in Seq(Envelope), NEW q \in Seq(Envelope), NEW p
    PROVE  Cardinality(At(s \o q, p)) = Cardinality(At(s, p)) + Cardinality(At(q, p))
<1> DEFINE New == {n \in (Len(s) + 1)..(Len(s) + Len(q)) : q[n - Len(s)].id = p}
           f == [n \in At(q, p) |-> Len(s) + n]
<1>1. /\ Len(s \o q) = Len(s) + Len(q) /\ Len(s) \in Nat /\ Len(q) \in Nat
      /\ \A n \in 1..Len(s) : (s \o q)[n] = s[n]
      /\ \A n \in (Len(s) + 1)..(Len(s) + Len(q)) : (s \o q)[n] = q[n - Len(s)]
  OBVIOUS
<1>2. At(s \o q, p) = At(s, p) \cup New
  <2>1. \A n : n \in 1..(Len(s) + Len(q)) <=> n \in 1..Len(s) \/ n \in (Len(s) + 1)..(Len(s) + Len(q))
    BY <1>1
  <2> QED
    BY <1>1, <2>1 DEF At
<1>3. At(s, p) \cap New = {}
  BY <1>1 DEF At
<1>4. f \in Bijection(At(q, p), New)
  <2>1. f \in [At(q, p) -> New]
    BY <1>1 DEF At
  <2>2. \A m, n \in At(q, p) : f[m] = f[n] => m = n
    BY <1>1 DEF At
  <2>3. ASSUME NEW n \in New PROVE \E m \in At(q, p) : f[m] = n
    <3>1. n - Len(s) \in At(q, p) /\ Len(s) + (n - Len(s)) = n
      BY <1>1 DEF At
    <3> QED
      BY <3>1
  <2> QED
    BY <2>1, <2>2, <2>3 DEF Bijection, Injection, IsInjective, Surjection
<1>5. IsFiniteSet(New) /\ Cardinality(New) = Cardinality(At(q, p))
  <2> HIDE DEF New, f
  <2> QED
    BY <1>4, Finite, FS_Bijection DEF ExistsBijection
<1> HIDE DEF New
<1>6. Cardinality(At(s, p) \cap New) = 0
  BY <1>3, FS_EmptySet
<1>7. /\ IsFiniteSet(At(s, p)) /\ Cardinality(At(s, p)) \in Nat
      /\ Cardinality(At(q, p)) \in Nat
  BY Finite
<1>8. Cardinality(At(s, p) \cup New) = Cardinality(At(s, p)) + Cardinality(New) - Cardinality(At(s, p) \cap New)
  BY <1>5, <1>7, FS_Union
<1> QED
  BY <1>2, <1>5, <1>6, <1>7, <1>8

\* One copy, or none, in a list of one.
LEMMA OneCount ==
    ASSUME NEW e \in Envelope, NEW p
    PROVE  Cardinality(At(<<e>>, p)) = IF e.id = p THEN 1 ELSE 0
<1>1. Len(<<e>>) = 1 /\ <<e>>[1] = e /\ 1..1 = {1}
  OBVIOUS
<1>2. At(<<e>>, p) = IF e.id = p THEN {1} ELSE {}
  BY <1>1 DEF At
<1> QED
  BY <1>2, FS_Singleton, FS_EmptySet

\* Taking the last one off.
LEMMA FrontCount ==
    ASSUME NEW l \in Seq(Envelope), l # <<>>, NEW p
    PROVE  /\ Front(l) \in Seq(Envelope) /\ Last(l) \in Envelope
           /\ Cardinality(At(l, p)) = Cardinality(At(Front(l), p)) + IF Last(l).id = p THEN 1 ELSE 0
<1>1. Front(l) \in Seq(Envelope) /\ Last(l) \in Envelope
  BY DEF Front, Last
<1>2. l = Front(l) \o <<Last(l)>>
  BY DEF Front, Last
<1>3. <<Last(l)>> \in Seq(Envelope)
  BY <1>1
<1>4. Cardinality(At(Front(l) \o <<Last(l)>>, p)) = Cardinality(At(Front(l), p)) + Cardinality(At(<<Last(l)>>, p))
  BY <1>1, <1>3, JoinCount
<1>5. Cardinality(At(<<Last(l)>>, p)) = IF Last(l).id = p THEN 1 ELSE 0
  BY <1>1, OneCount
<1> QED
  BY <1>1, <1>2, <1>4, <1>5

\* A batch is pushed once: the list gets as many copies as the batch has.
LEMMA OrderCount ==
    ASSUME NEW S \in SUBSET Envelope, NEW s \in Orders(S), NEW p
    PROVE  s \in Seq(Envelope) /\ Cardinality(At(s, p)) = Cardinality(Of(S, p))
<1>1. Cardinality(S) \in Nat /\ IsFiniteSet(S)
  BY EnvelopesFinite, FS_Subset, FS_CardinalityType
<1>2. s \in Surjection(1..Cardinality(S), S)
  BY DEF Orders, Surjection
<1>3. s \in Seq(Envelope) /\ Len(s) = Cardinality(S)
  BY <1>1, <1>2 DEF Surjection
<1>4. IsFiniteSet(1..Cardinality(S)) /\ Cardinality(1..Cardinality(S)) = Cardinality(S)
  BY <1>1, FS_Interval
<1>5. s \in Injection(1..Cardinality(S), S)
  BY <1>2, <1>4, FS_SurjSameCardinalityImpliesInj
<1> DEFINE f == [n \in At(s, p) |-> s[n]]
<1>6. f \in Bijection(At(s, p), Of(S, p))
  <2>1. f \in [At(s, p) -> Of(S, p)]
    BY <1>2, <1>3 DEF At, Of, Surjection
  <2>2. \A m, n \in At(s, p) : f[m] = f[n] => m = n
    BY <1>5, <1>3 DEF At, Injection, IsInjective
  <2>3. ASSUME NEW i \in Of(S, p) PROVE \E n \in At(s, p) : f[n] = i
    <3>1. PICK n \in 1..Cardinality(S) : s[n] = i
      BY <1>2 DEF Of, Surjection
    <3>2. n \in At(s, p)
      BY <1>3, <3>1 DEF At, Of
    <3> QED
      BY <3>1, <3>2
  <2> QED
    BY <2>1, <2>2, <2>3 DEF Bijection, Injection, IsInjective, Surjection
<1> HIDE DEF f
<1> QED
  BY <1>3, <1>6, Finite, FS_Bijection DEF ExistsBijection

\* Two sets without a common envelope.
LEMMA SplitCount ==
    ASSUME NEW A \in SUBSET Envelope, NEW B \in SUBSET Envelope, A \cap B = {}, NEW p
    PROVE  Cardinality(Of(A \cup B, p)) = Cardinality(Of(A, p)) + Cardinality(Of(B, p))
<1>1. Of(A \cup B, p) = Of(A, p) \cup Of(B, p) /\ Of(A, p) \cap Of(B, p) = {}
  BY DEF Of
<1>2. /\ IsFiniteSet(Of(A, p)) /\ Cardinality(Of(A, p)) \in Nat
      /\ IsFiniteSet(Of(B, p)) /\ Cardinality(Of(B, p)) \in Nat
  BY Finite
<1>3. Cardinality(Of(A, p) \cap Of(B, p)) = 0
  BY <1>1, FS_EmptySet
<1>4. Cardinality(Of(A, p) \cup Of(B, p))
        = Cardinality(Of(A, p)) + Cardinality(Of(B, p)) - Cardinality(Of(A, p) \cap Of(B, p))
  BY <1>2, FS_Union
<1>5. Cardinality(Of(A \cup B, p)) = Cardinality(Of(A, p) \cup Of(B, p))
  BY <1>1
<1> QED
  BY <1>2, <1>3, <1>4, <1>5

\* An envelope more adds a copy of its delivery at most.
LEMMA AddCount ==
    ASSUME NEW A \in SUBSET Envelope, NEW e \in Envelope, NEW p
    PROVE  Cardinality(Of(A \cup {e}, p)) <= Cardinality(Of(A, p)) + IF e.id = p THEN 1 ELSE 0
<1>1. IsFiniteSet(Of(A, p)) /\ Cardinality(Of(A, p)) \in Nat
  BY Finite
<1>2. CASE e.id # p
  <2>1. Of(A \cup {e}, p) = Of(A, p)
    BY <1>2 DEF Of
  <2> QED
    BY <1>1, <1>2, <2>1
<1>3. CASE e.id = p
  <2>1. Of(A \cup {e}, p) = Of(A, p) \cup {e}
    BY <1>3 DEF Of
  <2>2. Cardinality(Of(A, p) \cup {e}) <= Cardinality(Of(A, p)) + 1
    BY <1>1, FS_AddElement
  <2> QED
    BY <1>3, <2>1, <2>2
<1> QED
  BY <1>2, <1>3

\* The copies in the list l, in the set S and in the hand x of the worker.
InHand(x, p) == IF x # None /\ x.id = p THEN 1 ELSE 0
Total(l, S, x, p) == Cardinality(At(l, p)) + Cardinality(Of(S, p)) + InHand(x, p)

LEMMA TotalType ==
    ASSUME NEW l \in Seq(Envelope), NEW S \in SUBSET Envelope, NEW x, NEW p
    PROVE  /\ Cardinality(At(l, p)) \in Nat /\ Cardinality(Of(S, p)) \in Nat /\ InHand(x, p) \in Nat
           /\ Total(l, S, x, p) \in Nat
BY Finite DEF Total, InHand

\* The scheduled envelopes that are not in the list already.
Kept(w) == IF wk[w].pc = "unschedule" THEN Scheduled \ wk[w].batch ELSE Scheduled

LEMMA CopiesIs ==
    ASSUME TypeOK, NEW w, Workers = {w}, NEW p \in Payloads
    PROVE  Copies(p) = Total(ready, Kept(w), wk[w].item, p)
<1>1. InList(p) = At(ready, p)
  BY DEF InList, At
<1>2. InSet(p) \ Moving = Of(Kept(w), p)
  <2>1. CASE wk[w].pc = "unschedule"
    <3>1. Moving = wk[w].batch
      BY <2>1 DEF Moving
    <3> QED
      BY <2>1, <3>1 DEF InSet, Of, Kept
  <2>2. CASE wk[w].pc # "unschedule"
    <3>1. Moving = {}
      BY <2>2 DEF Moving
    <3> QED
      BY <2>2, <3>1 DEF InSet, Of, Kept
  <2> QED
    BY <2>1, <2>2
<1>3. Cardinality(Holders(p)) = InHand(wk[w].item, p)
  <2>1. Holders(p) = IF wk[w].item # None /\ wk[w].item.id = p THEN {w} ELSE {}
    BY DEF Holders
  <2> QED
    BY <2>1, FS_Singleton, FS_EmptySet DEF InHand
<1> QED
  BY <1>1, <1>2, <1>3 DEF Copies, Total

\* What one worker keeps: the batch it drains is still in the set, what it has pushed
\* is in the list, a delivery has 2^interrupts copies at most, and none before its
\* request has queued it.
CopyInv(w) ==
    /\ wk[w].pc \in {"push", "unschedule"} => wk[w].batch \subseteq Scheduled
    /\ wk[w].pc = "unschedule" =>
          \A p : Cardinality(Of(wk[w].batch, p)) <= Cardinality(At(ready, p))
    /\ \A p : Total(ready, Kept(w), wk[w].item, p) <= 2^interrupts
    /\ \A p \in Payloads : stage[p] \in {"new", "stored"} => Total(ready, Kept(w), wk[w].item, p) = 0

LEMMA CopyStep ==
    ASSUME TypeOK, TypeOK', NEW w, Workers = {w}, CopyInv(w), [Next]_vars
    PROVE  CopyInv(w)'
<1> DEFINE T(p) == Total(ready, Kept(w), wk[w].item, p)
           Tn(p) == Total(ready', Kept(w)', wk'[w].item, p)
<1>0. /\ ready \in Seq(Envelope) /\ ready' \in Seq(Envelope)
      /\ Scheduled \in SUBSET Envelope /\ Kept(w) \in SUBSET Envelope
      /\ Scheduled' \in SUBSET Envelope /\ Kept(w)' \in SUBSET Envelope
      /\ interrupts \in Nat /\ interrupts' \in Nat
      /\ w \in Workers
  BY WebhookQueueAssumption DEF TypeOK, Scheduled, Kept
<1>1. \A p : T(p) \in Nat /\ Tn(p) \in Nat
  BY <1>0, TotalType
<1>2. \A p : T(p) <= 2^interrupts
  BY DEF CopyInv
<1>3. 2^interrupts \in Nat /\ 2^interrupts >= 1
  BY <1>0, Doubling
<1>t. ASSUME \A p : Tn(p) <= T(p), UNCHANGED <<stage, interrupts>>,
             wk'[w].pc \notin {"push", "unschedule"}
      PROVE  CopyInv(w)'
  <2>1. \A p : Tn(p) <= 2^interrupts'
    BY <1>t, <1>1, <1>2, <1>3
  <2>2. \A p \in Payloads : stage'[p] \in {"new", "stored"} => Tn(p) = 0
    BY <1>t, <1>1 DEF CopyInv
  <2> QED
    BY <1>t, <2>1, <2>2 DEF CopyInv
<1>s. ASSUME UNCHANGED <<ready, stage, interrupts>>, Kept(w)' = Kept(w), wk'[w].item = wk[w].item,
             wk'[w].pc \notin {"push", "unschedule"}
      PROVE  CopyInv(w)'
  <2>1. \A p : Tn(p) = T(p)
    BY <1>s
  <2> HIDE DEF T, Tn
  <2> QED
    BY <1>t, <1>s, <2>1, <1>1
<1>u. ASSUME UNCHANGED <<ready, stage, interrupts, wk>>, Scheduled' = Scheduled
      PROVE  CopyInv(w)'
  <2>1. Kept(w)' = Kept(w)
    BY <1>u DEF Kept
  <2> QED
    BY <1>u, <2>1 DEF CopyInv
<1>h. wk[w].item # None <=> wk[w].pc \in Busy
  BY <1>0, TypeParts DEF WkOK
<1>w. wk \in [Workers -> WorkerState]
  BY TypeParts DEF WkOK
<1>3a. ASSUME NEW p \in Payloads, Store(p) PROVE CopyInv(w)'
  <2>1. Kept(w)' = Kept(w) /\ Scheduled' = Scheduled /\ UNCHANGED <<ready, wk, interrupts>>
    BY <1>3a DEF Store, Kept, Scheduled
  <2>2. \A q \in Payloads : stage'[q] \in {"new", "stored"} => stage[q] \in {"new", "stored"}
    BY <1>3a DEF Store, TypeOK
  <2> QED
    BY <2>1, <2>2 DEF CopyInv
<1>4. ASSUME NEW p \in Payloads, NEW pushed \in BOOLEAN, Enqueue(p, pushed) PROVE CopyInv(w)'
  <2>1. /\ Kept(w)' = Kept(w) /\ Scheduled' = Scheduled /\ UNCHANGED <<wk, interrupts>>
        /\ stage[p] = "stored"
    BY <1>4 DEF Enqueue, Kept, Scheduled
  <2>2. \A q \in Payloads : stage'[q] \in {"new", "stored"} => stage[q] \in {"new", "stored"} /\ q # p
    BY <1>4 DEF Enqueue, TypeOK
  <2>3. CASE ~pushed
    <3>1. UNCHANGED ready
      BY <1>4, <2>3 DEF Enqueue
    <3> QED
      BY <2>1, <2>2, <3>1 DEF CopyInv
  <2>4. CASE pushed
    <3> DEFINE e == [id |-> p, attempts |-> 0]
    <3>1. ready' = <<e>> \o ready /\ e \in Envelope /\ <<e>> \in Seq(Envelope) /\ e.id = p
      BY <1>4, <2>4, WebhookQueueAssumption DEF Enqueue, Envelope
    <3> HIDE DEF e
    <3>2. \A q : Cardinality(At(ready', q)) = Cardinality(At(ready, q)) + IF q = p THEN 1 ELSE 0
      <4>1. \A q : Cardinality(At(<<e>>, q)) = IF q = p THEN 1 ELSE 0
        BY <3>1, OneCount
      <4>2. \A q : /\ Cardinality(At(<<e>> \o ready, q)) = Cardinality(At(<<e>>, q)) + Cardinality(At(ready, q))
                   /\ Cardinality(At(ready, q)) \in Nat
        BY <1>0, <3>1, JoinCount, Finite
      <4> QED
        BY <3>1, <4>1, <4>2
    <3>3. \A q : Tn(q) = T(q) + IF q = p THEN 1 ELSE 0
      <4>1. ASSUME NEW q PROVE Tn(q) = T(q) + IF q = p THEN 1 ELSE 0
        <5>1. /\ Cardinality(At(ready, q)) \in Nat /\ Cardinality(Of(Kept(w), q)) \in Nat
              /\ InHand(wk[w].item, q) \in Nat
          BY <1>0, TotalType
        <5> QED
          BY <2>1, <3>2, <5>1 DEF Total
      <4> QED
        BY <4>1
    <3>4. T(p) = 0
      BY <2>1 DEF CopyInv
    <3>5. \A q : Tn(q) <= 2^interrupts'
      <4> HIDE DEF T, Tn
      <4> QED
        BY <1>1, <1>2, <1>3, <2>1, <3>3, <3>4
    <3>6. \A q \in Payloads : stage'[q] \in {"new", "stored"} => Tn(q) = 0
      <4>1. \A q \in Payloads : stage[q] \in {"new", "stored"} => T(q) = 0
        BY DEF CopyInv
      <4> HIDE DEF T, Tn
      <4> QED
        BY <2>2, <3>3, <4>1
    <3>7. wk[w].pc = "unschedule" =>
             \A q : Cardinality(Of(wk[w].batch, q)) <= Cardinality(At(ready', q))
      <4>1. ASSUME wk[w].pc = "unschedule", NEW q
            PROVE  Cardinality(Of(wk[w].batch, q)) <= Cardinality(At(ready', q))
        <5>1. wk[w].batch \in SUBSET Envelope
          BY <1>0, <1>w DEF WorkerState
        <5>2. Cardinality(Of(wk[w].batch, q)) \in Nat /\ Cardinality(At(ready, q)) \in Nat
          BY <1>0, <5>1, Finite
        <5>3. Cardinality(Of(wk[w].batch, q)) <= Cardinality(At(ready, q))
          BY <4>1 DEF CopyInv
        <5> QED
          BY <3>2, <5>2, <5>3
      <4> QED
        BY <4>1
    <3>8. wk[w].pc \in {"push", "unschedule"} => wk[w].batch \subseteq Scheduled'
      BY <2>1 DEF CopyInv
    <3> QED
      BY <2>1, <3>5, <3>6, <3>7, <3>8 DEF CopyInv
  <2> QED
    BY <2>3, <2>4
<1>5. ASSUME NEW i \in later, Tick(i) PROVE CopyInv(w)'
  BY <1>5, <1>u DEF Tick, Scheduled
<1>6. ASSUME Peek(w) PROVE CopyInv(w)'
  <2>1. /\ UNCHANGED <<ready, stage, interrupts, later, due>> /\ wk[w].pc = "idle"
        /\ wk'[w].pc = (IF due = {} THEN "plan" ELSE "push") /\ wk'[w].batch = due /\ wk'[w].item = None
    BY <1>6, <1>0, <1>w DEF Peek, Waiting, WorkerState
  <2>2. Kept(w)' = Kept(w) /\ Scheduled' = Scheduled /\ wk[w].item = None
    BY <2>1, <1>h DEF Kept, Scheduled, Busy
  <2>3. \A p : Tn(p) = T(p)
    BY <2>1, <2>2
  <2>4. wk'[w].batch \subseteq Scheduled' /\ wk'[w].pc # "unschedule"
    BY <2>1 DEF Scheduled
  <2> QED
    BY <2>1, <2>3, <2>4 DEF CopyInv
<1>7. ASSUME Push(w) PROVE CopyInv(w)'
  <2>1. PICK s \in Orders(wk[w].batch) : ready' = s \o ready
    BY <1>7 DEF Push
  <2>2. /\ UNCHANGED <<stage, interrupts, later, due>> /\ wk[w].pc = "push" /\ wk'[w].pc = "unschedule"
        /\ wk'[w].batch = wk[w].batch /\ wk'[w].item = wk[w].item
    BY <1>7, <1>0, <1>w DEF Push, WorkerState
  <2> DEFINE B == wk[w].batch
  <2>3. B \in SUBSET Envelope /\ B \subseteq Scheduled /\ Scheduled' = Scheduled
    BY <2>2, <1>0, <1>w DEF CopyInv, WorkerState, Scheduled
  <2>4. Kept(w) = Scheduled /\ Kept(w)' = Scheduled \ B
    BY <2>2, <2>3 DEF Kept
  <2>5. s \in Orders(B)
    BY <2>1
  <2> HIDE DEF B
  <2>6. s \in Seq(Envelope) /\ \A p : Cardinality(At(s, p)) = Cardinality(Of(B, p))
    BY <2>3, <2>5, OrderCount
  <2>7. \A p : Cardinality(At(ready', p)) = Cardinality(Of(B, p)) + Cardinality(At(ready, p))
    <3>1. \A p : Cardinality(At(s \o ready, p)) = Cardinality(At(s, p)) + Cardinality(At(ready, p))
      BY <1>0, <2>6, JoinCount
    <3> QED
      BY <2>1, <2>6, <3>1
  <2>8. \A p : Cardinality(Of(Scheduled, p)) = Cardinality(Of(Scheduled \ B, p)) + Cardinality(Of(B, p))
    <3>1. /\ (Scheduled \ B) \in SUBSET Envelope /\ (Scheduled \ B) \cap B = {}
          /\ (Scheduled \ B) \cup B = Scheduled
      BY <1>0, <2>3
    <3>2. \A p : Cardinality(Of((Scheduled \ B) \cup B, p))
                   = Cardinality(Of(Scheduled \ B, p)) + Cardinality(Of(B, p))
      BY <2>3, <3>1, SplitCount
    <3> QED
      BY <3>1, <3>2
  <2>9. \A p : /\ Cardinality(At(ready, p)) \in Nat /\ Cardinality(Of(B, p)) \in Nat
               /\ Cardinality(Of(Scheduled \ B, p)) \in Nat /\ InHand(wk[w].item, p) \in Nat
    <3>1. (Scheduled \ B) \in SUBSET Envelope
      BY <1>0
    <3> QED
      BY <1>0, <2>3, <3>1, TotalType
  <2>10. \A p : Tn(p) = T(p)
    <3>1. ASSUME NEW p PROVE Tn(p) = T(p)
      <4>1. Tn(p) = Cardinality(At(ready', p)) + Cardinality(Of(Scheduled \ B, p)) + InHand(wk[w].item, p)
        BY <2>2, <2>4 DEF Total
      <4>2. T(p) = Cardinality(At(ready, p)) + Cardinality(Of(Scheduled, p)) + InHand(wk[w].item, p)
        BY <2>4 DEF Total
      <4> HIDE DEF T, Tn
      <4> QED
        BY <2>7, <2>8, <2>9, <4>1, <4>2
    <3> QED
      BY <3>1
  <2>11. wk'[w].batch = B
    BY <2>2 DEF B
  <2>12. \A p : Cardinality(Of(wk'[w].batch, p)) <= Cardinality(At(ready', p))
    BY <2>7, <2>9, <2>11
  <2>13. wk'[w].batch \subseteq Scheduled'
    BY <2>3, <2>11
  <2>14. \A p : Tn(p) <= 2^interrupts'
    BY <1>2, <2>2, <2>10
  <2>15. \A p \in Payloads : stage'[p] \in {"new", "stored"} => Tn(p) = 0
    BY <2>2, <2>10 DEF CopyInv
  <2> QED
    BY <2>12, <2>13, <2>14, <2>15 DEF CopyInv
<1>8. ASSUME Unschedule(w) PROVE CopyInv(w)'
  <2>1. /\ UNCHANGED <<ready, stage, interrupts>> /\ wk[w].pc = "unschedule"
        /\ wk'[w].pc = "plan" /\ wk'[w].item = None
        /\ later' = later \ wk[w].batch /\ due' = due \ wk[w].batch
    BY <1>8, <1>0, <1>w DEF Unschedule, Waiting
  <2>2. Kept(w)' = Kept(w) /\ wk[w].item = None
    BY <2>1, <1>h DEF Kept, Scheduled, Busy
  <2> QED
    BY <2>1, <2>2, <1>s
<1>9. ASSUME Plan(w) PROVE CopyInv(w)'
  <2>1. /\ UNCHANGED <<ready, stage, interrupts, later, due>> /\ wk[w].pc = "plan"
        /\ wk'[w].pc = "wait" /\ wk'[w].item = wk[w].item
    BY <1>9, <1>0, <1>w DEF Plan, WorkerState
  <2>2. Kept(w)' = Kept(w)
    BY <2>1 DEF Kept, Scheduled
  <2> QED
    BY <2>1, <2>2, <1>s
<1>10. ASSUME Pop(w) PROVE CopyInv(w)'
  <2>1. /\ UNCHANGED <<stage, interrupts, later, due>> /\ wk[w].pc = "wait" /\ ready # <<>>
        /\ wk'[w].pc = "held" /\ wk'[w].item = Last(ready) /\ ready' = Front(ready)
    BY <1>10, <1>0, <1>w DEF Pop, Waiting
  <2>2. Kept(w)' = Kept(w) /\ wk[w].item = None
    BY <2>1, <1>h DEF Kept, Scheduled, Busy
  <2>3. ASSUME NEW p PROVE Tn(p) <= T(p)
    <3>1. Cardinality(At(ready, p)) = Cardinality(At(ready', p)) + IF Last(ready).id = p THEN 1 ELSE 0
      BY <1>0, <2>1, FrontCount
    <3>2. /\ InHand(wk[w].item, p) = 0
          /\ InHand(wk'[w].item, p) = 0 \/ (InHand(wk'[w].item, p) = 1 /\ Last(ready).id = p)
      BY <2>1, <2>2 DEF InHand
    <3>3. /\ Cardinality(At(ready', p)) \in Nat /\ Cardinality(Of(Kept(w), p)) \in Nat
      BY <1>0, TotalType
    <3> QED
      BY <2>2, <3>1, <3>2, <3>3 DEF Total
  <2> QED
    BY <2>1, <2>3, <1>t
<1>11. ASSUME TimeOut(w) PROVE CopyInv(w)'
  <2>1. /\ UNCHANGED <<ready, stage, interrupts, later, due>> /\ wk[w].pc = "wait"
        /\ wk'[w].pc = "idle" /\ wk'[w].item = None
    BY <1>11, <1>0, <1>w DEF TimeOut, Waiting
  <2>2. Kept(w)' = Kept(w) /\ wk[w].item = None
    BY <2>1, <1>h DEF Kept, Scheduled, Busy
  <2> QED
    BY <2>1, <2>2, <1>s
<1>12. ASSUME Notify(w) \/ Fail(w) PROVE CopyInv(w)'
  <2>1. /\ UNCHANGED <<ready, stage, interrupts, later, due>> /\ wk[w].pc \in Busy
        /\ wk'[w].pc \in Busy /\ wk'[w].item = wk[w].item
    BY <1>12, <1>0, <1>w DEF Notify, Fail, WorkerState, Busy
  <2>2. Kept(w)' = Kept(w)
    BY <2>1 DEF Kept, Scheduled, Busy
  <2>3. wk'[w].pc \notin {"push", "unschedule"}
    BY <2>1 DEF Busy
  <2> QED
    BY <2>1, <2>2, <2>3, <1>s
<1>13. ASSUME Succeed(w) PROVE CopyInv(w)'
  <2>1. /\ UNCHANGED <<ready, stage, interrupts, later, due>> /\ wk[w].pc = "sent"
        /\ wk'[w].pc = "idle" /\ wk'[w].item = None
    BY <1>13, <1>0, <1>w DEF Succeed, Waiting
  <2>2. Kept(w)' = Kept(w)
    BY <2>1 DEF Kept, Scheduled
  <2>3. ASSUME NEW p PROVE Tn(p) <= T(p)
    <3>1. InHand(wk'[w].item, p) = 0
      BY <2>1 DEF InHand
    <3>2. /\ Cardinality(At(ready, p)) \in Nat /\ Cardinality(Of(Kept(w), p)) \in Nat
          /\ InHand(wk[w].item, p) \in Nat
      BY <1>0, TotalType
    <3> QED
      BY <2>1, <2>2, <3>1, <3>2 DEF Total
  <2> QED
    BY <2>1, <2>3, <1>t
<1>14. ASSUME Requeue(w) PROVE CopyInv(w)'
  <2>1. PICK i : i = wk[w].item
    OBVIOUS
  <2>2. /\ UNCHANGED <<ready, stage, interrupts>> /\ wk[w].pc = "failed"
        /\ wk'[w].pc = "idle" /\ wk'[w].item = None
    BY <1>14, <1>0, <1>w DEF Requeue, Waiting
  <2>3. i \in Envelope /\ i # None
    BY <2>1, <2>2, <1>0, <1>w, <1>h DEF WorkerState, Busy
  <2>4. Kept(w) = Scheduled /\ Kept(w)' = Scheduled'
    BY <2>2 DEF Kept
  <2>5. Scheduled' = Scheduled \/ \E e \in Envelope : e.id = i.id /\ Scheduled' = Scheduled \cup {e}
    <3>1. CASE Exhausted(i)
      BY <1>14, <2>1, <3>1 DEF Requeue, Scheduled
    <3>2. CASE ~Exhausted(i)
      <4>1. PICK e : e = [i EXCEPT !.attempts = @ + 1]
        OBVIOUS
      <4>2. e \in Envelope /\ e.id = i.id
        BY <2>3, <3>2, <4>1, WebhookQueueAssumption DEF Envelope, Exhausted
      <4>3. later' = later \cup {e} /\ due' = due \ {e}
        BY <1>14, <2>1, <3>2, <4>1 DEF Requeue
      <4> QED
        BY <4>2, <4>3 DEF Scheduled
    <3> QED
      BY <3>1, <3>2
  <2>6. ASSUME NEW p PROVE Tn(p) <= T(p)
    <3>1. InHand(wk'[w].item, p) = 0 /\ InHand(wk[w].item, p) = IF i.id = p THEN 1 ELSE 0
      BY <2>1, <2>2, <2>3 DEF InHand
    <3>2. /\ Cardinality(At(ready, p)) \in Nat /\ Cardinality(Of(Scheduled, p)) \in Nat
          /\ Cardinality(Of(Scheduled', p)) \in Nat
      BY <1>0, TotalType
    <3>3. Cardinality(Of(Scheduled', p)) <= Cardinality(Of(Scheduled, p)) + IF i.id = p THEN 1 ELSE 0
      <4>1. CASE Scheduled' = Scheduled
        BY <3>2, <4>1
      <4>2. ASSUME NEW e \in Envelope, e.id = i.id, Scheduled' = Scheduled \cup {e}
            PROVE  Cardinality(Of(Scheduled', p)) <= Cardinality(Of(Scheduled, p)) + IF i.id = p THEN 1 ELSE 0
        BY <1>0, <4>2, AddCount
      <4> QED
        BY <2>5, <4>1, <4>2
    <3> QED
      BY <2>2, <2>4, <3>1, <3>2, <3>3 DEF Total
  <2> QED
    BY <2>2, <2>6, <1>t
<1>15. ASSUME Interrupt(w) PROVE CopyInv(w)'
  <2>1. /\ UNCHANGED <<ready, stage, later, due>> /\ interrupts' = interrupts + 1
        /\ wk'[w].pc = "idle" /\ wk'[w].item = None
    BY <1>15, <1>0, <1>w DEF Interrupt, Waiting
  <2>2. Kept(w)' = Scheduled /\ Scheduled' = Scheduled
    BY <2>1 DEF Kept, Scheduled
  <2>3. ASSUME NEW p PROVE Tn(p) <= T(p) + T(p)
    <3>1. InHand(wk'[w].item, p) = 0
      BY <2>1 DEF InHand
    <3>2. /\ Cardinality(At(ready, p)) \in Nat /\ Cardinality(Of(Kept(w), p)) \in Nat
          /\ InHand(wk[w].item, p) \in Nat /\ Cardinality(Of(Scheduled, p)) \in Nat
      BY <1>0, TotalType
    <3>3. Cardinality(Of(Scheduled, p)) <= Cardinality(Of(Kept(w), p)) + Cardinality(At(ready, p))
      <4>1. CASE wk[w].pc # "unschedule"
        <5>1. Kept(w) = Scheduled
          BY <4>1 DEF Kept
        <5> QED
          BY <3>2, <5>1
      <4>2. CASE wk[w].pc = "unschedule"
        <5>1. PICK B : B = wk[w].batch
          OBVIOUS
        <5>2. /\ B \in SUBSET Envelope /\ B \subseteq Scheduled /\ Kept(w) = Scheduled \ B
              /\ Cardinality(Of(B, p)) <= Cardinality(At(ready, p))
          BY <4>2, <5>1, <1>0, <1>w DEF CopyInv, WorkerState, Kept
        <5>3. Kept(w) \cup B = Scheduled /\ Kept(w) \cap B = {}
          BY <5>2
        <5>4. Cardinality(Of(Kept(w) \cup B, p)) = Cardinality(Of(Kept(w), p)) + Cardinality(Of(B, p))
          BY <1>0, <5>2, <5>3, SplitCount
        <5>5. Cardinality(Of(B, p)) \in Nat
          BY <5>2, Finite
        <5>6. Cardinality(Of(Scheduled, p)) = Cardinality(Of(Kept(w), p)) + Cardinality(Of(B, p))
          BY <5>3, <5>4
        <5>7. Cardinality(Of(B, p)) <= Cardinality(At(ready, p))
          BY <5>2
        <5> QED
          BY <3>2, <5>5, <5>6, <5>7
      <4> QED
        BY <4>1, <4>2
    <3>4. Tn(p) = Cardinality(At(ready, p)) + Cardinality(Of(Scheduled, p)) + 0
      BY <2>1, <2>2, <3>1 DEF Total
    <3>5. T(p) = Cardinality(At(ready, p)) + Cardinality(Of(Kept(w), p)) + InHand(wk[w].item, p)
      BY DEF Total
    <3> HIDE DEF T, Tn
    <3> QED
      BY <3>2, <3>3, <3>4, <3>5
  <2>4. 2^interrupts' = 2 * 2^interrupts
    BY <1>0, <2>1, Doubling
  <2>5. \A p : Tn(p) <= 2^interrupts'
    <3>1. PICK a : a = 2^interrupts
      OBVIOUS
    <3>2. PICK b : b = 2^interrupts'
      OBVIOUS
    <3>3. a \in Nat /\ b = 2 * a /\ \A p : T(p) <= a
      BY <1>2, <1>3, <2>4, <3>1, <3>2
    <3> HIDE DEF T, Tn
    <3>4. \A p : Tn(p) <= b
      BY <1>1, <2>3, <3>3
    <3> QED
      BY <3>2, <3>4
  <2>6. \A p \in Payloads : stage'[p] \in {"new", "stored"} => Tn(p) = 0
    <3>1. \A p \in Payloads : stage[p] \in {"new", "stored"} => T(p) = 0
      BY DEF CopyInv
    <3> HIDE DEF T, Tn
    <3> QED
      BY <1>1, <2>1, <2>3, <3>1
  <2> QED
    BY <2>1, <2>5, <2>6 DEF CopyInv
<1>16. CASE UNCHANGED vars
  BY <1>16, <1>u DEF vars, Scheduled
<1> QED
  BY <1>3a, <1>4, <1>5, <1>6, <1>7, <1>8, <1>9, <1>10, <1>11, <1>12, <1>13, <1>14, <1>15, <1>16
     DEF Next, Work

\* With one worker, whatever the number of payloads, retries and interruptions, a
\* delivery has at most 2^interrupts copies, so a single one as long as no worker is
\* interrupted.
THEOREM CopiesBoundedHolds ==
    ASSUME NEW w, Workers = {w}
    PROVE  Spec => []CopiesBounded
<1>1. Init => CopyInv(w)
  <2> SUFFICES ASSUME Init PROVE CopyInv(w)
    OBVIOUS
  <2>1. ready = <<>> /\ Scheduled = {} /\ wk[w] = Waiting /\ interrupts = 0
    BY DEF Init, Scheduled
  <2>2. Kept(w) = {}
    BY <2>1 DEF Kept
  <2>3. \A p : At(<<>>, p) = {} /\ Of({}, p) = {}
    BY DEF At, Of
  <2>4. wk[w].item = None
    BY <2>1 DEF Waiting
  <2>6. \A p : Total(ready, Kept(w), wk[w].item, p) = 0
    <3>1. \A p : Cardinality(At(ready, p)) = 0 /\ Cardinality(Of(Kept(w), p)) = 0 /\ InHand(wk[w].item, p) = 0
      BY <2>1, <2>2, <2>3, <2>4, FS_EmptySet DEF InHand
    <3> QED
      BY <3>1 DEF Total
  <2>5. wk[w].pc = "idle" /\ 2^interrupts = 1
    BY <2>1, Doubling DEF Waiting
  <2> QED
    BY <2>5, <2>6 DEF CopyInv
<1>2. TypeOK /\ TypeOK' /\ CopyInv(w) /\ [Next]_vars => CopyInv(w)'
  BY CopyStep
<1>3. TypeOK /\ CopyInv(w) => CopiesBounded
  BY CopiesIs DEF CopyInv, CopiesBounded
<1> QED
  BY <1>1, <1>2, <1>3, TypeCorrect, PTL DEF Spec

=============================================================================
