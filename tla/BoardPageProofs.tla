--------------------------- MODULE BoardPageProofs ---------------------------
(***************************************************************************)
(* Proofs about BoardPage, for any number of tasks, requests, breaks and   *)
(* clock readings: the types, that a second card of a task was made by     *)
(* this page, that no move leaves a trace, and that the page loses sight   *)
(* of a task only in the ways that LossOnlyBy lists.                       *)
(***************************************************************************)
EXTENDS BoardPage, FiniteSetTheorems, SequenceTheorems, NaturalsInduction, WellFoundedInduction, TLAPS

-----------------------------------------------------------------------------
(* Least and greatest elements *)

\* A set of numbers has a least one.
LEMMA MinIs ==
    ASSUME NEW S \in SUBSET Nat, S # {}
    PROVE  Min(S) \in S /\ \A y \in S : Min(S) <= y
<1>1. PICK R : IsWellFoundedOn(R, Nat) /\ R = {p \in Nat \X Nat : p[1] < p[2]}
  <2>1. OpToRel(<, Nat) = {p \in Nat \X Nat : p[1] < p[2]}
    BY DEF OpToRel
  <2> QED
    BY <2>1, NatLessThanWellFounded
<1>2. PICK x \in S : \A y \in S : ~ (<<y, x>> \in R)
  BY <1>1, WFMin
<1>3. ASSUME NEW y \in S PROVE x <= y
  <2>1. x \in Nat /\ y \in Nat
    OBVIOUS
  <2>2. y < x => <<y, x>> \in R
    BY <2>1, <1>1
  <2> QED
    BY <1>2, <2>1, <2>2
<1> QED
  BY <1>3 DEF Min

\* Up to a bound it has a greatest one: the least of its upper bounds.
LEMMA MaxIs ==
    ASSUME NEW n \in Nat, NEW S \in SUBSET (0..n), S # {}
    PROVE  Max(S) \in S /\ \A y \in S : Max(S) >= y
<1> DEFINE T == {b \in Nat : \A y \in S : y <= b}
<1>1. T \in SUBSET Nat /\ T # {}
  <2>1. n \in T
    OBVIOUS
  <2> QED
    BY <2>1
<1>2. PICK b \in T : \A c \in T : b <= c
  BY <1>1, MinIs
<1>3. b \in S
  <2> SUFFICES ASSUME b \notin S PROVE FALSE
    OBVIOUS
  <2>1. \A y \in S : y \in Nat /\ y < b
    <3>1. ASSUME NEW y \in S PROVE y \in Nat /\ y < b
      <4>1. y \in Nat /\ y <= b /\ b \in Nat /\ y # b
        BY <1>2
      <4> QED
        BY <4>1
    <3> QED
      BY <3>1
  <2>2. PICK z \in S : z \in 0..n /\ z < b
    BY <2>1
  <2>3. b - 1 \in Nat /\ \A y \in S : y <= b - 1
    BY <2>1, <2>2
  <2> QED
    BY <1>2, <2>3
<1> QED
  BY <1>2, <1>3 DEF Max

\* Where the first card of a task is in a list.
FirstOf(l, t) == Min({i \in DOMAIN l : l[i].task = t})

LEMMA FirstOfIs ==
    ASSUME NEW l \in Seq(Card), NEW t, \E i \in DOMAIN l : l[i].task = t
    PROVE  /\ FirstOf(l, t) \in DOMAIN l /\ l[FirstOf(l, t)].task = t
           /\ \A i \in DOMAIN l : l[i].task = t => FirstOf(l, t) <= i
<1>1. {i \in DOMAIN l : l[i].task = t} \in SUBSET Nat
  OBVIOUS
<1> QED
  BY <1>1, MinIs DEF FirstOf

\* The latest time in a list of cards.
LEMMA NewestIs ==
    ASSUME NEW l \in Seq(Card), l # <<>>
    PROVE  Max({l[i].at : i \in DOMAIN l}) \in 0..MaxClock
<1>1. {l[i].at : i \in DOMAIN l} \in SUBSET (0..MaxClock) /\ {l[i].at : i \in DOMAIN l} # {}
  <2>1. 1 \in DOMAIN l
    OBVIOUS
  <2>2. \A i \in DOMAIN l : l[i] \in Card
    OBVIOUS
  <2> QED
    BY <2>1, <2>2 DEF Card
<1>2. MaxClock \in Nat
  BY TaskStreamAssumption
<1> QED
  BY <1>1, <1>2, MaxIs

-----------------------------------------------------------------------------
(* Types *)

RowT == [ver : Nat, at : 0..MaxClock, live : BOOLEAN]
JobT == [pc : {"new", "sent", "written", "recorded", "failed"}, kind : Kinds,
         task : Tasks \cup {None}, ver : Nat, at : 0..MaxClock]
ConnT == [up : BOOLEAN, last : 0..MaxClock, seen : SUBSET (Jobs \cup Tasks), pipe : Seq(Payload)]
PageT == [st : {"idle", "waiting", "ok", "error"}, act : Acts, undo : Seq(Card)]

\* A request that was sent is about a task.
JobsOK == job \in [Jobs -> JobT] /\ \A j \in Jobs : job[j].pc # "new" => job[j].task \in Tasks
RowsOK == row \in [Tasks -> RowT]
PagesOK == page \in [PageJobs -> PageT]
StreamOK == clock \in 0..MaxClock /\ RowsOK /\ JobsOK /\ log \subseteq Event /\ conn \in ConnT
PageOK == cards \in Seq(Card) /\ loaded \in BOOLEAN /\ active \in BOOLEAN /\ PagesOK /\ breaks \in 0..MaxBreaks
Typed == StreamOK /\ PageOK
RefusedOK == refused \in BOOLEAN

LEMMA TypedIs == Typed /\ RefusedOK => TypeOK
BY DEF Typed, RefusedOK, StreamOK, PageOK, RowsOK, JobsOK, PagesOK, TypeOK, StreamTypeOK, RowT, JobT, ConnT, PageT

\* One request changes.
LEMMA JobStep ==
    ASSUME JobsOK, NEW j \in Jobs, NEW r \in JobT, r.pc # "new" => r.task \in Tasks,
           job' = [job EXCEPT ![j] = r]
    PROVE  JobsOK' /\ job'[j] = r /\ \A i \in Jobs \ {j} : job'[i] = job[i]
BY DEF JobsOK

\* One side of it on the page changes.
LEMMA PageStep ==
    ASSUME PagesOK, NEW j \in PageJobs, NEW r \in PageT, page' = [page EXCEPT ![j] = r]
    PROVE  PagesOK' /\ page'[j] = r /\ \A i \in PageJobs \ {j} : page'[i] = page[i]
BY DEF PagesOK

LEMMA EventsFinite == IsFiniteSet(Event)
<1>1. IsFiniteSet(0..MaxClock) /\ IsFiniteSet(Jobs \cup Tasks) /\ IsFiniteSet(Tasks)
  <2>1. IsFiniteSet(Tasks) /\ IsFiniteSet(Jobs) /\ MaxClock \in Nat /\ 0 \in Int /\ MaxClock \in Int
    BY TaskStreamAssumption
  <2>2. IsFiniteSet(0..MaxClock)
    BY <2>1, FS_Interval
  <2>3. IsFiniteSet(Jobs \cup Tasks)
    BY <2>1, FS_Union
  <2> QED
    BY <2>1, <2>2, <2>3
<1> DEFINE P == (Jobs \cup Tasks) \X Tasks
           Q == P \X (0..MaxClock)
           f == [x \in Q |-> [id |-> x[1][1], task |-> x[1][2], ts |-> x[2]]]
<1>2. IsFiniteSet(P)
  BY <1>1, FS_Product
<1>3. IsFiniteSet(Q)
  <2> HIDE DEF P
  <2> QED
    BY <1>1, <1>2, FS_Product
<1>4. f \in Surjection(Q, Event)
  <2>1. f \in [Q -> Event]
    BY DEF Event
  <2>2. ASSUME NEW e \in Event PROVE \E x \in Q : f[x] = e
    <3>1. /\ e.id \in Jobs \cup Tasks /\ e.task \in Tasks /\ e.ts \in 0..MaxClock
          /\ e = [id |-> e.id, task |-> e.task, ts |-> e.ts]
      BY DEF Event
    <3>2. <<<<e.id, e.task>>, e.ts>> \in Q
      BY <3>1
    <3>3. f[<<<<e.id, e.task>>, e.ts>>] = e
      BY <3>1, <3>2
    <3> QED
      BY <3>2, <3>3
  <2> QED
    BY <2>1, <2>2 DEF Surjection
<1> HIDE DEF f, Q
<1> QED
  BY <1>3, <1>4, FS_Surjection

\* A poll sends each event it has found.
LEMMA OrdersIs ==
    ASSUME NEW S \in SUBSET Event, NEW s \in Orders(S)
    PROVE  /\ s \in Seq(S) /\ DOMAIN s = 1..Len(s)
           /\ \A e \in S : \E n \in DOMAIN s : s[n] = e
<1>1. IsFiniteSet(S) /\ Cardinality(S) \in Nat
  BY EventsFinite, FS_Subset, FS_CardinalityType
<1>2. /\ s \in [1..Cardinality(S) -> S]
      /\ \A m, n \in 1..Cardinality(S) : m < n => s[m] # s[n]
  BY DEF Orders
<1>3. s \in Seq(S) /\ DOMAIN s = 1..Len(s)
  BY <1>1, <1>2
<1>4. s \in Injection(1..Cardinality(S), S)
  <2>1. ASSUME NEW m \in 1..Cardinality(S), NEW n \in 1..Cardinality(S), s[m] = s[n] PROVE m = n
    BY <1>1, <1>2, <2>1
  <2> QED
    BY <1>2, <2>1 DEF Injection, IsInjective
<1>5. Cardinality(1..Cardinality(S)) = Cardinality(S)
  BY <1>1, FS_Interval
<1>6. s \in Surjection(1..Cardinality(S), S)
  BY <1>1, <1>4, <1>5, FS_Injection
<1> QED
  BY <1>2, <1>3, <1>6 DEF Surjection

\* A step of the stream or of the server.
StreamStep == \/ Tick \/ Poll \/ \E j \in Jobs : Handle(j)
              \/ \E since \in 0..MaxClock : Open(since)
              \/ Close

LEMMA PollStep ==
    ASSUME StreamOK, Poll
    PROVE  /\ UNCHANGED <<clock, row, job, log>> /\ conn' \in ConnT /\ conn.up /\ conn'.up
           /\ conn'.seen = conn.seen \cup {e.id : e \in Unseen}
           /\ \E s \in Orders(Unseen) : conn'.pipe = conn.pipe \o [n \in DOMAIN s |-> Told(s[n])]
<1>1. PICK s \in Orders(Unseen) :
         conn' = [conn EXCEPT !.seen = @ \cup {e.id : e \in Unseen},
                              !.last = Max({@} \cup {e.ts : e \in Unseen}),
                              !.pipe = @ \o [n \in DOMAIN s |-> Told(s[n])]]
  BY DEF Poll
<1>2. Unseen \in SUBSET Event /\ conn \in ConnT
  BY DEF Unseen, Fetched, StreamOK
<1>3. PICK top : top = Max({conn.last} \cup {e.ts : e \in Unseen})
  OBVIOUS
<1>4. top \in 0..MaxClock
  <2>1. ({conn.last} \cup {e.ts : e \in Unseen}) \in SUBSET (0..MaxClock)
    BY <1>2 DEF ConnT, Event
  <2>2. MaxClock \in Nat
    BY TaskStreamAssumption
  <2> QED
    BY <1>3, <2>1, <2>2, MaxIs
<1>5. PICK ids : ids = {e.id : e \in Unseen} /\ ids \subseteq Jobs \cup Tasks
  BY <1>2 DEF Event
<1>6. PICK news : news = [n \in DOMAIN s |-> Told(s[n])] /\ news \in Seq(Payload)
  <2>1. s \in Seq(Unseen)
    BY <1>2, OrdersIs
  <2>2. \A e \in Event : Told(e) \in Payload
    BY DEF Told, Payload, Event, StreamOK, RowsOK, RowT
  <2>3. \A n \in DOMAIN s : Told(s[n]) \in Payload
    BY <1>2, <2>1, <2>2
  <2>4. PICK n \in Nat : n = Len(s) /\ DOMAIN s = 1..n
    BY <1>2, <2>1, OrdersIs
  <2>5. [m \in 1..n |-> Told(s[m])] \in Seq(Payload)
    BY <2>3, <2>4
  <2> QED
    BY <2>4, <2>5
<1>7. conn' = [conn EXCEPT !.seen = conn.seen \cup ids, !.last = top, !.pipe = conn.pipe \o news]
  BY <1>1, <1>3, <1>5, <1>6
<1>8. conn.pipe \o news \in Seq(Payload)
  BY <1>2, <1>6 DEF ConnT
<1>9. /\ conn' \in ConnT /\ conn'.up = conn.up /\ conn'.seen = conn.seen \cup ids
      /\ conn'.pipe = conn.pipe \o news
  BY <1>2, <1>4, <1>5, <1>7, <1>8 DEF ConnT
<1>10. UNCHANGED <<clock, row, job, log>> /\ conn.up
  BY DEF Poll
<1> QED
  BY <1>1, <1>5, <1>6, <1>9, <1>10

\* A row and its event in one step.
LEMMA JoinStep ==
    ASSUME StreamOK, NEW j \in Jobs, Join(j), NEW t, t = job[j].task
    PROVE  /\ StreamOK' /\ job[j].pc = "sent" /\ t \in Tasks /\ row[t].live /\ UNCHANGED <<clock, conn>>
           /\ row'[t].ver = row[t].ver + 1 /\ row'[t].live
           /\ \A u \in Tasks \ {t} : row'[u] = row[u]
           /\ \E now \in 0..MaxClock : log' = log \cup {[id |-> j, task |-> t, ts |-> now]}
           /\ job'[j].pc = "recorded" /\ job'[j].task = t
           /\ \A i \in Jobs \ {j} : job'[i] = job[i]
<1>1. /\ MaxClock \in Nat /\ clock \in 0..MaxClock /\ RowsOK /\ JobsOK /\ log \subseteq Event
      /\ job[j] \in JobT /\ DOMAIN job = Jobs /\ job[j].pc = "sent" /\ t \in Tasks /\ row[t].live
      /\ DOMAIN row = Tasks /\ row[t].ver \in Nat /\ UNCHANGED <<clock, conn>>
  BY TaskStreamAssumption DEF Join, StreamOK, JobsOK, RowsOK, RowT
<1>2. PICK now \in job[j].at..clock :
         /\ row' = [row EXCEPT ![t] = [ver |-> row[t].ver + 1, at |-> now, live |-> TRUE]]
         /\ log' = log \cup {[id |-> j, task |-> t, ts |-> now]}
         /\ job' = [job EXCEPT ![j].pc = "recorded", ![j].ver = row[t].ver + 1, ![j].at = now]
  BY DEF Join
<1>3. now \in 0..MaxClock
  BY <1>1, <1>2 DEF JobT
<1>4. PICK s : s = [ver |-> row[t].ver + 1, at |-> now, live |-> TRUE]
  OBVIOUS
<1>5. s \in RowT /\ s.ver = row[t].ver + 1 /\ s.live /\ row' = [row EXCEPT ![t] = s]
  BY <1>1, <1>2, <1>3, <1>4 DEF RowT
<1>6. RowsOK'
  BY <1>1, <1>5 DEF RowsOK
<1>7. PICK v \in Nat : v = row[t].ver + 1
  BY <1>1
<1>a. PICK r : r = [job[j] EXCEPT !.pc = "recorded", !.ver = v, !.at = now]
  OBVIOUS
<1>b. r \in JobT /\ r.pc = "recorded" /\ r.task = t
  BY <1>1, <1>3, <1>a DEF JobT
<1>8. job' = [job EXCEPT ![j] = r]
  BY <1>1, <1>2, <1>7, <1>a
<1>9. JobsOK' /\ job'[j] = r /\ \A i \in Jobs \ {j} : job'[i] = job[i]
  BY <1>1, <1>b, <1>8, JobStep
<1>10. [id |-> j, task |-> t, ts |-> now] \in Event
  BY <1>1, <1>3 DEF Event
<1>11. StreamOK'
  BY <1>1, <1>2, <1>6, <1>9, <1>10 DEF StreamOK
<1> QED
  BY <1>1, <1>2, <1>3, <1>5, <1>b, <1>9, <1>11

\* A row without an event.
LEMMA UnassignStep ==
    ASSUME StreamOK, NEW j \in Jobs, Unassign(j), NEW t, t = job[j].task
    PROVE  /\ StreamOK' /\ job[j].pc = "sent" /\ job[j].kind = "silent" /\ t \in Tasks
           /\ UNCHANGED <<clock, log, conn>>
           /\ row'[t].ver = row[t].ver + 1
           /\ \A u \in Tasks \ {t} : row'[u] = row[u]
           /\ job'[j].pc = "recorded" /\ job'[j].task = t
           /\ \A i \in Jobs \ {j} : job'[i] = job[i]
<1>1. /\ clock \in 0..MaxClock /\ RowsOK /\ JobsOK
      /\ job[j] \in JobT /\ job[j].pc = "sent" /\ job[j].kind = "silent" /\ t \in Tasks
      /\ DOMAIN row = Tasks /\ row[t].ver \in Nat /\ UNCHANGED <<clock, log, conn>>
  BY DEF Unassign, StreamOK, JobsOK, RowsOK, RowT
<1>2. PICK s : s = [ver |-> row[t].ver + 1, at |-> clock, live |-> TRUE]
  OBVIOUS
<1>3. s \in RowT /\ s.ver = row[t].ver + 1 /\ row' = [row EXCEPT ![t] = s]
  BY <1>1, <1>2 DEF RowT, Unassign
<1>4. RowsOK'
  BY <1>1, <1>3 DEF RowsOK
<1>5. PICK r : r = [job[j] EXCEPT !.pc = "recorded"]
  OBVIOUS
<1>6. r \in JobT /\ r.pc = "recorded" /\ r.task = t /\ job' = [job EXCEPT ![j] = r]
  BY <1>1, <1>5 DEF JobT, Unassign
<1>7. JobsOK' /\ job'[j] = r /\ \A i \in Jobs \ {j} : job'[i] = job[i]
  BY <1>1, <1>6, JobStep
<1>8. StreamOK'
  BY <1>1, <1>4, <1>7 DEF StreamOK
<1> QED
  BY <1>1, <1>3, <1>6, <1>7, <1>8

LEMMA StreamTypes ==
    ASSUME StreamOK, StreamStep
    PROVE  StreamOK'
<1>0. /\ MaxClock \in Nat /\ clock \in 0..MaxClock /\ RowsOK /\ JobsOK /\ log \subseteq Event /\ conn \in ConnT
  BY TaskStreamAssumption DEF StreamOK
<1>1. CASE Tick
  BY <1>0, <1>1 DEF Tick, StreamOK, RowsOK, JobsOK
<1>2. CASE Poll
  BY <1>0, <1>2, PollStep DEF StreamOK, RowsOK, JobsOK
<1>3. ASSUME NEW j \in Jobs, Write(j) PROVE StreamOK'
  <2>1. job[j] \in JobT /\ job[j].pc = "sent" /\ job[j].task \in Tasks
    BY <1>0, <1>3 DEF Write, JobsOK
  <2>2. PICK t \in Tasks, v \in Nat : t = job[j].task /\ v = row[t].ver + 1
    BY <1>0, <2>1 DEF RowsOK, RowT
  <2>3. /\ row' = [row EXCEPT ![t] = [ver |-> v, at |-> clock, live |-> TRUE]]
        /\ job' = [job EXCEPT ![j] = [job[j] EXCEPT !.pc = "written", !.ver = v, !.at = clock]]
        /\ UNCHANGED <<clock, log, conn>>
    BY <1>0, <1>3, <2>1, <2>2 DEF Write, JobsOK, JobT
  <2>4. [ver |-> v, at |-> clock, live |-> TRUE] \in RowT
    BY <1>0, <2>2 DEF RowT
  <2>5. RowsOK'
    BY <1>0, <2>3, <2>4 DEF RowsOK
  <2>6. PICK r : r = [job[j] EXCEPT !.pc = "written", !.ver = v, !.at = clock]
    OBVIOUS
  <2>7. r \in JobT /\ r.task \in Tasks
    BY <1>0, <2>1, <2>2, <2>6 DEF JobT
  <2>8. JobsOK'
    BY <1>0, <2>3, <2>6, <2>7, JobStep
  <2> QED
    BY <1>0, <2>3, <2>5, <2>8 DEF StreamOK
<1>4. ASSUME NEW j \in Jobs, Record(j) PROVE StreamOK'
  <2>1. job[j] \in JobT /\ job[j].pc = "written" /\ job[j].task \in Tasks
    BY <1>0, <1>4 DEF Record, JobsOK
  <2>2. PICK ts \in job[j].at..clock : log' = log \cup {[id |-> j, task |-> job[j].task, ts |-> ts]}
    BY <1>4 DEF Record
  <2>3. [id |-> j, task |-> job[j].task, ts |-> ts] \in Event
    BY <1>0, <2>1, <2>2 DEF Event, JobT
  <2>4. PICK r : r = [job[j] EXCEPT !.pc = "recorded"]
    OBVIOUS
  <2>5. r \in JobT /\ r.task \in Tasks
    BY <2>1, <2>4 DEF JobT
  <2>6. job' = [job EXCEPT ![j] = r] /\ UNCHANGED <<clock, row, conn>>
    BY <1>4, <2>4 DEF Record
  <2>7. JobsOK'
    BY <1>0, <2>5, <2>6, JobStep
  <2> QED
    BY <1>0, <2>2, <2>3, <2>6, <2>7 DEF StreamOK, RowsOK
<1>5. ASSUME NEW j \in Jobs, Erase(j) PROVE StreamOK'
  <2>1. job[j] \in JobT /\ job[j].pc = "sent" /\ job[j].task \in Tasks
    BY <1>0, <1>5 DEF Erase, JobsOK
  <2>2. PICK t \in Tasks : t = job[j].task
    BY <2>1
  <2>3. PICK r : r = [job[j] EXCEPT !.pc = "recorded"]
    OBVIOUS
  <2>4. r \in JobT /\ r.task \in Tasks
    BY <2>1, <2>3 DEF JobT
  <2>5. /\ job' = [job EXCEPT ![j] = r] /\ row' = [row EXCEPT ![t] = [row[t] EXCEPT !.live = FALSE]]
        /\ log' \subseteq log /\ UNCHANGED <<clock, conn>>
    BY <1>5, <2>2, <2>3 DEF Erase
  <2>6. JobsOK'
    BY <1>0, <2>4, <2>5, JobStep
  <2>7. [row[t] EXCEPT !.live = FALSE] \in RowT
    BY <1>0, <2>2 DEF RowsOK, RowT
  <2>8. RowsOK'
    BY <1>0, <2>5, <2>7 DEF RowsOK
  <2> QED
    BY <1>0, <2>5, <2>6, <2>8 DEF StreamOK
<1>6. ASSUME NEW j \in Jobs, Fail(j) PROVE StreamOK'
  <2>1. job[j] \in JobT /\ job[j].pc # "new" /\ job[j].task \in Tasks
    BY <1>0, <1>6 DEF Fail, JobsOK
  <2>3. PICK r : r = [job[j] EXCEPT !.pc = "failed"]
    OBVIOUS
  <2>4. r \in JobT /\ r.task \in Tasks
    BY <2>1, <2>3 DEF JobT
  <2>5. job' = [job EXCEPT ![j] = r] /\ UNCHANGED <<clock, row, log, conn>>
    BY <1>6, <2>3 DEF Fail
  <2>6. JobsOK'
    BY <1>0, <2>4, <2>5, JobStep
  <2> QED
    BY <1>0, <2>5, <2>6 DEF StreamOK, RowsOK
<1>7. Closed \in ConnT /\ ~Closed.up
  BY <1>0 DEF Closed, ConnT
<1>8. ASSUME NEW since \in 0..MaxClock, Open(since) PROVE StreamOK'
  <2>1. conn' \in ConnT
    BY <1>7, <1>8 DEF Open, ConnT
  <2> QED
    BY <1>0, <1>8, <2>1 DEF Open, StreamOK, RowsOK, JobsOK
<1>9. CASE Close
  BY <1>0, <1>7, <1>9 DEF Close, StreamOK, RowsOK, JobsOK
<1> QED
  BY <1>1, <1>2, <1>3, <1>4, <1>5, <1>6, <1>8, <1>9, JoinStep, UnassignStep DEF StreamStep, Handle

-----------------------------------------------------------------------------
(* The lists of the page *)

\* Cards in some order: each once.
LEMMA SetToSeqIs ==
    ASSUME NEW S, IsFiniteSet(S)
    PROVE  /\ SetToSeq(S) \in Seq(S)
           /\ \A x \in S : \E n \in DOMAIN SetToSeq(S) : SetToSeq(S)[n] = x
           /\ \A m, n \in DOMAIN SetToSeq(S) : SetToSeq(S)[m] = SetToSeq(S)[n] => m = n
<1>1. PICK c \in Nat : c = Cardinality(S) /\ ExistsBijection(1..c, S)
  BY FS_CardinalityType
<1>2. PICK f : f \in Bijection(1..c, S)
  BY <1>1 DEF ExistsBijection
<1>3. f \in [1..c -> S] /\ IsInjective(f)
  BY <1>2 DEF Bijection, Injection
<1>4. PICK s : s = SetToSeq(S)
  OBVIOUS
<1>5. s \in [1..c -> S] /\ IsInjective(s)
  BY <1>1, <1>3, <1>4 DEF SetToSeq
<1>6. s \in Injection(1..c, S)
  BY <1>5 DEF Injection
<1>7. Cardinality(1..c) = c
  BY <1>1, FS_Interval
<1>8. s \in Surjection(1..c, S)
  BY <1>1, <1>6, <1>7, FS_Injection
<1>9. s \in Seq(S) /\ DOMAIN s = 1..c
  BY <1>1, <1>5
<1> QED
  BY <1>4, <1>5, <1>8, <1>9 DEF Surjection, IsInjective

\* The list without a task keeps the other cards, in their order.
Picks(l, f, n) == f \in [1..n -> DOMAIN l] /\ \A a, b \in 1..n : a < b => f[a] < f[b]

LEMMA OthersIs ==
    ASSUME cards \in Seq(Card), NEW t
    PROVE  Others(t) \in Seq(Card) /\
           \E n \in Nat : \E f : /\ Picks(cards, f, n) /\ DOMAIN Others(t) = 1..n
                                 /\ \A m \in 1..n : Others(t)[m] = cards[f[m]] /\ cards[f[m]].task # t
                                 /\ \A i \in DOMAIN cards : cards[i].task # t => \E m \in 1..n : f[m] = i
<1>1. PICK len \in Nat : DOMAIN cards = 1..len
  OBVIOUS
<1>2. PICK keep : keep = {i \in DOMAIN cards : cards[i].task # t}
  OBVIOUS
<1>3. keep \in SUBSET (1..len) /\ keep \in SUBSET Nat
  BY <1>1, <1>2
<1>4. IsFiniteSet(keep)
  <2>1. IsFiniteSet(1..len)
    BY FS_Interval
  <2> QED
    BY <1>3, <2>1, FS_Subset
<1>5. PICK c \in Nat : c = Cardinality(keep)
  BY <1>4, FS_CardinalityType
<1>6. PICK below : below = [i \in keep |-> {k \in keep : k <= i}]
  OBVIOUS
<1>7. ASSUME NEW i \in keep
      PROVE  IsFiniteSet(below[i]) /\ Cardinality(below[i]) \in 1..c
  <2>1. below[i] \in SUBSET keep /\ i \in below[i]
    BY <1>3, <1>6
  <2>2. IsFiniteSet(below[i]) /\ Cardinality(below[i]) <= c /\ Cardinality(below[i]) \in Nat
    BY <1>4, <1>5, <2>1, FS_Subset, FS_CardinalityType
  <2>3. Cardinality(below[i]) # 0
    BY <2>1, <2>2, FS_EmptySet
  <2> QED
    BY <2>2, <2>3
<1>8. ASSUME NEW i \in keep, NEW k \in keep, i < k
      PROVE  Cardinality(below[i]) < Cardinality(below[k])
  <2>1. below[i] \in SUBSET below[k] /\ k \in below[k] /\ k \notin below[i]
    BY <1>3, <1>6, <1>8
  <2>2. Cardinality(below[i]) <= Cardinality(below[k]) /\ Cardinality(below[i]) # Cardinality(below[k])
    BY <1>7, <2>1, FS_Subset
  <2> QED
    BY <1>7, <2>2
<1>9. PICK rank : rank = [i \in keep |-> Cardinality(below[i])]
  OBVIOUS
<1>10. rank \in Injection(keep, 1..c)
  <2>1. rank \in [keep -> 1..c]
    BY <1>7, <1>9
  <2>2. ASSUME NEW i \in keep, NEW k \in keep, rank[i] = rank[k] PROVE i = k
    <3>1. i \in Nat /\ k \in Nat /\ rank[i] \in Nat
      BY <1>3, <2>1
    <3>2. i < k => rank[i] < rank[k]
      BY <1>8, <1>9
    <3>3. k < i => rank[k] < rank[i]
      BY <1>8, <1>9
    <3> QED
      BY <2>2, <3>1, <3>2, <3>3
  <2> QED
    BY <2>1, <2>2 DEF Injection, IsInjective
<1>11. rank \in Surjection(keep, 1..c)
  <2>1. IsFiniteSet(1..c) /\ Cardinality(1..c) = c
    BY FS_Interval
  <2> QED
    BY <1>5, <1>10, <2>1, FS_Injection
<1> DEFINE nth(n) == CHOOSE i \in keep : Cardinality({k \in keep : k <= i}) = n
<1>12. PICK f : f = [n \in 1..c |-> nth(n)]
  OBVIOUS
<1>13. ASSUME NEW n \in 1..c PROVE f[n] \in keep /\ rank[f[n]] = n
  <2>1. \E i \in keep : Cardinality({k \in keep : k <= i}) = n
    <3>1. PICK i \in keep : rank[i] = n
      BY <1>11 DEF Surjection
    <3> QED
      BY <1>6, <1>9, <3>1
  <2>2. f[n] \in keep /\ Cardinality({k \in keep : k <= f[n]}) = n
    BY <1>12, <2>1
  <2> QED
    BY <1>6, <1>9, <2>2
<1>14. ASSUME NEW a \in 1..c, NEW b \in 1..c, a < b PROVE f[a] < f[b]
  <2>1. f[a] \in keep /\ f[b] \in keep /\ rank[f[a]] = a /\ rank[f[b]] = b /\ f[a] \in Nat /\ f[b] \in Nat
    BY <1>3, <1>13
  <2>2. f[b] < f[a] => rank[f[b]] < rank[f[a]]
    BY <1>8, <1>9, <2>1
  <2> QED
    BY <1>14, <2>1, <2>2
<1>15. f \in [1..c -> DOMAIN cards] /\ \A m \in 1..c : cards[f[m]].task # t
  <2>1. \A n \in 1..c : f[n] \in DOMAIN cards /\ cards[f[n]].task # t
    BY <1>2, <1>13
  <2>2. f = [n \in 1..c |-> f[n]]
    <3> HIDE DEF nth
    <3> QED
      BY <1>12
  <2> QED
    BY <2>1, <2>2
<1>16. ASSUME NEW i \in DOMAIN cards, cards[i].task # t PROVE \E m \in 1..c : f[m] = i
  <2>1. i \in keep
    BY <1>2, <1>16
  <2>2. rank[i] \in 1..c
    BY <1>7, <1>9, <2>1
  <2>3. f[rank[i]] \in keep /\ rank[f[rank[i]]] = rank[i]
    BY <1>13, <2>2
  <2>4. f[rank[i]] = i
    BY <1>10, <2>1, <2>3 DEF Injection, IsInjective
  <2> QED
    BY <2>2, <2>4
<1>17. Others(t) = [m \in 1..c |-> cards[f[m]]]
  BY <1>2, <1>5, <1>12 DEF Others
<1>18. PICK l : l = Others(t)
  OBVIOUS
<1>19. l \in Seq(Card) /\ DOMAIN l = 1..c /\ \A m \in 1..c : l[m] = cards[f[m]]
  <2>1. \A m \in 1..c : cards[f[m]] \in Card
    BY <1>15
  <2> QED
    BY <1>17, <1>18, <2>1
<1>20. Picks(cards, f, c)
  BY <1>14, <1>15 DEF Picks
<1> QED
  BY <1>15, <1>16, <1>18, <1>19, <1>20

\* A card in front of a list.
LEMMA FrontIs ==
    ASSUME NEW l \in Seq(Card), NEW c \in Card, NEW l2, l2 = <<c>> \o l
    PROVE  /\ l2 \in Seq(Card) /\ 1 \in DOMAIN l2 /\ l2[1] = c
           /\ \A i \in DOMAIN l : i + 1 \in DOMAIN l2 /\ l2[i + 1] = l[i]
           /\ \A i \in DOMAIN l2 : i = 1 \/ (i - 1 \in DOMAIN l /\ l2[i] = l[i - 1])
<1>1. l2 \in Seq(Card) /\ Len(l2) = Len(l) + 1 /\ Len(l) \in Nat
  OBVIOUS
<1>2. DOMAIN l2 = 1..(Len(l) + 1) /\ DOMAIN l = 1..Len(l)
  BY <1>1
<1> QED
  BY <1>1, <1>2

\* A list whose cards were changed where they are.
LEMMA ChangedIs ==
    ASSUME NEW l \in Seq(Card), NEW l2, DOMAIN l2 = DOMAIN l, l2 = [i \in DOMAIN l |-> l2[i]],
           \A i \in DOMAIN l : l2[i] \in Card
    PROVE  l2 \in Seq(Card)
<1>1. PICK n \in Nat : DOMAIN l = 1..n
  OBVIOUS
<1> QED
  BY <1>1

LEMMA CopyIs ==
    ASSUME NEW p, p.task \in Tasks, p.ver \in Nat, p.at \in 0..MaxClock
    PROVE  Copy(p, None) \in Card /\ Copy(p, None).task = p.task /\ Copy(p, None).ver = p.ver
           /\ Copy(p, None).at = p.at /\ Copy(p, None).guess = None
BY DEF Copy, Card

LEMMA ReplacedIs ==
    ASSUME cards \in Seq(Card), NEW p, Copy(p, None) \in Card, NEW l2, l2 = Replaced(p)
    PROVE  /\ l2 \in Seq(Card) /\ DOMAIN l2 = DOMAIN cards
           /\ \A i \in DOMAIN cards : l2[i] = IF cards[i].task = p.task THEN Copy(p, None) ELSE cards[i]
<1>1. /\ DOMAIN l2 = DOMAIN cards /\ l2 = [i \in DOMAIN cards |-> l2[i]]
      /\ \A i \in DOMAIN cards : l2[i] = IF cards[i].task = p.task THEN Copy(p, None) ELSE cards[i]
  BY DEF Replaced
<1>2. \A i \in DOMAIN cards : l2[i] \in Card
  BY <1>1
<1> QED
  BY <1>1, <1>2, ChangedIs

\* The list a move shows.
Moved(j, t) == [i \in DOMAIN cards |-> IF cards[i].task = t THEN [cards[i] EXCEPT !.guess = j] ELSE cards[i]]

LEMMA MovedIs ==
    ASSUME cards \in Seq(Card), NEW j \in PageJobs, NEW t, NEW l2, l2 = Moved(j, t)
    PROVE  /\ l2 \in Seq(Card) /\ DOMAIN l2 = DOMAIN cards
           /\ \A i \in DOMAIN cards : /\ l2[i] \in Card /\ l2[i].task = cards[i].task
                                      /\ l2[i].ver = cards[i].ver /\ l2[i].at = cards[i].at
                                      /\ l2[i].guess = IF cards[i].task = t THEN j ELSE cards[i].guess
                                      /\ cards[i].task # t => l2[i] = cards[i]
<1>1. /\ DOMAIN l2 = DOMAIN cards /\ l2 = [i \in DOMAIN cards |-> l2[i]]
      /\ \A i \in DOMAIN cards : l2[i] = IF cards[i].task = t THEN [cards[i] EXCEPT !.guess = j] ELSE cards[i]
  BY DEF Moved
<1>2. ASSUME NEW i \in DOMAIN cards
      PROVE  /\ l2[i] \in Card /\ l2[i].task = cards[i].task
             /\ l2[i].ver = cards[i].ver /\ l2[i].at = cards[i].at
             /\ l2[i].guess = IF cards[i].task = t THEN j ELSE cards[i].guess
             /\ cards[i].task # t => l2[i] = cards[i]
  <2>1. cards[i] \in Card
    OBVIOUS
  <2> QED
    BY <1>1, <2>1 DEF Card
<1> QED
  BY <1>1, <1>2, ChangedIs

LEMMA MergedIs ==
    ASSUME cards \in Seq(Card), NEW p, Copy(p, None) \in Card, Copy(p, None).task = p.task,
           NEW l2, l2 = Merged(p)
    PROVE  l2 \in Seq(Card) /\
           IF p.task \in Shown
           THEN /\ DOMAIN l2 = DOMAIN cards /\ First(p.task) \in DOMAIN cards
                /\ cards[First(p.task)].task = p.task /\ l2[First(p.task)] = Copy(p, None)
                /\ \A i \in DOMAIN cards : i # First(p.task) => l2[i] = cards[i]
                /\ \A i \in DOMAIN cards : cards[i].task = p.task => First(p.task) <= i
           ELSE l2 = <<Copy(p, None)>> \o cards
<1>1. CASE p.task \in Shown
  <2>1. \E i \in DOMAIN cards : cards[i].task = p.task
    BY <1>1 DEF Shown
  <2>2. PICK n : n = First(p.task)
    OBVIOUS
  <2>3. /\ n \in DOMAIN cards /\ cards[n].task = p.task
        /\ \A i \in DOMAIN cards : cards[i].task = p.task => n <= i
    BY <2>1, <2>2, FirstOfIs DEF First, FirstOf
  <2>4. l2 = [cards EXCEPT ![n] = Copy(p, None)]
    BY <1>1, <2>2 DEF Merged
  <2>5. l2 \in Seq(Card)
    BY <2>3, <2>4
  <2> QED
    BY <1>1, <2>2, <2>3, <2>4, <2>5
<1>2. CASE p.task \notin Shown
  <2>1. l2 = <<Copy(p, None)>> \o cards
    BY <1>2 DEF Merged
  <2>2. l2 \in Seq(Card)
    BY <2>1, FrontIs
  <2> QED
    BY <1>2, <2>1, <2>2
<1> QED
  BY <1>1, <1>2

-----------------------------------------------------------------------------
(* What the lists say *)

\* This page created the task.
Created(t, pg, jb) == \E j \in PageJobs : pg[j].st = "ok" /\ pg[j].act = "create" /\ jb[j].task = t

\* OneCard of a list.
Explained(l, pg, jb) ==
    \A i, k \in DOMAIN l : i # k /\ l[i].task = l[k].task => Created(l[i].task, pg, jb)

\* A guess is a move of that card's task, which was sent.
Guesses(l, pg, jb) ==
    \A i \in DOMAIN l : l[i].guess # None =>
        /\ pg[l[i].guess].st # "idle" /\ pg[l[i].guess].act = "move"
        /\ jb[l[i].guess].task = l[i].task

Fit(l, pg, jb) == Explained(l, pg, jb) /\ Guesses(l, pg, jb)

\* A move that failed had kept a card with the guess.
Haunted(g, pg) ==
    \E k \in PageJobs : /\ k # g /\ pg[k].st = "error"
                        /\ \E c \in ToSet(pg[k].undo) : c.guess = g

\* NoPhantom of a list.
NoTrace(l, pg) ==
    \A i \in DOMAIN l : l[i].guess # None /\ pg[l[i].guess].st # "waiting" => Haunted(l[i].guess, pg)

\* Each guess of a list comes from another list.
From(l2, l) ==
    \A i \in DOMAIN l2 : l2[i].guess # None =>
        \E k \in DOMAIN l : l[k].guess = l2[i].guess /\ l[k].task = l2[i].task

LEMMA FromFit ==
    ASSUME NEW l \in Seq(Card), NEW l2 \in Seq(Card), From(l2, l), NEW pg, NEW jb
    PROVE  /\ Guesses(l, pg, jb) => Guesses(l2, pg, jb)
           /\ NoTrace(l, pg) => NoTrace(l2, pg)
BY DEF From, Guesses, NoTrace

\* The same tasks in the same places.
LEMMA SameFit ==
    ASSUME NEW l \in Seq(Card), NEW l2 \in Seq(Card), NEW pg, NEW jb, DOMAIN l2 = DOMAIN l,
           \A i \in DOMAIN l : l2[i].task = l[i].task, Explained(l, pg, jb)
    PROVE  Explained(l2, pg, jb)
BY DEF Explained

\* A card in front, of a task that has none or that this page created.
LEMMA FrontFit ==
    ASSUME NEW l \in Seq(Card), NEW c \in Card, c.guess = None, NEW pg, NEW jb, Explained(l, pg, jb),
           (\A i \in DOMAIN l : l[i].task # c.task) \/ Created(c.task, pg, jb), NEW l2, l2 = <<c>> \o l
    PROVE  l2 \in Seq(Card) /\ Explained(l2, pg, jb) /\ From(l2, l)
<1>1. /\ l2 \in Seq(Card) /\ 1 \in DOMAIN l2 /\ l2[1] = c
      /\ \A i \in DOMAIN l2 : i = 1 \/ (i - 1 \in DOMAIN l /\ l2[i] = l[i - 1])
  BY FrontIs
<1>2. ASSUME NEW i \in DOMAIN l2, NEW k \in DOMAIN l2, i # k, l2[i].task = l2[k].task
      PROVE  Created(l2[i].task, pg, jb)
  <2>0. i \in Nat /\ k \in Nat /\ DOMAIN l \subseteq Nat
    BY <1>1
  <2>1. CASE i = 1
    <3>1. k - 1 \in DOMAIN l /\ l[k - 1].task = c.task
      BY <1>1, <1>2, <2>1
    <3> QED
      BY <1>1, <2>1, <3>1
  <2>2. CASE k = 1
    <3>1. i - 1 \in DOMAIN l /\ l[i - 1].task = c.task
      BY <1>1, <1>2, <2>2
    <3> QED
      BY <1>1, <1>2, <2>2, <3>1
  <2>3. CASE i # 1 /\ k # 1
    <3>1. i - 1 \in DOMAIN l /\ l2[i] = l[i - 1] /\ k - 1 \in DOMAIN l /\ l2[k] = l[k - 1]
      BY <1>1, <2>3
    <3>2. i - 1 # k - 1
      BY <1>2, <2>0
    <3> QED
      BY <1>2, <3>1, <3>2 DEF Explained
  <2> QED
    BY <2>1, <2>2, <2>3
<1>3. From(l2, l)
  BY <1>1 DEF From
<1> QED
  BY <1>1, <1>2, <1>3 DEF Explained

\* Some of the cards, in their order.
LEMMA PicksFit ==
    ASSUME NEW l \in Seq(Card), NEW l2 \in Seq(Card), NEW n \in Nat, NEW f, Picks(l, f, n), DOMAIN l2 = 1..n,
           \A m \in 1..n : l2[m] = l[f[m]], NEW pg, NEW jb, Explained(l, pg, jb)
    PROVE  Explained(l2, pg, jb) /\ From(l2, l)
<1>1. \A m \in 1..n : f[m] \in DOMAIN l /\ f[m] \in Nat
  BY DEF Picks
<1>2. ASSUME NEW i \in 1..n, NEW k \in 1..n, i # k PROVE f[i] # f[k]
  <2>1. (i < k => f[i] < f[k]) /\ (k < i => f[k] < f[i])
    BY DEF Picks
  <2> QED
    BY <1>1, <1>2, <2>1
<1>3. Explained(l2, pg, jb)
  <2>1. ASSUME NEW i \in 1..n, NEW k \in 1..n, i # k, l2[i].task = l2[k].task
        PROVE  Created(l2[i].task, pg, jb)
    <3>1. f[i] \in DOMAIN l /\ f[k] \in DOMAIN l /\ f[i] # f[k] /\ l2[i] = l[f[i]] /\ l2[k] = l[f[k]]
      BY <1>1, <1>2, <2>1
    <3> QED
      BY <2>1, <3>1 DEF Explained
  <2> QED
    BY <2>1 DEF Explained
<1>4. From(l2, l)
  BY <1>1 DEF From
<1> QED
  BY <1>3, <1>4

\* Requests go forward: what was sent stays sent, and an answer stays.
Forward(pg, jb, pg2, jb2) ==
    \A j \in PageJobs : pg[j].st # "idle" =>
        /\ pg2[j].st # "idle" /\ pg2[j].act = pg[j].act /\ jb2[j].task = jb[j].task
        /\ pg[j].st = "ok" => pg2[j].st = "ok"

LEMMA FitStays ==
    ASSUME NEW l \in Seq(Card), NEW pg, NEW jb, NEW pg2, NEW jb2, Forward(pg, jb, pg2, jb2), Fit(l, pg, jb)
    PROVE  Fit(l, pg2, jb2)
<1>1. Explained(l, pg2, jb2)
  <2>1. \A t : Created(t, pg, jb) => Created(t, pg2, jb2)
    BY DEF Created, Forward
  <2> QED
    BY <2>1 DEF Fit, Explained
<1>2. Guesses(l, pg2, jb2)
  <2>1. ASSUME NEW i \in DOMAIN l, l[i].guess # None PROVE l[i].guess \in PageJobs
    <3>1. l[i] \in Card
      OBVIOUS
    <3> QED
      BY <2>1, <3>1 DEF Card
  <2> QED
    BY <2>1 DEF Fit, Guesses, Forward
<1> QED
  BY <1>1, <1>2 DEF Fit

-----------------------------------------------------------------------------
(* The invariant of the page *)

\* What the page has sent, the server has.
Sent == \A j \in PageJobs : page[j].st # "idle" => job[j].pc # "new"
Lists == Fit(cards, page, job) /\ \A j \in PageJobs : Fit(page[j].undo, page, job)

\* The list a move keeps is the one before its own guess.
Undone ==
    \A j \in PageJobs : \A i \in DOMAIN page[j].undo :
        page[j].undo[i].guess # None => page[j].undo[i].guess # j

BoardInv == Typed /\ Sent /\ Lists /\ Undone /\ NoTrace(cards, page)

\* A request that was sent keeps its task.
JobsGo == \A j \in Jobs : job[j].pc # "new" => job'[j].pc # "new" /\ job'[j].task = job[j].task

LEMMA StreamGoes ==
    ASSUME StreamOK, StreamStep
    PROVE  JobsGo
<1>1. JobsOK
  BY DEF StreamOK
<1>2. CASE UNCHANGED job
  BY <1>2 DEF JobsGo
<1>3. ASSUME NEW j \in Jobs, Write(j) PROVE JobsGo
  <2>1. /\ job[j] \in JobT /\ DOMAIN job = Jobs
        /\ job' = [job EXCEPT ![j] = [job[j] EXCEPT !.pc = "written", !.ver = row[job[j].task].ver + 1, !.at = clock]]
    BY <1>1, <1>3 DEF Write, JobsOK
  <2>2. PICK r : r = [job[j] EXCEPT !.pc = "written", !.ver = row[job[j].task].ver + 1, !.at = clock]
    OBVIOUS
  <2>3. r.pc = "written" /\ r.task = job[j].task
    BY <2>1, <2>2 DEF JobT
  <2>4. job' = [job EXCEPT ![j] = r]
    BY <2>1, <2>2
  <2> QED
    BY <2>1, <2>3, <2>4 DEF JobsGo
<1>4. ASSUME NEW j \in Jobs, Record(j) \/ Erase(j) \/ Fail(j) PROVE JobsGo
  <2>1. /\ job[j] \in JobT /\ DOMAIN job = Jobs
        /\ \E q \in {"recorded", "failed"} : job' = [job EXCEPT ![j] = [job[j] EXCEPT !.pc = q]]
    BY <1>1, <1>4 DEF Record, Erase, Fail, JobsOK
  <2>2. PICK q \in {"recorded", "failed"} : job' = [job EXCEPT ![j] = [job[j] EXCEPT !.pc = q]]
    BY <2>1
  <2>3. PICK r : r = [job[j] EXCEPT !.pc = q]
    OBVIOUS
  <2>4. r.pc = q /\ r.task = job[j].task
    BY <2>1, <2>3 DEF JobT
  <2>5. job' = [job EXCEPT ![j] = r]
    BY <2>2, <2>3
  <2> QED
    BY <2>1, <2>4, <2>5 DEF JobsGo
<1>5. ASSUME NEW j \in Jobs, Join(j) \/ Unassign(j) PROVE JobsGo
  <2>1. /\ job'[j].pc = "recorded" /\ job'[j].task = job[j].task
        /\ \A i \in Jobs \ {j} : job'[i] = job[i]
    BY <1>5, JoinStep, UnassignStep
  <2> QED
    BY <2>1 DEF JobsGo
<1> QED
  BY <1>2, <1>3, <1>4, <1>5 DEF StreamStep, Handle, Tick, Poll, Open, Close

LEMMA RequestIs ==
    ASSUME StreamOK, NEW j \in Jobs, NEW k \in Kinds, NEW t \in Tasks, Request(j, k, t)
    PROVE  /\ JobsOK' /\ JobsGo /\ job[j].pc = "new"
           /\ job'[j].pc = "sent" /\ job'[j].task = t /\ job'[j].kind = k
           /\ \A i \in Jobs \ {j} : job'[i] = job[i]
<1>1. PICK r : r = [NewJob EXCEPT !.pc = "sent", !.kind = k, !.task = t, !.at = clock]
  OBVIOUS
<1>2. r.pc = "sent" /\ r.kind = k /\ r.task = t /\ r.ver = 0 /\ r.at = clock
      /\ r = [pc |-> "sent", kind |-> k, task |-> t, ver |-> 0, at |-> clock]
  BY <1>1 DEF NewJob
<1>3. r \in JobT
  BY <1>2 DEF JobT, StreamOK
<1>4. job' = [job EXCEPT ![j] = r] /\ job[j].pc = "new" /\ JobsOK
  BY <1>1 DEF Request, StreamOK
<1>5. JobsOK' /\ job'[j] = r /\ \A i \in Jobs \ {j} : job'[i] = job[i]
  BY <1>2, <1>3, <1>4, JobStep
<1>6. JobsGo
  BY <1>4, <1>5 DEF JobsGo
<1> QED
  BY <1>2, <1>4, <1>5, <1>6

\* A step that leaves the page's lists and its side of the requests.
LEMMA ServerKeeps ==
    ASSUME BoardInv, Typed', JobsGo, UNCHANGED <<cards, page>>
    PROVE  BoardInv'
<1>1. PageJobs \subseteq Jobs
  BY BoardPageAssumption
<1>2. Forward(page, job, page', job')
  BY <1>1 DEF Forward, JobsGo, BoardInv, Sent
<1>3. Sent'
  BY <1>1 DEF JobsGo, BoardInv, Sent
<1>4. cards \in Seq(Card) /\ \A j \in PageJobs : page[j].undo \in Seq(Card)
  BY DEF BoardInv, Typed, PageOK, PagesOK, PageT
<1>5. Fit(cards, page', job') /\ \A j \in PageJobs : Fit(page[j].undo, page', job')
  BY <1>2, <1>4, FitStays DEF BoardInv, Lists
<1>6. Lists'
  BY <1>5 DEF Lists
<1> QED
  BY <1>3, <1>6 DEF BoardInv, Undone, NoTrace, Haunted

\* A step of the list alone.
LEMMA ListKeeps ==
    ASSUME BoardInv, Typed', UNCHANGED <<job, page>>, Explained(cards', page, job), From(cards', cards)
    PROVE  BoardInv'
<1>1. cards \in Seq(Card) /\ cards' \in Seq(Card)
  BY DEF BoardInv, Typed, PageOK
<1>2. Guesses(cards', page, job) /\ NoTrace(cards', page)
  BY <1>1, FromFit DEF BoardInv, Lists, Fit
<1> QED
  BY <1>2 DEF BoardInv, Sent, Lists, Fit, Undone

\* A step of one of the page's requests.
LEMMA AskKeeps ==
    ASSUME BoardInv, Typed', NEW j \in PageJobs, JobsGo, page[j].st \in {"idle", "waiting"},
           \A i \in PageJobs \ {j} : page'[i] = page[i],
           page'[j].st # "idle", job'[j].pc # "new",
           page[j].st = "waiting" => page'[j].act = page[j].act,
           \/ page'[j].undo = <<>> \/ page'[j].undo = page[j].undo
           \/ page'[j].undo = cards /\ page[j].st = "idle",
           Explained(cards', page', job'), Guesses(cards', page', job'), NoTrace(cards', page')
    PROVE  BoardInv'
<1>1. PageJobs \subseteq Jobs
  BY BoardPageAssumption
<1>2. Forward(page, job, page', job')
  BY <1>1 DEF Forward, JobsGo, BoardInv, Sent
<1>3. Sent'
  BY <1>1 DEF JobsGo, BoardInv, Sent
<1>4. cards \in Seq(Card) /\ \A i \in PageJobs : page[i].undo \in Seq(Card)
  BY DEF BoardInv, Typed, PageOK, PagesOK, PageT
<1>5. Fit(cards, page', job') /\ \A i \in PageJobs : Fit(page[i].undo, page', job')
  BY <1>2, <1>4, FitStays DEF BoardInv, Lists
<1>6. Fit(<<>>, page', job')
  BY DEF Fit, Explained, Guesses
<1>7. Fit(page'[j].undo, page', job')
  BY <1>5, <1>6
<1>8. Lists'
  BY <1>5, <1>7 DEF Lists, Fit
<1>9. ASSUME NEW i \in DOMAIN page'[j].undo, page'[j].undo[i].guess # None PROVE page'[j].undo[i].guess # j
  <2>1. CASE page'[j].undo = cards /\ page[j].st = "idle"
    BY <1>9, <2>1 DEF BoardInv, Lists, Fit, Guesses
  <2>2. CASE page'[j].undo = page[j].undo
    BY <1>9, <2>2 DEF BoardInv, Undone
  <2> QED
    BY <1>9, <2>1, <2>2
<1>10. Undone'
  BY <1>9 DEF BoardInv, Undone
<1> QED
  BY <1>3, <1>8, <1>10 DEF BoardInv

\* Guesses of other requests keep their explanation when one request changes.
LEMMA TraceStep ==
    ASSUME BoardInv, NEW j \in PageJobs, page[j].st \in {"idle", "waiting"},
           \A i \in PageJobs \ {j} : page'[i] = page[i],
           NEW l \in Seq(Card),
           \A i \in DOMAIN l : l[i].guess # None =>
               \/ l[i].guess # j /\ \E k \in DOMAIN cards : cards[k].guess = l[i].guess
               \/ l[i].guess = j /\ page'[j].st = "waiting"
    PROVE  NoTrace(l, page')
<1>1. ASSUME NEW g, Haunted(g, page) PROVE Haunted(g, page')
  <2>1. PICK k \in PageJobs : k # g /\ page[k].st = "error" /\ \E c \in ToSet(page[k].undo) : c.guess = g
    BY <1>1 DEF Haunted
  <2>2. page'[k] = page[k]
    BY <2>1
  <2> QED
    BY <2>1, <2>2 DEF Haunted
<1>2. ASSUME NEW i \in DOMAIN l, l[i].guess # None, page'[l[i].guess].st # "waiting"
      PROVE  Haunted(l[i].guess, page')
  <2>1. l[i] \in Card /\ l[i].guess \in PageJobs
    <3>1. l[i] \in Card
      OBVIOUS
    <3> QED
      BY <1>2, <3>1 DEF Card
  <2>2. l[i].guess # j /\ \E k \in DOMAIN cards : cards[k].guess = l[i].guess
    BY <1>2
  <2>3. page'[l[i].guess] = page[l[i].guess]
    BY <2>1, <2>2
  <2>4. Haunted(l[i].guess, page)
    BY <1>2, <2>2, <2>3 DEF BoardInv, NoTrace
  <2> QED
    BY <1>1, <2>4
<1> QED
  BY <1>2 DEF NoTrace

LEMMA PageInit == Init => BoardInv
<1> SUFFICES ASSUME Init PROVE BoardInv
  OBVIOUS
<1>1. StreamInit /\ cards = <<>> /\ loaded = FALSE /\ active = TRUE /\ breaks = 0
      /\ page = [j \in PageJobs |-> [st |-> "idle", act |-> "move", undo |-> <<>>]]
  BY DEF Init
<1>2. MaxClock \in Nat /\ MaxBreaks \in Nat /\ Old \subseteq Tasks
  BY TaskStreamAssumption, BoardPageAssumption
<1>3. RowsOK
  BY <1>1, <1>2 DEF StreamInit, RowsOK, RowT
<1>4. JobsOK
  <2>1. NewJob \in JobT /\ NewJob.pc = "new"
    BY <1>2 DEF NewJob, JobT, Kinds
  <2> QED
    BY <1>1, <2>1 DEF StreamInit, JobsOK
<1>5. log \subseteq Event /\ clock \in 0..MaxClock
  BY <1>1, <1>2 DEF StreamInit, Event
<1>6. conn \in ConnT
  BY <1>1, <1>2 DEF StreamInit, Closed, ConnT
<1>7. PagesOK /\ \A j \in PageJobs : page[j].st = "idle" /\ page[j].undo = <<>>
  BY <1>1 DEF PagesOK, PageT, Acts
<1>8. Typed
  <2>1. cards \in Seq(Card) /\ breaks \in 0..MaxBreaks
    BY <1>1, <1>2
  <2>2. loaded \in BOOLEAN /\ active \in BOOLEAN
    BY <1>1, Zenon
  <2> QED
    BY <1>3, <1>4, <1>5, <1>6, <1>7, <2>1, <2>2 DEF Typed, StreamOK, PageOK
<1>9. Fit(<<>>, page, job) /\ NoTrace(<<>>, page)
  BY DEF Fit, Explained, Guesses, NoTrace
<1> QED
  BY <1>1, <1>7, <1>8, <1>9 DEF BoardInv, Sent, Lists, Undone

\* The snapshot: each task that exists, once, as its row is.
Snapshot == {[task |-> t, ver |-> row[t].ver, at |-> row[t].at, guess |-> None] : t \in {u \in Tasks : row[u].live}}

LEMMA LoadIs ==
    ASSUME Typed, LoadBoard
    PROVE  /\ cards' \in Seq(Card)
           /\ \A n \in DOMAIN cards' : /\ cards'[n].task \in Tasks /\ row[cards'[n].task].live
                                       /\ cards'[n].ver = row[cards'[n].task].ver /\ cards'[n].guess = None
           /\ \A t \in Tasks : row[t].live => \E n \in DOMAIN cards' : cards'[n].task = t
           /\ \A m, n \in DOMAIN cards' : cards'[m].task = cards'[n].task => m = n
<1>1. PICK S : S = Snapshot
  OBVIOUS
<1>2. PICK live : live = {u \in Tasks : row[u].live}
  OBVIOUS
<1>3. PICK f : f = [t \in live |-> [task |-> t, ver |-> row[t].ver, at |-> row[t].at, guess |-> None]]
  OBVIOUS
<1>4. f \in Surjection(live, S)
  BY <1>1, <1>2, <1>3 DEF Snapshot, Surjection
<1>5. IsFiniteSet(live)
  BY <1>2, TaskStreamAssumption, FS_Subset
<1>6. IsFiniteSet(S)
  BY <1>4, <1>5, FS_Surjection
<1>7. cards' = SetToSeq(S)
  BY <1>1 DEF LoadBoard, Snapshot
<1>8. PICK s : s = SetToSeq(S)
  OBVIOUS
<1>9. s \in Seq(S) /\ (\A x \in S : \E n \in DOMAIN s : s[n] = x) /\ \A m, n \in DOMAIN s : s[m] = s[n] => m = n
  BY <1>6, <1>8, SetToSeqIs
<1>10. \A x \in S : /\ x \in Card /\ x.task \in Tasks /\ row[x.task].live /\ x.guess = None
                    /\ x = [task |-> x.task, ver |-> row[x.task].ver, at |-> row[x.task].at, guess |-> None]
  BY <1>1 DEF Snapshot, Card, Typed, StreamOK, RowsOK, RowT
<1>11. s \in Seq(Card) /\ \A n \in DOMAIN s : s[n] \in S
  <2>1. PICK n \in Nat : DOMAIN s = 1..n /\ s \in [1..n -> S]
    BY <1>9
  <2>2. s \in [1..n -> Card]
    BY <1>10, <2>1
  <2> QED
    BY <2>1, <2>2
<1>12. \A t \in Tasks : row[t].live => \E n \in DOMAIN s : s[n].task = t
  <2>1. ASSUME NEW t \in Tasks, row[t].live PROVE \E n \in DOMAIN s : s[n].task = t
    <3>1. [task |-> t, ver |-> row[t].ver, at |-> row[t].at, guess |-> None] \in S
      BY <1>1, <2>1 DEF Snapshot
    <3>2. PICK n \in DOMAIN s : s[n] = [task |-> t, ver |-> row[t].ver, at |-> row[t].at, guess |-> None]
      BY <1>9, <3>1
    <3> QED
      BY <3>2
  <2> QED
    BY <2>1
<1>13. \A m, n \in DOMAIN s : s[m].task = s[n].task => m = n
  BY <1>9, <1>10, <1>11
<1>14. \A n \in DOMAIN s : s[n].ver = row[s[n].task].ver
  <2>1. \A x \in S : x.ver = row[x.task].ver
    BY <1>1 DEF Snapshot
  <2> QED
    BY <1>11, <2>1
<1> QED
  BY <1>7, <1>8, <1>10, <1>11, <1>12, <1>13, <1>14

LEMMA LoadKeeps == BoardInv /\ LoadBoard => BoardInv'
<1> SUFFICES ASSUME BoardInv, LoadBoard PROVE BoardInv'
  OBVIOUS
<1>1. Typed /\ UNCHANGED <<clock, row, job, log, conn, active, page, breaks>> /\ loaded' = TRUE
  BY DEF BoardInv, LoadBoard
<1>2. /\ cards' \in Seq(Card) /\ \A n \in DOMAIN cards' : cards'[n].guess = None
      /\ \A m, n \in DOMAIN cards' : cards'[m].task = cards'[n].task => m = n
  BY <1>1, LoadIs
<1>3. Typed'
  BY <1>1, <1>2 DEF Typed, StreamOK, PageOK, RowsOK, JobsOK, PagesOK
<1>4. Explained(cards', page, job) /\ From(cards', cards)
  BY <1>2 DEF Explained, From
<1> QED
  BY <1>1, <1>3, <1>4, ListKeeps

LEMMA DeliverKeeps == BoardInv /\ Deliver => BoardInv'
<1> SUFFICES ASSUME BoardInv, Deliver PROVE BoardInv'
  OBVIOUS
<1>1. /\ Typed /\ UNCHANGED <<clock, row, job, log, loaded, active, page, breaks>>
      /\ conn \in ConnT /\ cards \in Seq(Card) /\ conn.pipe # <<>>
  BY DEF BoardInv, Deliver, Typed, StreamOK, PageOK
<1>2. PICK p : p = Head(conn.pipe)
  OBVIOUS
<1>3. p \in Payload /\ Tail(conn.pipe) \in Seq(Payload)
  <2>1. conn.pipe \in Seq(Payload)
    BY <1>1 DEF ConnT
  <2> QED
    BY <1>1, <1>2, <2>1
<1>4. cards' = Merged(p) /\ conn' = [conn EXCEPT !.pipe = Tail(conn.pipe)]
  BY <1>2 DEF Deliver
<1>5. conn' \in ConnT
  BY <1>1, <1>3, <1>4 DEF ConnT
<1>6. PICK c : c = Copy(p, None)
  OBVIOUS
<1>7. c \in Card /\ c.task = p.task /\ c.guess = None
  BY <1>3, <1>6, CopyIs DEF Payload
<1>8. PICK l2 : l2 = cards'
  OBVIOUS
<1>9. Explained(cards, page, job)
  BY DEF BoardInv, Lists, Fit
<1>10. l2 \in Seq(Card) /\ Explained(l2, page, job) /\ From(l2, cards)
  <2>1. CASE p.task \in Shown
    <3>1. PICK n : n = First(p.task)
      OBVIOUS
    <3>2. /\ l2 \in Seq(Card) /\ DOMAIN l2 = DOMAIN cards /\ n \in DOMAIN cards
          /\ cards[n].task = p.task /\ l2[n] = c
          /\ \A i \in DOMAIN cards : i # n => l2[i] = cards[i]
      BY <1>1, <1>4, <1>6, <1>7, <1>8, <2>1, <3>1, MergedIs
    <3>3. \A i \in DOMAIN cards : l2[i].task = cards[i].task
      BY <1>7, <3>2
    <3>4. From(l2, cards)
      BY <1>7, <3>2 DEF From
    <3> QED
      BY <1>1, <1>9, <3>2, <3>3, <3>4, SameFit
  <2>2. CASE p.task \notin Shown
    <3>1. l2 = <<c>> \o cards
      BY <1>1, <1>4, <1>6, <1>7, <1>8, <2>2, MergedIs
    <3>2. \A i \in DOMAIN cards : cards[i].task # c.task
      BY <1>7, <2>2 DEF Shown
    <3> QED
      BY <1>1, <1>7, <1>9, <3>1, <3>2, FrontFit
  <2> QED
    BY <2>1, <2>2
<1>11. Typed'
  BY <1>1, <1>5, <1>8, <1>10 DEF Typed, StreamOK, PageOK, RowsOK, JobsOK, PagesOK
<1> QED
  BY <1>1, <1>8, <1>10, <1>11, ListKeeps

\* Steps that only move the server, the stream or the page's attention.
LEMMA StreamKeeps ==
    ASSUME BoardInv, StreamStep, UNCHANGED <<cards, loaded, page>>,
           active' \in BOOLEAN, breaks' \in 0..MaxBreaks
    PROVE  BoardInv'
<1>1. Typed
  BY DEF BoardInv
<1>2. StreamOK' /\ JobsGo
  BY <1>1, StreamTypes, StreamGoes DEF Typed
<1>3. Typed'
  BY <1>1, <1>2 DEF Typed, PageOK, PagesOK
<1> QED
  BY <1>2, <1>3, ServerKeeps

LEMMA SinceIs == Typed => Since \in 0..MaxClock
<1> SUFFICES ASSUME Typed PROVE Since \in 0..MaxClock
  OBVIOUS
<1>1. cards \in Seq(Card) /\ clock \in 0..MaxClock
  BY DEF Typed, StreamOK, PageOK
<1>2. cards # <<>> => Newest \in 0..MaxClock
  BY <1>1, NewestIs DEF Newest
<1> QED
  BY <1>1, <1>2 DEF Since

LEMMA BlurKeeps == BoardInv /\ (Blur \/ Focus) => BoardInv'
<1> SUFFICES ASSUME BoardInv, Blur \/ Focus PROVE BoardInv'
  OBVIOUS
<1>1. Typed /\ MaxBreaks \in Nat /\ MaxClock \in Nat
  BY TaskStreamAssumption, BoardPageAssumption DEF BoardInv
<1>2. UNCHANGED <<clock, row, job, log, cards, loaded, page>> /\ (conn' = Closed \/ conn' = conn)
  BY DEF Blur, Focus
<1>3. conn' \in ConnT
  <2>1. Closed \in ConnT
    BY <1>1 DEF Closed, ConnT
  <2> QED
    BY <1>1, <1>2, <2>1 DEF Typed, StreamOK
<1>4. active' \in BOOLEAN /\ breaks' \in 0..MaxBreaks
  <2>1. active' \in BOOLEAN
    BY Zenon DEF Blur, Focus
  <2>2. breaks \in 0..MaxBreaks
    BY <1>1 DEF Typed, PageOK
  <2>3. breaks' = breaks \/ (breaks < MaxBreaks /\ breaks' = breaks + 1)
    BY DEF Blur, Focus
  <2> QED
    BY <1>1, <2>1, <2>2, <2>3
<1>5. Typed'
  BY <1>1, <1>2, <1>3, <1>4 DEF Typed, StreamOK, PageOK, RowsOK, JobsOK, PagesOK
<1>6. JobsGo
  BY <1>2 DEF JobsGo
<1> QED
  BY <1>2, <1>5, <1>6, ServerKeeps

LEMMA ElsewhereKeeps ==
    ASSUME BoardInv, NEW j \in Jobs, NEW k \in Kinds, NEW t \in Tasks, Elsewhere(j, k, t)
    PROVE  BoardInv'
<1>1. Typed /\ UNCHANGED <<clock, row, log, conn>> /\ UNCHANGED pageVars /\ Request(j, k, t)
  BY DEF BoardInv, Elsewhere
<1>2. JobsOK' /\ JobsGo
  BY <1>1, RequestIs DEF Typed
<1>3. Typed'
  BY <1>1, <1>2 DEF Typed, StreamOK, PageOK, RowsOK, PagesOK, pageVars
<1> QED
  BY <1>1, <1>2, <1>3, ServerKeeps DEF pageVars

\* The page sends a request.
LEMMA AskIs ==
    ASSUME BoardInv, NEW j \in PageJobs, NEW act \in Acts, NEW k \in Kinds, NEW t \in Tasks, Ask(j, act, k, t)
    PROVE  /\ StreamOK' /\ PagesOK' /\ JobsGo /\ UNCHANGED <<clock, row, log, conn, loaded, active, breaks>>
           /\ page[j].st = "idle" /\ page'[j].st = "waiting" /\ page'[j].act = act
           /\ page'[j].undo = IF act = "move" THEN cards ELSE <<>>
           /\ \A i \in PageJobs \ {j} : page'[i] = page[i]
           /\ job[j].pc = "new" /\ job'[j].pc = "sent" /\ job'[j].task = t
           /\ \A i \in Jobs \ {j} : job'[i] = job[i]
<1>1. Typed /\ j \in Jobs /\ page[j].st = "idle" /\ Request(j, k, t)
      /\ UNCHANGED <<clock, row, log, conn, loaded, active, breaks>>
  BY BoardPageAssumption DEF BoardInv, Ask
<1>2. PICK r : r = [st |-> "waiting", act |-> act, undo |-> IF act = "move" THEN cards ELSE <<>>]
  OBVIOUS
<1>3. r \in PageT /\ r.st = "waiting" /\ r.act = act /\ r.undo = IF act = "move" THEN cards ELSE <<>>
  <2>1. cards \in Seq(Card) /\ <<>> \in Seq(Card)
    BY <1>1 DEF Typed, PageOK
  <2> QED
    BY <1>2, <2>1 DEF PageT
<1>4. page' = [page EXCEPT ![j] = r]
  BY <1>2 DEF Ask
<1>5. PagesOK' /\ page'[j] = r /\ \A i \in PageJobs \ {j} : page'[i] = page[i]
  BY <1>1, <1>3, <1>4, PageStep DEF Typed, PageOK
<1>6. /\ JobsOK' /\ JobsGo /\ job[j].pc = "new" /\ job'[j].pc = "sent" /\ job'[j].task = t
      /\ \A i \in Jobs \ {j} : job'[i] = job[i]
  BY <1>1, RequestIs DEF Typed
<1>7. StreamOK'
  BY <1>1, <1>6 DEF Typed, StreamOK, RowsOK
<1> QED
  BY <1>1, <1>3, <1>5, <1>6, <1>7

\* A create, a save and a delete leave the list until they are answered.
LEMMA AskWaits ==
    ASSUME BoardInv, NEW j \in PageJobs, NEW act \in Acts \ {"move"}, NEW k \in Kinds, NEW t \in Tasks,
           Ask(j, act, k, t), UNCHANGED cards
    PROVE  BoardInv'
<1>1. /\ StreamOK' /\ PagesOK' /\ JobsGo /\ UNCHANGED <<clock, row, log, conn, loaded, active, breaks>>
      /\ page[j].st = "idle" /\ page'[j].st = "waiting" /\ page'[j].act = act /\ page'[j].undo = <<>>
      /\ \A i \in PageJobs \ {j} : page'[i] = page[i]
      /\ job'[j].pc = "sent"
  BY AskIs
<1>2. Typed /\ PageJobs \subseteq Jobs /\ cards \in Seq(Card)
  BY BoardPageAssumption DEF BoardInv, Typed, PageOK
<1>3. Typed'
  BY <1>1, <1>2 DEF Typed, PageOK
<1>4. Forward(page, job, page', job')
  BY <1>1, <1>2 DEF Forward, JobsGo, BoardInv, Sent
<1>5. Fit(cards, page', job')
  BY <1>2, <1>4, FitStays DEF BoardInv, Lists
<1>6. \A i \in DOMAIN cards : cards[i].guess # None => cards[i].guess # j
  BY <1>1 DEF BoardInv, Lists, Fit, Guesses
<1>7. NoTrace(cards, page')
  BY <1>1, <1>2, <1>6, TraceStep
<1> QED
  BY <1>1, <1>3, <1>5, <1>7, AskKeeps DEF Fit

LEMMA MoveKeeps ==
    ASSUME BoardInv, NEW j \in PageJobs, NEW t \in Tasks, StartMove(j, t)
    PROVE  BoardInv'
<1>0. Ask(j, "move", "update", t) /\ cards' = Moved(j, t)
  BY DEF StartMove, Moved
<1>1. /\ StreamOK' /\ PagesOK' /\ JobsGo /\ UNCHANGED <<clock, row, log, conn, loaded, active, breaks>>
      /\ page[j].st = "idle" /\ page'[j].st = "waiting" /\ page'[j].act = "move" /\ page'[j].undo = cards
      /\ \A i \in PageJobs \ {j} : page'[i] = page[i]
      /\ job'[j].pc = "sent" /\ job'[j].task = t
  BY <1>0, AskIs DEF Acts, Kinds
<1>2. Typed /\ PageJobs \subseteq Jobs /\ cards \in Seq(Card)
  BY BoardPageAssumption DEF BoardInv, Typed, PageOK
<1>3. PICK l2 : l2 = cards'
  OBVIOUS
<1>4. /\ l2 \in Seq(Card) /\ DOMAIN l2 = DOMAIN cards
      /\ \A i \in DOMAIN cards : /\ l2[i].task = cards[i].task
                                 /\ l2[i].guess = IF cards[i].task = t THEN j ELSE cards[i].guess
  BY <1>0, <1>2, <1>3, MovedIs
<1>5. Typed'
  BY <1>1, <1>2, <1>3, <1>4 DEF Typed, PageOK
<1>6. Forward(page, job, page', job')
  BY <1>1, <1>2 DEF Forward, JobsGo, BoardInv, Sent
<1>7. Fit(cards, page', job')
  BY <1>2, <1>6, FitStays DEF BoardInv, Lists
<1>8. Explained(l2, page', job')
  BY <1>2, <1>4, <1>7, SameFit DEF Fit
<1>9. Guesses(l2, page', job')
  BY <1>1, <1>4, <1>7 DEF Fit, Guesses
<1>10. \A i \in DOMAIN cards : cards[i].guess # None => cards[i].guess # j
  BY <1>1 DEF BoardInv, Lists, Fit, Guesses
<1>11. NoTrace(l2, page')
  BY <1>1, <1>4, <1>10, TraceStep
<1> QED
  BY <1>1, <1>3, <1>5, <1>8, <1>9, <1>11, AskKeeps

\* A request of the page ends.
LEMMA EndIs ==
    ASSUME BoardInv, NEW j \in PageJobs, page[j].st = "waiting", NEW r \in PageT,
           r.st \in {"ok", "error"}, r.act = page[j].act, r.undo = <<>> \/ r.undo = page[j].undo,
           page' = [page EXCEPT ![j] = r], cards' \in Seq(Card),
           UNCHANGED <<clock, row, job, log, conn, loaded, active, breaks>>,
           Explained(cards', page', job'), Guesses(cards', page', job'), NoTrace(cards', page')
    PROVE  BoardInv'
<1>1. Typed /\ j \in Jobs /\ job[j].pc # "new"
  BY BoardPageAssumption DEF BoardInv, Sent
<1>2. PagesOK' /\ page'[j] = r /\ \A i \in PageJobs \ {j} : page'[i] = page[i]
  BY <1>1, PageStep DEF Typed, PageOK
<1>3. Typed'
  BY <1>1, <1>2 DEF Typed, PageOK, StreamOK, RowsOK, JobsOK
<1>4. JobsGo
  BY DEF JobsGo
<1> QED
  BY <1>1, <1>2, <1>3, <1>4, AskKeeps

\* The list after an answer: explained, and without the guess of the request.
LEMMA AnswerIs ==
    ASSUME BoardInv, NEW j \in PageJobs, Answer(j), NEW l2, l2 = cards'
    PROVE  /\ l2 \in Seq(Card) /\ Explained(l2, page', job) /\ From(l2, cards)
           /\ \A i \in DOMAIN l2 : l2[i].guess # None => l2[i].guess # j
           /\ page' = [page EXCEPT ![j] = [page[j] EXCEPT !.st = "ok", !.undo = <<>>]]
           /\ [page[j] EXCEPT !.st = "ok", !.undo = <<>>] \in PageT
<1>1. /\ Typed /\ j \in Jobs /\ page[j] \in PageT /\ cards \in Seq(Card) /\ job[j] \in JobT
      /\ job[j].task \in Tasks /\ page[j].st = "waiting" /\ PageJobs \subseteq Jobs
  BY BoardPageAssumption DEF BoardInv, Answer, Typed, PageOK, PagesOK, StreamOK, JobsOK
<1>2. PICK r : r = [page[j] EXCEPT !.st = "ok", !.undo = <<>>]
  OBVIOUS
<1>3. r \in PageT /\ r.st = "ok" /\ r.act = page[j].act /\ r.undo = <<>>
  <2>1. <<>> \in Seq(Card)
    OBVIOUS
  <2> QED
    BY <1>1, <1>2, <2>1 DEF PageT
<1>4. page' = [page EXCEPT ![j] = r]
  BY <1>2 DEF Answer
<1>5. page'[j] = r /\ \A i \in PageJobs \ {j} : page'[i] = page[i]
  BY <1>1, <1>3, <1>4, PageStep DEF Typed, PageOK
<1>6. Forward(page, job, page', job)
  BY <1>1, <1>3, <1>5 DEF Forward
<1>7. Fit(cards, page', job)
  BY <1>1, <1>6, FitStays DEF BoardInv, Lists
<1>8. PICK c : c = Copy(job[j], None)
  OBVIOUS
<1>9. c \in Card /\ c.task = job[j].task /\ c.guess = None
  BY <1>1, <1>8, CopyIs DEF JobT
<1>10. cards' = AfterAnswer(j)
  BY DEF Answer
<1>11. \A i \in DOMAIN cards : cards[i].guess # None /\ cards[i].guess = j =>
          page[j].act = "move" /\ cards[i].task = job[j].task
  BY DEF BoardInv, Lists, Fit, Guesses
<1>12. CASE page[j].act = "create"
  <2>1. l2 = <<c>> \o cards
    BY <1>8, <1>10, <1>12 DEF AfterAnswer
  <2>2. Created(c.task, page', job)
    BY <1>3, <1>5, <1>9, <1>12 DEF Created
  <2>3. l2 \in Seq(Card) /\ Explained(l2, page', job) /\ From(l2, cards)
    BY <1>1, <1>7, <1>9, <2>1, <2>2, FrontFit DEF Fit
  <2>4. \A i \in DOMAIN l2 : l2[i].guess # None => l2[i].guess # j
    BY <1>11, <1>12, <2>3 DEF From
  <2> QED
    BY <1>2, <1>3, <1>4, <2>3, <2>4
<1>13. CASE page[j].act = "delete"
  <2>1. l2 = Others(job[j].task)
    BY <1>10, <1>13 DEF AfterAnswer
  <2>2. l2 \in Seq(Card)
    BY <1>1, <2>1, OthersIs
  <2>a. PICK n \in Nat : \E f : /\ Picks(cards, f, n) /\ DOMAIN l2 = 1..n
                                /\ \A m \in 1..n : l2[m] = cards[f[m]]
    BY <1>1, <2>1, OthersIs
  <2>3. PICK f : /\ Picks(cards, f, n) /\ DOMAIN l2 = 1..n
                 /\ \A m \in 1..n : l2[m] = cards[f[m]]
    BY <2>a
  <2>4. Explained(l2, page', job) /\ From(l2, cards)
    BY <1>1, <1>7, <2>2, <2>3, PicksFit DEF Fit
  <2>5. \A i \in DOMAIN l2 : l2[i].guess # None => l2[i].guess # j
    BY <1>11, <1>13, <2>4 DEF From
  <2> QED
    BY <1>2, <1>3, <1>4, <2>2, <2>4, <2>5
<1>14. CASE page[j].act \notin {"create", "delete"}
  <2>1. l2 = Replaced(job[j])
    BY <1>10, <1>14 DEF AfterAnswer
  <2>2. /\ l2 \in Seq(Card) /\ DOMAIN l2 = DOMAIN cards
        /\ \A i \in DOMAIN cards : l2[i] = IF cards[i].task = job[j].task THEN c ELSE cards[i]
    BY <1>1, <1>8, <1>9, <2>1, ReplacedIs
  <2>3. \A i \in DOMAIN cards : l2[i].task = cards[i].task
    BY <1>9, <2>2
  <2>4. Explained(l2, page', job)
    BY <1>1, <1>7, <2>2, <2>3, SameFit DEF Fit
  <2>5. From(l2, cards)
    BY <1>9, <2>2 DEF From
  <2>6. \A i \in DOMAIN l2 : l2[i].guess # None => l2[i].guess # j
    BY <1>9, <1>11, <2>2
  <2> QED
    BY <1>2, <1>3, <1>4, <2>2, <2>4, <2>5, <2>6
<1> QED
  BY <1>12, <1>13, <1>14

LEMMA AnswerKeeps ==
    ASSUME BoardInv, NEW j \in PageJobs, Answer(j)
    PROVE  BoardInv'
<1>1. PICK l2 : l2 = cards'
  OBVIOUS
<1>2. PICK r : r = [page[j] EXCEPT !.st = "ok", !.undo = <<>>]
  OBVIOUS
<1>3. /\ l2 \in Seq(Card) /\ Explained(l2, page', job) /\ From(l2, cards)
      /\ \A i \in DOMAIN l2 : l2[i].guess # None => l2[i].guess # j
      /\ page' = [page EXCEPT ![j] = r] /\ r \in PageT
  BY <1>1, <1>2, AnswerIs
<1>4. /\ UNCHANGED <<clock, row, job, log, conn, loaded, active, breaks>> /\ page[j].st = "waiting"
      /\ Typed /\ page[j] \in PageT /\ PageJobs \subseteq Jobs /\ cards \in Seq(Card)
  BY BoardPageAssumption DEF BoardInv, Answer, Typed, PageOK, PagesOK
<1>5. r.st = "ok" /\ r.act = page[j].act /\ r.undo = <<>>
  BY <1>2, <1>4 DEF PageT
<1>6. page'[j] = r /\ \A i \in PageJobs \ {j} : page'[i] = page[i]
  BY <1>3, <1>4, PageStep DEF Typed, PageOK
<1>7. Forward(page, job, page', job)
  BY <1>4, <1>5, <1>6 DEF Forward
<1>8. Guesses(l2, page', job)
  BY <1>3, <1>4, <1>7, FitStays, FromFit DEF BoardInv, Lists, Fit
<1>9. NoTrace(l2, page')
  <2>1. \A i \in DOMAIN l2 : l2[i].guess # None =>
          l2[i].guess # j /\ \E k \in DOMAIN cards : cards[k].guess = l2[i].guess
    BY <1>3 DEF From
  <2> QED
    BY <1>3, <1>4, <1>6, <2>1, TraceStep
<1> QED
  BY <1>1, <1>3, <1>4, <1>5, <1>8, <1>9, EndIs

LEMMA ErrorKeeps ==
    ASSUME BoardInv, NEW j \in PageJobs, Error(j)
    PROVE  BoardInv'
<1>1. PICK l2 : l2 = cards'
  OBVIOUS
<1>2. PICK r : r = [page[j] EXCEPT !.st = "error"]
  OBVIOUS
<1>3. /\ UNCHANGED <<clock, row, job, log, conn, loaded, active, breaks>> /\ page[j].st = "waiting"
      /\ Typed /\ page[j] \in PageT /\ PageJobs \subseteq Jobs /\ cards \in Seq(Card)
      /\ page' = [page EXCEPT ![j] = r] /\ l2 = AfterError(j)
  BY <1>1, <1>2, BoardPageAssumption DEF BoardInv, Error, Typed, PageOK, PagesOK
<1>4. r \in PageT /\ r.st = "error" /\ r.act = page[j].act /\ r.undo = page[j].undo
  BY <1>2, <1>3 DEF PageT
<1>5. page'[j] = r /\ \A i \in PageJobs \ {j} : page'[i] = page[i]
  BY <1>3, <1>4, PageStep DEF Typed, PageOK
<1>6. Forward(page, job, page', job)
  BY <1>3, <1>4, <1>5 DEF Forward
<1>7. l2 \in Seq(Card) /\ Fit(l2, page', job)
  <2>1. page[j].undo \in Seq(Card)
    BY <1>3 DEF PageT
  <2>2. l2 = cards \/ l2 = page[j].undo
    BY <1>3 DEF AfterError
  <2>3. Fit(l2, page, job)
    BY <2>2 DEF BoardInv, Lists
  <2> QED
    BY <1>3, <1>6, <2>1, <2>2, <2>3, FitStays
<1>8. NoTrace(l2, page')
  <2>1. CASE page[j].act = "move"
    <3>1. l2 = page[j].undo
      BY <1>3, <2>1 DEF AfterError
    <3>2. ASSUME NEW i \in DOMAIN l2, l2[i].guess # None PROVE Haunted(l2[i].guess, page')
      <4>1. j # l2[i].guess
        BY <3>1, <3>2 DEF BoardInv, Undone
      <4>2. l2[i] \in ToSet(page'[j].undo)
        BY <1>4, <1>5, <3>1 DEF ToSet
      <4> QED
        BY <1>4, <1>5, <4>1, <4>2 DEF Haunted
    <3> QED
      BY <3>2 DEF NoTrace
  <2>2. CASE page[j].act # "move"
    <3>1. l2 = cards
      BY <1>3, <2>2 DEF AfterError
    <3>2. \A i \in DOMAIN cards : cards[i].guess # None => cards[i].guess # j
      BY <2>2 DEF BoardInv, Lists, Fit, Guesses
    <3> QED
      BY <1>3, <1>5, <3>1, <3>2, TraceStep
  <2> QED
    BY <2>1, <2>2
<1> QED
  BY <1>1, <1>3, <1>4, <1>7, <1>8, EndIs DEF Fit

LEMMA BoardStep == BoardInv /\ [Next]_vars => BoardInv'
<1> SUFFICES ASSUME BoardInv, [Next]_vars PROVE BoardInv'
  OBVIOUS
<1>0. Typed /\ active \in BOOLEAN /\ breaks \in 0..MaxBreaks /\ MaxBreaks \in Nat
  BY BoardPageAssumption DEF BoardInv, Typed, PageOK
<1>1. CASE Server
  BY <1>0, <1>1, StreamKeeps DEF Server, StreamStep, pageVars
<1>2. CASE LoadBoard
  BY <1>2, LoadKeeps
<1>3. CASE Connect
  <2>1. StreamStep /\ UNCHANGED pageVars
    BY <1>0, <1>3, SinceIs DEF Connect, StreamStep
  <2> QED
    BY <1>0, <2>1, StreamKeeps DEF pageVars
<1>4. CASE Break
  <2>1. StreamStep /\ UNCHANGED <<cards, loaded, active, page>>
    BY <1>4 DEF Break, StreamStep
  <2>2. breaks' \in 0..MaxBreaks
    BY <1>0, <1>4 DEF Break
  <2> QED
    BY <1>0, <2>1, <2>2, StreamKeeps
<1>5. CASE Blur \/ Focus
  BY <1>5, BlurKeeps
<1>6. CASE Deliver
  BY <1>6, DeliverKeeps
<1>7. ASSUME NEW j \in PageJobs, Answer(j) \/ Error(j) PROVE BoardInv'
  BY <1>7, AnswerKeeps, ErrorKeeps
<1>8. ASSUME NEW j \in PageJobs, NEW t \in Tasks, StartMove(j, t) PROVE BoardInv'
  BY <1>8, MoveKeeps
<1>9. ASSUME NEW j \in PageJobs, NEW t \in Tasks, StartCreate(j, t) \/ StartSave(j, t) \/ StartDelete(j, t)
      PROVE  BoardInv'
  <2>1. \E act \in Acts \ {"move"}, k \in Kinds : Ask(j, act, k, t) /\ UNCHANGED cards
    BY <1>9 DEF StartCreate, StartSave, StartDelete, Acts, Kinds
  <2> QED
    BY <2>1, AskWaits
<1>10. ASSUME NEW j \in Jobs, NEW k \in Kinds, NEW t \in Tasks, Elsewhere(j, k, t) PROVE BoardInv'
  BY <1>10, ElsewhereKeeps
<1>11. CASE LoadFails \/ UNCHANGED vars
  <2>1. UNCHANGED <<clock, row, job, log, conn, cards, loaded, active, page, breaks>>
    BY <1>11 DEF LoadFails, vars
  <2>2. Typed'
    BY <1>0, <2>1 DEF Typed, StreamOK, PageOK, RowsOK, JobsOK, PagesOK
  <2>3. JobsGo
    BY <2>1 DEF JobsGo
  <2> QED
    BY <2>1, <2>2, <2>3, ServerKeeps
<1> QED
  BY <1>1, <1>2, <1>3, <1>4, <1>5, <1>6, <1>7, <1>8, <1>9, <1>10, <1>11 DEF Next

\* The invariant of the page holds in every run.
THEOREM BoardInvariance == Spec => []BoardInv
<1>1. Init => BoardInv
  BY PageInit
<1>2. BoardInv /\ [Next]_vars => BoardInv'
  BY BoardStep
<1> QED
  BY <1>1, <1>2, PTL DEF Spec

\* Whatever the server and the page do, the variables keep their types.
THEOREM TypeCorrect == Spec => []TypeOK
<1>1. BoardInv /\ RefusedOK => TypeOK
  BY TypedIs DEF BoardInv
<1>2. Init => RefusedOK
  BY Zenon DEF Init, RefusedOK
<1>3. RefusedOK /\ [Next]_vars => RefusedOK'
  <2> SUFFICES ASSUME RefusedOK, [Next]_vars PROVE RefusedOK'
    OBVIOUS
  <2>1. UNCHANGED refused \/ refused' = TRUE
    BY DEF Next, Server, LoadBoard, LoadFails, Connect, Break, Blur, Focus, Deliver, Answer, Error, Ask,
                StartCreate, StartMove, StartSave, StartDelete, Elsewhere, pageVars, vars
  <2> QED
    BY <2>1, Zenon DEF RefusedOK
<1> QED
  BY <1>1, <1>2, <1>3, BoardInvariance, PTL DEF Spec

\* However loads, events and answers are mixed, a task gets a second card only from
\* handleCreateTask, which puts the answer in front of what the stream already brought.
THEOREM CardsAreSingle == Spec => []OneCard
<1>1. BoardInv => OneCard
  BY DEF BoardInv, Lists, Fit, Explained, Created, OneCard
<1> QED
  BY <1>1, BoardInvariance, PTL

\* A status that was only guessed leaves the list with the answer to its move, unless
\* handleTaskMove put back a list that another move had kept.
THEOREM GuessesEnd == Spec => []NoPhantom
<1>1. BoardInv => NoPhantom
  BY DEF BoardInv, NoTrace, Haunted, NoPhantom
<1> QED
  BY <1>1, BoardInvariance, PTL

-----------------------------------------------------------------------------
(* The invariant of the stream *)

Quiet == ~conn.up => conn.pipe = <<>>
Listening == conn.up => loaded

\* What is in the pipe is not newer than the row.
Behind == \A i \in DOMAIN conn.pipe : conn.pipe[i].ver <= row[conn.pipe[i].task].ver

\* A request has no event before it records one.
Unlogged ==
    \A j \in Jobs : job[j].pc \in {"new", "sent", "written"} =>
        j \notin conn.seen /\ \A e \in log : e.id # j

LEMMA WriteIs ==
    ASSUME StreamOK, NEW j \in Jobs, Write(j), NEW t, t = job[j].task
    PROVE  /\ job[j].pc = "sent" /\ t \in Tasks /\ UNCHANGED <<clock, log, conn>>
           /\ row'[t].ver = row[t].ver + 1 /\ row'[t].live
           /\ \A u \in Tasks \ {t} : row'[u] = row[u]
           /\ job'[j].pc = "written" /\ job'[j].task = t
           /\ \A i \in Jobs \ {j} : job'[i] = job[i]
<1>1. job[j] \in JobT /\ DOMAIN job = Jobs /\ job[j].pc = "sent" /\ t \in Tasks /\ DOMAIN row = Tasks
      /\ UNCHANGED <<clock, log, conn>>
  BY DEF Write, StreamOK, JobsOK, RowsOK
<1>2. PICK s : s = [ver |-> row[t].ver + 1, at |-> clock, live |-> TRUE]
  OBVIOUS
<1>3. s.ver = row[t].ver + 1 /\ s.live
  BY <1>2
<1>4. row' = [row EXCEPT ![t] = s]
  BY <1>2 DEF Write
<1>5. PICK r : r = [job[j] EXCEPT !.pc = "written", !.ver = s.ver, !.at = clock]
  OBVIOUS
<1>6. r.pc = "written" /\ r.task = t
  BY <1>1, <1>5 DEF JobT
<1>7. job' = [job EXCEPT ![j] = r]
  BY <1>1, <1>2, <1>5 DEF Write
<1> QED
  BY <1>1, <1>3, <1>4, <1>6, <1>7

LEMMA RecordIs ==
    ASSUME StreamOK, NEW j \in Jobs, Record(j), NEW t, t = job[j].task
    PROVE  /\ job[j].pc = "written" /\ t \in Tasks /\ row[t].live /\ UNCHANGED <<clock, row, conn>>
           /\ \E ts \in 0..MaxClock : log' = log \cup {[id |-> j, task |-> t, ts |-> ts]}
           /\ job'[j].pc = "recorded" /\ job'[j].task = t
           /\ \A i \in Jobs \ {j} : job'[i] = job[i]
<1>1. /\ job[j] \in JobT /\ DOMAIN job = Jobs /\ job[j].pc = "written" /\ t \in Tasks /\ row[t].live
      /\ UNCHANGED <<clock, row, conn>> /\ clock \in 0..MaxClock /\ MaxClock \in Nat
  BY TaskStreamAssumption DEF Record, StreamOK, JobsOK
<1>2. PICK ts \in job[j].at..clock : log' = log \cup {[id |-> j, task |-> t, ts |-> ts]}
  BY DEF Record
<1>3. ts \in 0..MaxClock
  BY <1>1, <1>2 DEF JobT
<1>4. PICK r : r = [job[j] EXCEPT !.pc = "recorded"]
  OBVIOUS
<1>5. r.pc = "recorded" /\ r.task = t
  BY <1>1, <1>4 DEF JobT
<1>6. job' = [job EXCEPT ![j] = r]
  BY <1>4 DEF Record
<1> QED
  BY <1>1, <1>2, <1>3, <1>5, <1>6

LEMMA EraseIs ==
    ASSUME StreamOK, NEW j \in Jobs, Erase(j), NEW t, t = job[j].task
    PROVE  /\ job[j].pc = "sent" /\ t \in Tasks /\ UNCHANGED <<clock, conn>>
           /\ ~row'[t].live /\ row'[t].ver = row[t].ver
           /\ \A u \in Tasks \ {t} : row'[u] = row[u]
           /\ log' = {e \in log : e.task # t}
           /\ job'[j].pc = "recorded" /\ job'[j].task = t
           /\ \A i \in Jobs \ {j} : job'[i] = job[i]
<1>1. /\ job[j] \in JobT /\ DOMAIN job = Jobs /\ job[j].pc = "sent" /\ t \in Tasks
      /\ DOMAIN row = Tasks /\ row[t] \in RowT
      /\ UNCHANGED <<clock, conn>> /\ log' = {e \in log : e.task # t}
  BY DEF Erase, StreamOK, JobsOK, RowsOK
<1>2. PICK s : s = [row[t] EXCEPT !.live = FALSE]
  OBVIOUS
<1>3. ~s.live /\ s.ver = row[t].ver
  BY <1>1, <1>2 DEF RowT
<1>4. row' = [row EXCEPT ![t] = s]
  BY <1>2 DEF Erase
<1>5. PICK r : r = [job[j] EXCEPT !.pc = "recorded"]
  OBVIOUS
<1>6. r.pc = "recorded" /\ r.task = t
  BY <1>1, <1>5 DEF JobT
<1>7. job' = [job EXCEPT ![j] = r]
  BY <1>5 DEF Erase
<1> QED
  BY <1>1, <1>3, <1>4, <1>6, <1>7

LEMMA FailIs ==
    ASSUME StreamOK, NEW j \in Jobs, Fail(j)
    PROVE  /\ job[j].pc \in {"sent", "written"} /\ UNCHANGED <<clock, row, log, conn>>
           /\ job'[j].pc = "failed" /\ job'[j].task = job[j].task
           /\ \A i \in Jobs \ {j} : job'[i] = job[i]
<1>1. job[j] \in JobT /\ DOMAIN job = Jobs
  BY DEF StreamOK, JobsOK
<1>2. PICK r : r = [job[j] EXCEPT !.pc = "failed"]
  OBVIOUS
<1>3. r.pc = "failed" /\ r.task = job[j].task
  BY <1>1, <1>2 DEF JobT
<1>4. job' = [job EXCEPT ![j] = r]
  BY <1>2 DEF Fail
<1> QED
  BY <1>1, <1>3, <1>4 DEF Fail

\* One sequence after another.
LEMMA JoinedIs ==
    ASSUME NEW S, NEW p \in Seq(S), NEW r \in Seq(S)
    PROVE  /\ Len(p) \in Nat /\ Len(r) \in Nat
           /\ DOMAIN p = 1..Len(p) /\ DOMAIN r = 1..Len(r) /\ DOMAIN (p \o r) = 1..(Len(p) + Len(r))
           /\ \A i \in 1..Len(p) : (p \o r)[i] = p[i]
           /\ \A n \in 1..Len(r) : (p \o r)[Len(p) + n] = r[n]
<1>1. Len(p) \in Nat /\ Len(r) \in Nat /\ DOMAIN p = 1..Len(p) /\ DOMAIN r = 1..Len(r)
  OBVIOUS
<1>2. /\ p \o r \in Seq(S) /\ Len(p \o r) = Len(p) + Len(r)
      /\ \A i \in 1..Len(p \o r) : (p \o r)[i] = IF i <= Len(p) THEN p[i] ELSE r[i - Len(p)]
  BY ConcatProperties
<1>3. DOMAIN (p \o r) = 1..Len(p \o r)
  BY <1>2
<1>4. ASSUME NEW n \in 1..Len(r) PROVE (p \o r)[Len(p) + n] = r[n]
  <2>1. Len(p) + n \in 1..Len(p \o r) /\ ~(Len(p) + n <= Len(p)) /\ (Len(p) + n) - Len(p) = n
    BY <1>1, <1>2
  <2> QED
    BY <1>2, <2>1
<1>5. \A i \in 1..Len(p) : (p \o r)[i] = p[i]
  BY <1>1, <1>2
<1> QED
  BY <1>1, <1>2, <1>3, <1>4, <1>5

\* A poll's news: the pipe grows by the tasks of the unseen events, as their rows are.
LEMMA PollIs ==
    ASSUME StreamOK, Poll
    PROVE  /\ conn.up /\ conn'.up /\ UNCHANGED <<clock, row, job, log>>
           /\ conn'.seen = conn.seen \cup {e.id : e \in Unseen}
           /\ \A i \in DOMAIN conn.pipe : i \in DOMAIN conn'.pipe /\ conn'.pipe[i] = conn.pipe[i]
           /\ \A i \in DOMAIN conn'.pipe :
                \/ i \in DOMAIN conn.pipe /\ conn'.pipe[i] = conn.pipe[i]
                \/ conn'.pipe[i].task \in Tasks /\ conn'.pipe[i].ver = row[conn'.pipe[i].task].ver
           /\ \A e \in Unseen : \E i \in DOMAIN conn'.pipe :
                conn'.pipe[i].task = e.task /\ conn'.pipe[i].ver = row[e.task].ver
<1>1. PICK s \in Orders(Unseen) : conn'.pipe = conn.pipe \o [n \in DOMAIN s |-> Told(s[n])]
  BY PollStep
<1>2. Unseen \in SUBSET Event /\ conn \in ConnT
  BY DEF Unseen, Fetched, StreamOK
<1>3. s \in Seq(Unseen) /\ DOMAIN s = 1..Len(s) /\ \A e \in Unseen : \E n \in DOMAIN s : s[n] = e
  BY <1>2, OrdersIs
<1>4. PICK k \in Nat : DOMAIN s = 1..k
  <2>1. Len(s) \in Nat
    BY <1>3
  <2> QED
    BY <1>3, <2>1
<1>5. PICK news : news = [n \in 1..k |-> Told(s[n])]
  OBVIOUS
<1>6. \A e \in Event : Told(e) \in Payload /\ Told(e).task = e.task /\ Told(e).ver = row[e.task].ver
  BY DEF Told, Payload, Event, StreamOK, RowsOK, RowT
<1>7. \A n \in 1..k : s[n] \in Event
  BY <1>2, <1>3, <1>4
<1>8. news \in Seq(Payload) /\ DOMAIN news = 1..k
  BY <1>5, <1>6, <1>7
<1>9. \A n \in 1..k : news[n].task = s[n].task /\ news[n].ver = row[s[n].task].ver /\ news[n].task \in Tasks
  BY <1>5, <1>6, <1>7 DEF Event
<1>10. PICK p, q : p = conn.pipe /\ q = conn'.pipe /\ q = p \o news
  BY <1>1, <1>4, <1>5
<1>11. PICK m \in Nat : p \in Seq(Payload) /\ DOMAIN p = 1..m /\ Len(p) = m
  BY <1>2, <1>10 DEF ConnT
<1>12. /\ DOMAIN q = 1..(m + k) /\ \A i \in 1..m : q[i] = p[i]
       /\ \A n \in 1..k : q[m + n] = news[n]
  <2>1. Len(news) = k
    BY <1>8
  <2>2. p \in Seq(Payload) /\ news \in Seq(Payload) /\ q = p \o news /\ Len(p) = m
    BY <1>8, <1>10, <1>11
  <2>3. DOMAIN (p \o news) = 1..(Len(p) + Len(news))
    <3>1. ASSUME NEW x \in Seq(Payload), NEW y \in Seq(Payload) PROVE DOMAIN (x \o y) = 1..(Len(x) + Len(y))
      BY <3>1, JoinedIs
    <3> QED
      BY <2>2, <3>1
  <2>4. \A i \in 1..Len(p) : (p \o news)[i] = p[i]
    BY <2>2, JoinedIs
  <2>5. \A n \in 1..Len(news) : (p \o news)[Len(p) + n] = news[n]
    BY <2>2, JoinedIs
  <2> QED
    BY <2>1, <2>2, <2>3, <2>4, <2>5
<1>13. ASSUME NEW i \in DOMAIN q
       PROVE  (i \in DOMAIN p /\ q[i] = p[i]) \/ (q[i].task \in Tasks /\ q[i].ver = row[q[i].task].ver)
  <2>1. CASE i <= m
    BY <1>11, <1>12, <2>1
  <2>2. CASE ~(i <= m)
    <3>1. i - m \in 1..k /\ i = m + (i - m)
      BY <1>12, <2>2
    <3>2. PICK n \in 1..k : i = m + n
      BY <3>1
    <3> QED
      BY <1>9, <1>12, <3>2
  <2> QED
    BY <2>1, <2>2
<1>14. ASSUME NEW e \in Unseen
       PROVE  \E i \in DOMAIN q : q[i].task = e.task /\ q[i].ver = row[e.task].ver
  <2>1. PICK n \in 1..k : s[n] = e
    BY <1>3, <1>4
  <2>2. m + n \in DOMAIN q
    BY <1>12
  <2> QED
    BY <1>9, <1>12, <2>1, <2>2
<1>15. \A i \in DOMAIN p : i \in DOMAIN q /\ q[i] = p[i]
  BY <1>11, <1>12
<1> QED
  BY <1>10, <1>13, <1>14, <1>15, PollStep

StreamInv == Quiet /\ Listening /\ Behind /\ Unlogged

\* The connection and the rows stay; a request only gets further.
LEMMA CalmKeeps ==
    ASSUME StreamInv, UNCHANGED <<conn, row, log>>, loaded => loaded',
           \A j \in Jobs : job'[j].pc \in {"new", "sent", "written"} => job[j].pc \in {"new", "sent", "written"}
    PROVE  StreamInv'
<1>1. Quiet' /\ Behind'
  BY DEF StreamInv, Quiet, Behind
<1>2. Listening'
  BY Zenon DEF StreamInv, Listening
<1>3. Unlogged'
  BY DEF StreamInv, Unlogged
<1> QED
  BY <1>1, <1>2, <1>3 DEF StreamInv

LEMMA HandleLinks ==
    ASSUME StreamInv, StreamOK, NEW j \in Jobs, Handle(j), UNCHANGED loaded
    PROVE  StreamInv'
<1>1. PICK t : t = job[j].task
  OBVIOUS
<1>2. CASE Write(j)
  <2>1. /\ job[j].pc = "sent" /\ t \in Tasks /\ UNCHANGED <<clock, log, conn>>
        /\ row'[t].ver = row[t].ver + 1 /\ \A u \in Tasks \ {t} : row'[u] = row[u]
        /\ job'[j].pc = "written" /\ \A i \in Jobs \ {j} : job'[i] = job[i]
    BY <1>1, <1>2, WriteIs
  <2>2. Quiet' /\ Listening'
    BY <2>1 DEF StreamInv, Quiet, Listening
  <2>3. Behind'
    <3>1. ASSUME NEW i \in DOMAIN conn.pipe PROVE conn.pipe[i].ver <= row'[conn.pipe[i].task].ver
      <4>1. conn.pipe[i] \in Payload /\ conn.pipe[i].ver <= row[conn.pipe[i].task].ver
        BY DEF StreamOK, ConnT, StreamInv, Behind
      <4>2. conn.pipe[i].task \in Tasks /\ conn.pipe[i].ver \in Nat
        BY <4>1 DEF Payload
      <4>3. row[conn.pipe[i].task].ver \in Nat
        BY <4>2 DEF StreamOK, RowsOK, RowT
      <4> QED
        BY <2>1, <4>1, <4>2, <4>3
    <3> QED
      BY <2>1, <3>1 DEF Behind
  <2>4. Unlogged'
    BY <2>1 DEF StreamInv, Unlogged
  <2> QED
    BY <2>2, <2>3, <2>4 DEF StreamInv
<1>3. CASE Record(j)
  <2>1. /\ UNCHANGED <<clock, row, conn>> /\ job'[j].pc = "recorded" /\ \A i \in Jobs \ {j} : job'[i] = job[i]
        /\ \E ts \in 0..MaxClock : log' = log \cup {[id |-> j, task |-> t, ts |-> ts]}
    BY <1>1, <1>3, RecordIs
  <2>2. Quiet' /\ Listening' /\ Behind'
    BY <2>1 DEF StreamInv, Quiet, Listening, Behind
  <2>3. Unlogged'
    BY <2>1 DEF StreamInv, Unlogged
  <2> QED
    BY <2>2, <2>3 DEF StreamInv
<1>4. CASE Erase(j)
  <2>1. /\ UNCHANGED <<clock, conn>> /\ job'[j].pc = "recorded" /\ \A i \in Jobs \ {j} : job'[i] = job[i]
        /\ row'[t].ver = row[t].ver /\ \A u \in Tasks \ {t} : row'[u] = row[u]
        /\ log' = {e \in log : e.task # t}
    BY <1>1, <1>4, EraseIs
  <2>2. Quiet' /\ Listening'
    BY <2>1 DEF StreamInv, Quiet, Listening
  <2>3. Behind'
    <3>1. ASSUME NEW i \in DOMAIN conn.pipe PROVE conn.pipe[i].ver <= row'[conn.pipe[i].task].ver
      <4>1. conn.pipe[i] \in Payload /\ conn.pipe[i].ver <= row[conn.pipe[i].task].ver
        BY DEF StreamOK, ConnT, StreamInv, Behind
      <4>2. conn.pipe[i].task \in Tasks
        BY <4>1 DEF Payload
      <4>3. row'[conn.pipe[i].task].ver = row[conn.pipe[i].task].ver
        BY <2>1, <4>2
      <4> QED
        BY <4>1, <4>3
    <3> QED
      BY <2>1, <3>1 DEF Behind
  <2>4. Unlogged'
    BY <2>1 DEF StreamInv, Unlogged
  <2> QED
    BY <2>2, <2>3, <2>4 DEF StreamInv
<1>5. CASE Fail(j)
  <2>1. /\ UNCHANGED <<clock, row, log, conn>> /\ job'[j].pc = "failed"
        /\ \A i \in Jobs \ {j} : job'[i] = job[i]
    BY <1>5, FailIs
  <2>2. \A i \in Jobs : job'[i].pc \in {"new", "sent", "written"} => job[i].pc \in {"new", "sent", "written"}
    BY <2>1
  <2> QED
    BY <2>1, <2>2, CalmKeeps
<1>6. CASE Join(j) \/ Unassign(j)
  <2>1. /\ UNCHANGED <<clock, conn>> /\ job'[j].pc = "recorded" /\ \A i \in Jobs \ {j} : job'[i] = job[i]
        /\ t \in Tasks /\ row'[t].ver = row[t].ver + 1 /\ \A u \in Tasks \ {t} : row'[u] = row[u]
        /\ \A e \in log' : e \in log \/ e.id = j
    BY <1>1, <1>6, JoinStep, UnassignStep
  <2>2. Quiet' /\ Listening'
    BY <2>1 DEF StreamInv, Quiet, Listening
  <2>3. Behind'
    <3>1. ASSUME NEW i \in DOMAIN conn.pipe PROVE conn.pipe[i].ver <= row'[conn.pipe[i].task].ver
      <4>1. conn.pipe[i] \in Payload /\ conn.pipe[i].ver <= row[conn.pipe[i].task].ver
        BY DEF StreamOK, ConnT, StreamInv, Behind
      <4>2. conn.pipe[i].task \in Tasks /\ conn.pipe[i].ver \in Nat
        BY <4>1 DEF Payload
      <4>3. row[conn.pipe[i].task].ver \in Nat
        BY <4>2 DEF StreamOK, RowsOK, RowT
      <4> QED
        BY <2>1, <4>1, <4>2, <4>3
    <3> QED
      BY <2>1, <3>1 DEF Behind
  <2>4. Unlogged'
    BY <2>1 DEF StreamInv, Unlogged
  <2> QED
    BY <2>2, <2>3, <2>4 DEF StreamInv
<1> QED
  BY <1>2, <1>3, <1>4, <1>5, <1>6 DEF Handle

LEMMA PollLinks ==
    ASSUME StreamInv, StreamOK, Poll, UNCHANGED loaded
    PROVE  StreamInv'
<1>1. /\ conn.up /\ conn'.up /\ UNCHANGED <<clock, row, job, log>>
      /\ conn'.seen = conn.seen \cup {e.id : e \in Unseen}
      /\ \A i \in DOMAIN conn'.pipe :
            \/ i \in DOMAIN conn.pipe /\ conn'.pipe[i] = conn.pipe[i]
            \/ conn'.pipe[i].task \in Tasks /\ conn'.pipe[i].ver = row[conn'.pipe[i].task].ver
  BY PollIs
<1>2. Quiet' /\ Listening'
  BY <1>1 DEF StreamInv, Quiet, Listening
<1>3. Behind'
  <2>1. \A u \in Tasks : row[u].ver <= row[u].ver
    BY DEF StreamOK, RowsOK, RowT
  <2> QED
    BY <1>1, <2>1 DEF StreamInv, Behind
<1>4. Unlogged'
  <2>1. \A e \in Unseen : e \in log
    BY DEF Unseen, Fetched
  <2> QED
    BY <1>1, <2>1 DEF StreamInv, Unlogged
<1> QED
  BY <1>2, <1>3, <1>4 DEF StreamInv

\* A connection that is empty, or one that has sent nothing.
LEMMA FreshLinks ==
    ASSUME StreamInv, UNCHANGED <<row, job, log>>, conn'.pipe = <<>>, conn'.seen = {}, conn'.up => loaded'
    PROVE  StreamInv'
<1>1. Quiet' /\ Listening'
  BY DEF StreamInv, Quiet, Listening
<1>2. Behind'
  BY DEF Behind
<1>3. Unlogged'
  BY DEF StreamInv, Unlogged
<1> QED
  BY <1>1, <1>2, <1>3 DEF StreamInv

LEMMA OpenIs ==
    ASSUME NEW since, Open(since)
    PROVE  /\ ~conn.up /\ conn'.up /\ conn'.last = since /\ conn'.pipe = <<>> /\ conn'.seen = {}
           /\ UNCHANGED <<clock, row, job, log>>
BY DEF Open, Closed

\* What a delivery leaves in the pipe.
LEMMA DeliverIs ==
    ASSUME Typed, Deliver
    PROVE  /\ conn.up /\ conn'.up /\ conn'.last = conn.last /\ conn'.seen = conn.seen
           /\ conn.pipe # <<>> /\ conn'.pipe = Tail(conn.pipe) /\ Head(conn.pipe) = conn.pipe[1]
           /\ Head(conn.pipe) \in Payload /\ 1 \in DOMAIN conn.pipe
           /\ \A i \in DOMAIN conn'.pipe : i + 1 \in DOMAIN conn.pipe /\ conn'.pipe[i] = conn.pipe[i + 1]
           /\ \A i \in DOMAIN conn.pipe : i # 1 => i - 1 \in DOMAIN conn'.pipe /\ conn'.pipe[i - 1] = conn.pipe[i]
           /\ cards' = Merged(Head(conn.pipe)) /\ UNCHANGED <<clock, row, job, log, loaded, active, page, breaks>>
<1>1. /\ conn \in ConnT /\ conn.up /\ conn.pipe # <<>> /\ conn' = [conn EXCEPT !.pipe = Tail(conn.pipe)]
      /\ cards' = Merged(Head(conn.pipe)) /\ UNCHANGED <<clock, row, job, log, loaded, active, page, breaks>>
  BY DEF Deliver, Typed, StreamOK
<1>2. conn'.up /\ conn'.last = conn.last /\ conn'.seen = conn.seen /\ conn'.pipe = Tail(conn.pipe)
  BY <1>1 DEF ConnT
<1>3. PICK p : p = conn.pipe /\ p \in Seq(Payload) /\ p # <<>>
  BY <1>1 DEF ConnT
<1>4. PICK n \in Nat : n = Len(p) /\ DOMAIN p = 1..n /\ n # 0
  BY <1>3
<1>5. PICK q : q = Tail(p)
  OBVIOUS
<1>6. q \in Seq(Payload) /\ Len(q) = n - 1 /\ \A i \in 1..(n - 1) : q[i] = p[i + 1]
  BY <1>3, <1>4, <1>5
<1>7. DOMAIN q = 1..(n - 1)
  BY <1>4, <1>6
<1>8. Head(p) = p[1] /\ 1 \in DOMAIN p /\ p[1] \in Payload
  BY <1>3, <1>4
<1>9. \A i \in DOMAIN q : i + 1 \in DOMAIN p /\ q[i] = p[i + 1]
  BY <1>4, <1>6, <1>7
<1>10. ASSUME NEW i \in DOMAIN p, i # 1 PROVE i - 1 \in DOMAIN q /\ q[i - 1] = p[i]
  <2>1. i - 1 \in 1..(n - 1) /\ (i - 1) + 1 = i
    BY <1>4, <1>10
  <2> QED
    BY <1>6, <1>7, <2>1
<1> QED
  BY <1>1, <1>2, <1>3, <1>5, <1>8, <1>9, <1>10

LEMMA StreamInvInit == Init => StreamInv
<1> SUFFICES ASSUME Init PROVE StreamInv
  OBVIOUS
<1>1. /\ conn = Closed /\ log = {[id |-> t, task |-> t, ts |-> 0] : t \in Old}
  BY DEF Init, StreamInit
<1>2. ~conn.up /\ conn.pipe = <<>> /\ conn.seen = {}
  BY <1>1 DEF Closed
<1>3. Quiet /\ Listening /\ Behind
  BY <1>2 DEF Quiet, Listening, Behind
<1>4. Unlogged
  BY <1>1, <1>2, TaskStreamAssumption DEF Unlogged
<1> QED
  BY <1>3, <1>4 DEF StreamInv

LEMMA StreamInvStep == BoardInv /\ StreamInv /\ [Next]_vars => StreamInv'
<1> SUFFICES ASSUME BoardInv, StreamInv, [Next]_vars PROVE StreamInv'
  OBVIOUS
<1>0. Typed /\ StreamOK /\ PageJobs \subseteq Jobs
  BY BoardPageAssumption DEF BoardInv, Typed
<1>1. CASE Server
  <2>1. UNCHANGED loaded
    BY <1>1 DEF Server, pageVars
  <2>2. CASE Tick
    BY <2>1, <2>2, CalmKeeps DEF Tick
  <2>3. CASE Poll
    BY <1>0, <2>1, <2>3, PollLinks
  <2>4. ASSUME NEW j \in Jobs, Handle(j) PROVE StreamInv'
    BY <1>0, <2>1, <2>4, HandleLinks
  <2> QED
    BY <1>1, <2>2, <2>3, <2>4 DEF Server
<1>2. CASE LoadBoard
  <2>1. UNCHANGED <<conn, row, log, job>> /\ loaded'
    BY <1>2 DEF LoadBoard
  <2> QED
    BY <2>1, CalmKeeps
<1>3. CASE Connect
  <2>1. Open(Since) /\ loaded'
    BY <1>3 DEF Connect, pageVars
  <2> QED
    BY <2>1, OpenIs, FreshLinks
<1>4. CASE Break \/ Blur
  <2>1. conn' = Closed /\ UNCHANGED <<row, job, log>>
    BY <1>4 DEF Break, Blur, Close
  <2>2. conn'.pipe = <<>> /\ conn'.seen = {} /\ ~conn'.up
    BY <2>1 DEF Closed
  <2> QED
    BY <2>1, <2>2, FreshLinks
<1>5. CASE Focus
  <2>1. UNCHANGED <<conn, row, log, job, loaded>>
    BY <1>5 DEF Focus
  <2> QED
    BY <2>1, CalmKeeps
<1>6. CASE Deliver
  <2>1. /\ conn.up /\ conn'.up /\ conn'.seen = conn.seen /\ UNCHANGED <<row, job, log, loaded>>
        /\ \A i \in DOMAIN conn'.pipe : i + 1 \in DOMAIN conn.pipe /\ conn'.pipe[i] = conn.pipe[i + 1]
    BY <1>0, <1>6, DeliverIs
  <2>2. Quiet' /\ Listening'
    BY <2>1 DEF StreamInv, Quiet, Listening
  <2>3. Behind'
    BY <2>1 DEF StreamInv, Behind
  <2>4. Unlogged'
    BY <2>1 DEF StreamInv, Unlogged
  <2> QED
    BY <2>2, <2>3, <2>4 DEF StreamInv
<1>7. ASSUME NEW j \in PageJobs, Answer(j) \/ Error(j) PROVE StreamInv'
  <2>1. UNCHANGED <<conn, row, log, job, loaded>>
    BY <1>7 DEF Answer, Error
  <2> QED
    BY <2>1, CalmKeeps
<1>8. ASSUME NEW j \in Jobs, NEW k \in Kinds, NEW t \in Tasks, Request(j, k, t),
             UNCHANGED <<row, log, conn, loaded>>
      PROVE  StreamInv'
  <2>1. job[j].pc = "new" /\ \A i \in Jobs \ {j} : job'[i] = job[i]
    BY <1>0, <1>8, RequestIs
  <2>2. \A i \in Jobs : job'[i].pc \in {"new", "sent", "written"} => job[i].pc \in {"new", "sent", "written"}
    BY <2>1
  <2> QED
    BY <1>8, <2>2, CalmKeeps
<1>9. ASSUME NEW j \in PageJobs, NEW t \in Tasks,
             StartCreate(j, t) \/ StartMove(j, t) \/ StartSave(j, t) \/ StartDelete(j, t)
      PROVE  StreamInv'
  <2>1. \E k \in Kinds : Request(j, k, t) /\ UNCHANGED <<row, log, conn, loaded>>
    BY <1>9 DEF StartCreate, StartMove, StartSave, StartDelete, Ask, Kinds
  <2> QED
    BY <1>0, <1>8, <2>1
<1>10. ASSUME NEW j \in Jobs, NEW k \in Kinds, NEW t \in Tasks, Elsewhere(j, k, t) PROVE StreamInv'
  BY <1>8, <1>10 DEF Elsewhere, pageVars
<1>11. CASE LoadFails \/ UNCHANGED vars
  <2>1. UNCHANGED <<conn, row, log, job, loaded>>
    BY <1>11 DEF LoadFails, vars
  <2> QED
    BY <2>1, CalmKeeps
<1> QED
  BY <1>1, <1>2, <1>3, <1>4, <1>5, <1>6, <1>7, <1>9, <1>10, <1>11 DEF Next

LEMMA LossInvariance == Spec => [](BoardInv /\ StreamInv)
<1>1. Init => BoardInv /\ StreamInv
  BY PageInit, StreamInvInit
<1>2. (BoardInv /\ StreamInv) /\ [Next]_vars => (BoardInv /\ StreamInv)'
  BY BoardStep, StreamInvStep
<1> QED
  BY <1>1, <1>2, PTL DEF Spec

-----------------------------------------------------------------------------
(* How the page loses sight of a task *)

\* The card that shows a task: the first one it has.
Lead(l, t, i) == l[i].task = t /\ \A k \in DOMAIN l : l[k].task = t => i <= k

\* It shows a version and no guess.
Shows(l, t, v) == \E i \in DOMAIN l : Lead(l, t, i) /\ l[i].ver = v /\ l[i].guess = None

LEMMA LeadIs ==
    ASSUME NEW l \in Seq(Card), NEW t, NEW i \in DOMAIN l, Lead(l, t, i)
    PROVE  i = FirstOf(l, t)
<1>1. PICK n : n = FirstOf(l, t)
  OBVIOUS
<1>2. l[i].task = t /\ \A k \in DOMAIN l : l[k].task = t => i <= k
  BY DEF Lead
<1>3. n \in DOMAIN l /\ l[n].task = t /\ \A k \in DOMAIN l : l[k].task = t => n <= k
  BY <1>1, <1>2, FirstOfIs
<1>4. i <= n /\ n <= i /\ i \in Nat /\ n \in Nat
  BY <1>2, <1>3
<1> QED
  BY <1>1, <1>4

LEMMA ShowsIs ==
    ASSUME NEW l \in Seq(Card), NEW t, NEW v
    PROVE  Shows(l, t, v) <=> /\ \E i \in DOMAIN l : l[i].task = t
                              /\ l[FirstOf(l, t)].ver = v /\ l[FirstOf(l, t)].guess = None
<1>1. ASSUME Shows(l, t, v)
      PROVE  (\E i \in DOMAIN l : l[i].task = t) /\ l[FirstOf(l, t)].ver = v /\ l[FirstOf(l, t)].guess = None
  <2>1. PICK i \in DOMAIN l : Lead(l, t, i) /\ l[i].ver = v /\ l[i].guess = None
    BY <1>1 DEF Shows
  <2>2. i = FirstOf(l, t)
    BY <2>1, LeadIs
  <2> QED
    BY <2>1, <2>2 DEF Lead
<1>2. ASSUME \E i \in DOMAIN l : l[i].task = t, l[FirstOf(l, t)].ver = v, l[FirstOf(l, t)].guess = None
      PROVE  Shows(l, t, v)
  <2>1. PICK n : n = FirstOf(l, t)
    OBVIOUS
  <2>2. n \in DOMAIN l /\ Lead(l, t, n)
    BY <1>2, <2>1, FirstOfIs DEF Lead
  <2> QED
    BY <1>2, <2>1, <2>2 DEF Shows
<1> QED
  BY <1>1, <1>2

LEMMA StaleIs ==
    ASSUME cards \in Seq(Card), NEW t
    PROVE  Stale(t) <=> loaded /\ row[t].live /\ ~Shows(cards, t, row[t].ver)
<1>1. Shows(cards, t, row[t].ver) <=>
         /\ \E i \in DOMAIN cards : cards[i].task = t
         /\ cards[FirstOf(cards, t)].ver = row[t].ver /\ cards[FirstOf(cards, t)].guess = None
  BY ShowsIs
<1>2. t \in Shown <=> \E i \in DOMAIN cards : cards[i].task = t
  BY DEF Shown
<1> QED
  BY <1>1, <1>2 DEF Stale, First, FirstOf

LEMMA StaleNext ==
    ASSUME cards' \in Seq(Card), NEW t
    PROVE  Stale(t)' <=> loaded' /\ row'[t].live /\ ~Shows(cards', t, row'[t].ver)
<1>0. PICK l, v : l = cards' /\ v = row'[t].ver
  OBVIOUS
<1>1. Shows(l, t, v) <=>
         /\ \E i \in DOMAIN l : l[i].task = t
         /\ l[FirstOf(l, t)].ver = v /\ l[FirstOf(l, t)].guess = None
  BY <1>0, ShowsIs
<1>2. t \in Shown' <=> \E i \in DOMAIN l : l[i].task = t
  BY <1>0 DEF Shown
<1> QED
  BY <1>0, <1>1, <1>2 DEF Stale, First, FirstOf

\* What is under way.
Written(t) == \E j \in Jobs : job[j].task = t /\ job[j].pc = "written"
Unread(t) ==
    \E e \in log : e.task = t /\ IF conn.up THEN e.ts >= conn.last /\ row[t].live /\ e.id \notin conn.seen
                                            ELSE e.ts >= Since
Piped(t) == \E i \in DOMAIN conn.pipe : conn.pipe[i].task = t /\ conn.pipe[i].ver = row[t].ver
Asked(t) == \E j \in PageJobs : page[j].st = "waiting" /\ job[j].task = t

LEMMA WaysIs ==
    ASSUME NEW t
    PROVE  OnItsWay(t) <=> Written(t) \/ Unread(t) \/ Piped(t) \/ Asked(t)
<1>1. Unread(t) <=> \E e \in IF conn.up THEN Unseen ELSE {e \in log : e.ts >= Since} : e.task = t
  BY DEF Unread, Unseen, Fetched
<1> QED
  BY <1>1 DEF OnItsWay, Written, Piped, Asked

LEMMA WaysNext ==
    ASSUME NEW t
    PROVE  OnItsWay(t)' <=> Written(t)' \/ Unread(t)' \/ Piped(t)' \/ Asked(t)'
<1>1. Unread(t)' <=> \E e \in IF conn'.up THEN Unseen' ELSE {e \in log' : e.ts >= Since'} : e.task = t
  BY DEF Unread, Unseen, Fetched
<1> QED
  BY <1>1 DEF OnItsWay, Written, Piped, Asked

\* A task that was not lost is lost only if a step makes it stale or stops what was
\* under way.
LEMMA Carried ==
    ASSUME NEW t, Gone(t)', ~Gone(t), Stale(t)' => Stale(t),
           Written(t) => OnItsWay(t)', Unread(t) => OnItsWay(t)',
           Piped(t) => OnItsWay(t)', Asked(t) => OnItsWay(t)'
    PROVE  FALSE
BY WaysIs DEF Gone

LEMMA SinceSame ==
    ASSUME UNCHANGED cards, clock' = clock \/ cards # <<>>
    PROVE  Since' = Since
BY DEF Since, Newest

LEMMA RowSame ==
    ASSUME UNCHANGED <<cards, loaded>>, NEW t, row'[t] = row[t]
    PROVE  Stale(t)' => Stale(t)
BY DEF Stale, Shown, First

LEMMA TickLoss ==
    ASSUME NEW t \in Tasks, Gone(t)', ~Gone(t), Tick, UNCHANGED pageVars
    PROVE  Losing(t)
<1> SUFFICES ASSUME cards # <<>> PROVE FALSE
  BY DEF Losing
<1>1. UNCHANGED <<row, job, log, conn, cards, loaded, page>>
  BY DEF Tick, pageVars
<1>2. Since' = Since
  BY <1>1, SinceSame
<1>3. Stale(t)' => Stale(t)
  BY <1>1, RowSame
<1>4. Unread(t) => Unread(t)'
  BY <1>1, <1>2 DEF Unread
<1>5. /\ Written(t) => Written(t)'
      /\ Piped(t) => Piped(t)'
      /\ Asked(t) => Asked(t)'
  BY <1>1 DEF Written, Piped, Asked
<1> QED
  BY <1>3, <1>4, <1>5, WaysNext, Carried

LEMMA PollLoss ==
    ASSUME Typed, NEW t \in Tasks, Gone(t)', ~Gone(t), Poll, UNCHANGED pageVars
    PROVE  Losing(t)
<1>1. UNCHANGED <<cards, loaded, page>>
  BY DEF pageVars
<1>2. /\ conn.up /\ conn'.up /\ UNCHANGED <<clock, row, job, log>>
      /\ \A i \in DOMAIN conn.pipe : i \in DOMAIN conn'.pipe /\ conn'.pipe[i] = conn.pipe[i]
      /\ \A e \in Unseen : \E i \in DOMAIN conn'.pipe :
            conn'.pipe[i].task = e.task /\ conn'.pipe[i].ver = row[e.task].ver
  BY PollIs DEF Typed
<1>3. Stale(t)' => Stale(t)
  BY <1>1, <1>2, RowSame
<1>4. Unread(t) => Piped(t)'
  <2>1. Unread(t) => \E e \in Unseen : e.task = t
    BY <1>2 DEF Unread, Unseen, Fetched
  <2> QED
    BY <1>2, <2>1 DEF Piped
<1>5. /\ Written(t) => Written(t)'
      /\ Piped(t) => Piped(t)'
      /\ Asked(t) => Asked(t)'
  BY <1>1, <1>2 DEF Written, Piped, Asked
<1> QED
  BY <1>3, <1>4, <1>5, WaysNext, Carried

\* The row is written: its event is still to come.
LEMMA WriteLoss ==
    ASSUME Typed, NEW t \in Tasks, Gone(t)', ~Gone(t), NEW j \in Jobs, Write(j), UNCHANGED pageVars
    PROVE  FALSE
<1>1. UNCHANGED <<cards, loaded, page>> /\ PageJobs \subseteq Jobs
  BY BoardPageAssumption DEF pageVars
<1>2. PICK u : u = job[j].task
  OBVIOUS
<1>3. /\ job[j].pc = "sent" /\ UNCHANGED <<clock, log, conn>>
      /\ \A s \in Tasks \ {u} : row'[s] = row[s]
      /\ job'[j].pc = "written" /\ job'[j].task = u
      /\ \A i \in Jobs \ {j} : job'[i] = job[i]
  BY <1>2, WriteIs DEF Typed
<1>4. CASE t = u
  <2>1. Written(t)'
    BY <1>3, <1>4 DEF Written
  <2> QED
    BY <2>1, WaysNext DEF Gone
<1>5. CASE t # u
  <2>1. row'[t] = row[t] /\ Since' = Since
    BY <1>1, <1>3, <1>5, SinceSame
  <2>2. Stale(t)' => Stale(t)
    BY <1>1, <2>1, RowSame
  <2>3. Written(t) => Written(t)'
    BY <1>3 DEF Written
  <2>4. Unread(t) => Unread(t)'
    BY <1>3, <2>1 DEF Unread
  <2>5. Piped(t) => Piped(t)'
    BY <1>3, <2>1 DEF Piped
  <2>6. Asked(t) => Asked(t)'
    BY <1>1, <1>2, <1>3 DEF Asked
  <2> QED
    BY <2>2, <2>3, <2>4, <2>5, <2>6, WaysNext, Carried
<1> QED
  BY <1>4, <1>5

\* The event is recorded: the stream will find it, if it does not come too late.
LEMMA RecordLoss ==
    ASSUME Typed, StreamInv, NEW t \in Tasks, Gone(t)', ~Gone(t), NEW j \in Jobs, Record(j), UNCHANGED pageVars
    PROVE  Losing(t)
<1> SUFFICES ASSUME ~Late PROVE FALSE
  BY DEF Losing
<1>1. UNCHANGED <<cards, loaded, page>> /\ PageJobs \subseteq Jobs
  BY BoardPageAssumption DEF pageVars
<1>2. PICK u : u = job[j].task
  OBVIOUS
<1>3. /\ job[j].pc = "written" /\ row[u].live /\ UNCHANGED <<clock, row, conn>>
      /\ job'[j].pc = "recorded" /\ job'[j].task = u
      /\ \A i \in Jobs \ {j} : job'[i] = job[i]
      /\ \E ts \in 0..MaxClock : log' = log \cup {[id |-> j, task |-> u, ts |-> ts]}
  BY <1>2, RecordIs DEF Typed
<1>4. Since' = Since
  BY <1>1, <1>3, SinceSame
<1>5. Stale(t)' => Stale(t)
  BY <1>1, <1>3, RowSame
<1>6. PICK ts \in 0..MaxClock : log' = log \cup {[id |-> j, task |-> u, ts |-> ts]}
  BY <1>3
<1>7. PICK e : e = [id |-> j, task |-> u, ts |-> ts]
  OBVIOUS
<1>8. e.id = j /\ e.task = u /\ e.ts = ts /\ e \in log' /\ e \notin log /\ j \notin conn.seen
  BY <1>3, <1>6, <1>7 DEF StreamInv, Unlogged
<1>9. IF conn.up THEN e.ts >= conn.last ELSE e.ts >= Since
  <2>1. e.ts \in 0..MaxClock /\ conn.last \in 0..MaxClock /\ Since \in 0..MaxClock /\ MaxClock \in Nat
    BY <1>6, <1>8, SinceIs, TaskStreamAssumption DEF Typed, StreamOK, ConnT
  <2>2. ~(e.ts < IF conn.up THEN conn.last ELSE Since)
    BY <1>8 DEF Late
  <2> QED
    BY <2>1, <2>2
<1>10. t = u => Unread(t)'
  BY <1>3, <1>4, <1>8, <1>9 DEF Unread
<1>11. Written(t) => Written(t)' \/ Unread(t)'
  BY <1>2, <1>3, <1>10 DEF Written
<1>12. Unread(t) => Unread(t)'
  BY <1>3, <1>4, <1>6 DEF Unread
<1>13. Piped(t) => Piped(t)'
  BY <1>3 DEF Piped
<1>14. Asked(t) => Asked(t)'
  BY <1>1, <1>2, <1>3 DEF Asked
<1> QED
  BY <1>5, <1>11, <1>12, <1>13, <1>14, WaysNext, Carried

\* Row and event come together: the stream will find the event, if it is not too late.
LEMMA JoinLoss ==
    ASSUME Typed, StreamInv, NEW t \in Tasks, Gone(t)', ~Gone(t), NEW j \in Jobs, Join(j), UNCHANGED pageVars
    PROVE  Losing(t)
<1> SUFFICES ASSUME ~Late PROVE FALSE
  BY DEF Losing
<1>1. UNCHANGED <<cards, loaded, page>> /\ PageJobs \subseteq Jobs
  BY BoardPageAssumption DEF pageVars
<1>2. PICK u : u = job[j].task
  OBVIOUS
<1>3. /\ job[j].pc = "sent" /\ u \in Tasks /\ UNCHANGED <<clock, conn>> /\ row'[u].live
      /\ \A s \in Tasks \ {u} : row'[s] = row[s]
      /\ job'[j].pc = "recorded" /\ job'[j].task = u
      /\ \A i \in Jobs \ {j} : job'[i] = job[i]
      /\ \E ts \in 0..MaxClock : log' = log \cup {[id |-> j, task |-> u, ts |-> ts]}
  BY <1>2, JoinStep DEF Typed
<1>4. Since' = Since
  BY <1>1, <1>3, SinceSame
<1>5. PICK ts \in 0..MaxClock : log' = log \cup {[id |-> j, task |-> u, ts |-> ts]}
  BY <1>3
<1>6. PICK e : e = [id |-> j, task |-> u, ts |-> ts]
  OBVIOUS
<1>7. e.id = j /\ e.task = u /\ e.ts = ts /\ e \in log' /\ e \notin log /\ j \notin conn.seen
  BY <1>3, <1>5, <1>6 DEF StreamInv, Unlogged
<1>8. IF conn.up THEN e.ts >= conn.last ELSE e.ts >= Since
  <2>1. e.ts \in 0..MaxClock /\ conn.last \in 0..MaxClock /\ Since \in 0..MaxClock /\ MaxClock \in Nat
    BY <1>5, <1>7, SinceIs, TaskStreamAssumption DEF Typed, StreamOK, ConnT
  <2>2. ~(e.ts < IF conn.up THEN conn.last ELSE Since)
    BY <1>7 DEF Late
  <2> QED
    BY <2>1, <2>2
<1>9. CASE t = u
  <2>1. Unread(t)'
    BY <1>3, <1>4, <1>7, <1>8, <1>9 DEF Unread
  <2> QED
    BY <2>1, WaysNext DEF Gone
<1>10. CASE t # u
  <2>1. row'[t] = row[t]
    BY <1>3, <1>10
  <2>2. Stale(t)' => Stale(t)
    BY <1>1, <2>1, RowSame
  <2>3. Written(t) => Written(t)'
    BY <1>3 DEF Written
  <2>4. Unread(t) => Unread(t)'
    BY <1>3, <1>4, <1>5, <2>1 DEF Unread
  <2>5. Piped(t) => Piped(t)'
    BY <1>3, <2>1 DEF Piped
  <2>6. Asked(t) => Asked(t)'
    BY <1>1, <1>2, <1>3 DEF Asked
  <2> QED
    BY <2>2, <2>3, <2>4, <2>5, <2>6, WaysNext, Carried
<1> QED
  BY <1>9, <1>10

\* The deletion of an agent changes only the task that Losing names.
LEMMA UnassignLoss ==
    ASSUME Typed, NEW t \in Tasks, Gone(t)', ~Gone(t), NEW j \in Jobs, Unassign(j), UNCHANGED pageVars
    PROVE  Losing(t)
<1>1. UNCHANGED <<cards, loaded, page>> /\ PageJobs \subseteq Jobs
  BY BoardPageAssumption DEF pageVars
<1>2. PICK u : u = job[j].task
  OBVIOUS
<1>3. /\ job[j].pc = "sent" /\ job[j].kind = "silent" /\ UNCHANGED <<clock, log, conn>>
      /\ \A s \in Tasks \ {u} : row'[s] = row[s]
      /\ job'[j].pc = "recorded" /\ job'[j].task = u
      /\ \A i \in Jobs \ {j} : job'[i] = job[i]
  BY <1>2, UnassignStep DEF Typed
<1>4. CASE t = u
  BY <1>2, <1>3, <1>4 DEF Losing
<1>5. CASE t # u
  <2>1. row'[t] = row[t] /\ Since' = Since
    BY <1>1, <1>3, <1>5, SinceSame
  <2>2. Stale(t)' => Stale(t)
    BY <1>1, <2>1, RowSame
  <2>3. Written(t) => Written(t)'
    BY <1>3 DEF Written
  <2>4. Unread(t) => Unread(t)'
    BY <1>3, <2>1 DEF Unread
  <2>5. Piped(t) => Piped(t)'
    BY <1>3, <2>1 DEF Piped
  <2>6. Asked(t) => Asked(t)'
    BY <1>1, <1>2, <1>3 DEF Asked
  <2> QED
    BY <2>2, <2>3, <2>4, <2>5, <2>6, WaysNext, Carried
<1> QED
  BY <1>4, <1>5

\* A task that is erased is not shown wrongly: it has no row.
LEMMA EraseLoss ==
    ASSUME Typed, NEW t \in Tasks, Gone(t)', ~Gone(t), NEW j \in Jobs, Erase(j), UNCHANGED pageVars
    PROVE  FALSE
<1>1. UNCHANGED <<cards, loaded, page>> /\ PageJobs \subseteq Jobs
  BY BoardPageAssumption DEF pageVars
<1>2. PICK u : u = job[j].task
  OBVIOUS
<1>3. /\ job[j].pc = "sent" /\ UNCHANGED <<clock, conn>> /\ ~row'[u].live
      /\ \A s \in Tasks \ {u} : row'[s] = row[s]
      /\ log' = {e \in log : e.task # u}
      /\ job'[j].pc = "recorded" /\ job'[j].task = u
      /\ \A i \in Jobs \ {j} : job'[i] = job[i]
  BY <1>2, EraseIs DEF Typed
<1>4. t # u
  BY <1>3 DEF Gone, Stale
<1>5. row'[t] = row[t] /\ Since' = Since
  BY <1>1, <1>3, <1>4, SinceSame
<1>6. Stale(t)' => Stale(t)
  BY <1>1, <1>5, RowSame
<1>7. Written(t) => Written(t)'
  BY <1>3 DEF Written
<1>8. Unread(t) => Unread(t)'
  BY <1>3, <1>4, <1>5 DEF Unread
<1>9. Piped(t) => Piped(t)'
  BY <1>3, <1>5 DEF Piped
<1>10. Asked(t) => Asked(t)'
  BY <1>1, <1>2, <1>3 DEF Asked
<1> QED
  BY <1>6, <1>7, <1>8, <1>9, <1>10, WaysNext, Carried

LEMMA FailLoss ==
    ASSUME Typed, NEW t \in Tasks, Gone(t)', ~Gone(t), NEW j \in Jobs, Fail(j), UNCHANGED pageVars
    PROVE  Losing(t)
<1> SUFFICES ASSUME ~(\E i \in Jobs : job[i].task = t /\ job[i].pc = "written" /\ job'[i].pc = "failed") PROVE FALSE
  BY DEF Losing
<1>1. UNCHANGED <<cards, loaded, page>> /\ PageJobs \subseteq Jobs
  BY BoardPageAssumption DEF pageVars
<1>2. /\ UNCHANGED <<clock, row, log, conn>> /\ job'[j].pc = "failed" /\ job'[j].task = job[j].task
      /\ \A i \in Jobs \ {j} : job'[i] = job[i]
  BY FailIs DEF Typed
<1>3. Stale(t)' => Stale(t)
  BY <1>1, <1>2, RowSame
<1>4. Since' = Since
  BY <1>1, <1>2, SinceSame
<1>5. Written(t) => Written(t)'
  BY <1>2 DEF Written
<1>6. Unread(t) => Unread(t)'
  BY <1>2, <1>4 DEF Unread
<1>7. Piped(t) => Piped(t)'
  BY <1>2 DEF Piped
<1>8. Asked(t) => Asked(t)'
  BY <1>1, <1>2 DEF Asked
<1> QED
  BY <1>3, <1>5, <1>6, <1>7, <1>8, WaysNext, Carried

\* The snapshot shows every task as it is.
LEMMA LoadLoss ==
    ASSUME Typed, NEW t \in Tasks, Gone(t)', LoadBoard
    PROVE  FALSE
<1>1. PICK l : l = cards'
  OBVIOUS
<1>2. /\ l \in Seq(Card)
      /\ \A n \in DOMAIN l : l[n].ver = row[l[n].task].ver /\ l[n].guess = None
      /\ row[t].live => \E n \in DOMAIN l : l[n].task = t
      /\ \A m, n \in DOMAIN l : l[m].task = l[n].task => m = n
  BY <1>1, LoadIs
<1>3. row' = row
  BY DEF LoadBoard
<1>4. row[t].live /\ ~Shows(l, t, row[t].ver)
  BY <1>1, <1>2, <1>3, StaleNext DEF Gone
<1>5. PICK n \in DOMAIN l : l[n].task = t
  BY <1>2, <1>4
<1>6. \A k \in DOMAIN l : l[k].task = t => n <= k
  <2>1. n \in Nat
    BY <1>2
  <2> QED
    BY <1>2, <1>5, <2>1
<1> QED
  BY <1>2, <1>4, <1>5, <1>6 DEF Shows, Lead

\* The stream starts where the page's knowledge ends.
LEMMA ConnectLoss ==
    ASSUME StreamInv, NEW t \in Tasks, Gone(t)', ~Gone(t), Connect
    PROVE  FALSE
<1>1. UNCHANGED <<cards, loaded, page>> /\ Open(Since)
  BY DEF Connect, pageVars
<1>2. /\ ~conn.up /\ conn'.up /\ conn'.last = Since /\ conn'.seen = {}
      /\ UNCHANGED <<clock, row, job, log>> /\ conn.pipe = <<>>
  BY <1>1, OpenIs DEF StreamInv, Quiet
<1>3. Stale(t)' => Stale(t)
  BY <1>1, <1>2, RowSame
<1>4. row'[t].live
  BY DEF Gone, Stale
<1>5. Unread(t) => Unread(t)'
  BY <1>2, <1>4 DEF Unread
<1>6. ~Piped(t)
  BY <1>2 DEF Piped
<1>7. /\ Written(t) => Written(t)'
      /\ Asked(t) => Asked(t)'
  BY <1>1, <1>2 DEF Written, Asked
<1> QED
  BY <1>3, <1>5, <1>6, <1>7, WaysNext, Carried

\* Steps that change nothing that this is about.
LEMMA StillLoss ==
    ASSUME NEW t \in Tasks, Gone(t)', ~Gone(t), UNCHANGED <<clock, row, job, log, conn, cards, loaded, page>>
    PROVE  FALSE
<1>1. Stale(t)' => Stale(t)
  BY RowSame
<1>2. Since' = Since
  BY SinceSame
<1>3. Unread(t) => Unread(t)'
  BY <1>2 DEF Unread
<1>4. /\ Written(t) => Written(t)'
      /\ Piped(t) => Piped(t)'
      /\ Asked(t) => Asked(t)'
  BY DEF Written, Piped, Asked
<1> QED
  BY <1>1, <1>3, <1>4, WaysNext, Carried

LEMMA BreakLoss ==
    ASSUME StreamInv, NEW t \in Tasks, Gone(t)', ~Gone(t), Break \/ Blur
    PROVE  Losing(t)
<1>1. /\ UNCHANGED <<clock, row, job, log, cards, loaded, page>> /\ conn' = Closed
  BY DEF Break, Blur, Close
<1>2. ~conn'.up /\ conn'.pipe = <<>>
  BY <1>1 DEF Closed
<1> SUFFICES ASSUME ~conn.up PROVE FALSE
  BY <1>2 DEF Losing
<1>3. Stale(t)' => Stale(t)
  BY <1>1, RowSame
<1>4. Since' = Since
  BY <1>1, SinceSame
<1>5. Unread(t) => Unread(t)'
  BY <1>1, <1>2, <1>4 DEF Unread
<1>6. ~Piped(t)
  BY DEF Piped, StreamInv, Quiet
<1>7. /\ Written(t) => Written(t)'
      /\ Asked(t) => Asked(t)'
  BY <1>1 DEF Written, Asked
<1> QED
  BY <1>3, <1>5, <1>6, <1>7, WaysNext, Carried

\* A card in front shows its own task, and the other tasks as before.
LEMMA FrontShows ==
    ASSUME NEW l \in Seq(Card), NEW c \in Card, NEW l2, l2 = <<c>> \o l, NEW t, NEW v
    PROVE  /\ l2 \in Seq(Card)
           /\ c.task # t /\ Shows(l, t, v) => Shows(l2, t, v)
           /\ c.task = t /\ c.guess = None => Shows(l2, t, c.ver)
<1>1. /\ l2 \in Seq(Card) /\ 1 \in DOMAIN l2 /\ l2[1] = c
      /\ \A i \in DOMAIN l : i + 1 \in DOMAIN l2 /\ l2[i + 1] = l[i]
      /\ \A i \in DOMAIN l2 : i = 1 \/ (i - 1 \in DOMAIN l /\ l2[i] = l[i - 1])
  BY FrontIs
<1>2. /\ \A i \in DOMAIN l2 : i \in Nat /\ 1 <= i
      /\ \A i \in DOMAIN l : i \in Nat
  BY <1>1
<1>3. c.task = t /\ c.guess = None => Shows(l2, t, c.ver)
  BY <1>1, <1>2 DEF Shows, Lead
<1>4. ASSUME c.task # t, Shows(l, t, v) PROVE Shows(l2, t, v)
  <2>1. PICK i \in DOMAIN l : Lead(l, t, i) /\ l[i].ver = v /\ l[i].guess = None
    BY <1>4 DEF Shows
  <2>2. i + 1 \in DOMAIN l2 /\ l2[i + 1] = l[i]
    BY <1>1
  <2>3. ASSUME NEW k \in DOMAIN l2, l2[k].task = t PROVE i + 1 <= k
    <3>1. k # 1
      BY <1>1, <1>4, <2>3
    <3>2. k - 1 \in DOMAIN l /\ l[k - 1].task = t
      BY <1>1, <2>3, <3>1
    <3>3. i <= k - 1
      BY <2>1, <3>2 DEF Lead
    <3> QED
      BY <1>2, <3>3
  <2>4. Lead(l2, t, i + 1)
    BY <2>1, <2>2, <2>3 DEF Lead
  <2> QED
    BY <2>1, <2>2, <2>4 DEF Shows
<1> QED
  BY <1>1, <1>3, <1>4

\* A payload about another task leaves the card that shows this one.
LEMMA MergedShows ==
    ASSUME cards \in Seq(Card), NEW p \in Payload, NEW l2, l2 = Merged(p), NEW t, NEW v
    PROVE  /\ l2 \in Seq(Card)
           /\ p.task # t /\ Shows(cards, t, v) => Shows(l2, t, v)
           /\ p.task = t => Shows(l2, t, p.ver)
<1>1. PICK c : c = Copy(p, None)
  OBVIOUS
<1>2. c \in Card /\ c.task = p.task /\ c.ver = p.ver /\ c.guess = None
  BY <1>1, CopyIs DEF Payload
<1>3. CASE p.task \in Shown
  <2>1. PICK n : n = First(p.task)
    OBVIOUS
  <2>2. /\ l2 \in Seq(Card) /\ DOMAIN l2 = DOMAIN cards /\ n \in DOMAIN cards
        /\ cards[n].task = p.task /\ l2[n] = c
        /\ \A i \in DOMAIN cards : i # n => l2[i] = cards[i]
        /\ \A i \in DOMAIN cards : cards[i].task = p.task => n <= i
    BY <1>1, <1>2, <1>3, <2>1, MergedIs
  <2>3. \A i \in DOMAIN cards : l2[i].task = cards[i].task
    BY <1>2, <2>2
  <2>4. p.task = t => Lead(l2, t, n)
    BY <1>2, <2>2, <2>3 DEF Lead
  <2>5. ASSUME p.task # t, Shows(cards, t, v) PROVE Shows(l2, t, v)
    <3>1. PICK i \in DOMAIN cards : Lead(cards, t, i) /\ cards[i].ver = v /\ cards[i].guess = None
      BY <2>5 DEF Shows
    <3>2. i # n /\ l2[i] = cards[i]
      BY <2>2, <2>5, <3>1 DEF Lead
    <3>3. Lead(l2, t, i)
      BY <2>2, <2>3, <3>1 DEF Lead
    <3> QED
      BY <2>2, <3>1, <3>2, <3>3 DEF Shows
  <2>6. p.task = t => Shows(l2, t, p.ver)
    BY <1>2, <2>2, <2>4 DEF Shows
  <2> QED
    BY <2>2, <2>5, <2>6
<1>4. CASE p.task \notin Shown
  <2>1. l2 = <<c>> \o cards
    BY <1>1, <1>2, <1>4, MergedIs
  <2> QED
    BY <1>2, <2>1, FrontShows
<1> QED
  BY <1>3, <1>4

LEMMA DeliverLoss ==
    ASSUME Typed, StreamInv, NEW t \in Tasks, Gone(t)', ~Gone(t), Deliver
    PROVE  Losing(t)
<1>1. PICK p : p = Head(conn.pipe)
  OBVIOUS
<1>2. /\ conn.up /\ conn'.up /\ conn'.last = conn.last /\ conn'.seen = conn.seen
      /\ conn.pipe # <<>> /\ conn'.pipe = Tail(conn.pipe) /\ p = conn.pipe[1]
      /\ p \in Payload /\ 1 \in DOMAIN conn.pipe
      /\ \A i \in DOMAIN conn.pipe : i # 1 => i - 1 \in DOMAIN conn'.pipe /\ conn'.pipe[i - 1] = conn.pipe[i]
      /\ cards' = Merged(p) /\ UNCHANGED <<clock, row, job, log, loaded, active, page, breaks>>
  BY <1>1, DeliverIs
<1> SUFFICES ASSUME ~Older(p) PROVE FALSE
  BY <1>1, <1>2 DEF Losing
<1>3. PICK l2, v : l2 = cards' /\ v = row[t].ver
  OBVIOUS
<1>4. cards \in Seq(Card) /\ v \in Nat
  BY <1>3 DEF Typed, PageOK, StreamOK, RowsOK, RowT
<1>5. /\ l2 \in Seq(Card)
      /\ p.task # t /\ Shows(cards, t, v) => Shows(l2, t, v)
      /\ p.task = t => Shows(l2, t, p.ver)
  BY <1>2, <1>3, <1>4, MergedShows
<1>6. loaded /\ row[t].live /\ ~Shows(l2, t, v)
  BY <1>2, <1>3, <1>5, StaleNext DEF Gone
<1>7. p.task = t => p.ver < v
  <2>1. p.ver \in Nat /\ p.ver <= row[p.task].ver
    BY <1>2 DEF Payload, StreamInv, Behind
  <2> QED
    BY <1>3, <1>4, <1>5, <1>6, <2>1
<1>8. Stale(t)
  <2>1. CASE p.task # t
    BY <1>3, <1>4, <1>5, <1>6, <2>1, StaleIs
  <2>2. CASE p.task = t
    <3>1. ~(t \in Shown /\ p.ver < cards[First(t)].ver)
      BY <2>2 DEF Older
    <3> QED
      BY <1>3, <1>6, <1>7, <2>2, <3>1 DEF Stale
  <2> QED
    BY <2>1, <2>2
<1>9. Unread(t) => Unread(t)'
  BY <1>2 DEF Unread
<1>10. Piped(t) => Piped(t)'
  <2>1. ASSUME NEW i \in DOMAIN conn.pipe, conn.pipe[i].task = t, conn.pipe[i].ver = v PROVE Piped(t)'
    <3>1. i # 1
      BY <1>2, <1>4, <1>7, <2>1
    <3>2. i - 1 \in DOMAIN conn'.pipe /\ conn'.pipe[i - 1] = conn.pipe[i]
      BY <1>2, <3>1
    <3> QED
      BY <1>2, <1>3, <2>1, <3>2 DEF Piped
  <2> QED
    BY <1>3, <2>1 DEF Piped
<1>11. /\ Written(t) => Written(t)'
       /\ Asked(t) => Asked(t)'
  BY <1>2 DEF Written, Asked
<1> QED
  BY <1>8, <1>9, <1>10, <1>11, WaysNext, Carried

\* The page sends a request: the task it is about is under way, the others stay.
LEMMA AskLoss ==
    ASSUME BoardInv, NEW t \in Tasks, Gone(t)', ~Gone(t), NEW j \in PageJobs, NEW act \in Acts,
           NEW k \in Kinds, NEW u \in Tasks, Ask(j, act, k, u),
           UNCHANGED cards \/ cards' = Moved(j, u)
    PROVE  FALSE
<1>1. /\ UNCHANGED <<clock, row, log, conn, loaded, active, breaks>>
      /\ page[j].st = "idle" /\ page'[j].st = "waiting"
      /\ \A i \in PageJobs \ {j} : page'[i] = page[i]
      /\ job[j].pc = "new" /\ job'[j].pc = "sent" /\ job'[j].task = u
      /\ \A i \in Jobs \ {j} : job'[i] = job[i]
  BY AskIs
<1>2. cards \in Seq(Card) /\ PageJobs \subseteq Jobs
  BY BoardPageAssumption DEF BoardInv, Typed, PageOK
<1>3. t # u
  <2>1. ASSUME t = u PROVE Asked(t)'
    BY <1>1, <2>1 DEF Asked
  <2> QED
    BY <2>1, WaysNext DEF Gone
<1>4. (Stale(t)' => Stale(t)) /\ Since' = Since
  <2>1. CASE UNCHANGED cards
    BY <1>1, <2>1, RowSame, SinceSame
  <2>2. CASE cards' = Moved(j, u)
    <3>1. PICK l2 : l2 = cards'
      OBVIOUS
    <3>2. /\ l2 \in Seq(Card) /\ DOMAIN l2 = DOMAIN cards
          /\ \A i \in DOMAIN cards : /\ l2[i].task = cards[i].task /\ l2[i].at = cards[i].at
                                     /\ cards[i].task # u => l2[i] = cards[i]
      BY <1>2, <2>2, <3>1, MovedIs
    <3>3. Shows(cards, t, row[t].ver) => Shows(l2, t, row[t].ver)
      <4>1. ASSUME NEW i \in DOMAIN cards, Lead(cards, t, i) PROVE Lead(l2, t, i) /\ l2[i] = cards[i]
        BY <1>3, <3>2, <4>1 DEF Lead
      <4> QED
        BY <3>2, <4>1 DEF Shows
    <3>4. Stale(t)' => Stale(t)
      BY <1>1, <1>2, <3>1, <3>2, <3>3, StaleIs, StaleNext
    <3>5. {l2[i].at : i \in DOMAIN l2} = {cards[i].at : i \in DOMAIN cards}
      BY <3>2
    <3>6. l2 = <<>> <=> cards = <<>>
      BY <1>2, <3>2
    <3>7. Since' = Since
      BY <1>1, <3>1, <3>5, <3>6 DEF Since, Newest
    <3> QED
      BY <3>4, <3>7
  <2> QED
    BY <2>1, <2>2
<1>5. Unread(t) => Unread(t)'
  BY <1>1, <1>4 DEF Unread
<1>6. Written(t) => Written(t)'
  BY <1>1 DEF Written
<1>7. Piped(t) => Piped(t)'
  BY <1>1 DEF Piped
<1>8. Asked(t) => Asked(t)'
  BY <1>1, <1>2 DEF Asked
<1> QED
  BY <1>4, <1>5, <1>6, <1>7, <1>8, WaysNext, Carried

LEMMA ElsewhereLoss ==
    ASSUME Typed, NEW t \in Tasks, Gone(t)', ~Gone(t),
           NEW j \in Jobs, NEW k \in Kinds, NEW u \in Tasks, Elsewhere(j, k, u)
    PROVE  FALSE
<1>1. /\ j \notin PageJobs /\ Request(j, k, u) /\ PageJobs \subseteq Jobs
      /\ UNCHANGED <<clock, row, log, conn, cards, loaded, page>>
  BY BoardPageAssumption DEF Elsewhere, pageVars
<1>2. job[j].pc = "new" /\ \A i \in Jobs \ {j} : job'[i] = job[i]
  BY <1>1, RequestIs DEF Typed
<1>3. (Stale(t)' => Stale(t)) /\ Since' = Since
  BY <1>1, RowSame, SinceSame
<1>4. Unread(t) => Unread(t)'
  BY <1>1, <1>3 DEF Unread
<1>5. Written(t) => Written(t)'
  BY <1>2 DEF Written
<1>6. Piped(t) => Piped(t)'
  BY <1>1 DEF Piped
<1>7. Asked(t) => Asked(t)'
  BY <1>1, <1>2 DEF Asked
<1> QED
  BY <1>3, <1>4, <1>5, <1>6, <1>7, WaysNext, Carried

\* The rest of a list shows what the list showed.
LEMMA PicksShow ==
    ASSUME NEW l \in Seq(Card), NEW l2 \in Seq(Card), NEW n \in Nat, NEW f, Picks(l, f, n), DOMAIN l2 = 1..n,
           \A m \in 1..n : l2[m] = l[f[m]], NEW t, NEW v,
           \A i \in DOMAIN l : l[i].task = t => \E m \in 1..n : f[m] = i,
           Shows(l, t, v)
    PROVE  Shows(l2, t, v)
<1>1. PICK i \in DOMAIN l : Lead(l, t, i) /\ l[i].ver = v /\ l[i].guess = None
  BY DEF Shows
<1>2. PICK m \in 1..n : f[m] = i
  BY <1>1 DEF Lead
<1>3. \A a \in 1..n : f[a] \in DOMAIN l /\ f[a] \in Nat
  BY DEF Picks
<1>4. ASSUME NEW a \in 1..n, l2[a].task = t PROVE m <= a
  <2>1. i <= f[a]
    BY <1>1, <1>3, <1>4 DEF Lead
  <2>2. a < m => f[a] < f[m]
    BY DEF Picks
  <2> QED
    BY <1>2, <1>3, <2>1, <2>2
<1>5. Lead(l2, t, m)
  BY <1>1, <1>2, <1>4 DEF Lead
<1> QED
  BY <1>1, <1>2, <1>5 DEF Shows

\* An answer about another task leaves the card that shows this one.
LEMMA AnswerShows ==
    ASSUME BoardInv, NEW j \in PageJobs, Answer(j), NEW t, job[j].task # t, NEW v, Shows(cards, t, v)
    PROVE  Shows(cards', t, v)
<1>1. /\ cards \in Seq(Card) /\ j \in Jobs /\ job[j] \in JobT /\ job[j].task \in Tasks
  BY BoardPageAssumption DEF BoardInv, Answer, Typed, PageOK, StreamOK, JobsOK
<1>2. PICK c : c = Copy(job[j], None)
  OBVIOUS
<1>3. c \in Card /\ c.task = job[j].task
  BY <1>1, <1>2, CopyIs DEF JobT
<1>4. PICK l2 : l2 = cards' /\ l2 = AfterAnswer(j)
  BY DEF Answer
<1>5. CASE page[j].act = "create"
  <2>1. l2 = <<c>> \o cards
    BY <1>2, <1>4, <1>5 DEF AfterAnswer
  <2> QED
    BY <1>1, <1>3, <1>4, <2>1, FrontShows
<1>6. CASE page[j].act = "delete"
  <2>1. l2 = Others(job[j].task)
    BY <1>4, <1>6 DEF AfterAnswer
  <2>2. l2 \in Seq(Card)
    BY <1>1, <2>1, OthersIs
  <2>a. PICK n \in Nat : \E f : /\ Picks(cards, f, n) /\ DOMAIN l2 = 1..n
                                /\ \A m \in 1..n : l2[m] = cards[f[m]]
                                /\ \A i \in DOMAIN cards : cards[i].task # job[j].task => \E m \in 1..n : f[m] = i
    BY <1>1, <2>1, OthersIs
  <2>3. PICK f : /\ Picks(cards, f, n) /\ DOMAIN l2 = 1..n
                 /\ \A m \in 1..n : l2[m] = cards[f[m]]
                 /\ \A i \in DOMAIN cards : cards[i].task # job[j].task => \E m \in 1..n : f[m] = i
    BY <2>a
  <2>4. \A i \in DOMAIN cards : cards[i].task = t => \E m \in 1..n : f[m] = i
    BY <2>3
  <2> QED
    BY <1>1, <1>4, <2>2, <2>3, <2>4, PicksShow
<1>7. CASE page[j].act \notin {"create", "delete"}
  <2>1. l2 = Replaced(job[j])
    BY <1>4, <1>7 DEF AfterAnswer
  <2>2. /\ l2 \in Seq(Card) /\ DOMAIN l2 = DOMAIN cards
        /\ \A i \in DOMAIN cards : l2[i] = IF cards[i].task = job[j].task THEN c ELSE cards[i]
    BY <1>1, <1>2, <1>3, <2>1, ReplacedIs
  <2>3. ASSUME NEW i \in DOMAIN cards, Lead(cards, t, i) PROVE Lead(l2, t, i) /\ l2[i] = cards[i]
    BY <1>3, <2>2, <2>3 DEF Lead
  <2> QED
    BY <1>4, <2>2, <2>3 DEF Shows
<1> QED
  BY <1>5, <1>6, <1>7

\* With its stream open the page takes answers about other tasks without loss.
LEMMA AnswerLoss ==
    ASSUME BoardInv, NEW t \in Tasks, Gone(t)', ~Gone(t), NEW j \in PageJobs, Answer(j)
    PROVE  Losing(t)
<1>1. PICK l2, v : l2 = cards' /\ v = row[t].ver
  OBVIOUS
<1>2. /\ UNCHANGED <<clock, row, job, log, conn, loaded, active, breaks>> /\ page[j].st = "waiting"
      /\ l2 \in Seq(Card) /\ cards \in Seq(Card)
      /\ page' = [page EXCEPT ![j] = [page[j] EXCEPT !.st = "ok", !.undo = <<>>]]
      /\ page \in [PageJobs -> PageT]
  BY <1>1, AnswerIs DEF Answer, BoardInv, Typed, PageOK, PagesOK
<1>3. page'[j].st = "ok" /\ \A i \in PageJobs \ {j} : page'[i] = page[i]
  BY <1>2 DEF PageT
<1> SUFFICES ASSUME job[j].task # t, conn.up PROVE FALSE
  BY <1>2, <1>3 DEF Losing
<1>4. Shows(cards, t, v) => Shows(l2, t, v)
  BY <1>1, AnswerShows
<1>5. Stale(t)' => Stale(t)
  BY <1>1, <1>2, <1>4, StaleIs, StaleNext
<1>6. Unread(t) => Unread(t)'
  BY <1>2 DEF Unread
<1>7. /\ Written(t) => Written(t)'
      /\ Piped(t) => Piped(t)'
  BY <1>2 DEF Written, Piped
<1>8. Asked(t) => Asked(t)'
  BY <1>2, <1>3 DEF Asked
<1> QED
  BY <1>5, <1>6, <1>7, <1>8, WaysNext, Carried

LEMMA ErrorLoss ==
    ASSUME Typed, NEW t \in Tasks, Gone(t)', ~Gone(t), NEW j \in PageJobs, Error(j)
    PROVE  Losing(t)
<1>1. /\ UNCHANGED <<clock, row, job, log, conn, loaded, active, breaks>> /\ page[j].st = "waiting"
      /\ page' = [page EXCEPT ![j].st = "error"] /\ cards' = AfterError(j)
      /\ page \in [PageJobs -> PageT]
  BY DEF Error, Typed, PageOK, PagesOK
<1>2. page'[j].st = "error" /\ \A i \in PageJobs \ {j} : page'[i] = page[i]
  BY <1>1 DEF PageT
<1> SUFFICES ASSUME job[j].task # t, page[j].act # "move" PROVE FALSE
  BY <1>1, <1>2 DEF Losing
<1>3. UNCHANGED cards
  BY <1>1 DEF AfterError
<1>4. (Stale(t)' => Stale(t)) /\ Since' = Since
  BY <1>1, <1>3, RowSame, SinceSame
<1>5. Unread(t) => Unread(t)'
  BY <1>1, <1>4 DEF Unread
<1>6. /\ Written(t) => Written(t)'
      /\ Piped(t) => Piped(t)'
  BY <1>1 DEF Written, Piped
<1>7. Asked(t) => Asked(t)'
  BY <1>1, <1>2 DEF Asked
<1> QED
  BY <1>4, <1>5, <1>6, <1>7, WaysNext, Carried

LEMMA LossStep ==
    ASSUME BoardInv, StreamInv, [Next]_vars, NEW t \in Tasks, Gone(t)', ~Gone(t)
    PROVE  Losing(t)
<1>0. Typed
  BY DEF BoardInv
<1>1. CASE Server
  <2>1. CASE Tick
    BY <1>1, <2>1, TickLoss DEF Server
  <2>2. CASE Poll
    BY <1>0, <1>1, <2>2, PollLoss DEF Server
  <2>3. ASSUME NEW j \in Jobs, Handle(j) PROVE Losing(t)
    BY <1>0, <1>1, <2>3, WriteLoss, RecordLoss, JoinLoss, UnassignLoss, EraseLoss, FailLoss DEF Server, Handle
  <2> QED
    BY <1>1, <2>1, <2>2, <2>3 DEF Server
<1>2. CASE LoadBoard
  BY <1>0, <1>2, LoadLoss
<1>3. CASE Connect
  BY <1>3, ConnectLoss
<1>4. CASE Break \/ Blur
  BY <1>4, BreakLoss
<1>5. CASE Focus \/ LoadFails \/ UNCHANGED vars
  <2>1. UNCHANGED <<clock, row, job, log, conn, cards, loaded, page>>
    BY <1>5 DEF Focus, LoadFails, vars
  <2> QED
    BY <2>1, StillLoss
<1>6. CASE Deliver
  BY <1>0, <1>6, DeliverLoss
<1>7. ASSUME NEW j \in PageJobs, Answer(j) \/ Error(j) PROVE Losing(t)
  BY <1>0, <1>7, AnswerLoss, ErrorLoss
<1>8. ASSUME NEW j \in PageJobs, NEW u \in Tasks,
             StartCreate(j, u) \/ StartMove(j, u) \/ StartSave(j, u) \/ StartDelete(j, u)
      PROVE  Losing(t)
  <2>1. \E act \in Acts, k \in Kinds : Ask(j, act, k, u) /\ (UNCHANGED cards \/ cards' = Moved(j, u))
    BY <1>8 DEF StartCreate, StartMove, StartSave, StartDelete, Acts, Kinds, Moved
  <2> QED
    BY <2>1, AskLoss
<1>9. ASSUME NEW j \in Jobs, NEW k \in Kinds, NEW u \in Tasks, Elsewhere(j, k, u) PROVE Losing(t)
  BY <1>0, <1>9, ElsewhereLoss
<1> QED
  BY <1>1, <1>2, <1>3, <1>4, <1>5, <1>6, <1>7, <1>8, <1>9 DEF Next

\* Between the two commits of a handler, the polls of a stream, its breaks and the
\* answers to the page's own requests, a task that was shown as it is, or about to
\* be, is lost only by one of the steps that Losing names.
THEOREM LossIsExplained == Spec => LossOnlyBy
<1>1. BoardInv /\ StreamInv /\ [Next]_vars => [\A t \in Tasks : Gone(t)' /\ ~Gone(t) => Losing(t)]_vars
  BY LossStep
<1> QED
  BY <1>1, LossInvariance, PTL DEF Spec, LossOnlyBy

=============================================================================
