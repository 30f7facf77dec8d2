--------------------------- MODULE TaskBoardProofs ---------------------------
(***************************************************************************)
(* Proofs about TaskBoard, for any tasks, agents, requests, rules and      *)
(* bodies.  With requests that overlap and are cut off anywhere: the types *)
(* the gate of pending approvals and the order of the row locks.  With     *)
(* requests one at a time: when a task may be worked on, what becomes of   *)
(* in_progress_at and how a task gets done.                                *)
(***************************************************************************)
EXTENDS TaskBoard, TLAPS

Steps == {"idle", "rules", "write", "gates", "commit", "refresh", "comment", "reconcile", "reset"}
Kids == UNION {[S -> Row] : S \in SUBSET Tasks}
ReqState == [pc : Steps, task : Tasks \cup {None}, ask : Payload \cup {None}, seen : Row, new : Row,
             dirty : SUBSET Fields, kids : Kids]

-----------------------------------------------------------------------------
(* The invariant when requests overlap *)

Typed == TypeOK /\ req \in [Requests -> ReqState]

\* Where a request is that has committed its update.
Later == {"refresh", "comment", "reconcile", "reset"}

\* A request under way is about a task and has a body; that of a lead ends at its commit.
OnTask ==
    \A r \in Requests :
        /\ req[r].pc # "idle" => req[r].task \in Tasks /\ req[r].ask \in Payload
        /\ req[r].pc \in Later => req[r].ask.actor # "lead"

\* A request that has flushed its UPDATE holds the row.
Held == \A r \in Requests : req[r].pc \in {"gates", "commit"} => lock[req[r].task] = r

\* A request writes the status only if it changes it.
Decided == \A r \in Requests : req[r].pc \in {"write", "gates", "commit"} /\ "status" \in req[r].dirty =>
              req[r].new.status # req[r].seen.status

\* What the gate of pending approvals found holds until the commit.
Gated == \A r \in Requests : req[r].pc = "commit" => PendingGate(r)

RaceInv == Typed /\ OnTask /\ Held /\ Decided /\ Gated

-----------------------------------------------------------------------------
(* The steps of a request *)

\* The other requests stay as they are.
Stay(r) == \A q \in Requests : q # r => req'[q] = req[q]

\* A request goes to another step and keeps what it has read and decided.
Moves(r, pc) ==
    /\ Stay(r) /\ req'[r].pc = pc /\ req'[r].task = req[r].task /\ req'[r].ask = req[r].ask
    /\ req'[r].seen = req[r].seen /\ req'[r].new = req[r].new /\ req'[r].dirty = req[r].dirty
    /\ req'[r].kids = req[r].kids

\* A request ends.
Ends(r) == Stay(r) /\ req'[r] = Idle

\* The types of the variables, with those of the requests.
LEMMA Parts ==
    Typed => /\ rows \in [Tasks -> Row] /\ deps \in [Tasks -> SUBSET Tasks] /\ pend \subseteq Tasks
             /\ appr \subseteq Tasks /\ said \in [Tasks -> SUBSET (Agents \cup {"admin"})]
             /\ lock \in [Tasks -> Requests \cup {None}] /\ excused \subseteq Tasks \X Tasks
             /\ req \in [Requests -> ReqState]
BY DEF Typed, TypeOK

\* The update of the step of a request.
LEMMA MovesIs ==
    ASSUME req \in [Requests -> ReqState], NEW r \in Requests, NEW pc \in Steps, req' = [req EXCEPT ![r].pc = pc]
    PROVE  Moves(r, pc) /\ req' \in [Requests -> ReqState]
BY DEF ReqState, Moves, Stay

\* An idle request has the type of a request.
LEMMA IdleType == Idle \in ReqState /\ Idle.pc = "idle" /\ Idle.kids = <<>>
<1>1. Absent \in Row
  BY DEF Absent, Row
<1>2. <<>> \in Kids
  <2>1. <<>> \in [{} -> Row]
    OBVIOUS
  <2> QED
    BY <2>1 DEF Kids
<1> QED
  BY <1>1, <1>2 DEF Idle, ReqState, Steps

\* The update of a request that ends.
LEMMA EndsIs ==
    ASSUME req \in [Requests -> ReqState], NEW r \in Requests, req' = [req EXCEPT ![r] = Idle]
    PROVE  Ends(r) /\ req' \in [Requests -> ReqState]
BY IdleType DEF Ends, Stay

\* Load: a request begins.
LEMMA LoadIs ==
    ASSUME Typed, NEW r \in Requests, NEW t \in Tasks, NEW p \in Payloads, Load(r, t, p)
    PROVE  /\ Stay(r) /\ req' \in [Requests -> ReqState]
           /\ req'[r].pc = "rules" /\ req'[r].task = t /\ req'[r].ask = p /\ req'[r].seen = rows[t]
<1>1. p \in Payload /\ rows[t] \in Row /\ req \in [Requests -> ReqState]
  BY Parts, TaskBoardAssumption
<1>2. PICK n : n = [Idle EXCEPT !.pc = "rules", !.task = t, !.ask = p, !.seen = rows[t]]
  OBVIOUS
<1>3. n \in ReqState /\ n.pc = "rules" /\ n.task = t /\ n.ask = p /\ n.seen = rows[t]
  BY <1>1, <1>2, IdleType DEF ReqState, Steps
<1>4. req' = [req EXCEPT ![r] = n]
  BY <1>2 DEF Load
<1> QED
  BY <1>1, <1>3, <1>4 DEF Stay

\* The rows that the rules decide on.
LEMMA NewRowType ==
    ASSUME Typed, OnTask, NEW r \in Requests, req[r].pc # "idle"
    PROVE  NewRow(r) \in Row
<1>0. req[r].seen \in Row /\ req[r].ask \in Payload
  BY Parts DEF OnTask, ReqState
<1>1. InInbox \in Row
  BY DEF InInbox, Row, Statuses
<1>2. LeadRow(r) \in Row
  BY <1>0, <1>1 DEF LeadRow, Row, Payload
<1>3. AdminRow(r) \in Row
  BY <1>0, <1>1 DEF AdminRow, Row, Payload
<1>4. req[r].ask.actor \in Agents => AgentRow(r) \in Row
  BY <1>0, <1>1 DEF AgentRow, InInbox, Row, Payload, Statuses
<1> QED
  BY <1>0, <1>2, <1>3, <1>4 DEF NewRow, Payload

\* The task is put in progress now.
Stamps(r) == req[r].ask.status = "in_progress" /\ NewRow(r).status = "in_progress"

\* ApplyRules: a request is refused or knows what to write.
LEMMA ApplyIs ==
    ASSUME Typed, OnTask, NEW r \in Requests, ApplyRules(r)
    PROVE  /\ Stay(r) /\ req' \in [Requests -> ReqState]
           /\ \/ ~Allowed(r) /\ Ends(r)
              \/ /\ Allowed(r) /\ req'[r].pc = "write" /\ req'[r].task = req[r].task /\ req'[r].ask = req[r].ask
                 /\ req'[r].seen = req[r].seen /\ req'[r].new = NewRow(r)
                 /\ req'[r].dirty = Dirty(req[r].seen, NewRow(r), Stamps(r))
<1>0. req[r] \in ReqState /\ req \in [Requests -> ReqState] /\ req[r].pc = "rules"
  BY Parts DEF ApplyRules
<1>1. CASE ~Allowed(r)
  <2>1. req' = [req EXCEPT ![r] = Idle]
    BY <1>1 DEF ApplyRules
  <2> QED
    BY <1>0, <1>1, <2>1, EndsIs DEF Ends
<1>2. CASE Allowed(r)
  <2>1. PICK new, dirty : new = NewRow(r) /\ dirty = Dirty(req[r].seen, NewRow(r), Stamps(r))
    OBVIOUS
  <2>2. new \in Row /\ dirty \in SUBSET Fields
    BY <1>0, <2>1, NewRowType DEF Dirty
  <2>3. PICK n : n = [req[r] EXCEPT !.pc = "write", !.new = new, !.dirty = dirty]
    OBVIOUS
  <2>4. req' = [req EXCEPT ![r] = n]
    BY <1>0, <1>2, <2>1, <2>3 DEF ApplyRules, Stamps
  <2>5. n \in ReqState /\ n.pc = "write" /\ n.task = req[r].task /\ n.ask = req[r].ask /\ n.seen = req[r].seen
        /\ n.new = new /\ n.dirty = dirty
    BY <1>0, <2>2, <2>3 DEF ReqState, Steps
  <2> QED
    BY <1>0, <1>2, <2>1, <2>4, <2>5 DEF Stay
<1> QED
  BY <1>1, <1>2

\* Refresh: the request reads its task back.
LEMMA RefreshIs ==
    ASSUME Typed, OnTask, NEW r \in Requests, Refresh(r)
    PROVE  /\ Stay(r) /\ req' \in [Requests -> ReqState] /\ req'[r].pc \in {"comment", "reconcile"}
           /\ req'[r].task = req[r].task /\ req'[r].ask = req[r].ask /\ req'[r].seen = req[r].seen
           /\ req'[r].new = rows[req[r].task]
<1>0. req[r] \in ReqState /\ req \in [Requests -> ReqState] /\ rows[req[r].task] \in Row
  BY Parts DEF Refresh, OnTask
<1>1. PICK pc, new : pc = (IF req[r].ask.comment THEN "comment" ELSE "reconcile") /\ new = rows[req[r].task]
  OBVIOUS
<1>2. PICK n : n = [req[r] EXCEPT !.pc = pc, !.new = new]
  OBVIOUS
<1>3. req' = [req EXCEPT ![r] = n]
  BY <1>0, <1>1, <1>2 DEF Refresh
<1>4. n \in ReqState /\ n.pc = pc /\ n.task = req[r].task /\ n.ask = req[r].ask /\ n.seen = req[r].seen /\ n.new = new
  BY <1>0, <1>1, <1>2 DEF ReqState, Steps
<1> QED
  BY <1>0, <1>1, <1>3, <1>4 DEF Stay

\* The dependents of a task that a request is to reset.
Affected(d) == {t \in Dependents(d) : NeedsReset(t)}

\* Reconcile: the request ends or has loaded the dependents to reset.
LEMMA ReconcileIs ==
    ASSUME Typed, OnTask, NEW r \in Requests, Reconcile(r)
    PROVE  /\ Stay(r) /\ req' \in [Requests -> ReqState]
           /\ \/ /\ Reopened(r) /\ Affected(req[r].task) # {} /\ req'[r].pc = "reset"
                 /\ req'[r].task = req[r].task /\ req'[r].ask = req[r].ask /\ req'[r].seen = req[r].seen
                 /\ req'[r].new = req[r].new /\ req'[r].kids = [t \in Affected(req[r].task) |-> rows[t]]
              \/ ~(Reopened(r) /\ Affected(req[r].task) # {}) /\ Ends(r)
<1>0. req[r] \in ReqState /\ req \in [Requests -> ReqState] /\ rows \in [Tasks -> Row]
  BY Parts
<1>1. PICK ks : ks = Affected(req[r].task)
  OBVIOUS
<1>2. CASE ~(Reopened(r) /\ ks # {})
  <2>1. req' = [req EXCEPT ![r] = Idle]
    BY <1>1, <1>2 DEF Reconcile, Affected
  <2> QED
    BY <1>0, <1>1, <1>2, <2>1, EndsIs DEF Ends
<1>3. CASE Reopened(r) /\ ks # {}
  <2>1. PICK kids : kids = [t \in ks |-> rows[t]]
    OBVIOUS
  <2>2. kids \in Kids
    <3>1. ks \subseteq Tasks
      BY <1>1 DEF Affected, Dependents
    <3>2. kids \in [ks -> Row]
      BY <1>0, <2>1, <3>1
    <3> QED
      BY <3>1, <3>2 DEF Kids
  <2>3. PICK n : n = [req[r] EXCEPT !.pc = "reset", !.kids = kids]
    OBVIOUS
  <2>4. req' = [req EXCEPT ![r] = n]
    BY <1>0, <1>1, <1>3, <2>1, <2>3 DEF Reconcile, Affected
  <2>5. n \in ReqState /\ n.pc = "reset" /\ n.task = req[r].task /\ n.ask = req[r].ask /\ n.seen = req[r].seen
        /\ n.new = req[r].new /\ n.kids = kids
    BY <1>0, <2>2, <2>3 DEF ReqState, Steps
  <2> QED
    BY <1>0, <1>1, <1>3, <2>1, <2>4, <2>5 DEF Stay
<1> QED
  BY <1>2, <1>3

\* What is written to a row is a row.
LEMMA MergeType ==
    ASSUME NEW row \in Row, NEW new \in Row, NEW dirty
    PROVE  Merge(row, new, dirty) \in Row
BY DEF Merge, Row

\* Locks, as a step of r leaves them.
LockRows(r) ==
    /\ lock' \in [Tasks -> Requests \cup {None}]
    /\ \A t \in Tasks :
          \/ lock'[t] = lock[t] /\ lock[t] # r
          \/ lock'[t] = None /\ lock[t] \in {None, r}
          \/ /\ lock'[t] = r /\ lock[t] \in {None, r}
             /\ \/ req'[r].pc \in {"gates", "commit"} /\ req'[r].task = t
                \/ req'[r].pc = "reset" /\ t \in DOMAIN req'[r].kids

\* Releasing the rows of r.
LEMMA ReleaseIs ==
    ASSUME Typed, NEW r \in Requests, lock' = Release(r)
    PROVE  LockRows(r)
BY Parts DEF Release, LockRows

\* A request that holds no row leaves the locks alone.
LEMMA KeepIs ==
    ASSUME Typed, NEW r \in Requests, lock' = lock, req[r].pc \notin {"gates", "commit", "reset"}
    PROVE  LockRows(r)
BY Parts DEF LockRows, Typed, TypeOK

\* What a step of request r keeps, for r itself.
Own(r) ==
    /\ req'[r].pc # "idle" => req'[r].task \in Tasks /\ req'[r].ask \in Payload
    /\ req'[r].pc \in Later => req'[r].ask.actor # "lead"
    /\ req'[r].pc \in {"gates", "commit"} => lock'[req'[r].task] = r
    /\ req'[r].pc \in {"write", "gates", "commit"} /\ "status" \in req'[r].dirty =>
          req'[r].new.status # req'[r].seen.status
    /\ req'[r].pc = "commit" => PendingGate(r)'

\* The variables that are not about requests keep their types.
RowTypes ==
    /\ rows' \in [Tasks -> Row] /\ deps' \in [Tasks -> SUBSET Tasks] /\ pend' \subseteq Tasks
    /\ appr' \subseteq Tasks /\ said' \in [Tasks -> SUBSET (Agents \cup {"admin"})] /\ excused' \subseteq Tasks \X Tasks

\* Whatever request r does keeps the invariant when r keeps its part of it.
LEMMA OwnStep ==
    ASSUME RaceInv, NEW r \in Requests, Stay(r), req' \in [Requests -> ReqState], RowTypes, pend' = pend,
           LockRows(r), Own(r)
    PROVE  RaceInv'
<1> USE TaskBoardAssumption
<1>1. TypeOK'
  <2>1. \A q \in Requests :
          /\ req'[q].pc \in Steps /\ req'[q].task \in Tasks \cup {None} /\ req'[q].ask \in Payload \cup {None}
          /\ req'[q].seen \in Row /\ req'[q].new \in Row /\ req'[q].dirty \subseteq Fields
    BY DEF ReqState
  <2>2. \A q \in Requests : DOMAIN req'[q].kids \subseteq Tasks
    <3> SUFFICES ASSUME NEW q \in Requests PROVE DOMAIN req'[q].kids \subseteq Tasks
      OBVIOUS
    <3>1. req'[q].kids \in Kids
      BY DEF ReqState
    <3>2. PICK S \in SUBSET Tasks : req'[q].kids \in [S -> Row]
      BY <3>1 DEF Kids
    <3> QED
      BY <3>2
  <2>3. \A t \in Tasks : lock'[t] # None =>
          \/ req'[lock'[t]].pc \in {"gates", "commit"} /\ req'[lock'[t]].task = t
          \/ req'[lock'[t]].pc = "reset" /\ t \in DOMAIN req'[lock'[t]].kids
    BY DEF RaceInv, Typed, TypeOK, LockRows, Stay
  <2> QED
    BY <2>1, <2>2, <2>3 DEF TypeOK, RowTypes, LockRows, Steps
<1>2. OnTask'
  BY DEF RaceInv, OnTask, Own, Stay
<1>3. Held'
  <2> SUFFICES ASSUME NEW q \in Requests, req'[q].pc \in {"gates", "commit"}
               PROVE  lock'[req'[q].task] = q
    BY DEF Held
  <2>1. CASE q = r
    BY <2>1 DEF Own
  <2>2. CASE q # r
    <3>1. req'[q] = req[q]
      BY <2>2 DEF Stay
    <3>2. req[q].task \in Tasks /\ lock[req[q].task] = q
      BY <3>1 DEF RaceInv, OnTask, Held
    <3>3. lock'[req[q].task] = lock[req[q].task]
      BY <2>2, <3>2 DEF LockRows
    <3> QED
      BY <3>1, <3>2, <3>3
  <2> QED
    BY <2>1, <2>2
<1>4. Decided'
  BY DEF RaceInv, Decided, Own, Stay
<1>5. Gated'
  <2> SUFFICES ASSUME NEW q \in Requests, req'[q].pc = "commit"
               PROVE  PendingGate(q)'
    BY DEF Gated
  <2>1. CASE q = r
    BY <2>1 DEF Own
  <2>2. CASE q # r
    BY <2>2 DEF RaceInv, Gated, PendingGate, StatusRequested, Stay
  <2> QED
    BY <2>1, <2>2
<1> QED
  BY <1>1, <1>2, <1>3, <1>4, <1>5 DEF RaceInv, Typed

\* What a request keeps that only goes on.
LEMMA OwnMoves ==
    ASSUME RaceInv, NEW r \in Requests, NEW pc \in Steps \ {"commit"}, Moves(r, pc), req[r].pc # "idle",
           pc \in {"write", "gates"} => req[r].pc \in {"write", "gates"}, pc = "gates" => lock'[req[r].task] = r,
           pc \in Later => req[r].pc \in Later \/ req[r].ask.actor # "lead"
    PROVE  Own(r)
BY DEF Own, Moves, RaceInv, OnTask, Decided, Later

\* A request that ends keeps nothing.
LEMMA OwnEnds ==
    ASSUME NEW r \in Requests, Ends(r)
    PROVE  Own(r)
BY IdleType DEF Own, Ends, Later

\* The rows and the rest keep their types when a request only reads.
LEMMA RowsKept ==
    ASSUME Typed, rows' = rows, deps' = deps, pend' = pend, appr' = appr, said' = said, excused' = excused
    PROVE  RowTypes
BY Parts DEF RowTypes

\* The steps of a request keep the invariant.
LEMMA StepRace ==
    ASSUME RaceInv, NEW r \in Requests, Step(r) \/ Crash(r)
    PROVE  RaceInv'
<1> USE TaskBoardAssumption
<1>0. Typed /\ OnTask /\ req \in [Requests -> ReqState] /\ req[r] \in ReqState
  BY Parts DEF RaceInv
<1>1. CASE ApplyRules(r)
  <2>1. rows' = rows /\ deps' = deps /\ pend' = pend /\ appr' = appr /\ said' = said /\ lock' = lock /\ excused' = excused
        /\ req[r].pc = "rules"
    BY <1>1 DEF ApplyRules
  <2>2. /\ Stay(r) /\ req' \in [Requests -> ReqState]
        /\ \/ ~Allowed(r) /\ Ends(r)
           \/ /\ Allowed(r) /\ req'[r].pc = "write" /\ req'[r].task = req[r].task /\ req'[r].ask = req[r].ask
              /\ req'[r].seen = req[r].seen /\ req'[r].new = NewRow(r)
              /\ req'[r].dirty = Dirty(req[r].seen, NewRow(r), Stamps(r))
    BY <1>0, <1>1, ApplyIs
  <2>3. Own(r)
    <3>1. CASE Ends(r)
      BY <3>1, OwnEnds
    <3>2. CASE ~Ends(r)
      <4>1. "status" \in Dirty(req[r].seen, NewRow(r), Stamps(r)) => NewRow(r).status # req[r].seen.status
        BY DEF Dirty
      <4> QED
        BY <1>0, <2>1, <2>2, <3>2, <4>1 DEF Own, OnTask, Later
    <3> QED
      BY <3>1, <3>2
  <2> QED
    BY <1>0, <2>1, <2>2, <2>3, RowsKept, KeepIs, OwnStep
<1>2. CASE Flush(r)
  <2>1. rows' = rows /\ deps' = deps /\ pend' = pend /\ appr' = appr /\ said' = said /\ excused' = excused
        /\ req[r].pc = "write" /\ lock[req[r].task] = None /\ lock' = [lock EXCEPT ![req[r].task] = r]
        /\ req' = [req EXCEPT ![r].pc = "gates"]
    BY <1>2 DEF Flush
  <2>2. Moves(r, "gates") /\ req' \in [Requests -> ReqState]
    BY <1>0, <2>1, MovesIs DEF Steps
  <2>3. req[r].task \in Tasks
    BY <1>0, <2>1 DEF OnTask
  <2>4. lock'[req[r].task] = r
    BY <1>0, <2>1, <2>3, Parts
  <2>5. LockRows(r)
    <3>1. \A t \in Tasks : lock[t] # r
      BY <1>0, <2>1 DEF Typed, TypeOK
    <3> QED
      BY <1>0, <2>1, <2>2, <2>3, <3>1, Parts DEF LockRows, Moves
  <2>6. Own(r)
    BY <1>0, <2>1, <2>2, <2>4, OwnMoves DEF Steps, Later
  <2> QED
    BY <1>0, <2>1, <2>2, <2>5, <2>6, RowsKept, OwnStep DEF Moves
<1>3. CASE CheckGates(r)
  <2>1. rows' = rows /\ deps' = deps /\ pend' = pend /\ appr' = appr /\ said' = said /\ excused' = excused
        /\ req[r].pc = "gates"
    BY <1>3 DEF CheckGates
  <2>2. CASE PendingGate(r) /\ lock' = lock /\ req' = [req EXCEPT ![r].pc = "commit"]
    <3>1. Moves(r, "commit") /\ req' \in [Requests -> ReqState]
      BY <1>0, <2>2, MovesIs DEF Steps
    <3>2. LockRows(r)
      BY <1>0, <2>1, <2>2, <3>1, Parts DEF LockRows, Moves, Typed, TypeOK
    <3>3. PendingGate(r)'
      BY <2>1, <2>2, <3>1 DEF PendingGate, StatusRequested, Moves
    <3>4. Own(r)
      BY <1>0, <2>1, <2>2, <3>1, <3>3 DEF Own, Moves, RaceInv, OnTask, Held, Decided, Later
    <3> QED
      BY <1>0, <2>1, <3>1, <3>2, <3>4, RowsKept, OwnStep DEF Moves
  <2>3. CASE lock' = Release(r) /\ req' = [req EXCEPT ![r] = Idle]
    <3>1. Ends(r) /\ req' \in [Requests -> ReqState]
      BY <1>0, <2>3, EndsIs
    <3> QED
      BY <1>0, <2>1, <2>3, <3>1, RowsKept, OwnEnds, ReleaseIs, OwnStep DEF Ends
  <2> QED
    BY <1>3, <2>2, <2>3 DEF CheckGates
<1>4. CASE Commit(r)
  <2> DEFINE t == req[r].task
             p == req[r].ask
             row == Merge(rows[t], req[r].new, req[r].dirty)
  <2>0. t \in Tasks /\ p \in Payload /\ req[r].pc = "commit"
    BY <1>0, <1>4 DEF Commit, OnTask
  <2>1. row \in Row
    BY <1>0, <2>0, Parts, MergeType DEF ReqState
  <2>2. /\ rows' = [rows EXCEPT ![t] = row] /\ pend' = pend /\ appr' = appr /\ lock' = Release(r)
        /\ deps' = (IF p.deps = Same THEN deps ELSE [deps EXCEPT ![t] = p.deps])
    BY <1>4 DEF Commit
  <2>3. said' \in [Tasks -> SUBSET (Agents \cup {"admin"})]
    <3>1. PICK x : said' = [said EXCEPT ![t] = IF x THEN {} ELSE @]
      BY <1>4 DEF Commit
    <3> HIDE DEF t
    <3> QED
      BY <1>0, <2>0, <3>1, Parts
  <2>4. excused' \subseteq Tasks \X Tasks
    <3>1. \A e \in excused' : e \in excused \/ \E d \in Blocking(p.deps) : p.deps # Same /\ e = <<t, d>>
      BY <1>4 DEF Commit
    <3>2. p.deps # Same => Blocking(p.deps) \subseteq Tasks
      BY <2>0 DEF Payload, Blocking
    <3> HIDE DEF t, p
    <3> QED
      BY <1>0, <2>0, <3>1, <3>2, Parts
  <2>5. rows' \in [Tasks -> Row] /\ deps' \in [Tasks -> SUBSET Tasks]
    <3>1. p.deps = Same \/ p.deps \in SUBSET Tasks
      BY <2>0 DEF Payload
    <3> HIDE DEF t, p, row
    <3> QED
      BY <1>0, <2>0, <2>1, <2>2, <3>1, Parts
  <2>6. RowTypes
    BY <1>0, <2>2, <2>3, <2>4, <2>5, Parts DEF RowTypes
  <2>7. CASE req' = [req EXCEPT ![r] = Idle]
    <3>1. Ends(r) /\ req' \in [Requests -> ReqState]
      BY <1>0, <2>7, EndsIs
    <3> QED
      BY <1>0, <2>2, <2>6, <3>1, OwnEnds, ReleaseIs, OwnStep DEF Ends
  <2>8. CASE p.actor # "lead" /\ req' = [req EXCEPT ![r].pc = "refresh"]
    <3>1. Moves(r, "refresh") /\ req' \in [Requests -> ReqState]
      BY <1>0, <2>8, MovesIs DEF Steps
    <3>2. Own(r)
      BY <1>0, <2>0, <2>8, <3>1, OwnMoves DEF Steps, Later
    <3> QED
      BY <1>0, <2>2, <2>6, <3>1, <3>2, ReleaseIs, OwnStep DEF Moves
  <2>9. req' = [req EXCEPT ![r] = Idle] \/ (p.actor # "lead" /\ req' = [req EXCEPT ![r].pc = "refresh"])
    <3>1. req' = [req EXCEPT ![r] = IF p.actor = "lead" THEN Idle ELSE [@ EXCEPT !.pc = "refresh"]]
      BY <1>4 DEF Commit
    <3> QED
      BY <1>0, <3>1
  <2> QED
    BY <2>7, <2>8, <2>9
<1>5. CASE Refresh(r)
  <2>1. rows' = rows /\ deps' = deps /\ pend' = pend /\ appr' = appr /\ said' = said /\ lock' = lock /\ excused' = excused
        /\ req[r].pc = "refresh"
    BY <1>5 DEF Refresh
  <2>2. /\ Stay(r) /\ req' \in [Requests -> ReqState] /\ req'[r].pc \in {"comment", "reconcile"}
        /\ req'[r].task = req[r].task /\ req'[r].ask = req[r].ask
    BY <1>0, <1>5, RefreshIs
  <2>3. Own(r)
    BY <1>0, <2>1, <2>2 DEF Own, OnTask, Later
  <2> QED
    BY <1>0, <2>1, <2>2, <2>3, RowsKept, KeepIs, OwnStep
<1>6. CASE Comment(r)
  <2>1. rows' = rows /\ deps' = deps /\ pend' = pend /\ appr' = appr /\ lock' = lock /\ excused' = excused
        /\ req[r].pc = "comment" /\ req' = [req EXCEPT ![r].pc = "reconcile"]
        /\ said' = [said EXCEPT ![req[r].task] = @ \cup {req[r].ask.actor}]
    BY <1>6 DEF Comment
  <2>2. Moves(r, "reconcile") /\ req' \in [Requests -> ReqState]
    BY <1>0, <2>1, MovesIs DEF Steps
  <2>3. req[r].ask.actor \in Agents \cup {"admin"} /\ req[r].task \in Tasks
    BY <1>0, <2>1 DEF OnTask, Payload, Later
  <2>4. Own(r)
    BY <1>0, <2>1, <2>2, OwnMoves DEF Steps, Later
  <2>5. RowTypes
    BY <1>0, <2>1, <2>3, Parts DEF RowTypes
  <2> QED
    BY <1>0, <2>1, <2>2, <2>4, <2>5, KeepIs, OwnStep DEF Moves
<1>7. CASE Reconcile(r)
  <2>1. rows' = rows /\ deps' = deps /\ pend' = pend /\ appr' = appr /\ said' = said /\ lock' = lock /\ excused' = excused
        /\ req[r].pc = "reconcile"
    BY <1>7 DEF Reconcile
  <2>2. /\ Stay(r) /\ req' \in [Requests -> ReqState]
        /\ \/ req'[r].pc = "reset" /\ req'[r].task = req[r].task /\ req'[r].ask = req[r].ask
           \/ Ends(r)
    BY <1>0, <1>7, ReconcileIs
  <2>3. Own(r)
    BY <1>0, <2>1, <2>2, OwnEnds DEF Own, OnTask, Later
  <2> QED
    BY <1>0, <2>1, <2>2, <2>3, RowsKept, KeepIs, OwnStep
<1>8. CASE ResetDependents(r)
  <2>1. /\ deps' = deps /\ pend' = pend /\ appr' = appr /\ lock' = Release(r) /\ req[r].pc = "reset"
        /\ req' = [req EXCEPT ![r] = Idle] /\ excused' \subseteq excused
    BY <1>8 DEF ResetDependents
  <2>2. PICK ks : ks = DOMAIN req[r].kids
    OBVIOUS
  <2>3. /\ rows' = [t \in Tasks |-> IF t \in ks
                                    THEN Merge(rows[t], InInbox, Dirty(req[r].kids[t], InInbox, FALSE))
                                    ELSE rows[t]]
        /\ said' = [t \in Tasks |-> IF t \in ks THEN {} ELSE said[t]]
    BY <1>8, <2>2 DEF ResetDependents
  <2>4. \A t \in Tasks : rows'[t] \in Row
    <3>1. InInbox \in Row
      BY DEF InInbox, Row, Statuses
    <3> QED
      BY <1>0, <2>3, <3>1, Parts, MergeType
  <2>5. RowTypes
    BY <1>0, <2>1, <2>3, <2>4, Parts DEF RowTypes
  <2>6. Ends(r) /\ req' \in [Requests -> ReqState]
    BY <1>0, <2>1, EndsIs
  <2> QED
    BY <1>0, <2>1, <2>5, <2>6, OwnEnds, ReleaseIs, OwnStep DEF Ends
<1>9. CASE Crash(r)
  <2>1. /\ rows' = rows /\ deps' = deps /\ pend' = pend /\ appr' = appr /\ said' = said
        /\ lock' = Release(r) /\ req' = [req EXCEPT ![r] = Idle]
    BY <1>9 DEF Crash
  <2>2. excused' \subseteq Tasks \X Tasks
    <3>1. req[r].pc # "idle"
      BY <1>9 DEF Crash
    <3>2. req[r].task \in Tasks
      BY <1>0, <3>1 DEF OnTask
    <3>3. excused' \subseteq excused \cup {<<t, req[r].task>> : t \in Tasks}
      BY <1>9 DEF Crash, Dependents
    <3> QED
      BY <1>0, <3>2, <3>3, Parts
  <2>3. RowTypes
    BY <1>0, <2>1, <2>2, Parts DEF RowTypes
  <2>4. Ends(r) /\ req' \in [Requests -> ReqState]
    BY <1>0, <2>1, EndsIs
  <2> QED
    BY <1>0, <2>1, <2>3, <2>4, OwnEnds, ReleaseIs, OwnStep DEF Ends
<1>10. CASE TakeKid(r)
  <2>1. /\ rows' = rows /\ deps' = deps /\ pend' = pend /\ appr' = appr /\ said' = said /\ req' = req
        /\ excused' = excused /\ req[r].pc = "reset"
    BY <1>10 DEF TakeKid
  <2>2. PICK k \in DOMAIN req[r].kids : lock[k] = None /\ lock' = [lock EXCEPT ![k] = r]
    BY <1>10 DEF TakeKid, NextKids
  <2>3. \A t \in Tasks : lock[t] = r => t \in DOMAIN req[r].kids
    BY <1>0, <2>1 DEF Typed, TypeOK
  <2>4. LockRows(r)
    BY <1>0, <2>1, <2>2, <2>3, Parts DEF LockRows
  <2>5. Own(r) /\ Stay(r)
    BY <1>0, <2>1 DEF Own, OnTask, Stay
  <2> QED
    BY <1>0, <2>1, <2>4, <2>5, RowsKept, OwnStep
<1> QED
  BY <1>1, <1>2, <1>3, <1>4, <1>5, <1>6, <1>7, <1>8, <1>9, <1>10 DEF Step

\* What anybody else does, and requests that begin, keep the invariant.
LEMMA OtherRace ==
    ASSUME RaceInv, NEW t \in Tasks,
           \/ \E c \in Creates : CreateTask(t, c)
           \/ \E a \in Commenters : AddComment(t, a)
           \/ AskApproval(t) \/ DecideApproval(t) \/ Revoke(t)
           \/ \E r \in Requests, p \in Payloads : Load(r, t, p)
    PROVE  RaceInv'
<1> USE TaskBoardAssumption
<1>0. Typed /\ OnTask /\ Held
  BY DEF RaceInv
<1>1. ASSUME req' = req, lock' = lock, RowTypes, \A r \in Requests : req[r].pc = "commit" => (req[r].task \in pend' => req[r].task \in pend)
      PROVE  RaceInv'
  <2>1. TypeOK' /\ req' \in [Requests -> ReqState]
    BY <1>0, <1>1 DEF Typed, TypeOK, RowTypes
  <2>2. OnTask' /\ Held' /\ Decided'
    BY <1>1 DEF RaceInv, OnTask, Held, Decided
  <2>3. Gated'
    BY <1>1 DEF RaceInv, Gated, PendingGate, StatusRequested
  <2> QED
    BY <2>1, <2>2, <2>3 DEF RaceInv, Typed
<1>2. ASSUME NEW c \in Creates, CreateTask(t, c) PROVE RaceInv'
  <2>1. c.status \in Statuses /\ c.agent \in Agents \cup {None} /\ c.deps \subseteq Tasks
    BY <1>2
  <2>2. [status |-> c.status, agent |-> c.agent, since |-> FALSE] \in Row
    BY <2>1 DEF Row
  <2>3. RowTypes
    BY <1>0, <1>2, <2>1, <2>2, Parts DEF CreateTask, RowTypes
  <2> QED
    BY <1>1, <1>2, <2>3 DEF CreateTask
<1>3. ASSUME NEW a \in Commenters, AddComment(t, a) PROVE RaceInv'
  <2>1. RowTypes
    BY <1>0, <1>3, Parts DEF AddComment, RowTypes
  <2> QED
    BY <1>1, <1>3, <2>1 DEF AddComment
<1>4. CASE AskApproval(t)
  <2>1. RowTypes
    BY <1>0, <1>4, Parts DEF AskApproval, RowTypes
  <2>2. \A r \in Requests : req[r].pc = "commit" => req[r].task # t
    BY <1>0, <1>4 DEF AskApproval, RowFree, Held
  <2> QED
    BY <1>1, <1>4, <2>1, <2>2 DEF AskApproval
<1>5. CASE DecideApproval(t)
  <2>1. RowTypes
    BY <1>0, <1>5, Parts DEF DecideApproval, RowTypes
  <2> QED
    BY <1>1, <1>5, <2>1 DEF DecideApproval
<1>6. CASE Revoke(t)
  <2>1. RowTypes
    BY <1>0, <1>6, Parts DEF Revoke, RowTypes
  <2> QED
    BY <1>1, <1>6, <2>1 DEF Revoke
<1>7. ASSUME NEW r \in Requests, NEW p \in Payloads, Load(r, t, p) PROVE RaceInv'
  <2>1. rows' = rows /\ deps' = deps /\ pend' = pend /\ appr' = appr /\ said' = said /\ lock' = lock /\ excused' = excused
        /\ req[r].pc = "idle"
    BY <1>7 DEF Load
  <2>2. Stay(r) /\ req' \in [Requests -> ReqState] /\ req'[r].pc = "rules" /\ req'[r].task = t /\ req'[r].ask = p
    BY <1>0, <1>7, LoadIs
  <2>3. Own(r)
    BY <2>2 DEF Own, Later
  <2> QED
    BY <1>0, <2>1, <2>2, <2>3, RowsKept, KeepIs, OwnStep
<1> QED
  BY <1>2, <1>3, <1>4, <1>5, <1>6, <1>7

\* The invariant holds at the start.
LEMMA InitRace == Init => RaceInv
<1> SUFFICES ASSUME Init PROVE RaceInv
  OBVIOUS
<1>1. Absent \in Row
  BY DEF Absent, Row
<1>2. req \in [Requests -> ReqState] /\ \A r \in Requests : req[r] = Idle /\ req[r].pc = "idle"
  BY IdleType DEF Init
<1>3. \A r \in Requests : /\ req[r].task \in Tasks \cup {None} /\ req[r].ask \in Payload \cup {None}
                          /\ req[r].seen \in Row /\ req[r].new \in Row /\ req[r].dirty \subseteq Fields
                          /\ DOMAIN req[r].kids \subseteq Tasks
  <2>1. DOMAIN Idle.kids = {}
    BY IdleType
  <2> QED
    BY <1>2, <2>1, IdleType DEF ReqState
<1>4. TypeOK
  BY <1>1, <1>2, <1>3 DEF Init, TypeOK
<1> QED
  BY <1>2, <1>4 DEF RaceInv, Typed, OnTask, Held, Decided, Gated, Later

\* Every step keeps it.
LEMMA NextRace == RaceInv /\ [Next]_vars => RaceInv'
<1> SUFFICES ASSUME RaceInv, [Next]_vars PROVE RaceInv'
  OBVIOUS
<1>1. CASE Next
  BY <1>1, StepRace, OtherRace DEF Next
<1>2. CASE UNCHANGED vars
  <2>1. Typed' /\ OnTask' /\ Held' /\ Decided'
    BY <1>2 DEF vars, RaceInv, Typed, TypeOK, OnTask, Held, Decided
  <2>2. Gated'
    BY <1>2 DEF vars, RaceInv, Gated, PendingGate, StatusRequested
  <2> QED
    BY <2>1, <2>2 DEF RaceInv
<1> QED
  BY <1>1, <1>2

\* The invariant of overlapping requests.
THEOREM RaceInvariance == Spec => []RaceInv
BY InitRace, NextRace, PTL DEF Spec

\* Every variable keeps its type however requests overlap and are cut off; in particular
\* a row lock belongs to a request between its flush and its commit (get_session).
THEOREM TypeCorrect == Spec => []TypeOK
<1>1. RaceInv => TypeOK
  BY DEF RaceInv, Typed
<1> QED
  BY <1>1, RaceInvariance, PTL

\* However requests overlap, no status change that was asked for is committed while an
\* approval of the task is pending: the gate reads under the row lock that the approvals
\* API waits for (lock_tasks_for_approval).
THEOREM PendingGateHolds == Spec => PendingHolds
<1> DEFINE A == \A r \in Requests :
                  req[r].pc = "commit" /\ req'[r].pc # "commit" /\ StatusRequested(r)
                     /\ rows'[req[r].task].status # rows[req[r].task].status /\ "pending" \in Rules
                     => req[r].task \notin pend
<1>1. RaceInv /\ [Next]_vars => [A]_vars
  <2> SUFFICES ASSUME RaceInv, Next, NEW r \in Requests,
                      req[r].pc = "commit", req'[r].pc # "commit", StatusRequested(r),
                      rows'[req[r].task].status # rows[req[r].task].status, "pending" \in Rules
               PROVE  req[r].task \notin pend
    OBVIOUS
  <2>0. Typed /\ OnTask /\ req \in [Requests -> ReqState] /\ rows \in [Tasks -> Row] /\ req[r].task \in Tasks
    BY Parts DEF RaceInv, OnTask
  <2>1. Commit(r)
    <3>1. ASSUME NEW q \in Requests, Step(q) \/ Crash(q) PROVE Commit(r)
      <4>1. CASE q = r
        BY <3>1, <4>1 DEF Step, Crash, ApplyRules, Flush, CheckGates, Refresh, Comment, Reconcile,
             TakeKid, ResetDependents
      <4>2. CASE q # r
        <5>1. req'[r] = req[r]
          BY <2>0, <3>1, <4>2 DEF Step, Crash, ApplyRules, Flush, CheckGates, Commit, Refresh, Comment, Reconcile,
             TakeKid, ResetDependents
        <5> QED
          BY <5>1
      <4> QED
        BY <4>1, <4>2
    <3>2. ASSUME NEW t \in Tasks,
                 \/ \E c \in Creates : CreateTask(t, c)
                 \/ \E a \in Commenters : AddComment(t, a)
                 \/ AskApproval(t) \/ DecideApproval(t) \/ Revoke(t)
                 \/ \E q \in Requests, p \in Payloads : Load(q, t, p)
          PROVE  Commit(r)
      <4>1. req'[r] = req[r]
        BY <2>0, <3>2 DEF CreateTask, AddComment, AskApproval, DecideApproval, Revoke, Load
      <4> QED
        BY <4>1
    <3> QED
      BY <3>1, <3>2 DEF Next
  <2>2. rows'[req[r].task] = Merge(rows[req[r].task], req[r].new, req[r].dirty)
    BY <2>0, <2>1 DEF Commit
  <2>3. "status" \in req[r].dirty
    BY <2>2 DEF Merge
  <2>4. req[r].new.status # req[r].seen.status
    BY <2>3 DEF RaceInv, Decided
  <2>5. PendingGate(r)
    BY DEF RaceInv, Gated
  <2> QED
    BY <2>4, <2>5 DEF PendingGate
<1> QED
  BY <1>1, RaceInvariance, PTL DEF Spec, PendingHolds

-----------------------------------------------------------------------------
(* The order in which a reset takes the rows of the dependents *)

\* A request that resets dependents has every row that comes before one it has.
KidOrder ==
    \A r \in Requests, t \in Tasks : req[r].pc = "reset" /\ lock[t] = r =>
        \A u \in DOMAIN req[r].kids : u < t => lock[u] = r

\* Only the locks of the request that steps change.
LEMMA StepKidOrder ==
    ASSUME RaceInv, RaceInv', KidOrder, NEW r \in Requests, Step(r) \/ Crash(r)
    PROVE  KidOrder'
<1> USE TaskBoardAssumption
<1>0. /\ Typed /\ Typed' /\ lock \in [Tasks -> Requests \cup {None}] /\ req \in [Requests -> ReqState]
      /\ \A q \in Requests : DOMAIN req[q].kids \subseteq Tasks
  BY Parts DEF RaceInv, Typed, TypeOK
<1>1. Stay(r)
  BY <1>0 DEF Step, Crash, ApplyRules, Flush, CheckGates, Commit, Refresh, Comment, Reconcile, TakeKid,
     ResetDependents, Stay
<1>2. /\ \A t \in Tasks : lock[t] # r /\ lock[t] # None => lock'[t] = lock[t]
      /\ \A t \in Tasks : lock'[t] \in {lock[t], r, None}
  <2>1. \/ lock' = lock \/ lock' = Release(r)
        \/ \E k : lock[k] = None /\ lock' = [lock EXCEPT ![k] = r]
    BY DEF Step, Crash, ApplyRules, Flush, CheckGates, Commit, Refresh, Comment, Reconcile, TakeKid, ResetDependents
  <2> QED
    BY <1>0, <2>1 DEF Release
<1>3. ASSUME NEW q \in Requests, NEW t \in Tasks, req'[q].pc = "reset", lock'[t] = q,
             NEW u \in DOMAIN req'[q].kids, u < t
      PROVE  lock'[u] = q
  <2>1. CASE q # r
    <3>1. req'[q] = req[q]
      BY <1>1, <2>1 DEF Stay
    <3>2. lock[t] = q /\ u \in Tasks
      BY <1>0, <1>2, <1>3, <2>1, <3>1
    <3>3. lock[u] = q
      BY <1>3, <3>1, <3>2 DEF KidOrder
    <3> QED
      BY <1>2, <2>1, <3>2, <3>3
  <2>2. CASE q = r
    <3>1. CASE TakeKid(r)
      <4>1. req' = req
        BY <3>1 DEF TakeKid
      <4>2. PICK k \in DOMAIN req[r].kids :
               lock' = [lock EXCEPT ![k] = r] /\ \A v \in DOMAIN req[r].kids : v < k => lock[v] = r
        BY <3>1 DEF TakeKid, NextKids
      <4> QED
        BY <1>0, <1>3, <2>2, <4>1, <4>2 DEF KidOrder
    <3>2. CASE Reconcile(r)
      <4>1. req[r].pc = "reconcile" /\ lock' = lock
        BY <3>2 DEF Reconcile
      <4> QED
        BY <1>0, <1>3, <2>2, <4>1 DEF Typed, TypeOK
    <3>3. CASE ~TakeKid(r) /\ ~Reconcile(r)
      <4>1. req'[r].pc # "reset"
        <5>2. CASE ApplyRules(r) \/ Refresh(r)
          BY <1>0, <5>2, ApplyIs, RefreshIs, IdleType DEF RaceInv, Ends
        <5>3. CASE Flush(r) \/ Comment(r)
          <6>1. \E pc \in {"gates", "reconcile"} : req' = [req EXCEPT ![r].pc = pc]
            BY <5>3 DEF Flush, Comment
          <6> QED
            BY <1>0, <6>1 DEF ReqState
        <5>4. CASE CheckGates(r) \/ Commit(r)
          <6>1. req' = [req EXCEPT ![r] = Idle] \/ \E pc \in {"commit", "refresh"} : req' = [req EXCEPT ![r].pc = pc]
            <7>1. CASE CheckGates(r)
              BY <7>1 DEF CheckGates
            <7>2. CASE Commit(r)
              <8>1. req' = [req EXCEPT ![r] = IF req[r].ask.actor = "lead" THEN Idle ELSE [@ EXCEPT !.pc = "refresh"]]
                BY <7>2 DEF Commit
              <8> QED
                BY <1>0, <8>1
            <7> QED
              BY <5>4, <7>1, <7>2
          <6> QED
            BY <1>0, <6>1, IdleType DEF ReqState
        <5>5. CASE Crash(r) \/ ResetDependents(r)
          BY <1>0, <5>5, IdleType DEF Crash, ResetDependents
        <5> QED
          BY <3>3, <5>2, <5>3, <5>4, <5>5 DEF Step
      <4> QED
        BY <1>3, <2>2, <4>1
    <3> QED
      BY <3>1, <3>2, <3>3
  <2> QED
    BY <2>1, <2>2
<1> QED
  BY <1>3 DEF KidOrder

\* Every step keeps the order.
LEMMA NextKidOrder == RaceInv /\ RaceInv' /\ KidOrder /\ [Next]_vars => KidOrder'
<1> SUFFICES ASSUME RaceInv, RaceInv', KidOrder, [Next]_vars PROVE KidOrder'
  OBVIOUS
<1>0. Typed /\ req \in [Requests -> ReqState]
  BY Parts DEF RaceInv
<1>1. CASE UNCHANGED vars
  BY <1>1 DEF vars, KidOrder
<1>2. ASSUME NEW r \in Requests, Step(r) \/ Crash(r) PROVE KidOrder'
  BY <1>2, StepKidOrder
<1>3. ASSUME NEW t \in Tasks,
             \/ \E c \in Creates : CreateTask(t, c)
             \/ \E a \in Commenters : AddComment(t, a)
             \/ AskApproval(t) \/ DecideApproval(t) \/ Revoke(t)
      PROVE  KidOrder'
  <2>1. req' = req /\ lock' = lock
    BY <1>3 DEF CreateTask, AddComment, AskApproval, DecideApproval, Revoke
  <2> QED
    BY <2>1 DEF KidOrder
<1>4. ASSUME NEW t \in Tasks, NEW r \in Requests, NEW p \in Payloads, Load(r, t, p) PROVE KidOrder'
  <2>1. Stay(r) /\ req'[r].pc = "rules"
    BY <1>0, <1>4, LoadIs
  <2>2. lock' = lock
    BY <1>4 DEF Load
  <2> QED
    BY <2>1, <2>2 DEF KidOrder, Stay
<1> QED
  BY <1>1, <1>2, <1>3, <1>4 DEF Next

\* Updates that wait for rows never wait in a circle: one that waits and is waited for
\* resets dependents, whose rows it takes in the order of their ids, so along a circle the
\* rows waited for would grow without end (_record_task_update_activity).
THEOREM UpdatesNeverCircle ==
    ASSUME \A S \in SUBSET Tasks : S # {} => \E x \in S : \A y \in S : y <= x
    PROVE  Spec => []NoUpdateCircle
<1>1. Init => KidOrder
  BY IdleType DEF Init, KidOrder
<1>2. RaceInv /\ KidOrder => NoUpdateCircle
  <2> SUFFICES ASSUME RaceInv, KidOrder, NEW S \in SUBSET Requests, S # {},
                      \A r \in S : WaitsFor(r) \cap S # {}
               PROVE  FALSE
    BY DEF NoUpdateCircle
  <2> USE TaskBoardAssumption
  <2>0. /\ lock \in [Tasks -> Requests \cup {None}]
        /\ \A r \in Requests : DOMAIN req[r].kids \subseteq Tasks
        /\ \A t \in Tasks : lock[t] # None => req[lock[t]].pc \in {"gates", "commit", "reset"}
    BY DEF RaceInv, Typed, TypeOK
  <2> DEFINE Waits(r, q, t) == t \in Wanted(r) /\ lock[t] = q /\ q # r
  <2>1. \A r \in S : \E q \in S : \E t \in Wanted(r) : Waits(r, q, t)
    BY DEF WaitsFor
  <2>2. \A r \in S : Wanted(r) \subseteq Tasks
    <3>1. \A r \in S : req[r].pc = "write" => req[r].task \in Tasks
      BY DEF RaceInv, OnTask
    <3> QED
      BY <2>0, <3>1 DEF Wanted, NextKids
  <2> HIDE DEF Waits
  <2>3. \A r \in S : \E q \in S : \E t \in Tasks : Waits(r, q, t)
    BY <2>1, <2>2
  <2> DEFINE Awaited == {t \in Tasks : \E r \in S : \E q \in S : Waits(r, q, t)}
  <2>4. Awaited # {}
    BY <2>3
  <2>5. PICK x \in Awaited : \A y \in Awaited : y <= x
    BY <2>4
  <2>6. PICK r \in S, q \in S : Waits(r, q, x)
    BY <2>5
  <2>7. PICK z \in S, y \in Tasks : Waits(q, z, y)
    BY <2>3
  <2>8. y <= x
    BY <2>5, <2>7
  <2>9. x \in Nat /\ y \in Nat /\ x \in Tasks
    BY <2>5, <2>7
  <2>10. req[q].pc = "reset"
    BY <2>0, <2>6, <2>7, <2>9 DEF Waits, Wanted
  <2>11. y \in NextKids(q) /\ lock[y] # q /\ lock[x] = q
    BY <2>6, <2>7, <2>10 DEF Waits, Wanted
  <2>12. y \in DOMAIN req[q].kids
    BY <2>11 DEF NextKids
  <2>13. ~(y < x)
    BY <2>9, <2>10, <2>11, <2>12 DEF KidOrder
  <2>14. x = y
    BY <2>8, <2>9, <2>13
  <2> QED
    BY <2>11, <2>14
<1> QED
  BY <1>1, <1>2, NextKidOrder, RaceInvariance, PTL DEF Spec

-----------------------------------------------------------------------------
(* The invariant when requests run one at a time *)

\* One request is under way.
Alone == \A r, q \in Requests : req[r].pc # "idle" /\ req[q].pc # "idle" => r = q

\* What a request that was allowed may ask, by its sender.
Fit(r) ==
    LET p == req[r].ask
        s == req[r].seen
    IN  /\ p.actor \in {"lead", "admin"} /\ p.deps # Same => s.status # "done"
        /\ p.actor = "lead" =>
              /\ Blocking(EffectiveDeps(r)) # {} => p.agent = Same /\ p.status = Same
              /\ p.status # Same => s.status = "review" /\ p.status \in {"done", "inbox"}
        /\ p.actor \in Agents => AgentAllowed(r)

\* What the request under way has read and decided is still so.
Fresh ==
    \A r \in Requests :
        /\ req[r].pc \in {"rules", "write", "gates", "commit"} => req[r].seen = rows[req[r].task]
        /\ req[r].pc \in {"write", "gates", "commit"} =>
              /\ Fit(r) /\ req[r].new = NewRow(r)
              /\ req[r].dirty = Dirty(req[r].seen, NewRow(r), Stamps(r))
        /\ req[r].pc = "commit" => DoneGate(r)
        /\ req[r].pc \in {"comment", "reconcile", "reset"} => req[r].new = rows[req[r].task]
        /\ req[r].pc = "reset" =>
              req[r].seen.status = "done" /\ req[r].kids = [t \in Affected(req[r].task) |-> rows[t]]

SerialInv == RaceInv /\ Alone /\ Fresh /\ Ready /\ Stamped

\* The rules of every sender allow only what Fit says.
LEMMA AllowedFits ==
    ASSUME NEW r \in Requests, req[r].ask \in Payload, Allowed(r)
    PROVE  Fit(r)
BY TaskBoardAssumption DEF Allowed, Fit, LeadAllowed, DepsAllowed, Payload

\* What was decided depends on the request and on the rows and dependencies only.
LEMMA Decision ==
    ASSUME NEW r \in Requests, rows' = rows, deps' = deps, req'[r].task = req[r].task, req'[r].ask = req[r].ask,
           req'[r].seen = req[r].seen
    PROVE  /\ Fit(r) => Fit(r)'
           /\ NewRow(r)' = NewRow(r) /\ (Stamps(r)' <=> Stamps(r))
<1>1. EffectiveDeps(r)' = EffectiveDeps(r)
  BY DEF EffectiveDeps
<1>2. \A ds : Blocking(ds)' = Blocking(ds)
  BY DEF Blocking
<1>3. AgentAllowed(r)' <=> AgentAllowed(r)
  BY <1>2 DEF AgentAllowed
<1>4. Blocking(EffectiveDeps(r))' = Blocking(EffectiveDeps(r))
  BY <1>1, <1>2 DEF Blocking
<1>5. Fit(r) => Fit(r)'
  BY <1>3, <1>4 DEF Fit
<1>6. ForcedReset(r)' <=> ForcedReset(r)
  BY <1>4 DEF ForcedReset
<1>7. AdminRow(r)' = AdminRow(r)
  BY <1>6 DEF AdminRow
<1>8. LeadRow(r)' = LeadRow(r)
  BY DEF LeadRow
<1>9. AgentRow(r)' = AgentRow(r)
  BY DEF AgentRow
<1>10. NewRow(r)' = NewRow(r)
  BY <1>7, <1>8, <1>9 DEF NewRow
<1> QED
  BY <1>5, <1>10 DEF Stamps

\* A row that is what was read becomes what was decided.
LEMMA Rewritten ==
    ASSUME NEW row \in Row, NEW new \in Row, NEW stamped
    PROVE  Merge(row, new, Dirty(row, new, stamped)) = new
BY DEF Merge, Dirty, Row, Fields

\* A decided row keeps in_progress_at only when the task is worked on or done.
LEMMA NewRowStamped ==
    ASSUME Typed, NEW r \in Requests, req[r].ask \in Payload, Fit(r),
           req[r].seen.since => req[r].seen.status \in {"in_progress", "done"}
    PROVE  NewRow(r).since => NewRow(r).status \in {"in_progress", "done"}
<1> USE TaskBoardAssumption
<1>0. req[r].seen \in Row
  BY Parts DEF ReqState
<1>1. CASE req[r].ask.actor = "lead"
  BY <1>0, <1>1 DEF NewRow, LeadRow, Fit, InInbox, Row
<1>2. CASE req[r].ask.actor = "admin"
  BY <1>0, <1>2 DEF NewRow, AdminRow, InInbox, Row, Payload, Statuses
<1>3. CASE req[r].ask.actor \in Agents
  BY <1>0, <1>3 DEF NewRow, AgentRow, InInbox, Row, Payload, Statuses
<1> QED
  BY <1>1, <1>2, <1>3 DEF Payload

\* A request makes a task active, or done, only when nothing blocks it and it asks for
\* that status.
LEMMA Unblocked ==
    ASSUME Typed, NEW r \in Requests, req[r].ask \in Payload, Fit(r)
    PROVE  /\ req[r].seen.status \notin {"in_progress", "review"} /\ NewRow(r).status \in {"in_progress", "review"} =>
                Blocking(EffectiveDeps(r)) = {} /\ req[r].ask.actor # "lead"
           /\ req[r].seen.status # "done" /\ NewRow(r).status = "done" =>
                Blocking(EffectiveDeps(r)) = {} /\ req[r].ask.status = "done"
           /\ req[r].seen.status = "done" /\ NewRow(r).status # "done" => req[r].ask.actor # "lead"
<1> USE TaskBoardAssumption
<1>0. req[r].seen \in Row
  BY Parts DEF ReqState
<1>1. CASE req[r].ask.actor = "lead"
  <2>1. NewRow(r).status = IF req[r].ask.status = Same THEN req[r].seen.status ELSE req[r].ask.status
    BY <1>0, <1>1 DEF NewRow, LeadRow, InInbox, Row, Statuses
  <2>2. CASE req[r].ask.status = Same
    BY <2>1, <2>2
  <2>3. CASE req[r].ask.status # Same
    <3>1. Blocking(EffectiveDeps(r)) = {} /\ req[r].seen.status = "review" /\ req[r].ask.status \in {"done", "inbox"}
      BY <1>1, <2>3 DEF Fit
    <3> QED
      BY <2>1, <2>3, <3>1
  <2> QED
    BY <2>2, <2>3
<1>2. CASE req[r].ask.actor = "admin"
  BY <1>0, <1>2 DEF NewRow, AdminRow, ForcedReset, InInbox, Row, Payload, Statuses
<1>3. CASE req[r].ask.actor \in Agents
  <2>1. Blocking(EffectiveDeps(r)) = Blocking(deps[req[r].task])
    BY <1>3 DEF Fit, AgentAllowed, EffectiveDeps
  <2> QED
    BY <1>0, <1>3, <2>1 DEF NewRow, AgentRow, Fit, AgentAllowed, InInbox, Row, Payload, Statuses
<1> QED
  BY <1>1, <1>2, <1>3 DEF Payload

-----------------------------------------------------------------------------
(* One request at a time *)

\* While a request is under way nobody else acts, and no other request is under way.
LEMMA OneAtATime ==
    ASSUME Alone, NEW r \in Requests, req[r].pc # "idle"
    PROVE  /\ \A q \in Requests : q # r => req[q].pc = "idle"
           /\ ~Overlap => ~Quiet
BY DEF Alone, Quiet

\* The request under way stays the only one.
LEMMA AloneStays ==
    ASSUME Alone, NEW r \in Requests, req[r].pc # "idle", Stay(r)
    PROVE  Alone'
BY DEF Alone, Stay

\* A reset of d by a request that reopened it is still to come.
Coming(d) == \E r \in Requests : /\ req[r].task = d /\ req[r].pc \in Later /\ req[r].seen.status = "done"

\* What the rows leave of Ready when no request is at its commit.
LEMMA ReadyIs ==
    Ready <=> \A t \in Tasks : \A d \in deps[t] :
                 Active(t) /\ rows[d].status # "done" => <<t, d>> \in excused \/ Coming(d)
BY DEF Ready, Coming, Later

\* Fresh for the request that steps is Fresh for all: the others are idle.
LEMMA FreshOf ==
    ASSUME Alone, NEW r \in Requests, req[r].pc # "idle", Stay(r),
           /\ req'[r].pc \in {"rules", "write", "gates", "commit"} => req'[r].seen = rows'[req'[r].task]
           /\ req'[r].pc \in {"write", "gates", "commit"} =>
                 /\ Fit(r)' /\ req'[r].new = NewRow(r)'
                 /\ req'[r].dirty = Dirty(req[r].seen, NewRow(r), Stamps(r))'
           /\ req'[r].pc = "commit" => DoneGate(r)'
           /\ req'[r].pc \in {"comment", "reconcile", "reset"} => req'[r].new = rows'[req'[r].task]
           /\ req'[r].pc = "reset" =>
                 req'[r].seen.status = "done" /\ req'[r].kids = [t \in Affected(req[r].task)' |-> rows'[t]]
    PROVE  Fresh'
<1>1. \A q \in Requests : q # r => req'[q].pc = "idle"
  BY OneAtATime DEF Stay
<1> QED
  BY <1>1 DEF Fresh

\* Reading leaves Ready and Stamped alone.
LEMMA ReadyReading ==
    ASSUME Ready, Stamped, NEW r \in Requests, Stay(r), rows' = rows, deps' = deps, excused' = excused,
           req[r].pc \in Later => req'[r].pc \in Later /\ req'[r].task = req[r].task /\ req'[r].seen = req[r].seen
    PROVE  Ready' /\ Stamped'
<1>1. \A d : Coming(d) => Coming(d)'
  BY DEF Coming, Stay
<1>2. Stamped'
  BY DEF Stamped
<1>3. Ready'
  BY <1>1, ReadyIs DEF Ready, Active, Coming, Later
<1> QED
  BY <1>2, <1>3

\* The steps of a request that only read keep the invariant.
LEMMA SerialReading ==
    ASSUME SerialInv, RaceInv', NEW r \in Requests,
           ApplyRules(r) \/ Flush(r) \/ CheckGates(r) \/ Refresh(r) \/ Comment(r)
    PROVE  SerialInv'
<1>0. /\ Typed /\ OnTask /\ Alone /\ Fresh /\ Ready /\ Stamped
      /\ req \in [Requests -> ReqState] /\ rows \in [Tasks -> Row]
  BY Parts DEF SerialInv, RaceInv
<1>1. req[r].pc # "idle" /\ rows' = rows /\ deps' = deps /\ appr' = appr /\ excused' = excused
  BY DEF ApplyRules, Flush, CheckGates, Refresh, Comment
<1>2. req[r].task \in Tasks /\ req[r].ask \in Payload
  BY <1>0, <1>1 DEF OnTask
<1>3. ASSUME Stay(r), Fresh', req[r].pc \in Later => req'[r].pc \in Later /\ req'[r].task = req[r].task /\ req'[r].seen = req[r].seen
      PROVE  SerialInv'
  BY <1>0, <1>1, <1>3, AloneStays, ReadyReading DEF SerialInv
<1>4. CASE ApplyRules(r)
  <2>1. req[r].pc = "rules"
    BY <1>4 DEF ApplyRules
  <2>2. /\ Stay(r)
        /\ \/ Ends(r)
           \/ /\ Allowed(r) /\ req'[r].pc = "write" /\ req'[r].task = req[r].task /\ req'[r].ask = req[r].ask
              /\ req'[r].seen = req[r].seen /\ req'[r].new = NewRow(r)
              /\ req'[r].dirty = Dirty(req[r].seen, NewRow(r), Stamps(r))
    BY <1>0, <1>4, ApplyIs
  <2>3. CASE Ends(r)
    BY <1>0, <1>1, <1>3, <2>1, <2>2, <2>3, IdleType, FreshOf DEF Ends, Later
  <2>4. CASE ~Ends(r)
    <3>1. Fit(r)
      BY <1>2, <2>2, <2>4, AllowedFits
    <3>2. Fit(r)' /\ NewRow(r)' = NewRow(r) /\ (Stamps(r)' <=> Stamps(r))
      BY <1>1, <2>2, <2>4, <3>1, Decision
    <3>3. Dirty(req[r].seen, NewRow(r), Stamps(r))' = Dirty(req[r].seen, NewRow(r), Stamps(r))
      BY <2>2, <2>4, <3>2 DEF Dirty
    <3>4. req'[r].seen = rows'[req'[r].task]
      BY <1>0, <1>1, <2>1, <2>2, <2>4 DEF Fresh
    <3>5. Fresh'
      BY <1>0, <1>1, <2>2, <2>4, <3>2, <3>3, <3>4, FreshOf
    <3> QED
      BY <1>3, <2>1, <2>2, <3>5 DEF Later
  <2> QED
    BY <2>3, <2>4
<1>5. CASE Flush(r) \/ CheckGates(r)
  <2>1. req[r].pc \in {"write", "gates"} /\ (Moves(r, "gates") \/ (Moves(r, "commit") /\ DoneGate(r)) \/ Ends(r))
    BY <1>0, <1>5, MovesIs, EndsIs DEF Flush, CheckGates, Steps
  <2>2. CASE Ends(r)
    BY <1>0, <1>1, <1>3, <2>1, <2>2, IdleType, FreshOf DEF Ends, Later
  <2>3. CASE Moves(r, "gates") \/ (Moves(r, "commit") /\ DoneGate(r))
    <3>0. /\ Stay(r) /\ req'[r].pc \in {"gates", "commit"} /\ req'[r].task = req[r].task /\ req'[r].ask = req[r].ask
          /\ req'[r].seen = req[r].seen /\ req'[r].new = req[r].new /\ req'[r].dirty = req[r].dirty
          /\ req'[r].pc = "commit" => DoneGate(r)
      BY <2>3 DEF Moves
    <3>1. /\ Fit(r) /\ req[r].new = NewRow(r) /\ req[r].dirty = Dirty(req[r].seen, NewRow(r), Stamps(r))
          /\ req[r].seen = rows[req[r].task]
      BY <1>0, <2>1 DEF Fresh
    <3>2. Fit(r)' /\ NewRow(r)' = NewRow(r) /\ (Stamps(r)' <=> Stamps(r))
      BY <1>1, <3>0, <3>1, Decision
    <3>3. Dirty(req[r].seen, NewRow(r), Stamps(r))' = Dirty(req[r].seen, NewRow(r), Stamps(r))
      BY <3>0, <3>2 DEF Dirty
    <3>4. DoneGate(r)' <=> DoneGate(r)
      BY <1>1, <3>0 DEF DoneGate, EntersDone
    <3>5. Fresh'
      BY <1>0, <1>1, <3>0, <3>1, <3>2, <3>3, <3>4, FreshOf
    <3> QED
      BY <1>3, <2>1, <3>0, <3>5 DEF Later
  <2> QED
    BY <2>1, <2>2, <2>3
<1>6. CASE Refresh(r)
  <2>1. /\ Stay(r) /\ req'[r].pc \in {"comment", "reconcile"}
        /\ req'[r].task = req[r].task /\ req'[r].ask = req[r].ask /\ req'[r].seen = req[r].seen
        /\ req'[r].new = rows[req[r].task]
    BY <1>0, <1>6, RefreshIs
  <2>2. Fresh'
    BY <1>0, <1>1, <2>1, FreshOf
  <2> QED
    BY <1>3, <2>1, <2>2 DEF Later
<1>7. CASE Comment(r)
  <2>1. Moves(r, "reconcile") /\ req[r].pc = "comment"
    BY <1>0, <1>7, MovesIs DEF Comment, Steps
  <2>2. req[r].new = rows[req[r].task]
    BY <1>0, <2>1 DEF Fresh
  <2>3. Fresh'
    BY <1>0, <1>1, <2>1, <2>2, FreshOf DEF Moves
  <2> QED
    BY <1>3, <2>1, <2>3 DEF Moves, Later
<1> QED
  BY <1>4, <1>5, <1>6, <1>7

\* What a commit changes, when requests run one at a time.
LEMMA CommitIs ==
    ASSUME SerialInv, NEW r \in Requests, Commit(r)
    PROVE  /\ req[r].pc = "commit" /\ req[r].task \in Tasks /\ req[r].ask \in Payload /\ Fit(r)
           /\ req[r].seen = rows[req[r].task] /\ DoneGate(r) /\ PendingGate(r)
           /\ rows' = [rows EXCEPT ![req[r].task] = NewRow(r)] /\ req[r].new = NewRow(r) /\ NewRow(r) \in Row
           /\ Merge(rows[req[r].task], req[r].new, req[r].dirty) = NewRow(r)
           /\ deps' = [deps EXCEPT ![req[r].task] = EffectiveDeps(r)]
           /\ Moves(r, "refresh") \/ (req[r].ask.actor = "lead" /\ Ends(r))
<1>0. /\ Typed /\ OnTask /\ Alone /\ Fresh /\ Gated
      /\ req \in [Requests -> ReqState] /\ rows \in [Tasks -> Row] /\ deps \in [Tasks -> SUBSET Tasks]
  BY Parts DEF SerialInv, RaceInv
<1>1. req[r].pc = "commit" /\ req[r].task \in Tasks /\ req[r].ask \in Payload
  BY <1>0 DEF Commit, OnTask
<1>2. /\ Fit(r) /\ req[r].new = NewRow(r) /\ req[r].dirty = Dirty(req[r].seen, NewRow(r), Stamps(r))
      /\ req[r].seen = rows[req[r].task] /\ DoneGate(r) /\ PendingGate(r)
  BY <1>0, <1>1 DEF Fresh, Gated
<1>3. NewRow(r) \in Row /\ rows[req[r].task] \in Row
  BY <1>0, <1>1, NewRowType
<1>4. Merge(rows[req[r].task], req[r].new, req[r].dirty) = NewRow(r)
  BY <1>2, <1>3, Rewritten
<1>5. rows' = [rows EXCEPT ![req[r].task] = NewRow(r)]
  BY <1>4 DEF Commit
<1>6. deps' = [deps EXCEPT ![req[r].task] = EffectiveDeps(r)]
  <2>1. CASE req[r].ask.deps = Same
    <3>1. deps' = deps /\ EffectiveDeps(r) = deps[req[r].task]
      BY <2>1 DEF Commit, EffectiveDeps
    <3> QED
      BY <1>0, <1>1, <3>1
  <2>2. CASE req[r].ask.deps # Same
    BY <2>2 DEF Commit, EffectiveDeps
  <2> QED
    BY <2>1, <2>2
<1>7. req' = [req EXCEPT ![r] = IF req[r].ask.actor = "lead" THEN Idle ELSE [@ EXCEPT !.pc = "refresh"]]
  BY DEF Commit
<1>8. Moves(r, "refresh") \/ (req[r].ask.actor = "lead" /\ Ends(r))
  <2>1. CASE req[r].ask.actor = "lead"
    <3>1. req' = [req EXCEPT ![r] = Idle]
      BY <1>7, <2>1
    <3> QED
      BY <1>0, <2>1, <3>1, EndsIs
  <2>2. CASE req[r].ask.actor # "lead"
    <3>1. req' = [req EXCEPT ![r].pc = "refresh"]
      BY <1>0, <1>7, <2>2
    <3> QED
      BY <1>0, <3>1, MovesIs DEF Steps
  <2> QED
    BY <2>1, <2>2
<1> QED
  BY <1>1, <1>2, <1>3, <1>4, <1>5, <1>6, <1>8

\* Which exceptions a commit keeps and adds.
LEMMA CommitExcuses ==
    ASSUME NEW r \in Requests, Commit(r), NEW u, NEW d,
           \/ <<u, d>> \in excused
           \/ /\ u = req[r].task /\ req[r].ask.deps # Same /\ d \in Blocking(req[r].ask.deps)
              /\ Merge(rows[req[r].task], req[r].new, req[r].dirty).status \in {"in_progress", "review"},
           u = req[r].task =>
              Merge(rows[req[r].task], req[r].new, req[r].dirty).status \in {"in_progress", "review"},
           d = req[r].task => Merge(rows[req[r].task], req[r].new, req[r].dirty).status # "done"
    PROVE  <<u, d>> \in excused'
<1> DEFINE t == req[r].task
           row == Merge(rows[t], req[r].new, req[r].dirty)
           late == IF req[r].ask.deps = Same \/ row.status \notin {"in_progress", "review"} THEN {}
                   ELSE {<<t, x>> : x \in Blocking(req[r].ask.deps)}
<1>1. excused' = {e \in excused \cup late : /\ e[1] = t => row.status \in {"in_progress", "review"}
                                            /\ e[2] = t => row.status # "done"}
  BY DEF Commit
<1>2. <<u, d>> \in excused \cup late
  OBVIOUS
<1> HIDE DEF row, late, t
<1>3. (u = t => row.status \in {"in_progress", "review"}) /\ (d = t => row.status # "done")
  BY DEF row, t
<1> QED
  BY <1>1, <1>2, <1>3

\* A commit keeps the invariant: a task that becomes active is not blocked, and one that
\* is reopened has its dependents reset by the same request.
LEMMA SerialCommit ==
    ASSUME SerialInv, RaceInv', NEW r \in Requests, Commit(r)
    PROVE  SerialInv'
<1> USE TaskBoardAssumption
<1>0. /\ Typed /\ Alone /\ Ready /\ Stamped /\ rows \in [Tasks -> Row] /\ deps \in [Tasks -> SUBSET Tasks]
  BY Parts DEF SerialInv, RaceInv
<1>1. PICK t, p, s, new, ds :
        t = req[r].task /\ p = req[r].ask /\ s = req[r].seen /\ new = NewRow(r) /\ ds = EffectiveDeps(r)
  OBVIOUS
<1>2. /\ req[r].pc = "commit" /\ t \in Tasks /\ p \in Payload /\ Fit(r) /\ s = rows[t]
      /\ rows' = [rows EXCEPT ![t] = new] /\ new \in Row /\ deps' = [deps EXCEPT ![t] = ds]
      /\ Moves(r, "refresh") \/ (p.actor = "lead" /\ Ends(r))
  BY <1>1, CommitIs
<1>3. Stay(r) /\ req'[r].pc \in {"refresh", "idle"}
  BY <1>2, IdleType DEF Moves, Ends
<1>4. Alone'
  BY <1>0, <1>2, <1>3, AloneStays
<1>5. Fresh'
  BY <1>0, <1>2, <1>3, FreshOf
<1>6. rows'[t] = new /\ (\A u \in Tasks : u # t => rows'[u] = rows[u]) /\ rows[t] \in Row
  BY <1>0, <1>2
<1>7. deps'[t] = ds /\ \A u \in Tasks : u # t => deps'[u] = deps[u]
  BY <1>0, <1>2
<1>8. Stamped'
  <2>1. rows[t].since => rows[t].status \in {"in_progress", "done"}
    BY <1>0, <1>2 DEF Stamped
  <2>2. new.since => new.status \in {"in_progress", "done"}
    BY <1>0, <1>1, <1>2, <2>1, NewRowStamped
  <2> QED
    BY <1>0, <1>6, <2>2 DEF Stamped
<1>9. Merge(rows[req[r].task], req[r].new, req[r].dirty) = new
  BY <1>1, CommitIs
<1>10. \A d : ~Coming(d)
  BY <1>0, <1>2, OneAtATime DEF Coming, Later
<1>11. \A u \in Tasks : \A d \in deps[u] : Active(u) /\ rows[d].status # "done" => <<u, d>> \in excused
  BY <1>0, <1>10, ReadyIs
<1>12. s.status = "done" /\ new.status # "done" => Coming(t)'
  <2> SUFFICES ASSUME s.status = "done", new.status # "done" PROVE Coming(t)'
    OBVIOUS
  <2>1. p.actor # "lead"
    BY <1>0, <1>1, <1>2, Unblocked
  <2>2. Moves(r, "refresh")
    BY <1>2, <2>1
  <2> QED
    BY <1>1, <2>2 DEF Coming, Moves, Later
<1>13. ASSUME NEW d \in deps'[t], new.status \in {"in_progress", "review"}, rows'[d].status # "done"
       PROVE  <<t, d>> \in excused' \/ Coming(d)'
  <2>0. d \in Tasks
    BY <1>0, <1>7, <1>1, <1>2, <1>13 DEF EffectiveDeps, Payload
  <2>1. CASE p.deps # Same
    <3>1. ds = p.deps /\ s.status # "done"
      BY <1>1, <1>2, <2>1 DEF EffectiveDeps, Fit, AgentAllowed, Payload
    <3>2. rows[d].status # "done"
      BY <1>2, <1>6, <1>13, <2>0, <3>1
    <3>3. d \in Blocking(p.deps)
      BY <1>7, <1>13, <3>1, <3>2 DEF Blocking
    <3> QED
      BY <1>1, <1>9, <1>13, <2>1, <3>3, CommitExcuses
  <2>2. CASE p.deps = Same
    <3>1. ds = deps[t] /\ d \in deps[t]
      BY <1>1, <1>7, <2>2 DEF EffectiveDeps
    <3>2. CASE Active(t)
      <4>1. rows[d].status # "done"
        BY <1>6, <1>13, <2>0, <3>2 DEF Active
      <4>2. <<t, d>> \in excused
        BY <1>2, <1>11, <3>1, <3>2, <4>1
      <4> QED
        BY <1>1, <1>9, <1>13, <4>2, CommitExcuses
    <3>3. CASE ~Active(t)
      <4>1. Blocking(ds) = {}
        BY <1>0, <1>1, <1>2, <1>13, <3>3, Unblocked DEF Active
      <4>2. rows[d].status = "done"
        BY <3>1, <4>1 DEF Blocking
      <4>3. d = t /\ s.status = "done"
        BY <1>2, <1>6, <1>13, <2>0, <4>2
      <4> QED
        BY <1>12, <1>13, <4>3
    <3> QED
      BY <3>2, <3>3
  <2> QED
    BY <2>1, <2>2
<1>14. ASSUME NEW u \in Tasks, u # t, NEW d \in deps'[u], rows'[u].status \in {"in_progress", "review"}, rows'[d].status # "done"
       PROVE  <<u, d>> \in excused' \/ Coming(d)'
  <2>1. d \in deps[u] /\ d \in Tasks /\ Active(u)
    BY <1>0, <1>6, <1>7, <1>14 DEF Active
  <2>2. CASE rows[d].status # "done"
    <3>1. <<u, d>> \in excused
      BY <1>11, <2>1, <2>2
    <3>2. d = t => new.status # "done"
      BY <1>6, <1>14
    <3> QED
      BY <1>1, <1>9, <1>14, <3>1, <3>2, CommitExcuses
  <2>3. CASE rows[d].status = "done"
    BY <1>2, <1>6, <1>12, <1>14, <2>1, <2>3
  <2> QED
    BY <2>2, <2>3
<1>15. Ready'
  <2>1. \A u \in Tasks : \A d \in deps'[u] :
          rows'[u].status \in {"in_progress", "review"} /\ rows'[d].status # "done" => <<u, d>> \in excused' \/ Coming(d)'
    BY <1>6, <1>13, <1>14
  <2> QED
    BY <2>1 DEF Ready, Active, Coming, Later
<1> QED
  BY <1>4, <1>5, <1>8, <1>15 DEF SerialInv

\* Reconcile keeps the invariant: it ends a request that reopened a task only when no
\* dependent is active.
LEMMA SerialReconcile ==
    ASSUME SerialInv, RaceInv', NEW r \in Requests, Reconcile(r)
    PROVE  SerialInv'
<1>0. /\ Typed /\ OnTask /\ Alone /\ Fresh /\ Ready /\ Stamped
  BY DEF SerialInv, RaceInv
<1>1. req[r].pc = "reconcile" /\ rows' = rows /\ deps' = deps /\ excused' = excused
  BY DEF Reconcile
<1>2. /\ Stay(r)
      /\ \/ /\ Reopened(r) /\ req'[r].pc = "reset" /\ req'[r].task = req[r].task /\ req'[r].seen = req[r].seen
            /\ req'[r].new = req[r].new /\ req'[r].kids = [t \in Affected(req[r].task) |-> rows[t]]
         \/ ~(Reopened(r) /\ Affected(req[r].task) # {}) /\ Ends(r)
  BY <1>0, ReconcileIs
<1>3. req[r].new = rows[req[r].task]
  BY <1>0, <1>1 DEF Fresh
<1>4. Alone'
  BY <1>0, <1>1, <1>2, AloneStays
<1>5. CASE Reopened(r) /\ req'[r].pc = "reset" /\ req'[r].task = req[r].task /\ req'[r].seen = req[r].seen
           /\ req'[r].new = req[r].new /\ req'[r].kids = [t \in Affected(req[r].task) |-> rows[t]]
  <2>1. Affected(req[r].task)' = Affected(req[r].task)
    BY <1>1, <1>5 DEF Affected, Dependents, NeedsReset
  <2>2. Fresh'
    BY <1>0, <1>1, <1>2, <1>3, <1>5, <2>1, FreshOf DEF Reopened
  <2>3. Ready' /\ Stamped'
    BY <1>0, <1>1, <1>2, <1>5, ReadyReading DEF Later
  <2> QED
    BY <1>4, <2>2, <2>3 DEF SerialInv
<1>6. CASE ~(Reopened(r) /\ Affected(req[r].task) # {}) /\ Ends(r)
  <2>1. req'[r].pc = "idle"
    BY <1>6, IdleType DEF Ends
  <2>2. Fresh'
    BY <1>0, <1>1, <1>2, <2>1, FreshOf
  <2>3. Stamped'
    BY <1>0, <1>1 DEF Stamped
  <2>4. ASSUME NEW t \in Tasks, NEW d \in deps[t], Active(t), rows[d].status # "done"
        PROVE  <<t, d>> \in excused
    <3>1. SUFFICES ASSUME Coming(d) PROVE FALSE
      BY <1>0, <2>4, ReadyIs
    <3>2. req[r].task = d /\ req[r].seen.status = "done"
      BY <1>0, <1>1, <3>1, OneAtATime DEF Coming, Later
    <3>3. Reopened(r)
      BY <1>3, <2>4, <3>2 DEF Reopened
    <3>4. t \in Affected(d)
      BY <2>4 DEF Affected, Dependents, NeedsReset, Active, InInbox
    <3> QED
      BY <1>6, <3>2, <3>3, <3>4
  <2>5. Ready'
    BY <1>1, <2>4 DEF Ready, Active
  <2> QED
    BY <1>4, <2>2, <2>3, <2>5 DEF SerialInv
<1> QED
  BY <1>2, <1>5, <1>6

\* A step that changes neither rows nor requests keeps the invariant.
LEMMA SerialStays ==
    ASSUME SerialInv, RaceInv', rows' = rows, deps' = deps, req' = req, excused' = excused, appr' = appr
    PROVE  SerialInv'
<1>1. Alone' /\ Ready' /\ Stamped'
  BY DEF SerialInv, Alone, Ready, Stamped, Active
<1>2. \A r \in Requests : /\ Fit(r) => Fit(r)'
                          /\ NewRow(r)' = NewRow(r) /\ (Stamps(r)' <=> Stamps(r))
  BY Decision
<1>3. \A r \in Requests : Dirty(req[r].seen, NewRow(r), Stamps(r))' = Dirty(req[r].seen, NewRow(r), Stamps(r))
  BY <1>2 DEF Dirty
<1>4. \A r \in Requests : (DoneGate(r)' <=> DoneGate(r)) /\ Affected(req[r].task)' = Affected(req[r].task)
  BY DEF DoneGate, EntersDone, Affected, Dependents, NeedsReset
<1>5. Fresh'
  BY <1>2, <1>3, <1>4 DEF SerialInv, Fresh
<1> QED
  BY <1>1, <1>5 DEF SerialInv

\* What a reset does, when requests run one at a time: the dependents go to the inbox.
LEMMA ResetIs ==
    ASSUME SerialInv, NEW r \in Requests, ResetDependents(r)
    PROVE  /\ req[r].pc = "reset" /\ deps' = deps /\ Ends(r)
           /\ \A t \in Tasks : rows'[t] = IF t \in Affected(req[r].task) THEN InInbox ELSE rows[t]
           /\ excused' = {e \in excused : e[1] \notin Affected(req[r].task)}
<1>0. /\ Typed /\ Fresh /\ req \in [Requests -> ReqState] /\ rows \in [Tasks -> Row]
  BY Parts DEF SerialInv, RaceInv
<1>1. req[r].pc = "reset" /\ deps' = deps /\ req' = [req EXCEPT ![r] = Idle]
  BY DEF ResetDependents
<1>2. PICK ks : ks = Affected(req[r].task)
  OBVIOUS
<1>3. req[r].kids = [t \in ks |-> rows[t]]
  BY <1>0, <1>1, <1>2 DEF Fresh
<1>4. DOMAIN req[r].kids = ks
  BY <1>3
<1>5. /\ rows' = [t \in Tasks |-> IF t \in ks
                                  THEN Merge(rows[t], InInbox, Dirty(req[r].kids[t], InInbox, FALSE))
                                  ELSE rows[t]]
      /\ excused' = {e \in excused : e[1] \notin ks}
  BY <1>4 DEF ResetDependents
<1>6. ASSUME NEW t \in Tasks PROVE rows'[t] = IF t \in ks THEN InInbox ELSE rows[t]
  <2>1. CASE t \in ks
    <3>1. req[r].kids[t] = rows[t]
      BY <1>3, <2>1
    <3>2. InInbox \in Row /\ rows[t] \in Row
      BY <1>0 DEF InInbox, Row, Statuses
    <3>3. Merge(rows[t], InInbox, Dirty(rows[t], InInbox, FALSE)) = InInbox
      BY <3>2, Rewritten
    <3> QED
      BY <1>5, <2>1, <3>1, <3>3
  <2>2. CASE t \notin ks
    BY <1>5, <2>2
  <2> QED
    BY <2>1, <2>2
<1>7. Ends(r)
  BY <1>0, <1>1, EndsIs
<1> QED
  BY <1>1, <1>2, <1>5, <1>6, <1>7

\* The reset keeps the invariant.
LEMMA SerialReset ==
    ASSUME SerialInv, RaceInv', NEW r \in Requests, ResetDependents(r)
    PROVE  SerialInv'
<1>0. Typed /\ Alone /\ Ready /\ Stamped /\ deps \in [Tasks -> SUBSET Tasks]
  BY Parts DEF SerialInv, RaceInv
<1>1. PICK ks : ks = Affected(req[r].task)
  OBVIOUS
<1>2. /\ req[r].pc = "reset" /\ deps' = deps /\ Ends(r)
      /\ \A t \in Tasks : rows'[t] = IF t \in ks THEN InInbox ELSE rows[t]
      /\ excused' = {e \in excused : e[1] \notin ks}
  BY <1>1, ResetIs
<1>3. Stay(r) /\ req'[r].pc = "idle"
  BY <1>2, IdleType DEF Ends
<1>4. Alone' /\ Fresh'
  BY <1>0, <1>2, <1>3, AloneStays, FreshOf
<1>5. Stamped'
  BY <1>0, <1>2 DEF Stamped, InInbox
<1>6. ASSUME NEW t \in Tasks, NEW d \in deps[t], rows'[t].status \in {"in_progress", "review"}, rows'[d].status # "done"
      PROVE  <<t, d>> \in excused'
  <2>1. t \notin ks /\ rows'[t] = rows[t]
    BY <1>2, <1>6 DEF InInbox
  <2>2. Active(t) /\ d \in Tasks
    BY <1>0, <1>6, <2>1 DEF Active
  <2>3. rows[d].status # "done"
    BY <1>1, <1>2, <1>6, <2>2 DEF Affected, NeedsReset
  <2>4. d # req[r].task
    BY <1>1, <1>6, <2>1, <2>2 DEF Affected, Dependents, NeedsReset, Active, InInbox
  <2>5. ~Coming(d)
    BY <1>0, <1>2, <2>4, OneAtATime DEF Coming, Later
  <2>6. <<t, d>> \in excused
    BY <1>0, <1>6, <2>2, <2>3, <2>5, ReadyIs
  <2> QED
    BY <1>2, <2>1, <2>6
<1>7. Ready'
  BY <1>2, <1>6 DEF Ready, Active
<1> QED
  BY <1>4, <1>5, <1>7 DEF SerialInv

\* Taking the row of a dependent changes nothing but the locks.
LEMMA SerialTake ==
    ASSUME SerialInv, RaceInv', NEW r \in Requests, TakeKid(r)
    PROVE  SerialInv'
<1>1. rows' = rows /\ deps' = deps /\ req' = req /\ excused' = excused /\ appr' = appr
  BY DEF TakeKid
<1> QED
  BY <1>1, SerialStays

\* A request that is cut off keeps the invariant; a reset it did not get to is excused.
LEMMA SerialCrash ==
    ASSUME SerialInv, RaceInv', NEW r \in Requests, Crash(r)
    PROVE  SerialInv'
<1>0. Typed /\ Alone /\ Ready /\ Stamped /\ req \in [Requests -> ReqState]
  BY Parts DEF SerialInv, RaceInv
<1>1. /\ req[r].pc # "idle" /\ rows' = rows /\ deps' = deps /\ req' = [req EXCEPT ![r] = Idle]
      /\ excused \subseteq excused'
      /\ req[r].pc \in Later /\ req[r].seen.status = "done" =>
            {<<t, req[r].task>> : t \in {u \in Dependents(req[r].task) : Active(u)}} \subseteq excused'
  BY DEF Crash, Later
<1>2. Stay(r) /\ req'[r].pc = "idle"
  BY <1>0, <1>1, EndsIs, IdleType DEF Ends
<1>3. Alone' /\ Fresh'
  BY <1>0, <1>1, <1>2, AloneStays, FreshOf
<1>4. Stamped'
  BY <1>0, <1>1 DEF Stamped
<1>5. ASSUME NEW t \in Tasks, NEW d \in deps[t], Active(t), rows[d].status # "done"
      PROVE  <<t, d>> \in excused'
  <2>1. CASE Coming(d)
    <3>1. req[r].task = d /\ req[r].pc \in Later /\ req[r].seen.status = "done"
      BY <1>0, <1>1, <2>1, OneAtATime DEF Coming, Later
    <3>2. t \in {u \in Dependents(d) : Active(u)}
      BY <1>5 DEF Dependents
    <3> QED
      BY <1>1, <3>1, <3>2
  <2>2. CASE <<t, d>> \in excused
    BY <1>1, <2>2
  <2> QED
    BY <1>0, <1>5, <2>1, <2>2, ReadyIs
<1>6. Ready'
  BY <1>1, <1>5 DEF Ready, Active
<1> QED
  BY <1>3, <1>4, <1>6 DEF SerialInv

\* What anybody else does between two requests, and a request that begins, keep the
\* invariant.
LEMMA SerialOther ==
    ASSUME ~Overlap, SerialInv, RaceInv', NEW t \in Tasks,
           \/ \E c \in Creates : CreateTask(t, c)
           \/ \E a \in Commenters : AddComment(t, a)
           \/ AskApproval(t) \/ DecideApproval(t) \/ Revoke(t)
           \/ \E r \in Requests, p \in Payloads : Load(r, t, p)
    PROVE  SerialInv'
<1> USE TaskBoardAssumption
<1>0. Typed /\ Alone /\ Fresh /\ Ready /\ Stamped /\ rows \in [Tasks -> Row] /\ deps \in [Tasks -> SUBSET Tasks]
  BY Parts DEF SerialInv, RaceInv
<1>1. \A r \in Requests : req[r].pc = "idle"
  BY DEF Quiet, CreateTask, AddComment, AskApproval, DecideApproval, Revoke, Load
<1>2. \A u \in Tasks : \A d \in deps[u] : Active(u) /\ rows[d].status # "done" => <<u, d>> \in excused
  BY <1>0, <1>1, ReadyIs DEF Coming, Later
<1>3. CASE req' = req /\ rows' = rows /\ deps' = deps /\ excused' = excused
  <2>1. Alone' /\ Fresh'
    BY <1>1, <1>3 DEF Alone, Fresh
  <2>2. Ready' /\ Stamped'
    BY <1>0, <1>2, <1>3 DEF Ready, Stamped, Active
  <2> QED
    BY <2>1, <2>2 DEF SerialInv
<1>4. ASSUME NEW r \in Requests, NEW p \in Payloads, Load(r, t, p) PROVE SerialInv'
  <2>1. rows' = rows /\ deps' = deps /\ excused' = excused
    BY <1>4 DEF Load
  <2>2. Stay(r) /\ req'[r].pc = "rules" /\ req'[r].task = t /\ req'[r].seen = rows[t]
    BY <1>0, <1>4, LoadIs
  <2>3. Alone' /\ Fresh'
    BY <1>1, <2>1, <2>2 DEF Alone, Fresh, Stay
  <2>4. Ready' /\ Stamped'
    BY <1>0, <1>2, <2>1 DEF Ready, Stamped, Active
  <2> QED
    BY <2>3, <2>4 DEF SerialInv
<1>5. ASSUME NEW c \in Creates, CreateTask(t, c) PROVE SerialInv'
  <2>1. c.status \in Statuses /\ c.deps \subseteq Tasks /\ (Blocking(c.deps) # {} => c.status = "inbox")
    BY <1>5 DEF CreateTask
  <2>2. rows[t].status = "absent" /\ \A d \in c.deps : rows[d].status # "absent"
    BY <1>5 DEF CreateTask, ValidDeps, Exists
  <2>3. /\ rows' = [rows EXCEPT ![t] = [status |-> c.status, agent |-> c.agent, since |-> FALSE]]
        /\ deps' = [deps EXCEPT ![t] = c.deps] /\ req' = req /\ excused' = excused
    BY <1>5 DEF CreateTask
  <2>4. /\ rows'[t].status = c.status /\ rows'[t].since = FALSE /\ deps'[t] = c.deps
        /\ \A u \in Tasks : u # t => rows'[u] = rows[u] /\ deps'[u] = deps[u]
    BY <1>0, <2>3
  <2>5. Alone' /\ Fresh'
    BY <1>1, <2>3 DEF Alone, Fresh
  <2>6. Stamped'
    BY <1>0, <2>4 DEF Stamped
  <2>7. ASSUME NEW u \in Tasks, NEW d \in deps'[u], rows'[u].status \in {"in_progress", "review"},
               rows'[d].status # "done"
        PROVE  <<u, d>> \in excused
    <3>1. CASE u = t
      <4>1. d \in c.deps /\ d # t /\ d \in Tasks /\ rows[d].status # "done"
        BY <2>1, <2>2, <2>4, <2>7, <3>1
      <4>2. c.status = "inbox"
        BY <2>1, <4>1 DEF Blocking
      <4> QED
        BY <2>4, <2>7, <3>1, <4>2
    <3>2. CASE u # t
      <4>1. d \in deps[u] /\ d \in Tasks /\ Active(u)
        BY <1>0, <2>4, <2>7, <3>2 DEF Active
      <4>2. rows[d].status # "done"
        BY <2>2, <2>4, <2>7, <4>1
      <4> QED
        BY <1>2, <4>1, <4>2
    <3> QED
      BY <3>1, <3>2
  <2>8. Ready'
    BY <2>3, <2>7 DEF Ready, Active
  <2> QED
    BY <2>5, <2>6, <2>8 DEF SerialInv
<1> QED
  BY <1>3, <1>4, <1>5 DEF AddComment, AskApproval, DecideApproval, Revoke

\* The invariant holds at the start.
LEMMA InitSerial == Init => SerialInv
<1> SUFFICES ASSUME Init PROVE SerialInv
  OBVIOUS
<1>1. RaceInv
  BY InitRace
<1>2. \A r \in Requests : req[r].pc = "idle"
  BY IdleType DEF Init
<1>3. Ready /\ Stamped
  BY DEF Init, Ready, Stamped, Absent
<1> QED
  BY <1>1, <1>2, <1>3 DEF SerialInv, Alone, Fresh

\* Every step keeps it when requests run one at a time.
LEMMA NextSerial == ~Overlap /\ SerialInv /\ [Next]_vars => SerialInv'
<1> SUFFICES ASSUME ~Overlap, SerialInv, [Next]_vars PROVE SerialInv'
  OBVIOUS
<1>0. RaceInv'
  BY NextRace DEF SerialInv
<1>1. CASE Next
  BY <1>0, <1>1, SerialReading, SerialCommit, SerialReconcile, SerialTake, SerialReset,
     SerialCrash, SerialOther DEF Next, Step
<1>2. CASE UNCHANGED vars
  <2>1. rows' = rows /\ deps' = deps /\ req' = req /\ excused' = excused /\ appr' = appr
    BY <1>2 DEF vars
  <2> QED
    BY <1>0, <2>1, SerialStays
<1> QED
  BY <1>1, <1>2

\* The invariant of requests that run one at a time.
THEOREM SerialInvariance ==
    ASSUME ~Overlap
    PROVE  Spec => []SerialInv
<1>1. SerialInv /\ [Next]_vars => SerialInv'
  BY NextSerial
<1> QED
  BY <1>1, InitSerial, PTL DEF Spec

\* Whoever starts it, a task is worked on or reviewed only while its dependencies are done,
\* a dependency that a lead adds later, a reset that was cut off or is still to come
\* excepted: the blocked-by checks of the three senders and the reset of dependents in
\* _reconcile_dependents_for_dependency_toggle.
THEOREM ReadyToWork ==
    ASSUME ~Overlap
    PROVE  Spec => []Ready
<1>1. SerialInv => Ready
  BY DEF SerialInv
<1> QED
  BY <1>1, SerialInvariance, PTL

\* in_progress_at is never left on a task that went back to the inbox or on to review,
\* on the paths of leads, workers and administrators and in the reset of dependents.
THEOREM StampsGo ==
    ASSUME ~Overlap
    PROVE  Spec => []Stamped
<1>1. SerialInv => Stamped
  BY DEF SerialInv
<1> QED
  BY <1>1, SerialInvariance, PTL

\* Every way for an existing task to become done passes all its gates at once
\* (_finalize_updated_task), and nothing blocks the task then.
THEOREM DoneIsEarned ==
    ASSUME ~Overlap
    PROVE  Spec => DoneEarned
<1> DEFINE A == \A t \in Tasks :
                  Exists(t) /\ rows[t].status # "done" /\ rows'[t].status = "done" =>
                     /\ "approval" \in Rules => t \in appr
                     /\ "review" \in Rules => rows[t].status = "review"
                     /\ "pending" \in Rules => t \notin pend
                     /\ \A d \in deps'[t] : rows[d].status = "done"
<1>1. SerialInv /\ [Next]_vars => [A]_vars
  <2> SUFFICES ASSUME SerialInv, Next, NEW t \in Tasks,
                      Exists(t), rows[t].status # "done", rows'[t].status = "done"
               PROVE  /\ "approval" \in Rules => t \in appr
                      /\ "review" \in Rules => rows[t].status = "review"
                      /\ "pending" \in Rules => t \notin pend
                      /\ \A d \in deps'[t] : rows[d].status = "done"
    OBVIOUS
  <2>0. Typed /\ rows \in [Tasks -> Row] /\ deps \in [Tasks -> SUBSET Tasks]
    BY Parts DEF SerialInv, RaceInv
  <2>1. ASSUME NEW r \in Requests, Commit(r)
        PROVE  /\ "approval" \in Rules => t \in appr
               /\ "review" \in Rules => rows[t].status = "review"
               /\ "pending" \in Rules => t \notin pend
               /\ \A d \in deps'[t] : rows[d].status = "done"
    <3>1. PICK s, new, ds : s = req[r].seen /\ new = NewRow(r) /\ ds = EffectiveDeps(r)
      OBVIOUS
    <3>2. /\ req[r].task \in Tasks /\ req[r].ask \in Payload /\ Fit(r) /\ s = rows[req[r].task]
          /\ DoneGate(r) /\ PendingGate(r) /\ req[r].new = new
          /\ rows' = [rows EXCEPT ![req[r].task] = new] /\ deps' = [deps EXCEPT ![req[r].task] = ds]
      BY <2>1, <3>1, CommitIs
    <3>3. t = req[r].task /\ new.status = "done" /\ s.status # "done" /\ deps'[t] = ds
      BY <2>0, <3>2
    <3>4. Blocking(ds) = {} /\ req[r].ask.status = "done"
      BY <2>0, <3>1, <3>2, <3>3, Unblocked
    <3>5. EntersDone(r)
      BY <3>1, <3>2, <3>3 DEF EntersDone
    <3>6. StatusRequested(r)
      BY <3>1, <3>3, <3>4, TaskBoardAssumption DEF StatusRequested, Statuses
    <3>7. "pending" \in Rules => t \notin pend
      BY <3>1, <3>2, <3>3, <3>6 DEF PendingGate
    <3>8. ("approval" \in Rules => t \in appr) /\ ("review" \in Rules => rows[t].status = "review")
      BY <3>1, <3>2, <3>3, <3>5 DEF DoneGate
    <3>9. \A d \in ds : rows[d].status = "done"
      BY <3>4 DEF Blocking
    <3> QED
      BY <3>3, <3>7, <3>8, <3>9
  <2>2. ASSUME NEW r \in Requests, ResetDependents(r) PROVE FALSE
    BY <2>2, ResetIs DEF InInbox
  <2>3. ASSUME NEW u \in Tasks, NEW c \in Creates, CreateTask(u, c) PROVE FALSE
    <3>1. u # t
      BY <2>3 DEF CreateTask
    <3> QED
      BY <2>0, <2>3, <3>1 DEF CreateTask
  <2>4. CASE rows' = rows
    BY <2>4
  <2> QED
    BY <2>1, <2>2, <2>3, <2>4 DEF Next, Step, ApplyRules, Flush, CheckGates, Refresh, Comment, Reconcile, TakeKid, Crash,
       AddComment, AskApproval, DecideApproval, Revoke, Load
<1> QED
  BY <1>1, SerialInvariance, PTL DEF Spec, DoneEarned

=============================================================================
