------------------------- MODULE AgentLifecycleProofs ------------------------
(***************************************************************************)
(* Proofs about AgentLifecycle, for any number of requests, any limit and  *)
(* any agents: its types, and what only overlapping requests or failures   *)
(* can break.  StepForm says once what every action changes; each part of  *)
(* the inductive invariant is then preserved by every such step.  The part *)
(* the properties lack is Overlap: two requests that are under way on the  *)
(* same agent, to create a lead or to create a worker have met.            *)
(***************************************************************************)
EXTENDS AgentLifecycle, FiniteSetTheorems, TLAPS

RowState == [live : BOOLEAN, lead : BOOLEAN, token : Requests \cup {None},
             status : {"provisioning", "updating", "online"}, pending : BOOLEAN]
GwState == [there : BOOLEAN, token : Requests \cup {None}]
ReqState == [pc : Steps, kind : AllKinds, agent : Requests, saw : {"provisioning", "updating", "online"}]

\* The steps of a request in the form in which the proofs use them: the whole record.
At(r, pc) == [pc |-> pc, kind |-> req[r].kind, agent |-> req[r].agent, saw |-> "provisioning"]
Meets(r, kind, a) == {{r, s} : s \in {q \in Requests : q # r /\ Clash(q, kind, a)}}
Seen == {"provisioning", "updating", "online"}

\* TypeOK, its three functions named apart.
LEMMA Parts ==
    TypeOK <=> /\ row \in [Requests -> RowState] /\ gw \in [Requests -> GwState] /\ req \in [Requests -> ReqState]
               /\ met \subseteq SUBSET Requests
               /\ \A r \in Requests : req[r].kind \in {"worker", "added"} => req[r].agent = r
BY DEF TypeOK, RowState, GwState, ReqState

\* A record update gives this whole record: the token of a row.
LEMMA SetToken ==
    ASSUME NEW x \in RowState, NEW t \in Requests \cup {None}
    PROVE  [x EXCEPT !.token = t]
             = [live |-> x.live, lead |-> x.lead, token |-> t, status |-> x.status, pending |-> x.pending]
BY DEF RowState

\* The status of a row.
LEMMA SetStatus ==
    ASSUME NEW x \in RowState, NEW s \in {"provisioning", "updating", "online"}
    PROVE  [x EXCEPT !.status = s]
             = [live |-> x.live, lead |-> x.lead, token |-> x.token, status |-> s, pending |-> x.pending]
BY DEF RowState

\* The mark of a row.
LEMMA SetPending ==
    ASSUME NEW x \in RowState, NEW p \in BOOLEAN
    PROVE  [x EXCEPT !.pending = p]
             = [live |-> x.live, lead |-> x.lead, token |-> x.token, status |-> x.status, pending |-> p]
BY DEF RowState

\* Whether a row exists.
LEMMA SetLive ==
    ASSUME NEW x \in RowState, NEW l \in BOOLEAN
    PROVE  [x EXCEPT !.live = l]
             = [live |-> l, lead |-> x.lead, token |-> x.token, status |-> x.status, pending |-> x.pending]
BY DEF RowState

\* Two fields of a row at once, as a minting request sets them.
LEMMA SetBoth ==
    ASSUME NEW x \in RowState, NEW s \in {"provisioning", "updating", "online"}, NEW p \in BOOLEAN
    PROVE  [[x EXCEPT !.status = s] EXCEPT !.pending = p]
             = [live |-> x.live, lead |-> x.lead, token |-> x.token, status |-> s, pending |-> p]
<1> DEFINE y == [x EXCEPT !.status = s]
<1>1. y \in RowState
  BY DEF RowState
<1>2. y.live = x.live /\ y.lead = x.lead /\ y.token = x.token /\ y.status = s
  BY SetStatus
<1> HIDE DEF y
<1>3. [y EXCEPT !.pending = p]
        = [live |-> y.live, lead |-> y.lead, token |-> y.token, status |-> y.status, pending |-> p]
  BY <1>1, SetPending
<1>4. [y EXCEPT !.pending = p]
        = [live |-> x.live, lead |-> x.lead, token |-> x.token, status |-> s, pending |-> p]
  BY <1>2, <1>3
<1> QED
  BY <1>4 DEF y

\* Three fields of a row at once.
LEMMA SetAll ==
    ASSUME NEW x \in RowState, NEW t \in Requests \cup {None},
           NEW s \in {"provisioning", "updating", "online"}, NEW p \in BOOLEAN
    PROVE  [[[x EXCEPT !.token = t] EXCEPT !.status = s] EXCEPT !.pending = p]
             = [live |-> x.live, lead |-> x.lead, token |-> t, status |-> s, pending |-> p]
<1> DEFINE y == [x EXCEPT !.token = t]
<1>1. y \in RowState
  BY DEF RowState
<1>2. y.live = x.live /\ y.lead = x.lead /\ y.token = t
  BY SetToken
<1> HIDE DEF y
<1>3. [[y EXCEPT !.status = s] EXCEPT !.pending = p]
        = [live |-> y.live, lead |-> y.lead, token |-> y.token, status |-> s, pending |-> p]
  BY <1>1, SetBoth
<1>4. [[y EXCEPT !.status = s] EXCEPT !.pending = p]
        = [live |-> x.live, lead |-> x.lead, token |-> t, status |-> s, pending |-> p]
  BY <1>2, <1>3
<1> QED
  BY <1>4 DEF y

\* A step of a request changes its pc and forgets what it saw.
LEMMA SetPc ==
    ASSUME NEW x \in ReqState, NEW pc \in Steps
    PROVE  [[x EXCEPT !.pc = pc] EXCEPT !.saw = "provisioning"]
             = [pc |-> pc, kind |-> x.kind, agent |-> x.agent, saw |-> "provisioning"]
<1> DEFINE y == [x EXCEPT !.pc = pc]
<1>1. y \in ReqState /\ y.pc = pc /\ y.kind = x.kind /\ y.agent = x.agent
  BY DEF ReqState
<1> HIDE DEF y
<1>2. [y EXCEPT !.saw = "provisioning"] = [pc |-> y.pc, kind |-> y.kind, agent |-> y.agent, saw |-> "provisioning"]
  BY <1>1 DEF ReqState
<1> QED
  BY <1>1, <1>2 DEF y

\* The request for a lead that finds one takes it over.
LEMMA SetAgent ==
    ASSUME NEW x \in ReqState, NEW pc \in Steps, NEW a \in Requests
    PROVE  [[x EXCEPT !.pc = pc] EXCEPT !.agent = a] = [pc |-> pc, kind |-> x.kind, agent |-> a, saw |-> x.saw]
<1> DEFINE y == [x EXCEPT !.pc = pc]
<1>1. y \in ReqState /\ y.pc = pc /\ y.kind = x.kind /\ y.saw = x.saw
  BY DEF ReqState
<1> HIDE DEF y
<1>2. [y EXCEPT !.agent = a] = [pc |-> y.pc, kind |-> y.kind, agent |-> a, saw |-> y.saw]
  BY <1>1 DEF ReqState
<1> QED
  BY <1>1, <1>2 DEF y

\* Goto, as a whole record.
LEMMA GotoIs ==
    ASSUME TypeOK, NEW r \in Requests, NEW pc \in Steps, Goto(r, pc)
    PROVE  req' = [req EXCEPT ![r] = At(r, pc)] /\ met' = met
<1>1. req[r] \in ReqState /\ req \in [Requests -> ReqState]
  BY Parts
<1>2. req' = [req EXCEPT ![r] = [[req[r] EXCEPT !.pc = pc] EXCEPT !.saw = "provisioning"]]
  BY <1>1 DEF Goto
<1> QED
  BY <1>1, <1>2, SetPc DEF Goto, At

\* Begin, as a whole record and the meetings it adds.
LEMMA BeginIs ==
    ASSUME TypeOK, NEW r \in Requests, NEW pc \in Steps, NEW kind \in AllKinds, NEW a \in Requests,
           Begin(r, kind, a, pc)
    PROVE  /\ req[r].pc = "new" /\ met' = met \cup Meets(r, kind, a)
           /\ \E saw \in Seen :
                 req' = [req EXCEPT ![r] = [pc |-> pc, kind |-> kind, agent |-> a, saw |-> saw]]
<1>1. PICK saw : saw = IF pc = "store" THEN row[a].status ELSE req[r].saw
  OBVIOUS
<1>2. saw \in Seen
  BY <1>1 DEF Seen, TypeOK
<1>3. req' = [req EXCEPT ![r] = [pc |-> pc, kind |-> kind, agent |-> a, saw |-> saw]]
  BY <1>1 DEF Begin, TypeOK
<1> QED
  BY <1>2, <1>3 DEF Begin, Meets

\* What an update leaves in the row: a new token, updating, pending.
LEMMA MintIs ==
    ASSUME TypeOK, NEW r \in Requests, Mint(r), row[On(r)].live
    PROVE  row' = [row EXCEPT ![On(r)] = [live |-> TRUE, lead |-> row[On(r)].lead, token |-> r,
                                          status |-> "updating", pending |-> TRUE]]
<1>1. On(r) \in Requests
  BY DEF On, TypeOK
<1>2. row' = [row EXCEPT ![On(r)] = [[[row[On(r)] EXCEPT !.token = r] EXCEPT !.status = "updating"] EXCEPT !.pending = TRUE]]
  BY <1>1 DEF Mint, TypeOK
<1>3. [[[row[On(r)] EXCEPT !.token = r] EXCEPT !.status = "updating"] EXCEPT !.pending = TRUE]
        = [live |-> TRUE, lead |-> row[On(r)].lead, token |-> r, status |-> "updating", pending |-> TRUE]
  BY <1>1, SetAll, Parts
<1> QED
  BY <1>2, <1>3

\* What the end of provisioning leaves in the row.
LEMMA CompleteIs ==
    ASSUME TypeOK, NEW r \in Requests, Complete(r), row[On(r)].live
    PROVE  row' = [row EXCEPT ![On(r)] = [live |-> TRUE, lead |-> row[On(r)].lead, token |-> row[On(r)].token,
                                          status |-> "online", pending |-> FALSE]]
<1>1. On(r) \in Requests
  BY DEF On, TypeOK
<1>2. row' = [row EXCEPT ![On(r)] = [[row[On(r)] EXCEPT !.status = "online"] EXCEPT !.pending = FALSE]]
  BY <1>1 DEF Complete, TypeOK
<1>3. [[row[On(r)] EXCEPT !.status = "online"] EXCEPT !.pending = FALSE]
        = [live |-> TRUE, lead |-> row[On(r)].lead, token |-> row[On(r)].token,
           status |-> "online", pending |-> FALSE]
  BY <1>1, SetBoth, Parts
<1> QED
  BY <1>2, <1>3

\* What a heartbeat leaves in the row: at most another status.
LEMMA StoreIs ==
    ASSUME TypeOK, NEW r \in Requests, NEW s \in {"provisioning", "updating", "online"},
           row' = [row EXCEPT ![On(r)].status = s], row[On(r)].live
    PROVE  row' = [row EXCEPT ![On(r)] = [live |-> TRUE, lead |-> row[On(r)].lead, token |-> row[On(r)].token,
                                          status |-> s, pending |-> row[On(r)].pending]]
<1>1. On(r) \in Requests
  BY DEF On, TypeOK
<1>2. row' = [row EXCEPT ![On(r)] = [row[On(r)] EXCEPT !.status = s]]
  BY <1>1 DEF TypeOK
<1>3. [row[On(r)] EXCEPT !.status = s]
        = [live |-> TRUE, lead |-> row[On(r)].lead, token |-> row[On(r)].token,
           status |-> s, pending |-> row[On(r)].pending]
  BY <1>1, SetStatus, Parts
<1> QED
  BY <1>2, <1>3

\* What the end of a deletion leaves in the row.
LEMMA EraseIs ==
    ASSUME TypeOK, NEW r \in Requests, Erase(r)
    PROVE  row' = [row EXCEPT ![On(r)] = [live |-> FALSE, lead |-> row[On(r)].lead, token |-> row[On(r)].token,
                                          status |-> row[On(r)].status, pending |-> row[On(r)].pending]]
<1>1. On(r) \in Requests
  BY DEF On, TypeOK
<1>2. row' = [row EXCEPT ![On(r)] = [row[On(r)] EXCEPT !.live = FALSE]]
  BY <1>1 DEF TypeOK, Erase
<1>3. [row[On(r)] EXCEPT !.live = FALSE]
        = [live |-> FALSE, lead |-> row[On(r)].lead, token |-> row[On(r)].token,
           status |-> row[On(r)].status, pending |-> row[On(r)].pending]
  BY <1>1, SetLive, Parts
<1> QED
  BY <1>2, <1>3

\* A field of what the gateway has of an agent.
LEMMA SetThere ==
    ASSUME NEW x \in GwState, NEW p \in BOOLEAN
    PROVE  [x EXCEPT !.there = p] = [there |-> p, token |-> x.token]
BY DEF GwState

\* What a failed provisioning can leave at the gateway.
LEMMA ApplyFailsIs ==
    ASSUME TypeOK, NEW r \in Requests, ApplyFails(r)
    PROVE  \/ gw' = gw
           \/ gw' = [gw EXCEPT ![On(r)] = [there |-> TRUE, token |-> gw[On(r)].token]]
           \/ gw' = [gw EXCEPT ![On(r)] = [there |-> TRUE, token |-> r]]
<1>1. On(r) \in Requests /\ gw \in [Requests -> GwState] /\ gw[On(r)] \in GwState
  BY Parts DEF On, ReqState
<1>2. [gw[On(r)] EXCEPT !.there = TRUE] = [there |-> TRUE, token |-> gw[On(r)].token]
  BY <1>1, SetThere
<1>3. [gw EXCEPT ![On(r)].there = TRUE] = [gw EXCEPT ![On(r)] = [gw[On(r)] EXCEPT !.there = TRUE]]
  BY <1>1
<1> QED
  BY <1>2, <1>3 DEF ApplyFails, Written

-----------------------------------------------------------------------------
(* The steps, by what they change *)

\* A request ends or goes on, and nothing else changes.
Passes(r) ==
    /\ row' = row /\ gw' = gw /\ met' = met
    /\ \/ /\ req[r].pc = "check" /\ req[r].kind = "lead" /\ Leads = {}
          /\ req' = [req EXCEPT ![r] = At(r, "clear")]
       \/ /\ req[r].pc = "check" /\ req[r].kind = "lead"
          /\ \E a \in Leads : req' = [req EXCEPT ![r] = [pc |-> "ok", kind |-> "lead", agent |-> a, saw |-> req[r].saw]]
       \/ /\ req[r].pc = "check" /\ req[r].kind = "worker" /\ Cardinality(Workers) < MaxAgents
          /\ req' = [req EXCEPT ![r] = At(r, "clear")]
       \/ req[r].pc = "store" /\ req' = [req EXCEPT ![r] = At(r, "ok")]
       \/ Busy(r) /\ req' = [req EXCEPT ![r] = At(r, "failed")]

\* A request of some kind on agent a begins.
Starts(kind, a, pc) ==
    \/ kind \in {"lead", "worker"} /\ pc = "check"
    \/ kind = "added" /\ pc = "clear"
    \/ kind = "update" /\ pc = "mint" /\ row[a].live
    \/ kind = "delete" /\ pc = "clean" /\ row[a].live
    \/ kind = "beat" /\ pc = "store" /\ row[a].live /\ gw[a].there /\ gw[a].token = row[a].token
    \/ kind = "report" /\ pc = "store" /\ row[a].live

Begins(r, a) ==
    /\ req[r].pc = "new" /\ row' = row /\ gw' = gw
    /\ \E kind \in AllKinds, pc \in Steps, saw \in Seen :
          /\ met' = met \cup Meets(r, kind, a)
          /\ req' = [req EXCEPT ![r] = [pc |-> pc, kind |-> kind, agent |-> a, saw |-> saw]]
          /\ kind \in {"lead", "worker", "added"} => a = r
          /\ Starts(kind, a, pc)

\* A request on agent a goes on to pc and changes the row.
Writes(r, from, pc, new) ==
    /\ req[r].pc = from /\ req' = [req EXCEPT ![r] = At(r, pc)]
    /\ row' = [row EXCEPT ![On(r)] = new]
    /\ gw' = gw /\ met' = met

\* A request on agent a goes on to pc and changes the gateway's agent.
Calls(r, from, pc, new) ==
    /\ req[r].pc = from /\ req' = [req EXCEPT ![r] = At(r, pc)]
    /\ gw' = [gw EXCEPT ![On(r)] = new]
    /\ row' = row /\ met' = met

Inserted(r) == [live |-> TRUE, lead |-> req[r].kind = "lead", token |-> r, status |-> "provisioning", pending |-> TRUE]
Minted(r) == [live |-> TRUE, lead |-> row[On(r)].lead, token |-> r, status |-> "updating", pending |-> TRUE]
Completed(r) == [live |-> TRUE, lead |-> row[On(r)].lead, token |-> row[On(r)].token, status |-> "online", pending |-> FALSE]
Stored(r) == [live |-> TRUE, lead |-> row[On(r)].lead, token |-> row[On(r)].token, status |-> "online", pending |-> row[On(r)].pending]
Erased(r) == [live |-> FALSE, lead |-> row[On(r)].lead, token |-> row[On(r)].token,
              status |-> row[On(r)].status, pending |-> row[On(r)].pending]
Wrote(r) == [there |-> TRUE, token |-> r]
Made(r) == [there |-> TRUE, token |-> gw[On(r)].token]
Gone == [there |-> FALSE, token |-> None]

\* What the proofs use of a step of request r.
StepOf(r) ==
    \/ Passes(r)
    \/ \E a \in Requests : Begins(r, a)
    \/ /\ req[r].pc = "clear" /\ req' = [req EXCEPT ![r] = At(r, "apply")]
       /\ row' = [row EXCEPT ![r] = Inserted(r)] /\ gw' = gw /\ met' = met
    \/ row[On(r)].live /\ Writes(r, "mint", "apply", Minted(r))
    \/ row[On(r)].live /\ Writes(r, "complete", "ok", Completed(r))
    \/ row[On(r)].live /\ Writes(r, "store", "ok", Stored(r))
    \/ Writes(r, "erase", "ok", Erased(r))
    \/ Calls(r, "apply", "complete", Wrote(r))
    \/ Calls(r, "apply", "failed", Wrote(r))
    \/ Calls(r, "apply", "failed", Made(r))
    \/ Calls(r, "clean", "erase", Gone)

\* Every step of Next is one of the shapes of StepOf, on some request.
LEMMA StepForm ==
    ASSUME TypeOK, Next
    PROVE  \E r \in Requests : StepOf(r)
<1>0. PICK r \in Requests :
            \/ \E kind \in {"lead", "worker"} : Create(r, kind)
            \/ Add(r) \/ FindLead(r) \/ CountWorkers(r) \/ Insert(r)
            \/ Mint(r) \/ Apply(r) \/ ApplyFails(r) \/ Complete(r)
            \/ Clean(r) \/ Erase(r) \/ Store(r) \/ Cut(r)
            \/ \E a \in Requests : Update(r, a) \/ Delete(r, a) \/ Beat(r, a) \/ Report(r, a)
  BY DEF Next
<1> SUFFICES StepOf(r)
  OBVIOUS
<1>a. \A pc \in Steps : Goto(r, pc) => req' = [req EXCEPT ![r] = At(r, pc)] /\ met' = met
  BY GotoIs
<1>b. On(r) \in Requests /\ req[r].saw \in {"provisioning", "updating", "online"}
  BY DEF On, TypeOK
<1>s. ASSUME NEW kind \in AllKinds, NEW a \in Requests, NEW pc \in Steps, Begin(r, kind, a, pc),
             row' = row, gw' = gw, Starts(kind, a, pc), kind \in {"lead", "worker", "added"} => a = r
      PROVE  StepOf(r)
  <2>1. Begins(r, a)
    BY <1>s, BeginIs DEF Begins
  <2> QED
    BY <2>1 DEF StepOf
<1>1. ASSUME NEW kind \in {"lead", "worker"}, Create(r, kind) PROVE StepOf(r)
  <2>1. Begin(r, kind, r, "check") /\ row' = row /\ gw' = gw
    BY <1>1 DEF Create
  <2>2. kind \in AllKinds /\ "check" \in Steps
    BY DEF AllKinds, Steps
  <2>3. Starts(kind, r, "check")
    BY <1>1 DEF Starts, Create
  <2> QED
    BY <1>s, <2>1, <2>2, <2>3
<1>1a. ASSUME Add(r) PROVE StepOf(r)
  <2>1. Begin(r, "added", r, "clear") /\ row' = row /\ gw' = gw
    BY <1>1a DEF Add
  <2>2. "added" \in AllKinds /\ "clear" \in Steps
    BY DEF AllKinds, Steps
  <2>3. Starts("added", r, "clear")
    BY <1>1a DEF Starts, Add
  <2> QED
    BY <1>s, <2>1, <2>2, <2>3
<1>2. ASSUME NEW a \in Requests, Update(r, a) PROVE StepOf(r)
  <2>1. Begin(r, "update", a, "mint") /\ row' = row /\ gw' = gw
    BY <1>2 DEF Update
  <2>2. "update" \in AllKinds /\ "mint" \in Steps
    BY DEF AllKinds, Steps
  <2>3. Starts("update", a, "mint")
    BY <1>2 DEF Starts, Update
  <2> QED
    BY <1>s, <2>1, <2>2, <2>3
<1>3. ASSUME NEW a \in Requests, Delete(r, a) PROVE StepOf(r)
  <2>1. Begin(r, "delete", a, "clean") /\ row' = row /\ gw' = gw
    BY <1>3 DEF Delete
  <2>2. "delete" \in AllKinds /\ "clean" \in Steps
    BY DEF AllKinds, Steps
  <2>3. Starts("delete", a, "clean")
    BY <1>3 DEF Starts, Delete
  <2> QED
    BY <1>s, <2>1, <2>2, <2>3
<1>4. ASSUME NEW a \in Requests, Beat(r, a) PROVE StepOf(r)
  <2>1. Begin(r, "beat", a, "store") /\ row' = row /\ gw' = gw
    BY <1>4 DEF Beat
  <2>2. "beat" \in AllKinds /\ "store" \in Steps
    BY DEF AllKinds, Steps
  <2>3. Starts("beat", a, "store")
    BY <1>4 DEF Starts, Beat
  <2> QED
    BY <1>s, <2>1, <2>2, <2>3
<1>4a. ASSUME NEW a \in Requests, Report(r, a) PROVE StepOf(r)
  <2>1. Begin(r, "report", a, "store") /\ row' = row /\ gw' = gw
    BY <1>4a DEF Report
  <2>2. "report" \in AllKinds /\ "store" \in Steps
    BY DEF AllKinds, Steps
  <2>3. Starts("report", a, "store")
    BY <1>4a DEF Starts, Report
  <2> QED
    BY <1>s, <2>1, <2>2, <2>3
<1>5. CASE FindLead(r)
  <2>1. CASE Leads = {}
    BY <1>5, <1>a, <2>1 DEF FindLead, StepOf, Passes, Steps
  <2>2. CASE Leads # {}
    <3>1. PICK a \in Leads : req' = [req EXCEPT ![r].pc = "ok", ![r].agent = a] /\ req[r].kind = "lead"
      BY <1>5, <2>2 DEF FindLead
    <3>2. req[r] \in ReqState
      BY Parts
    <3>3. req' = [req EXCEPT ![r] = [[req[r] EXCEPT !.pc = "ok"] EXCEPT !.agent = a]]
      BY <3>1 DEF TypeOK
    <3>4. [[req[r] EXCEPT !.pc = "ok"] EXCEPT !.agent = a]
            = [pc |-> "ok", kind |-> "lead", agent |-> a, saw |-> req[r].saw]
      <4>1. a \in Requests /\ "ok" \in Steps
        BY DEF Leads, Steps
      <4> QED
        BY <3>1, <3>2, <4>1, SetAgent
    <3> QED
      BY <1>5, <2>2, <3>3, <3>4 DEF FindLead, StepOf, Passes
  <2> QED
    BY <2>1, <2>2
<1>6. CASE CountWorkers(r)
  <2>1. Busy(r) /\ req[r].pc = "check" /\ req[r].kind = "worker" /\ row' = row /\ gw' = gw
        /\ Goto(r, IF Cardinality(Workers) < MaxAgents THEN "clear" ELSE "failed")
    BY <1>6 DEF CountWorkers, Busy, Done
  <2>2. CASE Cardinality(Workers) < MaxAgents
    <3>1. Goto(r, "clear")
      BY <2>1, <2>2
    <3> QED
      BY <1>a, <2>1, <2>2, <3>1 DEF StepOf, Passes, Steps
  <2>3. CASE ~(Cardinality(Workers) < MaxAgents)
    <3>1. Goto(r, "failed")
      BY <2>1, <2>3
    <3> QED
      BY <1>a, <2>1, <3>1 DEF StepOf, Passes, Steps
  <2> QED
    BY <2>2, <2>3
<1>7. CASE Insert(r)
  BY <1>7, <1>a DEF Insert, StepOf, Steps, Inserted
<1>8. CASE Mint(r)
  <2>1. CASE row[On(r)].live
    BY <1>8, <1>a, <2>1, MintIs DEF Mint, StepOf, Steps, Writes, Minted
  <2>2. CASE ~row[On(r)].live
    BY <1>8, <1>a, <2>2 DEF Mint, StepOf, Steps, Passes, Busy, Done
  <2> QED
    BY <2>1, <2>2
<1>9. CASE Apply(r)
  BY <1>9, <1>a DEF Apply, Written, StepOf, Steps, Calls, Wrote
<1>10. CASE ApplyFails(r)
  <2>1. req' = [req EXCEPT ![r] = At(r, "failed")] /\ met' = met /\ row' = row /\ req[r].pc = "apply" /\ Busy(r)
    BY <1>10, <1>a DEF ApplyFails, Steps, Busy, Done
  <2> QED
    BY <1>10, <2>1, ApplyFailsIs DEF StepOf, Passes, Calls, Wrote, Made
<1>11. CASE Complete(r)
  <2>1. CASE row[On(r)].live
    BY <1>11, <1>a, <2>1, CompleteIs DEF Complete, StepOf, Steps, Writes, Completed
  <2>2. CASE ~row[On(r)].live
    BY <1>11, <1>a, <2>2 DEF Complete, StepOf, Steps, Passes, Busy, Done
  <2> QED
    BY <2>1, <2>2
<1>12. CASE Clean(r)
  BY <1>12, <1>a DEF Clean, StepOf, Steps, Calls, Gone
<1>13. CASE Erase(r)
  <2>1. req' = [req EXCEPT ![r] = At(r, "ok")] /\ met' = met /\ gw' = gw /\ req[r].pc = "erase"
    BY <1>13, <1>a DEF Erase, Steps
  <2> QED
    BY <1>13, <2>1, EraseIs DEF StepOf, Writes, Erased
<1>14. CASE Store(r)
  <2>1. CASE ~row[On(r)].live
    BY <1>14, <1>a, <2>1 DEF Store, StepOf, Steps, Passes, Busy, Done
  <2>2. CASE row[On(r)].live
    <3>1. req' = [req EXCEPT ![r] = At(r, "ok")] /\ met' = met /\ gw' = gw /\ req[r].pc = "store"
      BY <1>14, <1>a, <2>2 DEF Store, Steps
    <3>2. row' = row \/ row' = [row EXCEPT ![On(r)].status = "online"]
      BY <1>14, <2>2 DEF Store
    <3>3. CASE row' = row
      BY <3>1, <3>3 DEF StepOf, Passes
    <3>4. CASE row' = [row EXCEPT ![On(r)].status = "online"]
      BY <2>2, <3>1, <3>4, StoreIs DEF StepOf, Writes, Stored
    <3> QED
      BY <3>2, <3>3, <3>4
  <2> QED
    BY <2>1, <2>2
<1>15. CASE Cut(r)
  BY <1>15, <1>a DEF Cut, StepOf, Passes, Steps
<1> QED
  BY <1>0, <1>1, <1>1a, <1>2, <1>3, <1>4, <1>4a, <1>5, <1>6, <1>7, <1>8, <1>9, <1>10, <1>11, <1>12, <1>13, <1>14, <1>15

-----------------------------------------------------------------------------
(* Types *)

\* Each shape of step keeps the types.
LEMMA TypeStep ==
    ASSUME TypeOK, NEW r \in Requests, StepOf(r)
    PROVE  TypeOK'
<1> USE AgentAssumption
<1>0. row \in [Requests -> RowState] /\ gw \in [Requests -> GwState] /\ req \in [Requests -> ReqState]
      /\ met \subseteq SUBSET Requests /\ On(r) \in Requests
      /\ \A q \in Requests : req[q].kind \in {"worker", "added"} => req[q].agent = q
  BY Parts DEF On, ReqState
<1>a. ASSUME NEW pc \in Steps PROVE At(r, pc) \in ReqState
  BY <1>0 DEF At, ReqState
<1>b. \A pc \in Steps : At(r, pc).kind = req[r].kind /\ At(r, pc).agent = req[r].agent
  BY DEF At
<1>c. \A kind, a : Meets(r, kind, a) \subseteq SUBSET Requests
  BY DEF Meets
<1>d. ASSUME NEW new \in RowState PROVE [row EXCEPT ![On(r)] = new] \in [Requests -> RowState]
  BY <1>0
<1>e. ASSUME NEW new \in GwState PROVE [gw EXCEPT ![On(r)] = new] \in [Requests -> GwState]
  BY <1>0
<1>f. ASSUME NEW pc \in Steps, req' = [req EXCEPT ![r] = At(r, pc)]
      PROVE  req' \in [Requests -> ReqState] /\ \A q \in Requests : req'[q].kind \in {"worker", "added"} => req'[q].agent = q
  BY <1>0, <1>a, <1>b, <1>f
<1>g. Inserted(r) \in RowState /\ Minted(r) \in RowState /\ Completed(r) \in RowState
      /\ Stored(r) \in RowState /\ Erased(r) \in RowState
  BY <1>0 DEF Inserted, Minted, Completed, Stored, Erased, RowState
<1>h. Wrote(r) \in GwState /\ Made(r) \in GwState /\ Gone \in GwState
  BY <1>0 DEF Wrote, Made, Gone, GwState
<1>i. {"clear", "ok", "failed", "apply", "complete", "erase"} \subseteq Steps
  BY DEF Steps
<1>1. CASE Passes(r)
  <2>1. CASE \E pc \in Steps : req' = [req EXCEPT ![r] = At(r, pc)]
    <3>1. PICK pc \in Steps : req' = [req EXCEPT ![r] = At(r, pc)]
      BY <2>1
    <3>2. req' \in [Requests -> ReqState] /\ \A q \in Requests : req'[q].kind \in {"worker", "added"} => req'[q].agent = q
      BY <3>1, <1>f
    <3> QED
      BY <1>1, <1>0, <3>2 DEF Passes, RowState, GwState, ReqState, TypeOK
  <2>2. CASE /\ req[r].kind = "lead"
             /\ \E a \in Leads : req' = [req EXCEPT ![r] = [pc |-> "ok", kind |-> "lead", agent |-> a, saw |-> req[r].saw]]
    <3>1. req' \in [Requests -> ReqState] /\ \A q \in Requests : req'[q].kind \in {"worker", "added"} => req'[q].agent = q
      BY <1>0, <1>i, <2>2 DEF Leads, ReqState, AllKinds
    <3> QED
      BY <1>1, <1>0, <3>1 DEF Passes, TypeOK, RowState, GwState, ReqState
  <2> QED
    BY <1>1, <1>i, <2>1, <2>2 DEF Passes
<1>2. CASE \E a \in Requests : Begins(r, a)
  <2>1. req' \in [Requests -> ReqState] /\ \A q \in Requests : req'[q].kind \in {"worker", "added"} => req'[q].agent = q
    BY <1>0, <1>2 DEF Begins, ReqState, Seen
  <2>2. row' = row /\ gw' = gw /\ met' \subseteq SUBSET Requests
    BY <1>0, <1>2, <1>c DEF Begins
  <2> QED
    BY <1>0, <2>1, <2>2 DEF TypeOK, RowState, GwState, ReqState
<1>3. CASE /\ req' = [req EXCEPT ![r] = At(r, "apply")]
           /\ row' = [row EXCEPT ![r] = Inserted(r)] /\ gw' = gw /\ met' = met
  <2>1. row' \in [Requests -> RowState]
    BY <1>0, <1>3, <1>g
  <2>2. req' \in [Requests -> ReqState] /\ \A q \in Requests : req'[q].kind \in {"worker", "added"} => req'[q].agent = q
    BY <1>3, <1>f, <1>i
  <2> QED
    BY <1>0, <1>3, <2>1, <2>2 DEF TypeOK, RowState, GwState, ReqState
<1>4. ASSUME NEW from, NEW pc \in Steps, NEW new \in RowState, Writes(r, from, pc, new) PROVE TypeOK'
  <2>1. row' \in [Requests -> RowState]
    BY <1>4, <1>d DEF Writes
  <2>2. req' = [req EXCEPT ![r] = At(r, pc)] /\ gw' = gw /\ met' = met
    BY <1>4 DEF Writes
  <2> QED
    BY <1>0, <1>f, <2>1, <2>2 DEF TypeOK, RowState, GwState, ReqState
<1>5. ASSUME NEW from, NEW pc \in Steps, NEW new \in GwState, Calls(r, from, pc, new) PROVE TypeOK'
  <2>1. gw' \in [Requests -> GwState]
    BY <1>5, <1>e DEF Calls
  <2>2. req' = [req EXCEPT ![r] = At(r, pc)] /\ row' = row /\ met' = met
    BY <1>5 DEF Calls
  <2> QED
    BY <1>0, <1>f, <2>1, <2>2 DEF TypeOK, RowState, GwState, ReqState
<1> QED
  BY <1>1, <1>2, <1>3, <1>4, <1>5, <1>g, <1>h, <1>i DEF StepOf

\* The type invariant holds for any number of requests and any limit.
THEOREM TypeCorrect == Spec => []TypeOK
<1>1. Init => TypeOK
  BY DEF Init, TypeOK, Steps, AllKinds
<1>2. TypeOK /\ [Next]_vars => TypeOK'
  <2>1. CASE UNCHANGED vars
    BY <2>1 DEF TypeOK, vars
  <2> QED
    BY <2>1, StepForm, TypeStep
<1> QED
  BY <1>1, <1>2, PTL DEF Spec

-----------------------------------------------------------------------------
(* Requests that overlap *)

Before == {"new", "check", "clear"}
Making == Provisioning

\* How far a request is, and what it works on; an agent whose request has not inserted
\* it is nobody else's.
Shape ==
    \A r \in Requests :
        /\ req[r].pc \in Before => On(r) = r /\ ~row[r].live /\ \A s \in Requests : On(s) = r => s = r
        /\ req[r].pc \in {"check", "clear"} => req[r].kind \in {"lead", "worker", "added"}
        /\ req[r].pc \in {"mint", "apply", "complete"} => req[r].kind \in Making
        /\ req[r].pc \in {"clean", "erase"} => req[r].kind = "delete"

\* Two requests on the same agent, to create a lead or to create a worker.
Same(r, s) == On(r) = On(s) \/ \E S \in {{"lead"}, {"worker", "added"}} : req[r].kind \in S /\ req[s].kind \in S

Overlap == \A r, s \in Requests : r # s /\ Busy(r) /\ Busy(s) /\ Same(r, s) => Met(r, s)

\* Meeting is mutual.
LEMMA Symmetric == \A r, s : Met(r, s) <=> Met(s, r)
<1>1. \A r, s : {r, s} = {s, r}
  OBVIOUS
<1> QED
  BY <1>1 DEF Met

\* met only grows.
LEMMA MeetingsStay ==
    ASSUME NEW r \in Requests, StepOf(r)
    PROVE  \A p, q : Met(p, q) => Met(p, q)'
<1>1. met \subseteq met'
  BY DEF StepOf, Passes, Begins, Writes, Calls
<1> QED
  BY <1>1 DEF Met

\* Each shape of step keeps the kinds of request where they belong.
LEMMA ShapeStep ==
    ASSUME TypeOK, Shape, NEW r \in Requests, StepOf(r)
    PROVE  Shape'
<1>0. /\ row \in [Requests -> RowState] /\ req \in [Requests -> ReqState] /\ On(r) \in Requests
  BY Parts DEF On, ReqState
<1>a. \A pc : At(r, pc).kind = req[r].kind /\ At(r, pc).agent = req[r].agent /\ At(r, pc).pc = pc
  BY DEF At
<1>1. CASE Passes(r)
  <2>1. \A q \in Requests : row'[q].live = row[q].live
    BY <1>1 DEF Passes
  <2>2. CASE \E a \in Leads : req' = [req EXCEPT ![r] = [pc |-> "ok", kind |-> "lead", agent |-> a, saw |-> req[r].saw]]
    BY <1>0, <2>1, <2>2 DEF Shape, On, Leads, Before
  <2>3. CASE /\ \/ req[r].pc = "check" /\ req' = [req EXCEPT ![r] = At(r, "clear")]
                \/ req' = [req EXCEPT ![r] = At(r, "ok")]
                \/ req' = [req EXCEPT ![r] = At(r, "failed")]
    BY <1>0, <1>a, <2>1, <2>3 DEF Shape, On, Before
  <2> QED
    BY <1>1, <2>2, <2>3 DEF Passes
<1>2. CASE \E a \in Requests : Begins(r, a)
  BY <1>0, <1>2 DEF Begins, Starts, Shape, On, Before, Making, Provisioning
<1>3. CASE /\ req[r].pc = "clear" /\ req' = [req EXCEPT ![r] = At(r, "apply")]
           /\ row' = [row EXCEPT ![r] = Inserted(r)]
  BY <1>0, <1>a, <1>3 DEF Shape, On, Before, Making, Provisioning, Inserted
<1>4. ASSUME NEW from \in {"mint", "complete", "store"}, NEW pc \in {"apply", "ok"}, NEW new,
             from = "mint" \/ pc = "ok", Writes(r, from, pc, new), row[On(r)].live
      PROVE  Shape'
  BY <1>0, <1>a, <1>4 DEF Shape, On, Before, Making, Writes
<1>5. CASE Writes(r, "erase", "ok", Erased(r))
  BY <1>0, <1>a, <1>5 DEF Shape, On, Before, Making, Writes, Erased
<1>6. ASSUME NEW from \in {"apply", "clean"}, NEW pc \in {"complete", "failed", "erase"}, NEW new,
             from = "clean" <=> pc = "erase", Calls(r, from, pc, new)
      PROVE  Shape'
  BY <1>0, <1>a, <1>6 DEF Shape, On, Before, Making, Calls
<1> QED
  BY <1>1, <1>2, <1>3, <1>4, <1>5, <1>6 DEF StepOf

\* Two requests that are under way have met.
LEMMA OverlapStep ==
    ASSUME TypeOK, Overlap, NEW r \in Requests, StepOf(r)
    PROVE  Overlap'
<1>0. req \in [Requests -> ReqState]
  BY Parts
<1>1. \A p, q : Met(p, q) => Met(p, q)'
  BY MeetingsStay
<1>a. \A pc : At(r, pc).pc = pc
  BY DEF At
<1>2. CASE \E a \in Requests : Begins(r, a)
  <2>1. PICK a \in Requests, kind \in AllKinds, pc \in Steps, saw \in Seen :
            /\ met' = met \cup Meets(r, kind, a)
            /\ req' = [req EXCEPT ![r] = [pc |-> pc, kind |-> kind, agent |-> a, saw |-> saw]]
    BY <1>2 DEF Begins
  <2>2. \A s \in Requests : s # r /\ Clash(s, kind, a) => Met(r, s)'
    BY <2>1 DEF Meets, Met
  <2>3. \A s \in Requests : s # r => req'[s] = req[s]
    BY <1>0, <2>1
  <2>4. req'[r].kind = kind /\ req'[r].agent = a
    BY <1>0, <2>1
  <2>5. \A s \in Requests : s # r /\ Busy(s)' /\ Same(r, s)' => Clash(s, kind, a)
    BY <2>3, <2>4 DEF Clash, Same, Busy, On
  <2>6. \A s \in Requests : s # r /\ Same(s, r)' => Same(r, s)'
    BY DEF Same
  <2>7. \A s \in Requests : s # r /\ Clash(s, kind, a) => Met(s, r)'
    <3>1. \A p, q : {p, q} = {q, p}
      OBVIOUS
    <3> QED
      BY <2>2, <3>1 DEF Met
  <2>8. ASSUME NEW p \in Requests, NEW q \in Requests, p # q, p # r, q # r, Busy(p)', Busy(q)', Same(p, q)'
        PROVE  Met(p, q)'
    BY <1>1, <2>3, <2>8 DEF Overlap, Busy, Same, On
  <2> QED
    BY <2>2, <2>5, <2>6, <2>7, <2>8 DEF Overlap
<1>3. CASE /\ Busy(r) /\ \A s \in Requests : s # r => req'[s] = req[s]
           /\ Busy(r)' => req'[r].kind = req[r].kind /\ req'[r].agent = req[r].agent
  <2>1. \A s \in Requests : Busy(s)' => Busy(s) /\ req'[s].kind = req[s].kind /\ req'[s].agent = req[s].agent
    BY <1>3 DEF Busy
  <2> QED
    BY <1>1, <2>1 DEF Overlap, Same, On
<1>4. CASE ~\E a \in Requests : Begins(r, a)
  <2>1. Busy(r)
    BY <1>4 DEF StepOf, Passes, Busy, Done, Writes, Calls
  <2>2. \A s \in Requests : s # r => req'[s] = req[s]
    BY <1>0, <1>4 DEF StepOf, Passes, Writes, Calls
  <2>3. Busy(r)' => req'[r].kind = req[r].kind /\ req'[r].agent = req[r].agent
    BY <1>0, <1>4 DEF StepOf, Passes, Writes, Calls, At, Busy, Done
  <2> QED
    BY <1>3, <2>1, <2>2, <2>3
<1> QED
  BY <1>2, <1>4

-----------------------------------------------------------------------------
(* Leads and workers *)

Clear(r, kind) == req[r].pc = "clear" /\ req[r].kind = kind

\* A lead about to be inserted has met the leads there are.
LeadInv ==
    /\ OneLead
    /\ \A r \in Requests, a \in Leads : Clear(r, "lead") => Met(r, a)

\* The workers whose requests did not overlap this one.
Strangers(r) == {a \in Workers : ~Met(r, a)}

\* A worker about to be inserted for the lead still has its place among those.
WorkInv == \A r \in Requests : Clear(r, "worker") => Cardinality(Strangers(r)) < MaxAgents

\* The sets of workers are finite, so they have a size.
LEMMA Finite ==
    ASSUME NEW S \in SUBSET Requests
    PROVE  IsFiniteSet(S) /\ Cardinality(S) \in Nat
BY AgentAssumption, FS_Subset, FS_CardinalityType

\* Who is a lead, who is a worker and who is about to be inserted changes in few ways.
LEMMA CrewStep ==
    ASSUME TypeOK, Shape, NEW r \in Requests, StepOf(r)
    PROVE  \/ /\ Leads' \subseteq Leads /\ Workers' \subseteq Workers
              /\ \A q \in Requests, kind \in {"lead", "worker"} : Clear(q, kind)' => Clear(q, kind)
           \/ /\ Leads' = Leads /\ Workers' = Workers
              /\ \/ /\ Leads = {}
                    /\ \A q \in Requests, kind \in {"lead", "worker"} :
                          Clear(q, kind)' => Clear(q, kind) \/ (q = r /\ kind = "lead")
                 \/ /\ Cardinality(Workers) < MaxAgents
                    /\ \A q \in Requests, kind \in {"lead", "worker"} :
                          Clear(q, kind)' => Clear(q, kind) \/ (q = r /\ kind = "worker")
           \/ /\ \/ Clear(r, "lead") /\ Leads' = Leads \cup {r} /\ Workers' = Workers
                 \/ /\ Clear(r, "worker") \/ Clear(r, "added")
                    /\ Leads' = Leads /\ Workers' = Workers \cup {r} /\ met' = met
              /\ \A q \in Requests, kind \in {"lead", "worker"} : Clear(q, kind)' => Clear(q, kind) /\ q # r
<1>0. /\ row \in [Requests -> RowState] /\ req \in [Requests -> ReqState] /\ On(r) \in Requests
  BY Parts DEF On, ReqState
<1>a. \A pc : At(r, pc).kind = req[r].kind /\ At(r, pc).agent = req[r].agent /\ At(r, pc).pc = pc
  BY DEF At
<1>1. CASE Passes(r)
  <2>1. Leads' = Leads /\ Workers' = Workers
    BY <1>1 DEF Passes, Leads, Workers
  <2>2. CASE /\ req[r].pc = "check" /\ req[r].kind = "lead" /\ Leads = {}
             /\ req' = [req EXCEPT ![r] = At(r, "clear")]
    BY <1>0, <1>a, <2>1, <2>2 DEF Clear
  <2>3. CASE /\ req[r].pc = "check" /\ req[r].kind = "worker" /\ Cardinality(Workers) < MaxAgents
             /\ req' = [req EXCEPT ![r] = At(r, "clear")]
    BY <1>0, <1>a, <2>1, <2>3 DEF Clear
  <2>4. CASE \/ \E a \in Leads : req' = [req EXCEPT ![r] = [pc |-> "ok", kind |-> "lead", agent |-> a, saw |-> req[r].saw]]
             \/ req' = [req EXCEPT ![r] = At(r, "ok")]
             \/ req' = [req EXCEPT ![r] = At(r, "failed")]
    BY <1>0, <1>a, <2>1, <2>4 DEF Clear
  <2> QED
    BY <1>1, <2>2, <2>3, <2>4 DEF Passes
<1>2. CASE \E a \in Requests : Begins(r, a)
  <2>1. Leads' = Leads /\ Workers' = Workers
    BY <1>2 DEF Begins, Leads, Workers
  <2> QED
    BY <1>0, <1>2, <2>1 DEF Begins, Starts, Clear
<1>3. CASE /\ req[r].pc = "clear" /\ req' = [req EXCEPT ![r] = At(r, "apply")]
           /\ row' = [row EXCEPT ![r] = Inserted(r)] /\ met' = met
  <2>1. \A q \in Requests, kind \in {"lead", "worker"} : Clear(q, kind)' => Clear(q, kind) /\ q # r
    BY <1>0, <1>a, <1>3 DEF Clear
  <2>2. req[r].kind \in {"lead", "worker", "added"} /\ ~row[r].live
    BY <1>3 DEF Shape, Before
  <2>3. row'[r].live /\ (row'[r].lead <=> req[r].kind = "lead")
        /\ \A q \in Requests : q # r => row'[q] = row[q]
    BY <1>0, <1>3 DEF Inserted
  <2> QED
    BY <1>3, <2>1, <2>2, <2>3 DEF Leads, Workers, Clear
<1>4. CASE \E from \in {"mint", "complete", "store", "erase"}, pc \in {"apply", "ok"},
              new \in {Minted(r), Completed(r), Stored(r), Erased(r)} :
              Writes(r, from, pc, new) /\ (row[On(r)].live \/ new = Erased(r))
  <2>1. \A q \in Requests : (row'[q].live => row[q].live) /\ (row'[q].lead <=> row[q].lead)
    BY <1>0, <1>4 DEF Writes, Minted, Completed, Stored, Erased
  <2>2. \A q \in Requests, kind \in {"lead", "worker"} : Clear(q, kind)' => Clear(q, kind)
    BY <1>0, <1>a, <1>4 DEF Writes, Clear
  <2> QED
    BY <2>1, <2>2 DEF Leads, Workers
<1>5. CASE \E from, new : \E pc \in {"complete", "failed", "erase"} : Calls(r, from, pc, new)
  <2>1. Leads' = Leads /\ Workers' = Workers
    BY <1>5 DEF Calls, Leads, Workers
  <2> QED
    BY <1>0, <1>a, <1>5, <2>1 DEF Calls, Clear
<1> QED
  BY <1>1, <1>2, <1>3, <1>4, <1>5 DEF StepOf

\* Leads, and requests cleared to make one, have met pairwise.
LEMMA LeadStep ==
    ASSUME TypeOK, Shape, Overlap, LeadInv, NEW r \in Requests, StepOf(r)
    PROVE  LeadInv'
<1>1. \A p, q : Met(p, q) => Met(p, q)'
  BY MeetingsStay
<1>2. \A p, q \in Requests : p # q /\ Clear(p, "lead") /\ Clear(q, "lead") => Met(p, q)
  BY DEF Overlap, Busy, Done, Clear, Same
<1>3. Leads \subseteq Requests /\ \A p, q : Met(p, q) <=> Met(q, p)
  BY Symmetric DEF Leads
<1> QED
  BY <1>1, <1>2, <1>3, CrewStep DEF LeadInv, OneLead, Clear

\* A worker about to be inserted keeps its place: whoever inserts another one first is
\* under way at the same time, and has met it.
LEMMA WorkStep ==
    ASSUME TypeOK, Shape, Overlap, WorkInv, NEW r \in Requests, StepOf(r)
    PROVE  WorkInv'
<1>1. \A p, q : Met(p, q) => Met(p, q)'
  BY MeetingsStay
<1>2. \A q : Strangers(q) \in SUBSET Requests
  BY DEF Strangers, Workers
<1>3. ASSUME NEW q \in Requests, Clear(q, "worker"), Strangers(q)' \subseteq Strangers(q)
      PROVE  Cardinality(Strangers(q)') < MaxAgents
  <2>1. IsFiniteSet(Strangers(q)) /\ Cardinality(Strangers(q)) \in Nat /\ Cardinality(Strangers(q)') \in Nat
        /\ Cardinality(Strangers(q)') <= Cardinality(Strangers(q))
    BY <1>2, <1>3, Finite, FS_Subset
  <2> QED
    BY <1>3, <2>1, AgentAssumption DEF WorkInv
<1>4. CASE /\ Workers' \subseteq Workers
           /\ \A q \in Requests : Clear(q, "worker")' => Clear(q, "worker")
  <2>1. \A q \in Requests : Strangers(q)' \subseteq Strangers(q)
    BY <1>1, <1>4 DEF Strangers
  <2> QED
    BY <1>3, <1>4, <2>1 DEF WorkInv
<1>5. CASE /\ Workers' = Workers /\ Cardinality(Workers) < MaxAgents
           /\ \A q \in Requests : Clear(q, "worker")' => Clear(q, "worker") \/ q = r
  <2>1. ASSUME NEW q \in Requests PROVE Cardinality(Strangers(q)') < MaxAgents
    <3>1. Strangers(q)' \in SUBSET Workers /\ Workers \in SUBSET Requests
      BY <1>5 DEF Strangers, Workers
    <3>2. /\ Cardinality(Strangers(q)') \in Nat /\ Cardinality(Workers) \in Nat
          /\ Cardinality(Strangers(q)') <= Cardinality(Workers)
      BY <3>1, Finite, FS_Subset
    <3> QED
      BY <1>5, <3>2, AgentAssumption
  <2> QED
    BY <2>1 DEF WorkInv
<1>6. CASE /\ Clear(r, "worker") \/ Clear(r, "added")
           /\ Workers' = Workers \cup {r}
           /\ \A q \in Requests : Clear(q, "worker")' => Clear(q, "worker") /\ q # r
  <2>1. ASSUME NEW q \in Requests, Clear(q, "worker"), q # r PROVE Strangers(q)' \subseteq Strangers(q)
    <3>1. Met(q, r)
      BY <1>6, <2>1 DEF Overlap, Clear, Same, Busy, Done
    <3> QED
      BY <1>1, <1>6, <3>1 DEF Strangers
  <2> QED
    BY <1>3, <1>6, <2>1 DEF WorkInv
<1> QED
  BY <1>4, <1>5, <1>6, CrewStep

-----------------------------------------------------------------------------
(* An agent and the requests on it *)

\* Two requests on one agent that are both under way.
LEMMA BothOn ==
    ASSUME Overlap, NEW r \in Requests, NEW s \in Requests, r # s, Busy(r), Busy(s), On(r) = On(s)
    PROVE  MetOn(On(r))
BY DEF MetOn, Overlap, Same

\* Requests that met on an agent have met on it ever after.
LEMMA MetOnStays ==
    ASSUME TypeOK, Shape, NEW r \in Requests, StepOf(r)
    PROVE  \A a \in Requests : MetOn(a) => MetOn(a)'
<1>0. req \in [Requests -> ReqState]
  BY Parts
<1>1. \A p, q : Met(p, q) => Met(p, q)'
  BY MeetingsStay
<1>2. \A q \in Requests : q # r => On(q)' = On(q)
  BY <1>0 DEF StepOf, Passes, Begins, Writes, Calls, On
<1>3. On(r)' = On(r) \/ \A q \in Requests : On(q) = On(r) => q = r
  <2>1. CASE req[r].pc \in Before
    BY <2>1 DEF Shape
  <2>2. CASE req[r].pc \notin Before
    BY <1>0, <2>2 DEF StepOf, Passes, Begins, Writes, Calls, On, At, Before
  <2> QED
    BY <2>1, <2>2
<1> QED
  BY <1>1, <1>2, <1>3 DEF MetOn

\* The gateway keeps an agent without a row, or is about to be left with one, only
\* when requests met on the agent.
Orphans ==
    /\ \A a \in Requests : gw[a].there /\ ~row[a].live => MetOn(a)
    /\ \A r \in Requests : req[r].pc = "erase" /\ gw[On(r)].there => MetOn(On(r))
    /\ \A r \in Requests : req[r].pc \in {"apply", "complete"} /\ ~row[On(r)].live => MetOn(On(r))

\* What the gateway has without a row comes from an overlap.
LEMMA OrphanStep ==
    ASSUME TypeOK, Shape, Overlap, Orphans, NEW r \in Requests, StepOf(r)
    PROVE  Orphans'
<1>0. /\ row \in [Requests -> RowState] /\ gw \in [Requests -> GwState] /\ req \in [Requests -> ReqState]
      /\ \A q \in Requests : On(q) \in Requests
  BY Parts DEF On, ReqState
<1>a. \A pc : At(r, pc).kind = req[r].kind /\ At(r, pc).agent = req[r].agent /\ At(r, pc).pc = pc
  BY DEF At
<1>b. \A a \in Requests : MetOn(a) => MetOn(a)'
  BY MetOnStays
<1>c. \A q \in Requests : q # r /\ Busy(q) /\ Busy(r) /\ On(q) = On(r) => MetOn(On(r))
  BY BothOn
<1>d. \A q \in Requests : req[q].pc \in {"erase", "apply", "complete", "clean"} => Busy(q)
  BY DEF Busy, Done
<1>1. CASE Passes(r)
  <2>1. row' = row /\ gw' = gw /\ req'[r].pc \in {"clear", "ok", "failed"}
    BY <1>0, <1>a, <1>1 DEF Passes
  <2>2. \A q \in Requests : q # r => req'[q] = req[q]
    BY <1>0, <1>1 DEF Passes
  <2>3. \A q \in Requests : q # r => On(q)' = On(q)
    BY <2>2 DEF On
  <2> QED
    BY <1>0, <1>b, <2>1, <2>2, <2>3 DEF Orphans
<1>2. CASE \E a \in Requests : Begins(r, a)
  <2>1. row' = row /\ gw' = gw /\ req'[r].pc \notin {"apply", "complete", "erase"}
    BY <1>0, <1>2 DEF Begins, Starts
  <2>2. \A q \in Requests : q # r => req'[q] = req[q]
    BY <1>0, <1>2 DEF Begins
  <2>3. \A q \in Requests : q # r => On(q)' = On(q)
    BY <2>2 DEF On
  <2> QED
    BY <1>0, <1>b, <2>1, <2>2, <2>3 DEF Orphans
<1>3. CASE /\ req[r].pc = "clear" /\ req' = [req EXCEPT ![r] = At(r, "apply")]
           /\ row' = [row EXCEPT ![r] = Inserted(r)] /\ gw' = gw
  <2>1. row'[r].live /\ On(r) = r /\ \A a \in Requests : a # r => row'[a] = row[a]
    BY <1>0, <1>3 DEF Inserted, Shape, Before
  <2>2. \A q \in Requests : req'[q].agent = req[q].agent
    BY <1>0, <1>a, <1>3
  <2>3. \A q \in Requests : q # r => req'[q].pc = req[q].pc
    BY <1>0, <1>3
  <2>4. req'[r].pc = "apply"
    BY <1>0, <1>a, <1>3
  <2> QED
    BY <1>0, <1>b, <1>3, <2>1, <2>2, <2>3, <2>4 DEF Orphans, On
<1>4. ASSUME NEW from \in {"mint", "complete", "store"}, NEW pc \in {"apply", "ok"},
             NEW new \in {Minted(r), Completed(r), Stored(r)}, Writes(r, from, pc, new), row[On(r)].live
      PROVE  Orphans'
  <2>1. \A a \in Requests : row'[a].live <=> row[a].live
    BY <1>0, <1>4 DEF Writes, Minted, Completed, Stored
  <2> QED
    BY <1>0, <1>a, <1>b, <1>4, <2>1 DEF Orphans, On, Writes
<1>5. CASE Writes(r, "erase", "ok", Erased(r))
  <2>1. \A a \in Requests : a # On(r) => row'[a] = row[a]
    BY <1>0, <1>5 DEF Writes
  <2>2. \A q \in Requests : q # r => req'[q] = req[q]
    BY <1>0, <1>5 DEF Writes
  <2>3. req'[r].pc = "ok" /\ req'[r].agent = req[r].agent /\ req[r].pc = "erase" /\ gw' = gw
    BY <1>0, <1>a, <1>5 DEF Writes
  <2>4. \A a \in Requests : gw'[a].there /\ ~row'[a].live => MetOn(a)'
    BY <1>0, <1>b, <2>1, <2>3 DEF Orphans
  <2>5. \A q \in Requests : req'[q].pc \in {"apply", "complete"} /\ ~row'[On(q)'].live => MetOn(On(q))'
    BY <1>0, <1>b, <1>c, <1>d, <2>1, <2>2, <2>3 DEF Orphans, On
  <2> QED
    BY <1>0, <1>b, <2>2, <2>3, <2>4, <2>5 DEF Orphans, On
<1>6. ASSUME NEW pc \in {"complete", "failed"}, NEW new \in {Wrote(r), Made(r)}, Calls(r, "apply", pc, new)
      PROVE  Orphans'
  <2>1. \A a \in Requests : a # On(r) => gw'[a] = gw[a]
    BY <1>0, <1>6 DEF Calls
  <2>2. \A q \in Requests : q # r => req'[q] = req[q]
    BY <1>0, <1>6 DEF Calls
  <2>3. req'[r].pc = pc /\ req'[r].agent = req[r].agent /\ req[r].pc = "apply" /\ row' = row
    BY <1>0, <1>a, <1>6 DEF Calls
  <2>4. \A a \in Requests : gw'[a].there /\ ~row'[a].live => MetOn(a)'
    BY <1>0, <1>b, <2>1, <2>3 DEF Orphans
  <2>5. \A q \in Requests : req'[q].pc = "erase" /\ gw'[On(q)'].there => MetOn(On(q))'
    BY <1>0, <1>b, <1>c, <1>d, <2>1, <2>2, <2>3 DEF Orphans, On
  <2> QED
    BY <1>0, <1>b, <2>2, <2>3, <2>4, <2>5 DEF Orphans, On
<1>7. CASE Calls(r, "clean", "erase", Gone)
  BY <1>0, <1>a, <1>b, <1>7 DEF Orphans, On, Calls, Gone
<1> QED
  BY <1>1, <1>2, <1>3, <1>4, <1>5, <1>6, <1>7 DEF StepOf

\* An update that is under way, or failed, accounts for the mark it left.
Marks ==
    \A a \in Requests : row[a].live /\ (row[a].status = "updating" \/ row[a].pending) =>
        \E q \in Requests : On(q) = a /\ req[q].kind \in Making /\ req[q].pc \in {"apply", "complete", "failed"}

\* A mark in a row has the request that left it.
LEMMA MarkStep ==
    ASSUME TypeOK, Shape, Marks, NEW r \in Requests, StepOf(r)
    PROVE  Marks'
<1>0. /\ row \in [Requests -> RowState] /\ req \in [Requests -> ReqState]
      /\ \A q \in Requests : On(q) \in Requests
  BY Parts DEF On, ReqState
<1>a. \A pc : At(r, pc).kind = req[r].kind /\ At(r, pc).agent = req[r].agent /\ At(r, pc).pc = pc
  BY DEF At
<1>b. \A q \in Requests : q # r => req'[q] = req[q]
  BY <1>0 DEF StepOf, Passes, Begins, Writes, Calls
<1> DEFINE Owed(q) == req[q].kind \in Making /\ req[q].pc \in {"apply", "complete", "failed"}
<1>c. ASSUME \A q \in Requests : Owed(q) => req'[q].agent = req[q].agent /\ req'[q].kind \in Making
                                              /\ req'[q].pc \in {"apply", "complete", "failed"}
      PROVE  \A a \in Requests : (\E q \in Requests : On(q) = a /\ Owed(q)) =>
                 \E q \in Requests : req'[q].agent = a /\ req'[q].kind \in Making
                                     /\ req'[q].pc \in {"apply", "complete", "failed"}
  BY <1>c DEF On
<1>1. CASE Passes(r)
  <2>1. \A q \in Requests : Owed(q) => req'[q].agent = req[q].agent /\ req'[q].kind \in Making
                                       /\ req'[q].pc \in {"apply", "complete", "failed"}
    BY <1>0, <1>a, <1>b, <1>1 DEF Passes, Busy, Done
  <2> QED
    BY <1>1, <1>c, <2>1 DEF Marks, Passes, On
<1>2. CASE \E a \in Requests : Begins(r, a)
  <2>1. \A q \in Requests : Owed(q) => req'[q] = req[q]
    BY <1>b, <1>2 DEF Begins
  <2> QED
    BY <1>2, <1>c, <2>1 DEF Marks, Begins, On
<1>3. CASE /\ req[r].pc = "clear" /\ req' = [req EXCEPT ![r] = At(r, "apply")]
           /\ row' = [row EXCEPT ![r] = Inserted(r)]
  <2>1. \A q \in Requests : Owed(q) => req'[q] = req[q]
    BY <1>b, <1>3
  <2>2. req'[r].agent = r /\ req'[r].kind \in Making /\ req'[r].pc = "apply"
    BY <1>0, <1>a, <1>3 DEF Shape, Before, Making, Provisioning, On
  <2>3. \A a \in Requests : a # r => row'[a] = row[a]
    BY <1>0, <1>3
  <2> QED
    BY <1>c, <2>1, <2>2, <2>3 DEF Marks, On
<1>4. CASE Writes(r, "mint", "apply", Minted(r))
  <2>1. \A q \in Requests : Owed(q) => req'[q] = req[q]
    BY <1>b, <1>4 DEF Writes
  <2>2. req'[r].agent = On(r) /\ req'[r].kind \in Making /\ req'[r].pc = "apply"
    BY <1>0, <1>a, <1>4 DEF Shape, Making, On, Writes
  <2>3. \A a \in Requests : a # On(r) => row'[a] = row[a]
    BY <1>0, <1>4 DEF Writes
  <2> QED
    BY <1>c, <2>1, <2>2, <2>3 DEF Marks, On
<1>5. CASE Writes(r, "complete", "ok", Completed(r))
  <2>1. \A a \in Requests : a # On(r) => row'[a] = row[a]
    BY <1>0, <1>5 DEF Writes
  <2>2. row'[On(r)].status = "online" /\ ~row'[On(r)].pending
    BY <1>0, <1>5 DEF Writes, Completed
  <2>3. \A a \in Requests, q \in Requests : a # On(r) /\ On(q) = a => q # r /\ req'[q] = req[q]
    BY <1>b
  <2> QED
    BY <1>0, <2>1, <2>2, <2>3 DEF Marks, On
<1>6. ASSUME NEW from \in {"store", "erase"}, NEW new \in {Stored(r), Erased(r)}, Writes(r, from, "ok", new),
             row[On(r)].live \/ new = Erased(r)
      PROVE  Marks'
  <2>1. \A q \in Requests : Owed(q) => req'[q] = req[q]
    BY <1>b, <1>6 DEF Writes
  <2>2. \A a \in Requests : a # On(r) => row'[a] = row[a]
    BY <1>0, <1>6 DEF Writes
  <2>3. /\ row'[On(r)].live => row[On(r)].live
        /\ row'[On(r)].status = "updating" => row[On(r)].status = "updating"
        /\ row'[On(r)].pending => row[On(r)].pending
    <3>1. row'[On(r)] = new
      BY <1>0, <1>6 DEF Writes
    <3>2. CASE new = Stored(r) /\ row[On(r)].live
      BY <3>1, <3>2 DEF Stored
    <3>3. CASE new = Erased(r)
      BY <3>1, <3>3 DEF Erased
    <3> QED
      BY <1>6, <3>2, <3>3
  <2> QED
    BY <1>0, <1>c, <2>1, <2>2, <2>3 DEF Marks, On
<1>7. ASSUME NEW from \in {"apply", "clean"}, NEW pc \in {"complete", "failed", "erase"}, NEW new,
             from = "clean" <=> pc = "erase", Calls(r, from, pc, new)
      PROVE  Marks'
  <2>1. \A q \in Requests : Owed(q) => req'[q].agent = req[q].agent /\ req'[q].kind \in Making
                                       /\ req'[q].pc \in {"apply", "complete", "failed"}
    BY <1>0, <1>a, <1>b, <1>7 DEF Calls
  <2> QED
    BY <1>7, <1>c, <2>1 DEF Marks, Calls, On
<1> QED
  BY <1>1, <1>2, <1>3, <1>4, <1>5, <1>6, <1>7 DEF StepOf

\* The gateway's agent has the token of the row.
KeyFits(a) == gw[a].there /\ gw[a].token = row[a].token

\* Requests met on the agent, or a deletion of it failed: nothing is said of it.
Excused(a) == MetOn(a) \/ FailedOn("delete", a)

\* Provisioning it is under way, or failed.
Owed(a) ==
    \E q \in Requests : On(q) = a /\ req[q].kind \in Making /\ req[q].pc \in {"apply", "complete", "failed"}

Erasing(a) == \E d \in Requests : On(d) = a /\ req[d].pc = "erase"

\* How the token gets from the request that minted it to the gateway.
Keyed ==
    /\ \A a \in Requests : row[a].live => KeyFits(a) \/ Excused(a) \/ Erasing(a) \/ Owed(a)
    /\ \A a \in Requests : row[a].live /\ row[a].status = "online" =>
          KeyFits(a) \/ Excused(a) \/ Erasing(a) \/ (Reported(a) /\ Owed(a))
    /\ \A q \in Requests : req[q].pc = "apply" /\ row[On(q)].live => row[On(q)].token = q \/ Excused(On(q))
    /\ \A q \in Requests : req[q].pc = "complete" /\ row[On(q)].live => KeyFits(On(q)) \/ Excused(On(q))
    /\ \A q \in Requests : req[q].pc = "store" /\ row[On(q)].live =>
          KeyFits(On(q)) \/ Excused(On(q)) \/ (req[q].kind = "report" /\ Owed(On(q)))

\* A heartbeat that an administrator sent has been sent ever after.
LEMMA ReportedStays ==
    ASSUME TypeOK, NEW r \in Requests, StepOf(r)
    PROVE  \A a \in Requests : Reported(a) => Reported(a)'
<1>0. req \in [Requests -> ReqState]
  BY Parts
<1>1. \A q \in Requests : req[q].pc = "ok" => req'[q] = req[q]
  BY <1>0 DEF StepOf, Passes, Begins, Writes, Calls, Busy, Done
<1> QED
  BY <1>1 DEF Reported, On

\* Only the end of provisioning pays what is owed, and what a step starts to owe.
LEMMA OwedStays ==
    ASSUME TypeOK, Shape, NEW r \in Requests, StepOf(r)
    PROVE  /\ \A a \in Requests : Owed(a) => Owed(a)' \/ (a = On(r) /\ Writes(r, "complete", "ok", Completed(r)))
           /\ \A a \in Requests : req'[r].pc = "apply" /\ a = req'[r].agent => Owed(a)'
<1>0. req \in [Requests -> ReqState]
  BY Parts
<1>a. \A pc : At(r, pc).kind = req[r].kind /\ At(r, pc).agent = req[r].agent /\ At(r, pc).pc = pc
  BY DEF At
<1>b. \A q \in Requests : q # r => req'[q] = req[q]
  BY <1>0 DEF StepOf, Passes, Begins, Writes, Calls
<1>1. ASSUME ~Writes(r, "complete", "ok", Completed(r)), req[r].pc \in {"apply", "complete", "failed"}
      PROVE  req'[r].agent = req[r].agent /\ req'[r].kind = req[r].kind
             /\ req'[r].pc \in {"apply", "complete", "failed"}
  BY <1>0, <1>a, <1>1 DEF StepOf, Passes, Begins, Writes, Calls, Busy, Done
<1>2. ASSUME NEW a \in Requests, Owed(a), ~(a = On(r) /\ Writes(r, "complete", "ok", Completed(r)))
      PROVE  Owed(a)'
  <2>1. PICK q \in Requests : On(q) = a /\ req[q].kind \in Making /\ req[q].pc \in {"apply", "complete", "failed"}
    BY <1>2 DEF Owed
  <2>2. CASE q = r
    BY <1>1, <1>2, <2>1, <2>2 DEF Owed, On
  <2>3. CASE q # r
    BY <1>b, <2>1, <2>3 DEF Owed, On
  <2> QED
    BY <2>2, <2>3
<1>3. ASSUME req'[r].pc = "apply", NEW a \in Requests, a = req'[r].agent PROVE Owed(a)'
  <2>1. req[r].pc \in {"clear", "mint"} /\ req'[r].kind = req[r].kind
    BY <1>0, <1>a, <1>3 DEF StepOf, Passes, Begins, Starts, Writes, Calls
  <2>2. req'[r].kind \in Making
    BY <2>1 DEF Shape, Making, Provisioning
  <2> QED
    BY <1>3, <2>2 DEF Owed, On
<1> QED
  BY <1>2, <1>3

\* What excuses a key that does not fit lasts.
LEMMA ExcusedStays ==
    ASSUME TypeOK, Shape, NEW r \in Requests, StepOf(r)
    PROVE  \A a \in Requests : Excused(a) => Excused(a)'
<1>0. req \in [Requests -> ReqState]
  BY Parts
<1>1. \A q \in Requests : req[q].pc = "failed" => req'[q] = req[q]
  BY <1>0 DEF StepOf, Passes, Begins, Writes, Calls, Busy, Done
<1>2. \A a \in Requests : FailedOn("delete", a) => FailedOn("delete", a)'
  BY <1>1 DEF FailedOn, On
<1> QED
  BY <1>2, MetOnStays DEF Excused

\* Each shape of step keeps the keys of agents shown online.
LEMMA KeyStep ==
    ASSUME TypeOK, Shape, Overlap, Overlap', Keyed, NEW r \in Requests, StepOf(r)
    PROVE  Keyed'
<1>0. /\ row \in [Requests -> RowState] /\ gw \in [Requests -> GwState] /\ req \in [Requests -> ReqState]
      /\ \A q \in Requests : On(q) \in Requests
  BY Parts DEF On, ReqState
<1>a. \A pc : At(r, pc).kind = req[r].kind /\ At(r, pc).agent = req[r].agent /\ At(r, pc).pc = pc
  BY DEF At
<1>b. \A a \in Requests : Excused(a) => Excused(a)'
  BY ExcusedStays
<1>c. \A q \in Requests : q # r /\ Busy(q) /\ Busy(r) /\ On(q) = On(r) => Excused(On(r))
  BY BothOn DEF Excused
<1>d. \A q \in Requests : req[q].pc \in {"erase", "apply", "complete", "clean", "store", "mint"} => Busy(q)
  BY DEF Busy, Done
<1>e. \A q \in Requests : q # r => req'[q] = req[q]
  BY <1>0 DEF StepOf, Passes, Begins, Writes, Calls
<1>f. \A a \in Requests : Reported(a) => Reported(a)'
  BY ReportedStays
<1>g. /\ \A a \in Requests : Owed(a) => Owed(a)' \/ (a = On(r) /\ Writes(r, "complete", "ok", Completed(r)))
      /\ \A a \in Requests : req'[r].pc = "apply" /\ a = req'[r].agent => Owed(a)'
  BY OwedStays
<1>h. \A a \in Requests : Erasing(a) => Erasing(a)' \/ (a = On(r) /\ req[r].pc = "erase")
  BY <1>e DEF Erasing, On
<1>i. req[r].pc # "complete" => \A a \in Requests : Owed(a) => Owed(a)'
  BY <1>g DEF Writes
<1>j. \A q \in Requests : q # r => On(q)' = On(q)
  BY <1>e DEF On
<1>1. CASE Passes(r)
  <2>1. row' = row /\ gw' = gw /\ req[r].pc # "new"
    BY <1>1 DEF Passes, Busy, Done
  <2>2. \A a \in Requests : KeyFits(a)' <=> KeyFits(a)
    BY <2>1 DEF KeyFits
  <2>3. \A a \in Requests : Owed(a) => Owed(a)'
    BY <1>g, <1>1, <1>0, <1>a DEF Passes, Writes, Busy, Done
  <2>4. \/ req'[r].pc \in {"clear", "ok"} /\ req[r].pc # "erase"
        \/ req'[r].pc = "failed" /\ req'[r].agent = req[r].agent /\ req'[r].kind = req[r].kind
    BY <1>0, <1>a, <1>1 DEF Passes
  <2>5. ASSUME req[r].pc = "erase", NEW a \in Requests, a = On(r) PROVE Excused(a)'
    BY <2>4, <2>5 DEF Shape, Excused, FailedOn, On
  <2>6. req'[r].pc \notin {"apply", "complete", "store"}
    BY <2>4
  <2> QED
    BY <1>0, <1>b, <1>e, <1>f, <1>h, <1>j, <2>1, <2>2, <2>3, <2>5, <2>6 DEF Keyed
<1>2. CASE \E a \in Requests : Begins(r, a)
  <2>1. row' = row /\ gw' = gw /\ req[r].pc = "new"
    BY <1>2 DEF Begins
  <2>2. \A a \in Requests : KeyFits(a)' <=> KeyFits(a)
    BY <2>1 DEF KeyFits
  <2>3. \/ req'[r].pc \in {"check", "clear", "mint", "clean"}
        \/ req'[r].pc = "store" /\ KeyFits(req'[r].agent)
        \/ req'[r].pc = "store" /\ req'[r].kind = "report" /\ row[req'[r].agent].live
    BY <1>0, <1>2 DEF Begins, Starts, KeyFits
  <2>4. req'[r].agent \in Requests
    BY <1>0, <1>2 DEF Begins
  <2>5. ASSUME req'[r].pc = "store", NEW a \in Requests, a = req'[r].agent, Erasing(a) PROVE Excused(a)'
    <3>1. PICK d \in Requests : On(d) = a /\ req[d].pc = "erase"
      BY <2>5 DEF Erasing
    <3>2. d # r /\ req'[d] = req[d]
      BY <1>e, <2>1, <3>1
    <3>3. Busy(d)' /\ Busy(r)' /\ On(d)' = a /\ On(r)' = a
      BY <2>5, <3>1, <3>2 DEF Busy, Done, On
    <3>4. Met(d, r)'
      BY <3>2, <3>3 DEF Overlap, Same
    <3> QED
      BY <3>2, <3>3, <3>4 DEF Excused, MetOn
  <2>6. ASSUME req'[r].pc = "store", NEW a \in Requests, a = req'[r].agent
        PROVE  row[a].live => KeyFits(a) \/ Excused(a)' \/ (req'[r].kind = "report" /\ Owed(a)')
    BY <1>b, <1>i, <2>1, <2>3, <2>5, <2>6 DEF Keyed
  <2>8. On(r)' = req'[r].agent
    BY DEF On
  <2>7. \A a \in Requests : (Owed(a) => Owed(a)') /\ (Erasing(a) => Erasing(a)')
    BY <1>h, <1>i, <2>1
  <2> QED
    BY <1>0, <1>b, <1>e, <1>f, <1>j, <2>1, <2>2, <2>3, <2>4, <2>6, <2>7, <2>8 DEF Keyed
<1>3. CASE /\ req[r].pc = "clear" /\ req' = [req EXCEPT ![r] = At(r, "apply")]
           /\ row' = [row EXCEPT ![r] = Inserted(r)] /\ gw' = gw
  <2>1. row'[r].token = r /\ row'[r].status = "provisioning" /\ On(r) = r
        /\ \A q \in Requests : On(q) = r => q = r
    BY <1>0, <1>3 DEF Inserted, Shape, Before
  <2>2. req'[r].pc = "apply" /\ req'[r].agent = r /\ On(r)' = r
    BY <1>0, <1>a, <1>3, <2>1 DEF On
  <2>5. Owed(r)'
    BY <1>g, <2>2
  <2>3. \A a \in Requests : a # r => row'[a] = row[a] /\ (KeyFits(a)' <=> KeyFits(a))
    BY <1>0, <1>3 DEF KeyFits
  <2>4. \A a \in Requests : (Owed(a) => Owed(a)') /\ (Erasing(a) => Erasing(a)')
    BY <1>h, <1>i, <1>3
  <2> QED
    BY <1>0, <1>b, <1>e, <1>f, <1>j, <1>3, <2>1, <2>2, <2>3, <2>4, <2>5 DEF Keyed
<1>4. CASE row[On(r)].live /\ Writes(r, "mint", "apply", Minted(r))
  <2>1. row'[On(r)].token = r /\ row'[On(r)].status = "updating"
    BY <1>0, <1>4 DEF Writes, Minted
  <2>2. req'[r].pc = "apply" /\ req'[r].agent = On(r) /\ On(r)' = On(r) /\ req[r].pc = "mint"
    BY <1>0, <1>a, <1>4 DEF Writes, On
  <2>5. \A a \in Requests : a = On(r) => Owed(a)'
    BY <1>g, <2>2
  <2>3. \A a \in Requests : a # On(r) => row'[a] = row[a] /\ (KeyFits(a)' <=> KeyFits(a))
    BY <1>0, <1>4 DEF Writes, KeyFits
  <2>4. \A a \in Requests : (Owed(a) => Owed(a)') /\ (Erasing(a) => Erasing(a)')
    BY <1>h, <1>i, <2>2
  <2> QED
    BY <1>0, <1>b, <1>c, <1>d, <1>e, <1>f, <1>j, <2>1, <2>2, <2>3, <2>4, <2>5 DEF Keyed
<1>5. CASE row[On(r)].live /\ Writes(r, "complete", "ok", Completed(r))
  <2>1. \A a \in Requests : KeyFits(a)' <=> KeyFits(a)
    BY <1>0, <1>5 DEF Writes, Completed, KeyFits
  <2>2. req'[r].pc = "ok" /\ On(r)' = On(r) /\ req[r].pc = "complete"
    BY <1>0, <1>a, <1>5 DEF Writes, On
  <2>3. \A a \in Requests : row'[a].live => row[a].live /\ row'[a].token = row[a].token
    BY <1>0, <1>5 DEF Writes, Completed
  <2>4. \A a \in Requests : a # On(r) => row'[a] = row[a] /\ (Owed(a) => Owed(a)')
    BY <1>0, <1>5, <1>g DEF Writes
  <2>5. KeyFits(On(r)) \/ Excused(On(r))
    BY <1>5, <2>2 DEF Keyed
  <2>6. \A a \in Requests : Erasing(a) => Erasing(a)'
    BY <1>h, <2>2
  <2>7. ASSUME NEW q \in Requests, q # r, req[q].pc = "store", On(q) = On(r) PROVE Excused(On(r))'
    BY <1>0, <1>b, <1>c, <1>d, <2>2, <2>7
  <2> QED
    BY <1>0, <1>b, <1>e, <1>f, <1>j, <2>1, <2>2, <2>3, <2>4, <2>5, <2>6, <2>7 DEF Keyed
<1>6. CASE row[On(r)].live /\ Writes(r, "store", "ok", Stored(r))
  <2>1. \A a \in Requests : KeyFits(a)' <=> KeyFits(a)
    BY <1>0, <1>6 DEF Writes, Stored, KeyFits
  <2>2. req'[r].pc = "ok" /\ On(r)' = On(r) /\ req[r].pc = "store" /\ req'[r].kind = req[r].kind
    BY <1>0, <1>a, <1>6 DEF Writes, On
  <2>3. \A a \in Requests : row'[a].live => row[a].live /\ row'[a].token = row[a].token
    BY <1>0, <1>6 DEF Writes, Stored
  <2>4. \A a \in Requests : a # On(r) => row'[a] = row[a]
    BY <1>0, <1>6 DEF Writes
  <2>5. \A a \in Requests : (Owed(a) => Owed(a)') /\ (Erasing(a) => Erasing(a)')
    BY <1>h, <1>i, <2>2
  <2>6. KeyFits(On(r)) \/ Excused(On(r)) \/ (Reported(On(r))' /\ Owed(On(r)))
    BY <1>6, <2>2 DEF Keyed, Reported
  <2> QED
    BY <1>0, <1>b, <1>e, <1>f, <1>j, <2>1, <2>2, <2>3, <2>4, <2>5, <2>6 DEF Keyed
<1>7. CASE Writes(r, "erase", "ok", Erased(r))
  <2>1. ~row'[On(r)].live
    BY <1>0, <1>7 DEF Writes, Erased
  <2>2. req'[r].pc = "ok" /\ On(r)' = On(r) /\ req[r].pc = "erase"
    BY <1>0, <1>a, <1>7 DEF Writes, On
  <2>3. \A a \in Requests : a # On(r) => row'[a] = row[a] /\ (KeyFits(a)' <=> KeyFits(a))
    BY <1>0, <1>7 DEF Writes, KeyFits
  <2>4. \A a \in Requests : (Owed(a) => Owed(a)') /\ (a # On(r) /\ Erasing(a) => Erasing(a)')
    BY <1>h, <1>i, <2>2
  <2> QED
    BY <1>0, <1>b, <1>e, <1>f, <1>j, <2>1, <2>2, <2>3, <2>4 DEF Keyed
<1>8. ASSUME NEW pc \in {"complete", "failed"}, Calls(r, "apply", pc, Wrote(r)) PROVE Keyed'
  <2>1. gw'[On(r)].there /\ gw'[On(r)].token = r /\ row' = row
    BY <1>0, <1>8 DEF Calls, Wrote
  <2>2. req'[r].pc = pc /\ On(r)' = On(r) /\ req[r].pc = "apply"
    BY <1>0, <1>a, <1>8 DEF Calls, On
  <2>3. \A a \in Requests : a # On(r) => (KeyFits(a)' <=> KeyFits(a))
    BY <1>0, <1>8 DEF Calls, KeyFits
  <2>4. row'[On(r)].live => Excused(On(r)) \/ KeyFits(On(r))'
    BY <1>0, <2>1, <2>2 DEF Keyed, KeyFits
  <2>5. \A a \in Requests : (Owed(a) => Owed(a)') /\ (Erasing(a) => Erasing(a)')
    BY <1>h, <1>i, <2>2
  <2> QED
    BY <1>0, <1>b, <1>c, <1>d, <1>e, <1>f, <1>j, <2>1, <2>2, <2>3, <2>4, <2>5 DEF Keyed
<1>9. CASE Calls(r, "apply", "failed", Made(r))
  <2>1. row' = row /\ \A a \in Requests : KeyFits(a) => KeyFits(a)'
    BY <1>0, <1>9 DEF Calls, Made, KeyFits
  <2>2. req'[r].pc = "failed" /\ On(r)' = On(r) /\ req[r].pc = "apply"
    BY <1>0, <1>a, <1>9 DEF Calls, On
  <2>3. \A a \in Requests : (Owed(a) => Owed(a)') /\ (Erasing(a) => Erasing(a)')
    BY <1>h, <1>i, <2>2
  <2> QED
    BY <1>0, <1>b, <1>e, <1>f, <1>j, <2>1, <2>2, <2>3 DEF Keyed
<1>10. CASE Calls(r, "clean", "erase", Gone)
  <2>1. row' = row
    BY <1>10 DEF Calls
  <2>2. req'[r].pc = "erase" /\ On(r)' = On(r) /\ req[r].pc = "clean"
    BY <1>0, <1>a, <1>10 DEF Calls, On
  <2>3. \A a \in Requests : a # On(r) => (KeyFits(a)' <=> KeyFits(a))
    BY <1>0, <1>10 DEF Calls, KeyFits
  <2>4. Erasing(On(r))' /\ \A a \in Requests : (Owed(a) => Owed(a)') /\ (Erasing(a) => Erasing(a)')
    BY <1>0, <1>h, <1>i, <2>2 DEF Erasing
  <2> QED
    BY <1>0, <1>b, <1>c, <1>d, <1>e, <1>f, <1>j, <2>1, <2>2, <2>3, <2>4 DEF Keyed
<1> QED
  BY <1>1, <1>2, <1>3, <1>4, <1>5, <1>6, <1>7, <1>8, <1>9, <1>10 DEF StepOf

-----------------------------------------------------------------------------
(* The inductive invariant and what follows *)

IInv == TypeOK /\ Shape /\ Overlap /\ LeadInv /\ WorkInv /\ Orphans /\ Marks /\ Keyed

\* Nothing has been made: the invariant holds.
LEMMA InitIInv == Init => IInv
<1> SUFFICES ASSUME Init PROVE IInv
  OBVIOUS
<1>1. TypeOK
  BY DEF Init, TypeOK, Steps, AllKinds
<1>2. Leads = {} /\ Workers = {} /\ \A r \in Requests : req[r].pc = "new" /\ On(r) = r /\ ~Busy(r)
  BY DEF Init, Leads, Workers, On, Busy, Done
<1>3. \A r \in Requests : ~row[r].live /\ ~gw[r].there /\ row[r].status = "provisioning"
  BY DEF Init
<1>4. Shape /\ Overlap /\ LeadInv
  BY <1>2, <1>3 DEF Shape, Overlap, LeadInv, OneLead, Clear
<1>5. WorkInv
  BY <1>2 DEF WorkInv, Clear
<1>6. Orphans /\ Marks /\ Keyed
  BY <1>1, <1>2, <1>3, Parts DEF Orphans, Marks, Keyed, ReqState, On
<1> QED
  BY <1>1, <1>4, <1>5, <1>6 DEF IInv

\* Every step keeps the invariant, part by part.
LEMMA NextIInv == IInv /\ [Next]_vars => IInv'
<1> SUFFICES ASSUME IInv, [Next]_vars PROVE IInv'
  OBVIOUS
<1>1. CASE UNCHANGED vars
  <2>1. row' = row /\ gw' = gw /\ req' = req /\ met' = met
    BY <1>1 DEF vars
  <2>2. TypeOK' /\ Shape' /\ Overlap'
    BY <2>1 DEF IInv, TypeOK, Shape, Overlap, Same, Busy, Met, On
  <2>3. Leads' = Leads /\ Workers' = Workers
    BY <2>1 DEF Leads, Workers
  <2>4. LeadInv' /\ WorkInv'
    BY <2>1, <2>3 DEF IInv, LeadInv, OneLead, WorkInv, Strangers, Met, Clear
  <2>5. \A a : (MetOn(a)' <=> MetOn(a)) /\ (KeyFits(a)' <=> KeyFits(a)) /\ (Excused(a)' <=> Excused(a))
    BY <2>1 DEF MetOn, Met, On, KeyFits, Excused, FailedOn
  <2>7. \A a : (Owed(a)' <=> Owed(a)) /\ (Erasing(a)' <=> Erasing(a)) /\ (Reported(a)' <=> Reported(a))
    BY <2>1 DEF Owed, Erasing, Reported, On
  <2>6. Orphans' /\ Marks' /\ Keyed'
    BY <2>1, <2>5, <2>7 DEF IInv, Orphans, Marks, Keyed, On
  <2> QED
    BY <2>2, <2>4, <2>6 DEF IInv
<1>2. CASE Next
  <2>1. PICK r \in Requests : StepOf(r)
    BY <1>2, StepForm DEF IInv
  <2> QED
    BY <2>1, TypeStep, ShapeStep, OverlapStep, LeadStep, WorkStep, OrphanStep, MarkStep, KeyStep DEF IInv
<1> QED
  BY <1>1, <1>2

\* The inductive invariant, which the theorems below follow from.
THEOREM Invariance == Spec => []IInv
BY InitIInv, NextIInv, PTL DEF Spec

\* Two leads come only from requests that overlapped, for any number of requests.
THEOREM LeadsMet == Spec => []OneLead
<1>1. IInv => OneLead
  BY DEF IInv, LeadInv
<1> QED
  BY <1>1, Invariance, PTL

\* A worker created for the lead keeps within the limit, counting those whose requests
\* did not overlap its own, whoever created them.
THEOREM LimitKept == Spec => SpawnLimit
<1>1. IInv /\ [Next]_vars =>
        [\A r \in Requests : req[r].kind = "worker" /\ ~row[r].live /\ row'[r].live =>
             Cardinality({a \in Workers' : ~Met(r, a)}) <= MaxAgents]_vars
  <2> SUFFICES ASSUME IInv, Next, NEW r \in Requests, req[r].kind = "worker", ~row[r].live, row'[r].live
               PROVE  Cardinality({a \in Workers' : ~Met(r, a)}) <= MaxAgents
    OBVIOUS
  <2>1. PICK p \in Requests : StepOf(p)
    BY StepForm DEF IInv
  <2>2. r \in Leads' \cup Workers' /\ r \notin Leads /\ r \notin Workers
    BY DEF Leads, Workers
  <2>3. p = r /\ Clear(r, "worker") /\ Workers' = Workers \cup {r}
    BY <2>1, <2>2, CrewStep DEF IInv, Clear
  <2>4. Cardinality(Strangers(r)) < MaxAgents
    BY <2>3 DEF IInv, WorkInv
  <2>5. {a \in Workers' : ~Met(r, a)} \subseteq Strangers(r) \cup {r}
    BY <2>3 DEF Strangers
  <2>6. Strangers(r) \in SUBSET Requests /\ Strangers(r) \cup {r} \in SUBSET Requests
        /\ {a \in Workers' : ~Met(r, a)} \in SUBSET Requests
    BY DEF Strangers, Workers
  <2>7. r \notin Strangers(r)
    BY <2>2 DEF Strangers
  <2>8. Cardinality(Strangers(r) \cup {r}) = Cardinality(Strangers(r)) + 1
    BY <2>6, <2>7, Finite, FS_AddElement
  <2>9. Cardinality({a \in Workers' : ~Met(r, a)}) <= Cardinality(Strangers(r) \cup {r})
    BY <2>5, <2>6, Finite, FS_Subset
  <2> QED
    BY <2>4, <2>6, <2>8, <2>9, Finite, AgentAssumption
<1> QED
  BY <1>1, Invariance, PTL DEF Spec, SpawnLimit

\* The gateway keeps no agent without a row, unless requests overlapped on it.
THEOREM NoneOrphaned == Spec => []NoOrphan
<1>1. IInv => NoOrphan
  BY DEF IInv, Orphans, NoOrphan
<1> QED
  BY <1>1, Invariance, PTL

\* An agent left as updating is the mark of a request that failed.
THEOREM MarksExplained == Spec => []UpdatesEnd
<1>1. IInv => UpdatesEnd
  <2> SUFFICES ASSUME IInv, NEW a \in Requests, row[a].live, Idle(a), row[a].status = "updating" \/ row[a].pending
               PROVE  \E kind \in Making : FailedOn(kind, a)
    BY DEF UpdatesEnd, Making
  <2>1. PICK q \in Requests : On(q) = a /\ req[q].kind \in Making /\ req[q].pc \in {"apply", "complete", "failed"}
    BY DEF IInv, Marks
  <2>2. req[q].pc = "failed"
    BY <2>1 DEF Idle, Busy, Done
  <2> QED
    BY <2>1, <2>2 DEF FailedOn
<1> QED
  BY <1>1, Invariance, PTL

\* An agent shown online at rest can authenticate, unless requests overlapped on it,
\* its deletion failed half way, or an administrator sent a heartbeat for an agent whose
\* provisioning failed.
THEOREM OnlineCanAuthenticate == Spec => []OnlineIsKeyed
<1>1. IInv => OnlineIsKeyed
  <2> SUFFICES ASSUME IInv, NEW a \in Requests, row[a].live, row[a].status = "online", Idle(a)
               PROVE  KeyFits(a) \/ Excused(a) \/ (Reported(a) /\ \E kind \in Provisioning : FailedOn(kind, a))
    BY DEF OnlineIsKeyed, KeyFits, Excused
  <2>1. ~Erasing(a)
    BY DEF Idle, Busy, Done, Erasing
  <2>2. ASSUME Owed(a) PROVE \E kind \in Provisioning : FailedOn(kind, a)
    <3>1. PICK q \in Requests : On(q) = a /\ req[q].kind \in Making /\ req[q].pc \in {"apply", "complete", "failed"}
      BY <2>2 DEF Owed
    <3>2. req[q].pc = "failed"
      BY <3>1 DEF Idle, Busy, Done
    <3> QED
      BY <3>1, <3>2 DEF FailedOn, Making
  <2> QED
    BY <2>1, <2>2 DEF IInv, Keyed
<1> QED
  BY <1>1, Invariance, PTL
=============================================================================
