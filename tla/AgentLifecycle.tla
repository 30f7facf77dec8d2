--------------------------- MODULE AgentLifecycle ----------------------------
(***************************************************************************)
(* The agents of one board (src/backend/app/services/openclaw/             *)
(* provisioning_db.py and db_agent_state.py, core/agent_auth.py): requests *)
(* that create the lead or a worker, for the board's lead or for an        *)
(* administrator, update, delete, the agents' own requests, and heartbeats *)
(* that an administrator sends for an agent.  Each request works on the    *)
(* row it loaded, calls the gateway and commits in several transactions    *)
(* without a lock, so that requests interleave at every call; the gateway  *)
(* may refuse, and the server may stop between any two steps.              *)
(*                                                                         *)
(* An agent is named after the request that created it and a token after   *)
(* the request that minted it.  Of the workspace the gateway keeps for an  *)
(* agent only the token is modelled: the agent has no other.               *)
(***************************************************************************)
EXTENDS Naturals, FiniteSets

CONSTANTS Requests,   \* requests the server gets
          Kinds,      \* which of the kinds below they are
          MaxAgents,  \* boards.max_agents
          None

\* A worker is created for the board's lead, an added one for an administrator; a
\* beat is of the agent, a report is an administrator's heartbeat for it.
AllKinds == {"lead", "worker", "added", "update", "delete", "beat", "report"}

ASSUME AgentAssumption ==
    /\ Kinds \subseteq AllKinds /\ MaxAgents \in Nat
    /\ None \notin Requests /\ IsFiniteSet(Requests)

VARIABLES row,   \* row[a]: the row of the agents table
          gw,    \* gw[a]: the gateway's agent, and the token in its workspace
          req,   \* req[r]: a request and how far it has got
          met    \* pairs of requests that were under way at the same time, on the same
                 \* agent, or both to create a lead, or both to create a worker

vars == <<row, gw, req, met>>

Steps == {"new", "check", "clear", "mint", "apply", "complete", "clean", "erase", "store", "ok", "failed"}

\* Type invariant; a request that creates an agent works on the one named after it,
\* unless it found a lead.
TypeOK ==
    /\ row \in [Requests -> [live : BOOLEAN, lead : BOOLEAN, token : Requests \cup {None},
                             status : {"provisioning", "updating", "online"}, pending : BOOLEAN]]
    /\ gw \in [Requests -> [there : BOOLEAN, token : Requests \cup {None}]]
    /\ req \in [Requests -> [pc : Steps, kind : AllKinds, agent : Requests,
                             saw : {"provisioning", "updating", "online"}]]
    /\ met \subseteq SUBSET Requests
    /\ \A r \in Requests : req[r].kind \in {"worker", "added"} => req[r].agent = r

Init == /\ row = [a \in Requests |-> [live |-> FALSE, lead |-> FALSE, token |-> None,
                                      status |-> "provisioning", pending |-> FALSE]]
        /\ gw = [a \in Requests |-> [there |-> FALSE, token |-> None]]
        /\ req = [r \in Requests |-> [pc |-> "new", kind |-> "worker", agent |-> r, saw |-> "provisioning"]]
        /\ met = {}

-----------------------------------------------------------------------------
(* Helpers *)

Done == {"new", "ok", "failed"}
Busy(r) == req[r].pc \notin Done
On(r) == req[r].agent
Leads == {a \in Requests : row[a].live /\ row[a].lead}
Workers == {a \in Requests : row[a].live /\ ~row[a].lead}

\* Whether request q, which is under way, and one of this kind on this agent concern
\* the same thing.
Clash(q, kind, a) ==
    Busy(q) /\ (On(q) = a \/ \E S \in {{"lead"}, {"worker", "added"}} : kind \in S /\ req[q].kind \in S)

Begin(r, kind, a, pc) ==
    /\ req[r].pc = "new" /\ kind \in Kinds
    /\ req' = [req EXCEPT ![r] = [pc |-> pc, kind |-> kind, agent |-> a,
                                  saw |-> IF pc = "store" THEN row[a].status ELSE @.saw]]
    /\ met' = met \cup {{r, s} : s \in {q \in Requests : q # r /\ Clash(q, kind, a)}}

\* The next step; what the request saw of the row is used in one step only.
Goto(r, pc) == req' = [req EXCEPT ![r].pc = pc, ![r].saw = "provisioning"] /\ UNCHANGED met

-----------------------------------------------------------------------------
(* Creating *)

Create(r, kind) == Begin(r, kind, r, "check") /\ UNCHANGED <<row, gw>>

\* create_agent as an administrator asks for it: the limit is not for them.
Add(r) == Begin(r, "added", r, "clear") /\ UNCHANGED <<row, gw>>

\* Fault: a lead is made without looking for one.
X_FindLead(r) == req[r].pc = "check" /\ req[r].kind = "lead" /\ Goto(r, "clear") /\ UNCHANGED <<row, gw>>

\* ensure_board_lead_agent: a lead that exists is brought up to date in name and
\* session key and returned; the gateway is not called.
FindLead(r) == /\ req[r].pc = "check" /\ req[r].kind = "lead"
               /\ IF Leads = {} THEN Goto(r, "clear")
                  ELSE /\ \E a \in Leads : req' = [req EXCEPT ![r].pc = "ok", ![r].agent = a]
                       /\ UNCHANGED met
               /\ UNCHANGED <<row, gw>>

\* Fault: the limit admits one worker more.
X_CountWorkers(r) == /\ req[r].pc = "check" /\ req[r].kind = "worker"
                     /\ Goto(r, IF Cardinality(Workers) <= MaxAgents THEN "clear" ELSE "failed")
                     /\ UNCHANGED <<row, gw>>

\* create_agent as a lead asks for it: enforce_board_spawn_limit_for_lead.
CountWorkers(r) == /\ req[r].pc = "check" /\ req[r].kind = "worker"
                   /\ Goto(r, IF Cardinality(Workers) < MaxAgents THEN "clear" ELSE "failed")
                   /\ UNCHANGED <<row, gw>>

\* persist_new_agent, and the same lines for a lead.
Insert(r) == /\ req[r].pc = "clear"
             /\ row' = [row EXCEPT ![r] = [live |-> TRUE, lead |-> req[r].kind = "lead", token |-> r,
                                           status |-> "provisioning", pending |-> TRUE]]
             /\ Goto(r, "apply") /\ UNCHANGED gw

-----------------------------------------------------------------------------
(* Updating *)

Update(r, a) == row[a].live /\ Begin(r, "update", a, "mint") /\ UNCHANGED <<row, gw>>

\* mark_agent_update_pending and its commit; the commit fails without the row.
Mint(r) == /\ req[r].pc = "mint"
           /\ IF row[On(r)].live
              THEN /\ row' = [row EXCEPT ![On(r)].token = r, ![On(r)].status = "updating", ![On(r)].pending = TRUE]
                   /\ Goto(r, "apply")
              ELSE Goto(r, "failed") /\ UNCHANGED row
           /\ UNCHANGED gw

-----------------------------------------------------------------------------
(* Provisioning, which ends a create and an update *)

Written(r) == gw' = [gw EXCEPT ![On(r)] = [there |-> TRUE, token |-> r]]

\* apply_agent_lifecycle: the agent is created if it is missing, its files carry the
\* new token, its session is reset and woken.
Apply(r) == /\ req[r].pc = "apply"
            /\ Written(r) /\ Goto(r, "complete") /\ UNCHANGED row

\* The gateway fails before the files are written or after.
ApplyFails(r) == /\ req[r].pc = "apply"
                 /\ \/ UNCHANGED gw
                    \/ gw' = [gw EXCEPT ![On(r)].there = TRUE]
                    \/ Written(r)
                 /\ Goto(r, "failed") /\ UNCHANGED row

\* Fault: completion forgets the status.
X_Complete(r) == /\ req[r].pc = "complete"
                 /\ IF row[On(r)].live
                    THEN row' = [row EXCEPT ![On(r)].pending = FALSE] /\ Goto(r, "ok")
                    ELSE Goto(r, "failed") /\ UNCHANGED row
                 /\ UNCHANGED gw

\* mark_provision_complete and its commit.
Complete(r) == /\ req[r].pc = "complete"
               /\ IF row[On(r)].live
                  THEN row' = [row EXCEPT ![On(r)].status = "online", ![On(r)].pending = FALSE] /\ Goto(r, "ok")
                  ELSE Goto(r, "failed") /\ UNCHANGED row
               /\ UNCHANGED gw

-----------------------------------------------------------------------------
(* Deleting *)

Delete(r, a) == row[a].live /\ Begin(r, "delete", a, "clean") /\ UNCHANGED <<row, gw>>

\* Fault: the gateway keeps the agent.
X_Clean(r) == /\ req[r].pc = "clean"
              /\ Goto(r, "erase") /\ UNCHANGED <<row, gw>>

\* delete_agent_lifecycle; an agent the gateway does not have is no error.
Clean(r) == /\ req[r].pc = "clean"
            /\ gw' = [gw EXCEPT ![On(r)] = [there |-> FALSE, token |-> None]]
            /\ Goto(r, "erase") /\ UNCHANGED row

\* The transaction that releases what names the agent and deletes the row.
Erase(r) == /\ req[r].pc = "erase"
            /\ row' = [row EXCEPT ![On(r)].live = FALSE]
            /\ Goto(r, "ok") /\ UNCHANGED gw

-----------------------------------------------------------------------------
(* The agents' own requests, and heartbeats sent for them *)

\* Fault: the agent is not asked for its token.
X_Beat(r, a) == /\ row[a].live /\ gw[a].there
                /\ Begin(r, "beat", a, "store") /\ UNCHANGED <<row, gw>>

\* get_agent_auth_context finds the agent by the token it has.
Beat(r, a) == /\ row[a].live /\ gw[a].there /\ gw[a].token = row[a].token
              /\ Begin(r, "beat", a, "store") /\ UNCHANGED <<row, gw>>

\* heartbeat_agent for an administrator, who needs no token of the agent.
Report(r, a) == row[a].live /\ Begin(r, "report", a, "store") /\ UNCHANGED <<row, gw>>

\* Fault: the status computed for display is written.
X_Store(r) == /\ req[r].pc = "store"
              /\ \E s \in {"offline", "online"} : row' = [row EXCEPT ![On(r)].status = s]
              /\ Goto(r, "ok") /\ UNCHANGED gw

\* commit_heartbeat with or without a status, _touch_agent_presence: the status is
\* chosen from the row as it was loaded, and written when it differs from that.
Store(r) == /\ req[r].pc = "store"
            /\ IF row[On(r)].live
               THEN /\ \E s \in {req[r].saw, "online"} :
                          row' = IF s = req[r].saw THEN row ELSE [row EXCEPT ![On(r)].status = s]
                    /\ Goto(r, "ok")
               ELSE Goto(r, "failed") /\ UNCHANGED row
            /\ UNCHANGED gw

\* The gateway refuses the clean-up, a commit fails or the server stops: what was
\* done stays done.
Cut(r) == Busy(r) /\ Goto(r, "failed") /\ UNCHANGED <<row, gw>>

Next == \E r \in Requests :
            \/ \E kind \in {"lead", "worker"} : Create(r, kind)
            \/ Add(r) \/ FindLead(r) \/ CountWorkers(r) \/ Insert(r)
            \/ Mint(r) \/ Apply(r) \/ ApplyFails(r) \/ Complete(r)
            \/ Clean(r) \/ Erase(r) \/ Store(r) \/ Cut(r)
            \/ \E a \in Requests : Update(r, a) \/ Delete(r, a) \/ Beat(r, a) \/ Report(r, a)

Spec == Init /\ [][Next]_vars

-----------------------------------------------------------------------------
(* Properties.  What holds when requests come one at a time, whatever fails; and *)
(* the pairs of requests that must meet for it not to hold.                      *)

Met(r, s) == {r, s} \in met
Idle(a) == \A r \in Requests : Busy(r) => On(r) # a
MetOn(a) == \E r, s \in Requests : r # s /\ On(r) = a /\ On(s) = a /\ Met(r, s)
Provisioning == {"lead", "worker", "added", "update"}
Reported(a) == \E r \in Requests : req[r].kind = "report" /\ On(r) = a /\ req[r].pc = "ok"
FailedOn(kind, a) == \E r \in Requests : req[r].kind = kind /\ On(r) = a /\ req[r].pc = "failed"

\* A board has two leads only when the two requests that made them overlapped.
OneLead == \A a, b \in Leads : a # b => Met(a, b)

\* A worker created for the lead goes beyond the limit only by workers whose own
\* requests overlapped its own: with the others, whoever created them, it is within.
SpawnLimit ==
    [][\A r \in Requests : req[r].kind = "worker" /\ ~row[r].live /\ row'[r].live =>
           Cardinality({a \in Workers' : ~Met(r, a)}) <= MaxAgents]_vars

\* An agent shown online at rest can authenticate, unless two requests on it
\* overlapped, a delete removed it from the gateway and then failed, or provisioning
\* it failed and an administrator sent a heartbeat for it.
OnlineIsKeyed ==
    \A a \in Requests : row[a].live /\ row[a].status = "online" /\ Idle(a) =>
        \/ gw[a].there /\ gw[a].token = row[a].token
        \/ MetOn(a) \/ FailedOn("delete", a)
        \/ Reported(a) /\ \E kind \in Provisioning : FailedOn(kind, a)

\* The gateway keeps an agent that is no longer recorded only when its deletion
\* overlapped another request on it.
NoOrphan == \A a \in Requests : gw[a].there /\ ~row[a].live /\ Idle(a) => MetOn(a)

\* An agent stays updating, or marked as pending, only after a request on it failed,
\* however requests interleave.
UpdatesEnd ==
    \A a \in Requests : row[a].live /\ Idle(a) /\ (row[a].status = "updating" \/ row[a].pending) =>
        \E kind \in Provisioning : FailedOn(kind, a)

\* What a comment promises of a lead whose first provisioning failed: "The DB row
\* exists so a later retry can succeed".  A request for the lead that ended well,
\* and met no other, left the lead on the gateway.
RetryProvisions ==
    \A r \in Requests : req[r].kind = "lead" /\ req[r].pc = "ok" /\ ~(\E s \in Requests : Met(r, s)) =>
        gw[On(r)].there \/ \E s \in Requests : req[s].kind = "delete" /\ On(s) = On(r)
=============================================================================
