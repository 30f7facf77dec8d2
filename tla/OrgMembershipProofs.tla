------------------------- MODULE OrgMembershipProofs -------------------------
(***************************************************************************)
(* Proofs about OrgMembership, for any users, invites and number of        *)
(* requests: its types, that a first login gives one membership, and what  *)
(* only overlapping requests can break.  StepForm says once what every     *)
(* action changes; each part of the inductive invariant is then preserved  *)
(* by every such step.                                                     *)
(***************************************************************************)
EXTENDS OrgMembership, FiniteSetTheorems, TLAPS

Steps == {"new", "look", "adopt", "lock", "locked", "join", "home", "invite", "member",
          "apply", "check", "erase", "find", "patch", "found", "count", "leave", "ok", "failed"}
ReqState == [pc : Steps, kind : AllKinds, user : Users \cup {None}, org : Orgs \cup {None},
             inv : Invites \cup {None}, saw : Roles \cup {None}, gives : Roles \cup Orgs \cup {None},
             homes : SUBSET Orgs, alone : SUBSET Orgs, left : SUBSET Orgs]

\* A request that is not about an account has read nothing for it.
Plain(x) == x.homes = {} /\ x.alone = {} /\ x.left = {}

-----------------------------------------------------------------------------
(* The inductive invariant *)

\* What a request is about, by how far it is.
Shape ==
    \A r \in Requests :
        /\ Busy(r) => req[r].user \in Users
        /\ req[r].pc \in {"look", "lock", "locked", "home"} => req[r].kind = "login"
        /\ req[r].pc = "adopt" => req[r].kind \in {"login", "active"} /\ req[r].org \in Orgs
        /\ req[r].pc \in {"invite", "member", "apply"} => req[r].kind = "accept"
        /\ req[r].pc = "join" => req[r].kind \in {"login", "accept"}
        /\ req[r].pc \in {"invite", "member", "join", "apply"} => req[r].inv \in Invites
        /\ req[r].pc \in {"check", "erase"} => req[r].kind = "remove" /\ req[r].org \in Orgs
        /\ req[r].pc = "erase" => req[r].gives \in Orgs \cup {None}
        /\ req[r].pc \in {"find", "patch"} => req[r].kind = "role" /\ req[r].org \in Orgs /\ req[r].gives \in Roles
        /\ req[r].pc = "patch" => req[r].saw \in Roles
        /\ req[r].pc = "apply" => req[r].saw \in Roles
        /\ req[r].pc \in {"count", "leave"} => req[r].kind = "quit"
        /\ req[r].pc = "leave" => req[r].homes \subseteq req[r].alone \cup req[r].left
        /\ req[r].pc \notin {"count", "leave", "ok"} => Plain(req[r])

Overlap == \A r, s \in Requests : r # s /\ Busy(r) /\ Busy(s) => Met(r, s)

\* An organization that exists, or that a request has read, is not founded any more.
Founded(o) == o \in Requests => req[o].pc = "ok"

Foundations ==
    /\ \A o \in orgs : Founded(o)
    /\ \A r \in Requests : req[r].pc \in {"adopt", "check", "erase", "find", "patch"} => Founded(req[r].org)
    /\ \A r \in Requests : req[r].pc = "erase" => Founded(req[r].gives)
    /\ \A r \in Requests : req[r].pc = "apply" => Founded(req[r].org)

\* A request that has found its invite open.
Holds(r, i) == req[r].pc \in {"member", "join", "apply"} /\ req[r].inv = i

\* An open invite leads to an organization and nobody has used it; whoever holds one
\* has met all who used it.
Vouchers ==
    /\ \A i \in Invites : invite[i].st # "none" => invite[i].org \in Orgs
    /\ \A i \in Invites : invite[i].st \in {"open", "used"} => invite[i].org \in orgs
    /\ \A i \in Invites : joined[i] # {} => invite[i].st \in {"used", "gone"}
    /\ \A r \in Requests, i \in Invites : Holds(r, i) => invite[i].st # "none"
    /\ \A r \in Requests, i \in Invites : Holds(r, i) /\ req[r].kind = "accept" /\ req[r].pc # "member" =>
          req[r].org = invite[i].org
    /\ \A r \in Requests, i \in Invites : Holds(r, i) => \A s \in joined[i] : s # r /\ Met(r, s)
    /\ \A i \in Invites : \A s \in joined[i] : req[s].pc = "ok"
    /\ InviteOnce

\* A login that is about to give a membership holds its user's row, and the user has
\* no membership.
Locks ==
    \A r \in Requests : req[r].kind = "login" =>
        /\ req[r].pc \in {"locked", "join", "home"} => lock[req[r].user] = r
        /\ req[r].pc \in {"join", "home"} => Homes(req[r].user) = {}

\* A removal of u that was committed while r was under way.
RemovedBy(r, u) ==
    \E s \in Requests : s # r /\ Met(r, s) /\ req[s].pc = "ok" /\ req[s].kind = "remove" /\ req[s].user = u

\* A request of or about u that was committed while r was under way.
MovedBy(r, u) == \E s \in Requests : s # r /\ Met(r, s) /\ req[s].pc = "ok" /\ req[s].user = u

\* The organization that becomes active is one the user belongs to, or a removal has
\* overlapped, or the user is gone; the one a removal leaves active is another one, or a
\* request has overlapped.
Actives ==
    /\ \A u \in Users : active[u] # None /\ active[u] \notin Homes(u) =>
          \E r \in Requests : req[r].pc = "ok" /\ req[r].user = u /\ RemovedBy(r, u)
    /\ \A r \in Requests : req[r].pc = "adopt" =>
          \/ role[req[r].user][req[r].org] # None \/ req[r].org \notin orgs
          \/ RemovedBy(r, req[r].user) \/ req[r].user \notin users
    /\ \A r \in Requests : req[r].pc = "erase" /\ req[r].gives = req[r].org =>
          active[req[r].user] # req[r].org \/ MovedBy(r, req[r].user)
    /\ \A r \in Requests : req[r].pc = "erase" /\ req[r].gives \notin {req[r].org, None} =>
          \/ role[req[r].user][req[r].gives] # None \/ req[r].gives \notin orgs
          \/ RemovedBy(r, req[r].user) \/ req[r].user \notin users

\* Whose commit writes a member's role in o.
Writer(s, o) == req[s].org = o /\ req[s].pc = "ok" /\ req[s].kind \in {"role", "remove", "accept"}

\* A writer of the roles of o was committed while r was under way.
WrittenBy(r, o) == \E s \in Requests : s # r /\ Met(r, s) /\ Writer(s, o)

\* An owner of o deleted their account and left o to others.
QuitBy(o) == \E s \in Requests : req[s].kind = "quit" /\ req[s].pc = "ok" /\ o \in req[s].left

\* What r has read of its organization's owners still holds, or a writer overlapped, or
\* an account is gone.
Ownership ==
    /\ OwnerStays
    /\ \A r \in Requests : req[r].pc \in {"apply", "patch"} =>
          \/ /\ role[req[r].user][req[r].org] # None
             /\ role[req[r].user][req[r].org] = "owner" => req[r].saw = "owner"
          \/ req[r].org \notin orgs \/ req[r].user \notin users
          \/ WrittenBy(r, req[r].org)
    /\ \A r \in Requests : req[r].pc = "erase" =>
          \/ /\ role[req[r].user][req[r].org] # None
             /\ role[req[r].user][req[r].org] = "owner" =>
                   \E u \in Users : u # req[r].user /\ role[u][req[r].org] = "owner"
          \/ req[r].org \notin orgs \/ req[r].user \notin users
          \/ WrittenBy(r, req[r].org) \/ QuitBy(req[r].org)

IInv == TypeOK /\ Shape /\ Overlap /\ Foundations /\ Vouchers /\ Locks /\ Actives /\ Ownership
-----------------------------------------------------------------------------
(* The requests' records *)

Rec(pc, kind, u, o, i, x, g) ==
    [pc |-> pc, kind |-> kind, user |-> u, org |-> o, inv |-> i, saw |-> x, gives |-> g,
     homes |-> {}, alone |-> {}, left |-> {}]

\* A request that goes on keeps its kind and its user.
At(r, pc, o, i, x, g) == Rec(pc, req[r].kind, req[r].user, o, i, x, g)
Same(r, pc) == At(r, pc, req[r].org, req[r].inv, req[r].saw, req[r].gives)
Over(r) == At(r, "ok", req[r].org, None, req[r].saw, None)
Fallen == Rec("failed", "login", None, None, None, None, None)

Becomes(r, n) == req' = [req EXCEPT ![r] = n]
Meets(r) == {{r, s} : s \in {q \in Requests : q # r /\ Busy(q)}}

\* TypeOK, with the types of the requests named.
LEMMA Parts ==
    TypeOK => /\ users \subseteq Users /\ orgs \subseteq Orgs /\ role \in [Users -> [Orgs -> Roles \cup {None}]]
              /\ active \in [Users -> orgs \cup {None}]
              /\ \A u \in Users, o \in Orgs : role[u][o] # None => u \in users /\ o \in orgs
              /\ \A u \in Users : active[u] # None => u \in users
              /\ invite \in [Invites -> Invite] /\ lock \in [Users -> Requests \cup {None}]
              /\ req \in [Requests -> ReqState] /\ joined \in [Invites -> SUBSET Requests]
              /\ met \subseteq SUBSET Requests
BY DEF TypeOK, ReqState, Steps

\* The record update of a step gives this whole record: the step alone.
LEMMA SetPc ==
    ASSUME NEW x \in ReqState, Plain(x), NEW pc \in Steps
    PROVE  [x EXCEPT !.pc = pc] = Rec(pc, x.kind, x.user, x.org, x.inv, x.saw, x.gives)
BY DEF ReqState, Rec, Plain

\* A record of the right fields is the state of a request.
LEMMA RecType ==
    ASSUME NEW pc \in Steps, NEW kind \in AllKinds, NEW u \in Users \cup {None}, NEW o \in Orgs \cup {None},
           NEW i \in Invites \cup {None}, NEW x \in Roles \cup {None}, NEW g \in Roles \cup Orgs \cup {None}
    PROVE  Rec(pc, kind, u, o, i, x, g) \in ReqState
BY DEF Rec, ReqState

\* The fields of a record.
LEMMA RecFields ==
    ASSUME NEW pc, NEW kind, NEW u, NEW o, NEW i, NEW x, NEW g
    PROVE  LET n == Rec(pc, kind, u, o, i, x, g)
           IN  n.pc = pc /\ n.kind = kind /\ n.user = u /\ n.org = o /\ n.inv = i /\ n.saw = x /\ n.gives = g
BY DEF Rec

\* The step and the organization.
LEMMA SetPcOrg ==
    ASSUME NEW x \in ReqState, Plain(x), NEW pc \in Steps, NEW o
    PROVE  [[x EXCEPT !.pc = pc] EXCEPT !.org = o]
             = Rec(pc, x.kind, x.user, o, x.inv, x.saw, x.gives)
<1>1. [x EXCEPT !.pc = pc] = Rec(pc, x.kind, x.user, x.org, x.inv, x.saw, x.gives)
  BY SetPc
<1>2. [Rec(pc, x.kind, x.user, x.org, x.inv, x.saw, x.gives) EXCEPT !.org = o]
        = Rec(pc, x.kind, x.user, o, x.inv, x.saw, x.gives)
  BY DEF Rec
<1> QED
  BY <1>1, <1>2, Zenon

\* The step and the invite.
LEMMA SetPcInv ==
    ASSUME NEW x \in ReqState, Plain(x), NEW pc \in Steps, NEW i
    PROVE  [[x EXCEPT !.pc = pc] EXCEPT !.inv = i]
             = Rec(pc, x.kind, x.user, x.org, i, x.saw, x.gives)
<1>1. [x EXCEPT !.pc = pc] = Rec(pc, x.kind, x.user, x.org, x.inv, x.saw, x.gives)
  BY SetPc
<1>2. [Rec(pc, x.kind, x.user, x.org, x.inv, x.saw, x.gives) EXCEPT !.inv = i]
        = Rec(pc, x.kind, x.user, x.org, i, x.saw, x.gives)
  BY DEF Rec
<1> QED
  BY <1>1, <1>2, Zenon

\* The step and the role that was read.
LEMMA SetPcSaw ==
    ASSUME NEW x \in ReqState, Plain(x), NEW pc \in Steps, NEW s
    PROVE  [[x EXCEPT !.pc = pc] EXCEPT !.saw = s]
             = Rec(pc, x.kind, x.user, x.org, x.inv, s, x.gives)
<1>1. [x EXCEPT !.pc = pc] = Rec(pc, x.kind, x.user, x.org, x.inv, x.saw, x.gives)
  BY SetPc
<1>2. [Rec(pc, x.kind, x.user, x.org, x.inv, x.saw, x.gives) EXCEPT !.saw = s]
        = Rec(pc, x.kind, x.user, x.org, x.inv, s, x.gives)
  BY DEF Rec
<1> QED
  BY <1>1, <1>2, Zenon

\* The step and what is given.
LEMMA SetPcGives ==
    ASSUME NEW x \in ReqState, Plain(x), NEW pc \in Steps, NEW g
    PROVE  [[x EXCEPT !.pc = pc] EXCEPT !.gives = g]
             = Rec(pc, x.kind, x.user, x.org, x.inv, x.saw, g)
<1>1. [x EXCEPT !.pc = pc] = Rec(pc, x.kind, x.user, x.org, x.inv, x.saw, x.gives)
  BY SetPc
<1>2. [Rec(pc, x.kind, x.user, x.org, x.inv, x.saw, x.gives) EXCEPT !.gives = g]
        = Rec(pc, x.kind, x.user, x.org, x.inv, x.saw, g)
  BY DEF Rec
<1> QED
  BY <1>1, <1>2, Zenon

\* The step, the organization and the role that was read.
LEMMA SetPcOrgSaw ==
    ASSUME NEW x \in ReqState, Plain(x), NEW pc \in Steps, NEW o, NEW s
    PROVE  [[[x EXCEPT !.pc = pc] EXCEPT !.org = o] EXCEPT !.saw = s]
             = Rec(pc, x.kind, x.user, o, x.inv, s, x.gives)
<1>1. [x EXCEPT !.pc = pc] = Rec(pc, x.kind, x.user, x.org, x.inv, x.saw, x.gives)
  BY SetPc
<1>2. [Rec(pc, x.kind, x.user, x.org, x.inv, x.saw, x.gives) EXCEPT !.org = o]
        = Rec(pc, x.kind, x.user, o, x.inv, x.saw, x.gives)
  BY DEF Rec
<1>3. [Rec(pc, x.kind, x.user, o, x.inv, x.saw, x.gives) EXCEPT !.saw = s]
        = Rec(pc, x.kind, x.user, o, x.inv, s, x.gives)
  BY DEF Rec
<1> QED
  BY <1>1, <1>2, <1>3, Zenon

\* The end of a request.
LEMMA SetOver ==
    ASSUME NEW x \in ReqState, Plain(x)
    PROVE  [[[x EXCEPT !.pc = "ok"] EXCEPT !.inv = None] EXCEPT !.gives = None]
             = Rec("ok", x.kind, x.user, x.org, None, x.saw, None)
<1>1. [x EXCEPT !.pc = "ok"] = Rec("ok", x.kind, x.user, x.org, x.inv, x.saw, x.gives)
  BY SetPc DEF Steps
<1>2. [Rec("ok", x.kind, x.user, x.org, x.inv, x.saw, x.gives) EXCEPT !.inv = None]
        = Rec("ok", x.kind, x.user, x.org, None, x.saw, x.gives)
  BY DEF Rec
<1>3. [Rec("ok", x.kind, x.user, x.org, None, x.saw, x.gives) EXCEPT !.gives = None]
        = Rec("ok", x.kind, x.user, x.org, None, x.saw, None)
  BY DEF Rec
<1> QED
  BY <1>1, <1>2, <1>3, Zenon

\* Goto, as a whole record.
LEMMA GotoIs ==
    ASSUME TypeOK, NEW r \in Requests, Plain(req[r]), NEW pc \in Steps, Goto(r, pc)
    PROVE  Becomes(r, Same(r, pc)) /\ met' = met
<1>1. req[r] \in ReqState /\ req \in [Requests -> ReqState]
  BY Parts
<1>2. req' = [req EXCEPT ![r] = [req[r] EXCEPT !.pc = pc]]
  BY <1>1 DEF Goto
<1> QED
  BY <1>1, <1>2, SetPc DEF Goto, Becomes, Same, At

\* Succeeds, as a whole record.
LEMMA SucceedsIs ==
    ASSUME TypeOK, NEW r \in Requests, Plain(req[r]), Succeeds(r)
    PROVE  Becomes(r, Over(r)) /\ met' = met
<1>1. req[r] \in ReqState /\ req \in [Requests -> ReqState]
  BY Parts
<1>2. req' = [req EXCEPT ![r] = [[[req[r] EXCEPT !.pc = "ok"] EXCEPT !.inv = None] EXCEPT !.gives = None]]
  BY <1>1 DEF Succeeds
<1> QED
  BY <1>1, <1>2, SetOver DEF Succeeds, Becomes, Over, At

\* Begin, with the meetings it adds.
LEMMA BeginIs ==
    ASSUME NEW r \in Requests, NEW n, Begin(r, n)
    PROVE  req[r].pc = "new" /\ Becomes(r, n) /\ met' = met \cup Meets(r)
BY DEF Begin, Becomes, Meets

-----------------------------------------------------------------------------
(* The steps, by what they change *)

\* A request begins: all the records but its own stay.
Begun(r) ==
    /\ req[r].pc = "new" /\ met' = met \cup Meets(r) /\ users' = users
    /\ orgs' = orgs /\ role' = role /\ active' = active /\ invite' = invite /\ lock' = lock /\ joined' = joined
    /\ \E u \in Users :
          \/ Becomes(r, Rec("look", "login", u, None, None, None, None))
          \/ Becomes(r, Rec("found", "found", u, None, None, None, None))
          \/ \E i \in Invites : Becomes(r, Rec("invite", "accept", u, None, i, None, None))
          \/ \E o \in orgs, x \in Roles : Becomes(r, Rec("check", "remove", u, o, None, x, None))
          \/ \E o \in orgs, x \in Roles : Becomes(r, Rec("find", "role", u, o, None, None, x))
          \/ \E o \in orgs : role[u][o] # None /\ Becomes(r, Rec("adopt", "active", u, o, None, None, None))

\* An invite is offered or revoked.
Invited(r) ==
    /\ req[r].pc = "new" /\ met' = met \cup Meets(r)
    /\ users' = users /\ orgs' = orgs /\ role' = role /\ active' = active /\ lock' = lock /\ joined' = joined
    /\ \E u \in Users, o \in Orgs, kind \in {"offer", "revoke"} :
          Becomes(r, Rec("ok", kind, u, o, None, None, None))
    /\ \E i \in Invites, v \in Invite :
          /\ invite' = [invite EXCEPT ![i] = v]
          /\ \/ invite[i].st = "none" /\ v.st = "open" /\ v.org \in orgs
             \/ invite[i].st # "none" /\ v.st = "gone" /\ v.org = invite[i].org

\* An organization is deleted.
Dissolved(r) ==
    /\ req[r].pc = "new" /\ met' = met \cup Meets(r) /\ users' = users /\ lock' = lock /\ joined' = joined
    /\ \E u \in Users, o \in orgs :
          /\ Becomes(r, Rec("ok", "dissolve", u, o, None, None, None))
          /\ orgs' = orgs \ {o} /\ role' = [w \in Users |-> [role[w] EXCEPT ![o] = None]]
          /\ active' = Without(o)
          /\ invite' = [i \in Invites |-> IF invite[i].org = o /\ invite[i].st # "none"
                                          THEN [invite[i] EXCEPT !.st = "gone"] ELSE invite[i]]

\* A request has read something and goes on.
Passes(r) ==
    /\ users' = users /\ orgs' = orgs /\ role' = role /\ active' = active /\ invite' = invite
    /\ joined' = joined /\ met' = met
    /\ \/ lock' = lock /\ req[r].pc = "look" /\ active[req[r].user] \in Homes(req[r].user) /\ Becomes(r, Over(r))
       \/ /\ req[r].pc = "lock" /\ lock[req[r].user] = None
          /\ lock' = [lock EXCEPT ![req[r].user] = r] /\ Becomes(r, Same(r, "locked"))
       \/ /\ lock' = lock /\ req[r].pc = "locked" /\ Homes(req[r].user) = {}
          /\ \/ Becomes(r, Same(r, "home"))
             \/ \E i \in Invites : /\ invite[i].st = "open"
                                   /\ Becomes(r, At(r, "join", req[r].org, i, req[r].saw, req[r].gives))
       \/ lock' = lock /\ req[r].pc = "invite" /\ invite[req[r].inv].st = "open" /\ Becomes(r, Same(r, "member"))
       \/ /\ lock' = lock /\ req[r].pc = "member"
          /\ LET o == invite[req[r].inv].org
                 had == role[req[r].user][o]
             IN  \/ had = None /\ Becomes(r, At(r, "join", o, req[r].inv, had, req[r].gives))
                 \/ had # None /\ Becomes(r, At(r, "apply", o, req[r].inv, had, req[r].gives))
       \/ /\ lock' = lock /\ req[r].pc = "check" /\ Removable(r)
          /\ \E g \in Fallbacks(r) : Becomes(r, At(r, "erase", req[r].org, req[r].inv, req[r].saw, g))
       \/ /\ lock' = lock /\ req[r].pc = "find" /\ role[req[r].user][req[r].org] # None
          /\ Becomes(r, At(r, "patch", req[r].org, req[r].inv, role[req[r].user][req[r].org], req[r].gives))

\* A login clears an active organization that does not fit.
Clears(r) ==
    /\ users' = users /\ orgs' = orgs /\ role' = role /\ invite' = invite
    /\ joined' = joined /\ met' = met /\ lock' = lock
    /\ req[r].pc = "look" /\ active' = [active EXCEPT ![req[r].user] = None]
    /\ \/ Becomes(r, Same(r, "lock"))
       \/ \E o \in Homes(req[r].user) : Becomes(r, At(r, "adopt", o, req[r].inv, req[r].saw, req[r].gives))

\* An organization becomes the active one.
Adopts(r, o) ==
    /\ users' = users /\ orgs' = orgs /\ role' = role /\ invite' = invite /\ joined' = joined /\ met' = met
    /\ active' = [active EXCEPT ![req[r].user] = o] /\ o \in orgs /\ Becomes(r, Over(r))
    /\ \/ req[r].pc = "adopt" /\ o = req[r].org /\ req[r].user \in users /\ lock' = lock
       \/ req[r].pc = "locked" /\ o \in Homes(req[r].user) /\ Release(r)

\* An organization is founded.
Founds(r) ==
    /\ req[r].pc \in {"home", "found"} /\ Free(req[r].user, r) /\ req[r].user \in users
    /\ users' = users /\ orgs' = orgs \cup {r} /\ role' = [role EXCEPT ![req[r].user][r] = "owner"]
    /\ active' = [active EXCEPT ![req[r].user] = r]
    /\ invite' = invite /\ joined' = joined /\ met' = met /\ Release(r) /\ Becomes(r, Over(r))

\* A request uses its invite.
Uses(r) ==
    LET i == req[r].inv
    IN  /\ invite[i].st # "gone"
        /\ invite' = [invite EXCEPT ![i].st = "used"] /\ joined' = [joined EXCEPT ![i] = @ \cup {r}]

\* A membership is inserted.
Joins(r) ==
    LET u == req[r].user
        v == invite[req[r].inv]
    IN  /\ req[r].pc = "join" /\ Free(u, r) /\ u \in users /\ role[u][v.org] = None /\ Uses(r)
        /\ role' = [role EXCEPT ![u][v.org] = v.role]
        /\ active' = IF req[r].kind = "login" THEN [active EXCEPT ![u] = v.org] ELSE active
        /\ users' = users /\ orgs' = orgs /\ met' = met /\ Release(r) /\ Becomes(r, Over(r))

\* The role of a member rises, or stays.
Applies(r) ==
    LET u == req[r].user
        v == invite[req[r].inv]
    IN  /\ req[r].pc = "apply" /\ Uses(r)
        /\ \/ role' = role
           \/ /\ role[u][v.org] # None /\ Rank(v.role) > Rank(req[r].saw)
              /\ role' = [role EXCEPT ![u][v.org] = v.role]
        /\ users' = users /\ orgs' = orgs /\ active' = active /\ lock' = lock /\ met' = met /\ Becomes(r, Over(r))

\* A membership is removed.
Erases(r) ==
    LET u == req[r].user
        g == req[r].gives
    IN  /\ req[r].pc = "erase" /\ (g = req[r].org \/ (g \in orgs \cup {None} /\ u \in users))
        /\ role' = [role EXCEPT ![u][req[r].org] = None]
        /\ active' = IF g = req[r].org THEN active ELSE [active EXCEPT ![u] = g]
        /\ users' = users /\ orgs' = orgs /\ invite' = invite /\ joined' = joined /\ lock' = lock
        /\ met' = met /\ Becomes(r, Over(r))

\* A role is given.
Patches(r) ==
    LET u == req[r].user
    IN  /\ req[r].pc = "patch" /\ role[u][req[r].org] # None
        /\ \/ role' = role
           \/ role' = [role EXCEPT ![u][req[r].org] = req[r].gives]
        /\ users' = users /\ orgs' = orgs /\ active' = active /\ invite' = invite /\ joined' = joined
        /\ lock' = lock /\ met' = met /\ Becomes(r, Over(r))

\* A request fails.
Falls(r) ==
    /\ Busy(r) /\ users' = users /\ orgs' = orgs /\ role' = role /\ active' = active /\ invite' = invite
    /\ joined' = joined /\ met' = met /\ Release(r) /\ Becomes(r, Fallen)

\* The deletion of an account begins, or reads who else belongs to the organizations.
Counts(r) ==
    /\ users' = users /\ orgs' = orgs /\ role' = role /\ active' = active /\ invite' = invite
    /\ lock' = lock /\ joined' = joined
    /\ \/ req[r].pc = "new" /\ met' = met \cup Meets(r)
       \/ req[r].pc = "count" /\ met' = met
    /\ \E n \in ReqState :
          /\ Becomes(r, n) /\ n.pc \in {"count", "leave"} /\ n.kind = "quit" /\ n.user \in Users
          /\ n.pc = "leave" => n.homes \subseteq n.alone \cup n.left

\* An account is deleted.
Quits(r) ==
    LET u == req[r].user
        alone == req[r].alone
    IN  /\ req[r].pc = "leave" /\ Homes(u) \subseteq req[r].homes
        /\ users' = users \ {u} /\ orgs' = orgs \ alone
        /\ role' = [v \in Users |-> [o \in Orgs |-> IF v = u \/ o \in alone THEN None ELSE role[v][o]]]
        /\ active' = [v \in Users |-> IF v = u \/ active[v] \in alone THEN None ELSE active[v]]
        /\ invite' = [i \in Invites |-> IF invite[i].org \in alone /\ invite[i].st # "none"
                                        THEN [invite[i] EXCEPT !.st = "gone"] ELSE invite[i]]
        /\ lock' = lock /\ joined' = joined /\ met' = met
        /\ \E n \in ReqState : /\ Becomes(r, n) /\ n.pc = "ok" /\ n.kind = "quit"
                               /\ n.left = {o \in req[r].left : role[u][o] = "owner"}

\* What the proofs use of a step of request r.
StepOf(r) ==
    \/ Begun(r) \/ Invited(r) \/ Dissolved(r) \/ Passes(r) \/ Clears(r) \/ \E o \in Orgs : Adopts(r, o)
    \/ Founds(r) \/ Joins(r) \/ Applies(r) \/ Erases(r) \/ Patches(r) \/ Counts(r) \/ Quits(r) \/ Falls(r)

\* Fails, as a shape of step.
LEMMA FailsIs ==
    ASSUME TypeOK, NEW r \in Requests, Busy(r), Fails(r)
    PROVE  StepOf(r)
<1>1. [NewRequest EXCEPT !.pc = "failed"] = Fallen
  BY DEF NewRequest, Fallen, Rec
<1> QED
  BY <1>1 DEF Fails, StepOf, Falls, Becomes

\* The requests that begin, as whole records.
LEMMA AsksIs ==
    ASSUME NEW kind, NEW u, NEW o, NEW pc
    PROVE  Asks(kind, u, o, pc) = Rec(pc, kind, u, o, None, None, None)
<1>1. Asks(kind, u, o, pc) = [[[[NewRequest EXCEPT !.pc = pc] EXCEPT !.kind = kind] EXCEPT !.user = u] EXCEPT !.org = o]
  BY DEF Asks
<1>2. [NewRequest EXCEPT !.pc = pc] = Rec(pc, "login", None, None, None, None, None)
  BY DEF NewRequest, Rec
<1>3. [Rec(pc, "login", None, None, None, None, None) EXCEPT !.kind = kind]
        = Rec(pc, kind, None, None, None, None, None)
  BY DEF Rec
<1>4. [Rec(pc, kind, None, None, None, None, None) EXCEPT !.user = u] = Rec(pc, kind, u, None, None, None, None)
  BY DEF Rec
<1>5. [Rec(pc, kind, u, None, None, None, None) EXCEPT !.org = o] = Rec(pc, kind, u, o, None, None, None)
  BY DEF Rec
<1> QED
  BY <1>1, <1>2, <1>3, <1>4, <1>5, Zenon

\* And what some of them ask besides.
LEMMA AsksMore ==
    ASSUME NEW kind, NEW u, NEW o, NEW pc, NEW y
    PROVE  /\ [Asks(kind, u, o, pc) EXCEPT !.inv = y] = Rec(pc, kind, u, o, y, None, None)
           /\ [Asks(kind, u, o, pc) EXCEPT !.saw = y] = Rec(pc, kind, u, o, None, y, None)
           /\ [Asks(kind, u, o, pc) EXCEPT !.gives = y] = Rec(pc, kind, u, o, None, None, y)
<1>1. [Rec(pc, kind, u, o, None, None, None) EXCEPT !.inv = y] = Rec(pc, kind, u, o, y, None, None)
  BY DEF Rec
<1>2. [Rec(pc, kind, u, o, None, None, None) EXCEPT !.saw = y] = Rec(pc, kind, u, o, None, y, None)
  BY DEF Rec
<1>3. [Rec(pc, kind, u, o, None, None, None) EXCEPT !.gives = y] = Rec(pc, kind, u, o, None, None, y)
  BY DEF Rec
<1> QED
  BY <1>1, <1>2, <1>3, AsksIs, Zenon

\* The steps that begin a request.
LEMMA BeginForm ==
    ASSUME TypeOK, Vouchers, NEW r \in Requests, NEW c \in Users,
           \/ Login(r, c) \/ Create(r, c) \/ Dissolve(r, c) \/ Quit(r, c)
           \/ \E i \in Invites : Accept(r, c, i) \/ Revoke(r, c, i)
           \/ \E i \in Invites, u \in Users, x \in Given : Offer(r, c, i, u, x)
           \/ \E u \in Users : Remove(r, c, u)
           \/ \E u \in Users, x \in Given : Change(r, c, u, x)
           \/ \E o \in Orgs : Switch(r, c, o)
    PROVE  StepOf(r)
<1> USE OrgAssumption
<1>a. active[c] # None => active[c] \in orgs /\ active[c] \in Orgs
  BY DEF TypeOK
<1>1. CASE Login(r, c)
  <2>1. Begin(r, Rec("look", "login", c, None, None, None, None))
    BY <1>1, AsksIs DEF Login
  <2> QED
    BY <1>1, <2>1, BeginIs DEF Login, Begun, StepOf
<1>2. CASE Create(r, c)
  <2>1. Begin(r, Rec("found", "found", c, None, None, None, None))
    BY <1>2, AsksIs DEF Create
  <2> QED
    BY <1>2, <2>1, BeginIs DEF Create, Begun, StepOf
<1>3. CASE Dissolve(r, c)
  <2>1. Begin(r, Rec("ok", "dissolve", c, active[c], None, None, None))
    BY <1>3, AsksIs DEF Dissolve
  <2> QED
    BY <1>3, <1>a, <2>1, BeginIs DEF Dissolve, Dissolved, StepOf
<1>4. ASSUME NEW i \in Invites, Accept(r, c, i) PROVE StepOf(r)
  <2>0. [Asks("accept", c, None, "invite") EXCEPT !.inv = i] = Rec("invite", "accept", c, None, i, None, None)
    BY AsksMore
  <2>1. Begin(r, Rec("invite", "accept", c, None, i, None, None))
    BY <1>4, <2>0, Zenon DEF Accept
  <2> QED
    BY <1>4, <2>1, BeginIs DEF Accept, Begun, StepOf
<1>5. ASSUME NEW i \in Invites, Revoke(r, c, i) PROVE StepOf(r)
  <2>1. Begin(r, Rec("ok", "revoke", c, invite[i].org, None, None, None))
    BY <1>5, AsksIs DEF Revoke
  <2>2. invite \in [Invites -> Invite] /\ invite[i].st # "none"
    BY <1>5, Parts DEF Revoke
  <2>3. invite[i].org \in Orgs
    BY <1>5 DEF Revoke, Vouchers, TypeOK
  <2> DEFINE v == [invite[i] EXCEPT !.st = "gone"]
  <2>4. v \in Invite /\ v.st = "gone" /\ v.org = invite[i].org
    BY <2>2 DEF Invite
  <2>5. invite' = [invite EXCEPT ![i] = v]
    BY <1>5, <2>2 DEF Revoke
  <2> HIDE DEF v
  <2>6. req[r].pc = "new" /\ Becomes(r, Rec("ok", "revoke", c, invite[i].org, None, None, None))
        /\ met' = met \cup Meets(r)
    BY <2>1, BeginIs
  <2>7. users' = users /\ orgs' = orgs /\ role' = role /\ active' = active /\ lock' = lock /\ joined' = joined
    BY <1>5 DEF Revoke
  <2>8. Invited(r)
    BY <2>2, <2>3, <2>4, <2>5, <2>6, <2>7 DEF Invited
  <2> QED
    BY <2>8 DEF StepOf
<1>6. ASSUME NEW i \in Invites, NEW u \in Users, NEW x \in Given, Offer(r, c, i, u, x) PROVE StepOf(r)
  <2>1. Begin(r, Rec("ok", "offer", c, active[c], None, None, None))
    BY <1>6, AsksIs DEF Offer
  <2> DEFINE v == [st |-> "open", org |-> active[c], to |-> u, role |-> x]
  <2>2. active[c] \in orgs /\ active[c] \in Orgs
    BY <1>6, <1>a DEF Offer
  <2>3. v \in Invite /\ v.st = "open" /\ v.org \in orgs
    BY <2>2 DEF Invite
  <2>4. invite' = [invite EXCEPT ![i] = v] /\ invite[i].st = "none"
    BY <1>6 DEF Offer
  <2> HIDE DEF v
  <2>5. req[r].pc = "new" /\ Becomes(r, Rec("ok", "offer", c, active[c], None, None, None))
        /\ met' = met \cup Meets(r)
    BY <2>1, BeginIs
  <2>6. users' = users /\ orgs' = orgs /\ role' = role /\ active' = active /\ lock' = lock /\ joined' = joined
    BY <1>6 DEF Offer
  <2>7. Invited(r)
    BY <2>2, <2>3, <2>4, <2>5, <2>6 DEF Invited
  <2> QED
    BY <2>7 DEF StepOf
<1>7. ASSUME NEW u \in Users, Remove(r, c, u) PROVE StepOf(r)
  <2>0. [Asks("remove", u, active[c], "check") EXCEPT !.saw = role[c][active[c]]]
          = Rec("check", "remove", u, active[c], None, role[c][active[c]], None)
    BY AsksMore
  <2>1. Begin(r, Rec("check", "remove", u, active[c], None, role[c][active[c]], None))
    BY <1>7, <2>0, Zenon DEF Remove
  <2>2. active[c] \in orgs /\ role[c][active[c]] \in Roles
    BY <1>7, <1>a DEF Remove, Admin, Admins, Roles
  <2> QED
    BY <1>7, <2>1, <2>2, BeginIs DEF Remove, Begun, StepOf
<1>8. ASSUME NEW u \in Users, NEW x \in Given, Change(r, c, u, x) PROVE StepOf(r)
  <2>0. [Asks("role", u, active[c], "find") EXCEPT !.gives = x] = Rec("find", "role", u, active[c], None, None, x)
    BY AsksMore
  <2>1. Begin(r, Rec("find", "role", u, active[c], None, None, x))
    BY <1>8, <2>0, Zenon DEF Change
  <2>2. active[c] \in orgs /\ x \in Roles
    BY <1>8, <1>a DEF Change
  <2> QED
    BY <1>8, <2>1, <2>2, BeginIs DEF Change, Begun, StepOf
<1>9. ASSUME NEW o \in Orgs, Switch(r, c, o) PROVE StepOf(r)
  <2>1. Begin(r, Rec("adopt", "active", c, o, None, None, None))
    BY <1>9, AsksIs DEF Switch
  <2>2. o \in orgs /\ role[c][o] # None
    BY <1>9 DEF Switch, TypeOK
  <2> QED
    BY <1>9, <2>1, <2>2, BeginIs DEF Switch, Begun, StepOf
<1>10. CASE Quit(r, c)
  <2> DEFINE n == [Asks("quit", c, None, "count") EXCEPT !.homes = Homes(c)]
  <2>1. Rec("count", "quit", c, None, None, None, None) \in ReqState
    BY RecType DEF Steps, AllKinds
  <2>2. n = [Rec("count", "quit", c, None, None, None, None) EXCEPT !.homes = Homes(c)]
    BY AsksIs
  <2>3. n \in ReqState /\ n.pc = "count" /\ n.kind = "quit" /\ n.user = c
    BY <2>1, <2>2 DEF ReqState, Rec, Homes
  <2>4. Begin(r, n) /\ UNCHANGED <<users, orgs, role, active, invite, lock, joined>>
    BY <1>10 DEF Quit
  <2> HIDE DEF n
  <2>5. req[r].pc = "new" /\ Becomes(r, n) /\ met' = met \cup Meets(r)
    BY <2>4, BeginIs
  <2> QED
    BY <2>3, <2>4, <2>5 DEF Counts, StepOf
<1> QED
  BY <1>1, <1>2, <1>3, <1>4, <1>5, <1>6, <1>7, <1>8, <1>9, <1>10

\* The steps of a request that is under way.
LEMMA WayForm ==
    ASSUME TypeOK, Shape, NEW r \in Requests,
           \/ Look(r) \/ Adopt(r) \/ Lock(r) \/ Recheck(r) \/ Found(r)
           \/ ReadInvite(r) \/ ReadMember(r) \/ Join(r) \/ Apply(r)
           \/ Check(r) \/ Erase(r) \/ Find(r) \/ Patch(r)
    PROVE  StepOf(r)
<1> USE OrgAssumption
<1>p. Plain(req[r])
  BY DEF Shape, Look, Adopt, Lock, Recheck, Found, ReadInvite, ReadMember, Join, Apply, Check, Erase, Find, Patch
<1>a. req \in [Requests -> ReqState] /\ req[r] \in ReqState
  BY Parts
<1>b. ASSUME NEW pc \in Steps, Goto(r, pc) PROVE Becomes(r, Same(r, pc)) /\ met' = met
  BY <1>b, <1>p, GotoIs
<1>c. Succeeds(r) => Becomes(r, Over(r)) /\ met' = met
  BY <1>p, SucceedsIs
<1>d. Fails(r) /\ Busy(r) => StepOf(r)
  BY FailsIs
<1>e. {"adopt", "lock", "locked", "join", "home", "member", "apply", "erase", "patch"} \subseteq Steps
  BY DEF Steps
<1>f. Busy(r) => req[r].user \in Users
  BY DEF Shape
<1>g. Busy(r) => \A o \in Homes(req[r].user) : o \in orgs /\ o \in Orgs /\ role[req[r].user][o] # None
  BY <1>f DEF Homes, TypeOK
<1>h. ASSUME NEW o, NEW pc \in Steps, req' = [req EXCEPT ![r].pc = pc, ![r].org = o]
      PROVE  Becomes(r, At(r, pc, o, req[r].inv, req[r].saw, req[r].gives))
  <2>1. req' = [req EXCEPT ![r] = [[req[r] EXCEPT !.pc = pc] EXCEPT !.org = o]]
    BY <1>a, <1>h
  <2> QED
    BY <1>a, <1>p, <2>1, SetPcOrg DEF Becomes, At
<1>1. CASE Look(r)
  <2>1. req[r].pc = "look" /\ users' = users /\ orgs' = orgs /\ role' = role /\ invite' = invite /\ lock' = lock
        /\ joined' = joined /\ met' = met /\ Busy(r)
    BY <1>1 DEF Look, Busy
  <2>2. CASE active[req[r].user] \in Homes(req[r].user) /\ Succeeds(r) /\ active' = active
    BY <1>c, <2>1, <2>2 DEF Passes, StepOf
  <2>3. CASE /\ active' = [active EXCEPT ![req[r].user] = None]
             /\ req' = [req EXCEPT ![r].pc = "lock"]
    <3>1. Becomes(r, Same(r, "lock"))
      BY <1>b, <1>e, <2>1, <2>3 DEF Goto
    <3> QED
      BY <2>1, <2>3, <3>1 DEF Clears, StepOf
  <2>4. CASE /\ active' = [active EXCEPT ![req[r].user] = None]
             /\ \E o \in Homes(req[r].user) : req' = [req EXCEPT ![r].pc = "adopt", ![r].org = o]
    <3>1. \E o \in Homes(req[r].user) : Becomes(r, At(r, "adopt", o, req[r].inv, req[r].saw, req[r].gives))
      BY <1>h, <1>e, <2>4
    <3> QED
      BY <2>1, <2>4, <3>1 DEF Clears, StepOf
  <2> QED
    BY <1>1, <2>2, <2>3, <2>4 DEF Look
<1>2. CASE Adopt(r)
  <2>1. req[r].pc = "adopt" /\ Busy(r)
    BY <1>2 DEF Adopt, Busy
  <2>2. CASE req[r].org \in orgs /\ req[r].user \in users
    <3>1. req[r].org \in Orgs
      BY <2>2 DEF TypeOK
    <3>2. Adopts(r, req[r].org)
      BY <1>2, <1>c, <2>1, <2>2 DEF Adopt, Adopts
    <3> QED
      BY <3>1, <3>2 DEF StepOf
  <2> QED
    BY <1>2, <1>d, <2>1, <2>2 DEF Adopt
<1>3. CASE Lock(r)
  BY <1>3, <1>b, <1>e DEF Lock, Passes, StepOf
<1>4. CASE Recheck(r)
  <2>1. req[r].pc = "locked" /\ users' = users /\ orgs' = orgs /\ role' = role /\ invite' = invite /\ joined' = joined
        /\ met' = met /\ Busy(r)
    BY <1>4 DEF Recheck, Busy
  <2>2. CASE /\ \E o \in Homes(req[r].user) : active' = [active EXCEPT ![req[r].user] = o]
             /\ Succeeds(r) /\ Release(r)
    <3>1. PICK o \in Homes(req[r].user) : active' = [active EXCEPT ![req[r].user] = o]
      BY <2>2
    <3>2. o \in Orgs /\ Adopts(r, o)
      BY <1>c, <1>g, <2>1, <2>2, <3>1 DEF Adopts
    <3> QED
      BY <3>2 DEF StepOf
  <2>3. CASE /\ Homeless(req[r].user) /\ active' = active /\ lock' = lock
             /\ \E i \in Fitting(req[r].user) : req' = [req EXCEPT ![r].pc = "join", ![r].inv = i]
    <3>1. PICK i \in Fitting(req[r].user) : req' = [req EXCEPT ![r].pc = "join", ![r].inv = i]
      BY <2>3
    <3>2. req' = [req EXCEPT ![r] = [[req[r] EXCEPT !.pc = "join"] EXCEPT !.inv = i]]
      BY <1>a, <3>1
    <3>3. Becomes(r, At(r, "join", req[r].org, i, req[r].saw, req[r].gives))
      BY <1>a, <1>p, <1>e, <3>2, SetPcInv DEF Becomes, At
    <3> QED
      BY <2>1, <2>3, <3>3 DEF Fitting, Homeless, Passes, StepOf
  <2>4. CASE /\ Homeless(req[r].user) /\ active' = active /\ lock' = lock
             /\ req' = [req EXCEPT ![r].pc = "home"]
    <3>1. Becomes(r, Same(r, "home"))
      BY <1>b, <1>e, <2>1, <2>4 DEF Goto
    <3> QED
      BY <2>1, <2>4, <3>1 DEF Homeless, Passes, StepOf
  <2> QED
    BY <1>4, <2>2, <2>3, <2>4 DEF Recheck
<1>5. CASE Found(r)
  <2>1. Busy(r)
    BY <1>5 DEF Found, Busy
  <2> QED
    BY <1>5, <1>c, <1>d, <2>1 DEF Found, Founds, StepOf
<1>6. CASE ReadInvite(r)
  <2>1. req[r].pc = "invite" /\ Busy(r)
    BY <1>6 DEF ReadInvite, Busy
  <2>2. CASE invite[req[r].inv].st = "open" /\ Goto(r, "member")
             /\ UNCHANGED <<users, orgs, role, active, invite, lock, joined>>
    BY <1>b, <1>e, <2>1, <2>2 DEF Passes, StepOf
  <2> QED
    BY <1>6, <1>d, <2>1, <2>2 DEF ReadInvite
<1>7. CASE ReadMember(r)
  <2> DEFINE o == invite[req[r].inv].org
             had == role[req[r].user][o]
             pc == IF had = None THEN "join" ELSE "apply"
  <2>1. req' = [req EXCEPT ![r] = [[[req[r] EXCEPT !.pc = pc] EXCEPT !.org = o] EXCEPT !.saw = had]]
    BY <1>a, <1>7 DEF ReadMember
  <2>2. Becomes(r, At(r, pc, o, req[r].inv, had, req[r].gives))
    <3>1. pc \in Steps
      BY <1>e
    <3> HIDE DEF pc, o, had
    <3> QED
      BY <1>a, <1>p, <2>1, <3>1, SetPcOrgSaw DEF Becomes, At
  <2> QED
    BY <1>7, <2>2 DEF ReadMember, Passes, StepOf
<1>8. CASE Join(r)
  <2>1. req[r].pc = "join" /\ Busy(r)
    BY <1>8 DEF Join, Busy
  <2> QED
    BY <1>8, <1>c, <1>d, <2>1 DEF Join, Joins, Used, Uses, StepOf
<1>9. CASE Apply(r)
  <2>1. req[r].pc = "apply" /\ Busy(r)
    BY <1>9 DEF Apply, Busy
  <2> QED
    BY <1>9, <1>c, <1>d, <2>1 DEF Apply, Applies, Used, Uses, StepOf
<1>10. CASE Check(r)
  <2>1. req[r].pc = "check" /\ Busy(r)
    BY <1>10 DEF Check, Busy
  <2>2. CASE Removable(r)
    <3>1. PICK g \in Fallbacks(r) : req' = [req EXCEPT ![r].pc = "erase", ![r].gives = g]
      BY <1>10, <2>2 DEF Check
    <3>2. req' = [req EXCEPT ![r] = [[req[r] EXCEPT !.pc = "erase"] EXCEPT !.gives = g]]
      BY <1>a, <3>1
    <3>3. Becomes(r, At(r, "erase", req[r].org, req[r].inv, req[r].saw, g))
      BY <1>a, <1>p, <1>e, <3>2, SetPcGives DEF Becomes, At
    <3> QED
      BY <1>10, <2>1, <2>2, <3>3 DEF Check, Passes, StepOf
  <2> QED
    BY <1>10, <1>d, <2>1, <2>2 DEF Check
<1>11. CASE Erase(r)
  <2>1. req[r].pc = "erase" /\ Busy(r)
    BY <1>11 DEF Erase, Busy
  <2> QED
    BY <1>11, <1>c, <1>d, <2>1 DEF Erase, Erases, StepOf
<1>12. CASE Find(r)
  <2>1. req[r].pc = "find" /\ Busy(r)
    BY <1>12 DEF Find, Busy
  <2> DEFINE was == role[req[r].user][req[r].org]
  <2>2. CASE was # None
    <3>1. req' = [req EXCEPT ![r].pc = "patch", ![r].saw = was]
      BY <1>12, <2>2 DEF Find
    <3>2. req' = [req EXCEPT ![r] = [[req[r] EXCEPT !.pc = "patch"] EXCEPT !.saw = was]]
      BY <1>a, <3>1
    <3>3. Becomes(r, At(r, "patch", req[r].org, req[r].inv, was, req[r].gives))
      <4> HIDE DEF was
      <4> QED
        BY <1>a, <1>p, <1>e, <3>2, SetPcSaw DEF Becomes, At
    <3> QED
      BY <1>12, <2>1, <2>2, <3>3 DEF Find, Passes, StepOf
  <2> QED
    BY <1>12, <1>d, <2>1, <2>2 DEF Find
<1>13. CASE Patch(r)
  <2>1. req[r].pc = "patch" /\ Busy(r)
    BY <1>13 DEF Patch, Busy
  <2> QED
    BY <1>13, <1>c, <1>d, <2>1 DEF Patch, Patches, StepOf
<1> QED
  BY <1>1, <1>2, <1>3, <1>4, <1>5, <1>6, <1>7, <1>8, <1>9, <1>10, <1>11, <1>12, <1>13

\* The steps of a request that deletes an account, and its failure.
LEMMA QuitForm ==
    ASSUME TypeOK, Shape, NEW r \in Requests, Count(r) \/ Leave(r) \/ Cut(r)
    PROVE  StepOf(r)
<1>0. req \in [Requests -> ReqState] /\ req[r] \in ReqState
  BY Parts
<1>1. CASE Count(r)
  <2> DEFINE todo == req[r].homes \ (req[r].alone \cup req[r].left)
  <2>1. /\ req[r].pc = "count" /\ UNCHANGED <<users, orgs, role, active, invite, lock, joined, met>>
        /\ \/ todo = {} /\ req' = [req EXCEPT ![r].pc = "leave"]
           \/ \E o \in todo : \/ req' = [req EXCEPT ![r].alone = @ \cup {o}]
                              \/ req' = [req EXCEPT ![r].left = @ \cup {o}]
    BY <1>1 DEF Count
  <2>2. req[r].kind = "quit" /\ req[r].user \in Users
    BY <2>1 DEF Shape, Busy
  <2>3. ASSUME NEW n, n \in ReqState, Becomes(r, n), n.pc \in {"count", "leave"}, n.kind = req[r].kind,
               n.user = req[r].user, n.pc = "leave" => n.homes \subseteq n.alone \cup n.left
        PROVE  StepOf(r)
    BY <2>1, <2>2, <2>3 DEF Counts, StepOf
  <2>4. CASE todo = {} /\ req' = [req EXCEPT ![r].pc = "leave"]
    <3> DEFINE n == [req[r] EXCEPT !.pc = "leave"]
    <3>1. n \in ReqState /\ n.pc = "leave" /\ n.kind = req[r].kind /\ n.user = req[r].user
          /\ n.homes = req[r].homes /\ n.alone = req[r].alone /\ n.left = req[r].left
      BY <1>0 DEF ReqState, Steps
    <3>2. n.homes \subseteq n.alone \cup n.left
      BY <2>4, <3>1
    <3>3. Becomes(r, n)
      BY <1>0, <2>4 DEF Becomes
    <3> HIDE DEF n
    <3> QED
      BY <2>3, <3>1, <3>2, <3>3
  <2>5. ASSUME NEW o \in todo, req' = [req EXCEPT ![r].alone = @ \cup {o}] PROVE StepOf(r)
    <3> DEFINE n == [req[r] EXCEPT !.alone = req[r].alone \cup {o}]
    <3>1. n \in ReqState /\ n.pc = "count" /\ n.kind = req[r].kind /\ n.user = req[r].user
      BY <1>0, <2>1 DEF ReqState
    <3>2. Becomes(r, n)
      BY <1>0, <2>5 DEF Becomes
    <3> HIDE DEF n
    <3> QED
      BY <2>3, <3>1, <3>2
  <2>6. ASSUME NEW o \in todo, req' = [req EXCEPT ![r].left = @ \cup {o}] PROVE StepOf(r)
    <3> DEFINE n == [req[r] EXCEPT !.left = req[r].left \cup {o}]
    <3>1. n \in ReqState /\ n.pc = "count" /\ n.kind = req[r].kind /\ n.user = req[r].user
      BY <1>0, <2>1 DEF ReqState
    <3>2. Becomes(r, n)
      BY <1>0, <2>6 DEF Becomes
    <3> HIDE DEF n
    <3> QED
      BY <2>3, <3>1, <3>2
  <2> QED
    BY <2>1, <2>4, <2>5, <2>6
<1>2. CASE Leave(r)
  <2>1. req[r].pc = "leave" /\ Busy(r)
    BY <1>2 DEF Leave, Busy
  <2>2. CASE Homes(req[r].user) \subseteq req[r].homes
    <3> DEFINE stay == {o \in req[r].left : role[req[r].user][o] = "owner"}
               n == [req[r] EXCEPT !.pc = "ok", !.homes = {}, !.alone = {}, !.left = stay]
    <3>1. n \in ReqState /\ n.pc = "ok" /\ n.kind = req[r].kind /\ n.left = stay
      BY <1>0 DEF ReqState, Steps
    <3>2. Becomes(r, n)
      BY <1>2, <2>2 DEF Leave, Becomes
    <3>3. req[r].kind = "quit"
      BY <2>1 DEF Shape
    <3> HIDE DEF n
    <3>4. Quits(r)
      BY <1>2, <2>1, <2>2, <3>1, <3>2, <3>3 DEF Leave, Quits
    <3> QED
      BY <3>4 DEF StepOf
  <2> QED
    BY <1>2, <2>1, <2>2, FailsIs DEF Leave
<1>3. CASE Cut(r)
  BY <1>3, FailsIs DEF Cut
<1> QED
  BY <1>1, <1>2, <1>3

\* Every step of Next is one of the shapes of StepOf, on some request.
LEMMA StepForm ==
    ASSUME TypeOK, Shape, Vouchers, Next
    PROVE  \E r \in Requests : StepOf(r)
BY BeginForm, WayForm, QuitForm DEF Next

\* What every shape of step leaves alone: the other requests, requests that are over,
\* and the meetings.
LEMMA Alone ==
    ASSUME TypeOK, NEW r \in Requests, StepOf(r)
    PROVE  /\ \A q \in Requests : q # r => req'[q] = req[q]
           /\ req[r].pc \notin {"ok", "failed"}
           /\ \A q \in Requests : req[q].pc = "ok" => req'[q] = req[q]
           /\ \A p, q : Met(p, q) => Met(p, q)'
<1>0. req \in [Requests -> ReqState]
  BY Parts
<1>1. \A n : Becomes(r, n) => \A q \in Requests : q # r => req'[q] = req[q]
  BY <1>0 DEF Becomes
<1>2. \E n : Becomes(r, n)
  BY DEF StepOf, Begun, Invited, Dissolved, Passes, Clears, Adopts, Founds, Joins, Applies, Erases, Patches, Counts, Quits, Falls
<1>3. req[r].pc \notin {"ok", "failed"}
  BY DEF StepOf, Begun, Invited, Dissolved, Passes, Clears, Adopts, Founds, Joins, Applies, Erases, Patches, Counts, Quits, Falls, Busy
<1>4. met \subseteq met'
  BY DEF StepOf, Begun, Invited, Dissolved, Passes, Clears, Adopts, Founds, Joins, Applies, Erases, Patches, Counts, Quits, Falls
<1> QED
  BY <1>1, <1>2, <1>3, <1>4 DEF Met

\* The request that steps has the record it is given.
LEMMA Itself ==
    ASSUME TypeOK, NEW r \in Requests, NEW pc, NEW kind, NEW u, NEW o, NEW i, NEW x, NEW g,
           Becomes(r, Rec(pc, kind, u, o, i, x, g))
    PROVE  /\ req'[r].pc = pc /\ req'[r].kind = kind /\ req'[r].user = u /\ req'[r].org = o
           /\ req'[r].inv = i /\ req'[r].saw = x /\ req'[r].gives = g
<1>1. req'[r] = Rec(pc, kind, u, o, i, x, g)
  BY Parts DEF Becomes
<1> QED
  BY <1>1, RecFields

\* The same for a request that is under way.
LEMMA Onward ==
    ASSUME TypeOK, NEW r \in Requests, NEW pc, NEW o, NEW i, NEW x, NEW g,
           Becomes(r, At(r, pc, o, i, x, g))
    PROVE  /\ req'[r].pc = pc /\ req'[r].kind = req[r].kind /\ req'[r].user = req[r].user /\ req'[r].org = o
           /\ req'[r].inv = i /\ req'[r].saw = x /\ req'[r].gives = g
BY Itself DEF At

\* The same for a request that ends.
LEMMA Ended ==
    ASSUME TypeOK, NEW r \in Requests, Becomes(r, Over(r))
    PROVE  /\ req'[r].pc = "ok" /\ req'[r].kind = req[r].kind /\ req'[r].user = req[r].user
           /\ req'[r].org = req[r].org /\ req'[r].saw = req[r].saw
BY Onward DEF Over

\* The same for a request that deletes an account.
LEMMA Counted ==
    ASSUME TypeOK, NEW r \in Requests, Counts(r)
    PROVE  /\ req'[r] \in ReqState /\ req'[r].pc \in {"count", "leave"} /\ req'[r].kind = "quit"
           /\ req'[r].user \in Users
           /\ req'[r].pc = "leave" => req'[r].homes \subseteq req'[r].alone \cup req'[r].left
<1>1. PICK n \in ReqState :
          /\ Becomes(r, n) /\ n.pc \in {"count", "leave"} /\ n.kind = "quit" /\ n.user \in Users
          /\ n.pc = "leave" => n.homes \subseteq n.alone \cup n.left
  BY DEF Counts
<1>2. req'[r] = n
  BY <1>1, Parts DEF Becomes
<1> QED
  BY <1>1, <1>2

\* The same when the account is gone.
LEMMA Left ==
    ASSUME TypeOK, NEW r \in Requests, Quits(r)
    PROVE  /\ req'[r] \in ReqState /\ req'[r].pc = "ok" /\ req'[r].kind = "quit"
           /\ req'[r].left = {o \in req[r].left : role[req[r].user][o] = "owner"}
<1>1. PICK n \in ReqState : /\ Becomes(r, n) /\ n.pc = "ok" /\ n.kind = "quit"
                            /\ n.left = {o \in req[r].left : role[req[r].user][o] = "owner"}
  BY DEF Quits
<1>2. req'[r] = n
  BY <1>1, Parts DEF Becomes
<1> QED
  BY <1>1, <1>2

\* The records of all other requests hold nothing about an account.
LEMMA Ordinary ==
    ASSUME TypeOK, NEW r \in Requests, StepOf(r), ~Counts(r), ~Quits(r)
    PROVE  req'[r].pc \notin {"count", "leave"} /\ Plain(req'[r])
<1>a. ASSUME NEW pc, NEW kind, NEW u, NEW o, NEW i, NEW x, NEW g, pc \notin {"count", "leave"},
             Becomes(r, Rec(pc, kind, u, o, i, x, g))
      PROVE  req'[r].pc \notin {"count", "leave"} /\ Plain(req'[r])
  <2>1. req'[r] = Rec(pc, kind, u, o, i, x, g)
    BY <1>a, Parts DEF Becomes
  <2> QED
    BY <1>a, <2>1 DEF Rec, Plain
<1>b. ASSUME NEW pc, NEW o, NEW i, NEW x, NEW g, pc \notin {"count", "leave"}, Becomes(r, At(r, pc, o, i, x, g))
      PROVE  req'[r].pc \notin {"count", "leave"} /\ Plain(req'[r])
  BY <1>a, <1>b DEF At
<1>1. CASE Begun(r)
  BY <1>a, <1>1 DEF Begun
<1>2. CASE Invited(r)
  BY <1>a, <1>2 DEF Invited
<1>3. CASE Dissolved(r)
  BY <1>a, <1>3 DEF Dissolved
<1>4. CASE Passes(r)
  BY <1>b, <1>4 DEF Passes, Same, Over
<1>5. CASE Clears(r)
  BY <1>b, <1>5 DEF Clears, Same
<1>6. CASE Becomes(r, Over(r))
  BY <1>b, <1>6 DEF Over
<1>7. CASE Becomes(r, Fallen)
  BY <1>a, <1>7 DEF Fallen
<1> QED
  BY <1>1, <1>2, <1>3, <1>4, <1>5, <1>6, <1>7 DEF StepOf, Adopts, Founds, Joins, Applies, Erases, Patches, Falls

-----------------------------------------------------------------------------
(* Types *)

\* A request keeps its type.
LEMMA ReqType ==
    ASSUME TypeOK, Shape, Vouchers, NEW r \in Requests, StepOf(r)
    PROVE  req' \in [Requests -> ReqState]
<1> USE OrgAssumption
<1>0. req \in [Requests -> ReqState] /\ req[r] \in ReqState
  BY Parts
<1>a. ASSUME NEW n \in ReqState, Becomes(r, n) PROVE req' \in [Requests -> ReqState]
  BY <1>0, <1>a DEF Becomes
<1>b. ASSUME NEW pc \in Steps, NEW o \in Orgs \cup {None}, NEW i \in Invites \cup {None},
             NEW x \in Roles \cup {None}, NEW g \in Roles \cup Orgs \cup {None}
      PROVE  At(r, pc, o, i, x, g) \in ReqState
  BY <1>0, RecType DEF At, ReqState
<1>c. \A pc \in Steps : Same(r, pc) \in ReqState
  BY <1>0, <1>b DEF Same, ReqState
<1>d. Over(r) \in ReqState
  BY <1>0, <1>b DEF Over, ReqState, Steps
<1>e. Fallen \in ReqState
  BY RecType DEF Fallen, Steps, AllKinds
<1>f. req[r].org \in Orgs \cup {None} /\ req[r].inv \in Invites \cup {None} /\ req[r].saw \in Roles \cup {None}
      /\ req[r].gives \in Roles \cup Orgs \cup {None}
  BY <1>0 DEF ReqState
<1>1. CASE Begun(r)
  <2>1. PICK u \in Users :
          \/ Becomes(r, Rec("look", "login", u, None, None, None, None))
          \/ Becomes(r, Rec("found", "found", u, None, None, None, None))
          \/ \E i \in Invites : Becomes(r, Rec("invite", "accept", u, None, i, None, None))
          \/ \E o \in orgs, x \in Roles : Becomes(r, Rec("check", "remove", u, o, None, x, None))
          \/ \E o \in orgs, x \in Roles : Becomes(r, Rec("find", "role", u, o, None, None, x))
          \/ \E o \in orgs : role[u][o] # None /\ Becomes(r, Rec("adopt", "active", u, o, None, None, None))
    BY <1>1 DEF Begun
  <2>2. {"look", "found", "invite", "check", "find", "adopt"} \subseteq Steps
        /\ {"login", "found", "accept", "remove", "role", "active"} \subseteq AllKinds
    BY DEF Steps, AllKinds
  <2>3. orgs \subseteq Orgs
    BY Parts
  <2>4. Rec("look", "login", u, None, None, None, None) \in ReqState
        /\ Rec("found", "found", u, None, None, None, None) \in ReqState
    BY <2>2, RecType
  <2>5. \A i \in Invites : Rec("invite", "accept", u, None, i, None, None) \in ReqState
    BY <2>2, RecType
  <2>6. \A o \in orgs, x \in Roles : Rec("check", "remove", u, o, None, x, None) \in ReqState
                                    /\ Rec("find", "role", u, o, None, None, x) \in ReqState
    BY <2>2, <2>3, RecType
  <2>7. \A o \in orgs : Rec("adopt", "active", u, o, None, None, None) \in ReqState
    BY <2>2, <2>3, RecType
  <2> QED
    BY <1>a, <2>1, <2>4, <2>5, <2>6, <2>7
<1>2. CASE Invited(r)
  <2>1. \A u \in Users, o \in Orgs, kind \in {"offer", "revoke"} : Rec("ok", kind, u, o, None, None, None) \in ReqState
    BY RecType DEF Steps, AllKinds
  <2> QED
    BY <1>2, <1>a, <2>1 DEF Invited
<1>3. CASE Dissolved(r)
  <2>1. \A u \in Users, o \in Orgs : Rec("ok", "dissolve", u, o, None, None, None) \in ReqState
    BY RecType DEF Steps, AllKinds
  <2> QED
    BY <1>3, <1>a, <2>1, Parts DEF Dissolved
<1>4. CASE Passes(r)
  <2>0. {"locked", "home", "join", "member", "apply", "erase", "patch"} \subseteq Steps
    BY DEF Steps
  <2>1. CASE Becomes(r, Over(r)) \/ \E pc \in {"locked", "home", "member"} : Becomes(r, Same(r, pc))
    BY <1>a, <1>c, <1>d, <2>0, <2>1
  <2>2. CASE \E i \in Invites : Becomes(r, At(r, "join", req[r].org, i, req[r].saw, req[r].gives))
    BY <1>a, <1>b, <1>f, <2>0, <2>2
  <2>3. CASE /\ req[r].pc = "member"
             /\ LET o == invite[req[r].inv].org
                    had == role[req[r].user][o]
                IN  \/ had = None /\ Becomes(r, At(r, "join", o, req[r].inv, had, req[r].gives))
                    \/ had # None /\ Becomes(r, At(r, "apply", o, req[r].inv, had, req[r].gives))
    <3> DEFINE o == invite[req[r].inv].org
               had == role[req[r].user][o]
    <3>1. req[r].user \in Users /\ o \in Orgs
      BY <2>3 DEF Shape, Busy, Vouchers, Holds
    <3>2. had \in Roles \cup {None}
      BY <3>1, Parts
    <3>3. At(r, "join", o, req[r].inv, had, req[r].gives) \in ReqState
          /\ At(r, "apply", o, req[r].inv, had, req[r].gives) \in ReqState
      <4> HIDE DEF o, had
      <4> QED
        BY <1>b, <1>f, <2>0, <3>1, <3>2
    <3> QED
      BY <1>a, <2>3, <3>3
  <2>4. CASE \E g \in Fallbacks(r) : Becomes(r, At(r, "erase", req[r].org, req[r].inv, req[r].saw, g))
    <3>1. Fallbacks(r) \subseteq Orgs \cup {None}
      BY <1>f DEF Fallbacks, Homes
    <3> QED
      BY <1>a, <1>b, <1>f, <2>0, <2>4, <3>1
  <2>5. CASE /\ req[r].pc = "find"
             /\ Becomes(r, At(r, "patch", req[r].org, req[r].inv, role[req[r].user][req[r].org], req[r].gives))
    <3>1. role[req[r].user][req[r].org] \in Roles \cup {None}
      BY <2>5, Parts DEF Shape, Busy
    <3> QED
      BY <1>a, <1>b, <1>f, <2>0, <2>5, <3>1
  <2> QED
    BY <1>4, <2>1, <2>2, <2>3, <2>4, <2>5 DEF Passes
<1>5. CASE Clears(r)
  <2>1. Same(r, "lock") \in ReqState
    BY <1>c DEF Steps
  <2>2. \A o \in Homes(req[r].user) : At(r, "adopt", o, req[r].inv, req[r].saw, req[r].gives) \in ReqState
    BY <1>b, <1>f DEF Homes, Steps
  <2> QED
    BY <1>5, <1>a, <2>1, <2>2 DEF Clears
<1>6. CASE Falls(r)
  BY <1>6, <1>a, <1>e DEF Falls
<1>7. CASE Becomes(r, Over(r))
  BY <1>7, <1>a, <1>d
<1>8. CASE Counts(r) \/ Quits(r)
  BY <1>8, <1>a DEF Counts, Quits
<1> QED
  BY <1>1, <1>2, <1>3, <1>4, <1>5, <1>6, <1>7, <1>8 DEF StepOf, Adopts, Founds, Joins, Applies, Erases, Patches

\* What the steps leave in the rows has their types.
LEMMA TypeStep ==
    ASSUME TypeOK, Shape, Vouchers, Foundations, NEW r \in Requests, StepOf(r)
    PROVE  TypeOK'
<1> USE OrgAssumption
<1>0. /\ users \subseteq Users /\ orgs \subseteq Orgs /\ role \in [Users -> [Orgs -> Roles \cup {None}]]
      /\ active \in [Users -> orgs \cup {None}]
      /\ \A u \in Users, o \in Orgs : role[u][o] # None => u \in users /\ o \in orgs
      /\ \A u \in Users : active[u] # None => u \in users
      /\ invite \in [Invites -> Invite] /\ lock \in [Users -> Requests \cup {None}]
      /\ joined \in [Invites -> SUBSET Requests] /\ met \subseteq SUBSET Requests
  BY Parts
<1>1. req' \in [Requests -> ReqState]
  BY ReqType
<1>2. met' \subseteq SUBSET Requests
  <2>1. met' = met \/ met' = met \cup Meets(r)
    BY DEF StepOf, Begun, Invited, Dissolved, Passes, Clears, Adopts, Founds, Joins, Applies, Erases, Patches, Counts, Quits, Falls
  <2>2. Meets(r) \subseteq SUBSET Requests
    BY DEF Meets
  <2> QED
    BY <1>0, <2>1, <2>2
<1>3. lock' \in [Users -> Requests \cup {None}]
  <2>1. CASE lock' = lock \/ Release(r)
    BY <1>0, <2>1 DEF Release
  <2>2. CASE lock' = [lock EXCEPT ![req[r].user] = r]
    BY <1>0, <2>2
  <2> QED
    BY <2>1, <2>2 DEF StepOf, Begun, Invited, Dissolved, Passes, Clears, Adopts, Founds, Joins, Applies, Erases,
       Patches, Counts, Quits, Falls
<1>a. ASSUME NEW i \in Invites, NEW st \in {"used", "gone"} PROVE [invite[i] EXCEPT !.st = st] \in Invite
  <2>1. invite[i] \in Invite
    BY <1>0
  <2> QED
    BY <2>1 DEF Invite
<1>b. ASSUME NEW i \in Invites, Uses(r), i = req[r].inv
      PROVE  invite' \in [Invites -> Invite] /\ joined' \in [Invites -> SUBSET Requests]
  <2> DEFINE v == [invite[i] EXCEPT !.st = "used"]
  <2>1. invite' = [invite EXCEPT ![i] = v] /\ v \in Invite
    BY <1>0, <1>a, <1>b DEF Uses
  <2>2. joined' = [joined EXCEPT ![i] = joined[i] \cup {r}] /\ joined[i] \cup {r} \in SUBSET Requests
    BY <1>0, <1>b DEF Uses
  <2> HIDE DEF v
  <2> QED
    BY <1>0, <2>1, <2>2
<1>4. invite' \in [Invites -> Invite] /\ joined' \in [Invites -> SUBSET Requests]
  <2>1. CASE Invited(r)
    BY <1>0, <2>1 DEF Invited
  <2>2. CASE Dissolved(r)
    <3>1. PICK o \in orgs : invite' = [i \in Invites |-> IF invite[i].org = o /\ invite[i].st # "none"
                                                        THEN [invite[i] EXCEPT !.st = "gone"] ELSE invite[i]]
      BY <2>2 DEF Dissolved
    <3> DEFINE v(i) == IF invite[i].org = o /\ invite[i].st # "none" THEN [invite[i] EXCEPT !.st = "gone"] ELSE invite[i]
    <3>2. invite' = [i \in Invites |-> v(i)]
      BY <3>1
    <3>3. \A i \in Invites : v(i) \in Invite
      BY <1>0, <1>a
    <3> HIDE DEF v
    <3> QED
      BY <1>0, <2>2, <3>2, <3>3 DEF Dissolved
  <2>3. CASE invite' = invite /\ joined' = joined
    BY <1>0, <2>3
  <2>5. CASE Quits(r)
    <3> DEFINE v(i) == IF invite[i].org \in req[r].alone /\ invite[i].st # "none"
                       THEN [invite[i] EXCEPT !.st = "gone"] ELSE invite[i]
    <3>1. invite' = [i \in Invites |-> v(i)] /\ joined' = joined
      BY <2>5 DEF Quits
    <3>2. \A i \in Invites : v(i) \in Invite
      BY <1>0, <1>a
    <3> HIDE DEF v
    <3> QED
      BY <1>0, <3>1, <3>2
  <2>4. CASE Joins(r) \/ Applies(r)
    <3>1. Uses(r) /\ req[r].inv \in Invites
      BY <2>4 DEF Joins, Applies, Shape
    <3> QED
      BY <1>b, <3>1
  <2> QED
    BY <2>1, <2>2, <2>3, <2>4, <2>5 DEF StepOf, Begun, Passes, Clears, Adopts, Founds, Erases, Patches, Counts, Falls
<1>u. Busy(r) => req[r].user \in Users
  BY DEF Shape
<1>v. Holds(r, req[r].inv) => req[r].inv \in Invites /\ invite[req[r].inv].org \in Orgs
                              /\ (invite[req[r].inv].st # "gone" => invite[req[r].inv].org \in orgs)
                              /\ invite[req[r].inv].role \in Roles
  BY <1>0 DEF Holds, Shape, Vouchers, Invite
<1>w. ASSUME NEW u \in Users, NEW o \in orgs, NEW x \in Roles, role' = [role EXCEPT ![u][o] = x], orgs' = orgs,
             u \in users, users' = users
      PROVE  /\ role' \in [Users -> [Orgs -> Roles \cup {None}]]
             /\ \A w \in Users, p \in Orgs : role'[w][p] # None => w \in users' /\ p \in orgs'
  <2>1. o \in Orgs /\ [role[u] EXCEPT ![o] = x] \in [Orgs -> Roles \cup {None}]
    BY <1>0
  <2>2. role' = [role EXCEPT ![u] = [role[u] EXCEPT ![o] = x]]
    BY <1>0, <1>w
  <2>3. role' \in [Users -> [Orgs -> Roles \cup {None}]]
    BY <1>0, <2>1, <2>2
  <2>4. \A w \in Users, p \in Orgs : role'[w][p] = role[w][p] \/ (w = u /\ p = o)
    BY <1>0, <2>1, <2>2
  <2> QED
    BY <1>0, <1>w, <2>3, <2>4
<1>5. /\ users' \subseteq Users /\ orgs' \subseteq Orgs /\ role' \in [Users -> [Orgs -> Roles \cup {None}]]
      /\ active' \in [Users -> orgs' \cup {None}]
      /\ \A u \in Users, o \in Orgs : role'[u][o] # None => u \in users' /\ o \in orgs'
      /\ \A u \in Users : active'[u] # None => u \in users'
  <2>1. CASE Dissolved(r)
    <3>1. PICK o \in orgs : /\ orgs' = orgs \ {o} /\ role' = [w \in Users |-> [role[w] EXCEPT ![o] = None]]
                            /\ active' = Without(o) /\ users' = users
      BY <2>1 DEF Dissolved
    <3> QED
      BY <1>0, <3>1 DEF Without
  <2>2. CASE users' = users /\ orgs' = orgs /\ role' = role /\ active' = active
    BY <1>0, <2>2
  <2>3. CASE Clears(r)
    BY <1>0, <2>3 DEF Clears
  <2>4. CASE \E o \in Orgs : Adopts(r, o)
    <3>1. PICK o \in Orgs : Adopts(r, o)
      BY <2>4
    <3>2. o \in orgs /\ users' = users /\ orgs' = orgs /\ role' = role /\ active' = [active EXCEPT ![req[r].user] = o]
      BY <3>1 DEF Adopts
    <3>3. req[r].user \in users
      BY <1>0, <1>u, <3>1 DEF Adopts, Homes, Busy
    <3> QED
      BY <1>0, <3>2, <3>3
  <2>5. CASE Founds(r)
    <3>1. r \in Orgs /\ req[r].user \in Users /\ req[r].user \in users /\ users' = users
      BY <1>u, <2>5 DEF Founds, Busy, Orgs
    <3>2. orgs' = orgs \cup {r} /\ role' = [role EXCEPT ![req[r].user][r] = "owner"]
          /\ active' = [active EXCEPT ![req[r].user] = r]
      BY <2>5 DEF Founds
    <3> QED
      BY <1>0, <3>1, <3>2 DEF Roles
  <2>6. CASE Joins(r)
    <3> DEFINE u == req[r].user
               o == invite[req[r].inv].org
               x == invite[req[r].inv].role
    <3>1. u \in Users /\ u \in users /\ users' = users /\ o \in orgs /\ x \in Roles
      BY <1>u, <1>v, <2>6 DEF Joins, Uses, Busy, Holds
    <3>2. orgs' = orgs /\ role' = [role EXCEPT ![u][o] = x] /\ (active' = active \/ active' = [active EXCEPT ![u] = o])
      BY <2>6 DEF Joins
    <3> HIDE DEF u, o, x
    <3> QED
      BY <1>0, <1>w, <3>1, <3>2
  <2>7. CASE Applies(r)
    <3> DEFINE u == req[r].user
               o == invite[req[r].inv].org
               x == invite[req[r].inv].role
    <3>1. u \in Users /\ users' = users /\ o \in orgs /\ x \in Roles
      BY <1>u, <1>v, <2>7 DEF Applies, Uses, Busy, Holds
    <3>2. orgs' = orgs /\ (role' = role \/ (role[u][o] # None /\ role' = [role EXCEPT ![u][o] = x])) /\ active' = active
      BY <2>7 DEF Applies
    <3> HIDE DEF u, o, x
    <3>3. o \in Orgs /\ (role[u][o] # None => u \in users)
      BY <1>0, <3>1
    <3> QED
      BY <1>0, <1>w, <3>1, <3>2, <3>3
  <2>8. CASE Erases(r)
    <3> DEFINE u == req[r].user
               o == req[r].org
               g == req[r].gives
    <3>1. u \in Users /\ o \in Orgs /\ users' = users
          /\ (g = o \/ (g \in orgs \cup {None} /\ u \in users))
      BY <1>u, <2>8 DEF Erases, Busy, Shape
    <3>2. orgs' = orgs /\ role' = [role EXCEPT ![u][o] = None]
          /\ active' = IF g = o THEN active ELSE [active EXCEPT ![u] = g]
      BY <2>8 DEF Erases
    <3> HIDE DEF u, o, g
    <3> QED
      BY <1>0, <3>1, <3>2
  <2>9. CASE Patches(r)
    <3> DEFINE u == req[r].user
               o == req[r].org
               x == req[r].gives
    <3>1. u \in Users /\ u \in users /\ users' = users /\ o \in orgs /\ x \in Roles
      BY <1>0, <1>u, <2>9 DEF Patches, Busy, Shape
    <3>2. orgs' = orgs /\ (role' = role \/ role' = [role EXCEPT ![u][o] = x]) /\ active' = active
      BY <2>9 DEF Patches
    <3> HIDE DEF u, o, x
    <3> QED
      BY <1>0, <1>w, <3>1, <3>2
  <2>10. CASE Quits(r)
    <3> DEFINE u == req[r].user
               alone == req[r].alone
    <3>1. /\ users' = users \ {u} /\ orgs' = orgs \ alone
          /\ role' = [v \in Users |-> [o \in Orgs |-> IF v = u \/ o \in alone THEN None ELSE role[v][o]]]
          /\ active' = [v \in Users |-> IF v = u \/ active[v] \in alone THEN None ELSE active[v]]
      BY <2>10 DEF Quits
    <3> HIDE DEF u, alone
    <3>2. \A v \in Users : role[v] \in [Orgs -> Roles \cup {None}] /\ active[v] \in orgs \cup {None}
      BY <1>0
    <3>3. role' \in [Users -> [Orgs -> Roles \cup {None}]]
      BY <3>1, <3>2
    <3>4. active' \in [Users -> orgs' \cup {None}]
      BY <3>1, <3>2
    <3>5. \A v \in Users, o \in Orgs : role'[v][o] # None => v # u /\ o \notin alone /\ role[v][o] # None
      BY <3>1
    <3>6. \A v \in Users : active'[v] # None => v # u /\ active[v] # None
      BY <3>1
    <3> QED
      BY <1>0, <3>1, <3>3, <3>4, <3>5, <3>6
  <2> QED
    BY <2>1, <2>2, <2>3, <2>4, <2>5, <2>6, <2>7, <2>8, <2>9, <2>10 DEF StepOf, Begun, Invited, Passes, Counts, Falls
<1> QED
  BY <1>1, <1>2, <1>3, <1>4, <1>5 DEF TypeOK, ReqState, Steps

-----------------------------------------------------------------------------
(* What requests are about, and the requests that overlap *)

\* Each shape of step keeps the kinds and the arguments of requests.
LEMMA ShapeStep ==
    ASSUME TypeOK, Shape, Vouchers, NEW r \in Requests, StepOf(r)
    PROVE  Shape'
<1>0. \A q \in Requests : q # r => req'[q] = req[q]
  BY Alone
<1>1. orgs \subseteq Orgs
  BY Parts
<1>2. /\ Busy(r)' => req'[r].user \in Users
      /\ req'[r].pc \in {"look", "lock", "locked", "home"} => req'[r].kind = "login"
      /\ req'[r].pc = "adopt" => req'[r].kind \in {"login", "active"} /\ req'[r].org \in Orgs
      /\ req'[r].pc \in {"invite", "member", "apply"} => req'[r].kind = "accept"
      /\ req'[r].pc = "join" => req'[r].kind \in {"login", "accept"}
      /\ req'[r].pc \in {"invite", "member", "join", "apply"} => req'[r].inv \in Invites
      /\ req'[r].pc \in {"check", "erase"} => req'[r].kind = "remove" /\ req'[r].org \in Orgs
      /\ req'[r].pc = "erase" => req'[r].gives \in Orgs \cup {None}
      /\ req'[r].pc \in {"find", "patch"} => req'[r].kind = "role" /\ req'[r].org \in Orgs /\ req'[r].gives \in Roles
      /\ req'[r].pc \in {"patch", "apply"} => req'[r].saw \in Roles
  <2>1. CASE Begun(r)
    BY <1>1, <2>1, Itself DEF Begun, Busy
  <2>2. CASE Invited(r) \/ Dissolved(r)
    BY <2>2, Itself DEF Invited, Dissolved, Busy
  <2>3. CASE Becomes(r, Over(r)) \/ Becomes(r, Fallen)
    BY <2>3, Ended, Itself DEF Fallen, Busy
  <2>4. CASE Clears(r)
    <3>1. req'[r].pc \in {"lock", "adopt"} /\ req'[r].kind = req[r].kind /\ req'[r].user = req[r].user
          /\ (req'[r].pc = "adopt" => req'[r].org \in Orgs)
      BY <2>4, Onward DEF Clears, Same, Homes
    <3> QED
      BY <2>4, <3>1 DEF Clears, Shape, Busy
  <2>5. CASE Passes(r) /\ ~Becomes(r, Over(r))
    <3>0. req'[r].kind = req[r].kind /\ req'[r].user = req[r].user
      BY <2>5, Onward DEF Passes, Same
    <3>1. req[r].user \in Users /\ Busy(r)
      BY <2>5 DEF Passes, Shape, Busy
    <3>2. CASE req[r].pc = "lock" /\ Becomes(r, Same(r, "locked"))
      BY <3>0, <3>1, <3>2, Onward DEF Shape, Same
    <3>3. CASE /\ req[r].pc = "locked"
               /\ \/ Becomes(r, Same(r, "home"))
                  \/ \E i \in Invites : Becomes(r, At(r, "join", req[r].org, i, req[r].saw, req[r].gives))
      BY <3>0, <3>1, <3>3, Onward DEF Shape, Same
    <3>4. CASE req[r].pc = "invite" /\ Becomes(r, Same(r, "member"))
      BY <3>0, <3>1, <3>4, Onward DEF Shape, Same
    <3>5. CASE req[r].pc = "member" /\ \E o : Becomes(r, At(r, "join", o, req[r].inv, role[req[r].user][o], req[r].gives))
      BY <3>0, <3>1, <3>5, Onward DEF Shape
    <3>6. CASE /\ req[r].pc = "member"
               /\ LET o == invite[req[r].inv].org
                      had == role[req[r].user][o]
                  IN  had # None /\ Becomes(r, At(r, "apply", o, req[r].inv, had, req[r].gives))
      <4> DEFINE o == invite[req[r].inv].org
      <4>1. o \in Orgs
        BY <3>6 DEF Shape, Vouchers, Holds
      <4>2. role[req[r].user][o] \in Roles
        BY <3>1, <3>6, <4>1, Parts
      <4>3. req'[r].pc = "apply" /\ req'[r].saw = role[req[r].user][o] /\ req'[r].inv = req[r].inv
        BY <3>6, Onward
      <4> QED
        BY <3>0, <3>1, <3>6, <4>2, <4>3 DEF Shape
    <3>7. CASE /\ req[r].pc = "check"
               /\ \E g \in Fallbacks(r) : Becomes(r, At(r, "erase", req[r].org, req[r].inv, req[r].saw, g))
      <4>1. req[r].org \in Orgs /\ req[r].kind = "remove"
        BY <3>7 DEF Shape
      <4>2. Fallbacks(r) \subseteq Orgs \cup {None}
        BY <4>1 DEF Fallbacks, Homes
      <4>3. req'[r].pc = "erase" /\ req'[r].gives \in Orgs \cup {None} /\ req'[r].org = req[r].org
        BY <3>7, <4>2, Onward
      <4> QED
        BY <3>0, <3>1, <4>1, <4>3
    <3>8. CASE /\ req[r].pc = "find" /\ role[req[r].user][req[r].org] # None
               /\ Becomes(r, At(r, "patch", req[r].org, req[r].inv, role[req[r].user][req[r].org], req[r].gives))
      <4>1. req[r].org \in Orgs /\ req[r].kind = "role" /\ req[r].gives \in Roles
        BY <3>8 DEF Shape
      <4>2. role[req[r].user][req[r].org] \in Roles
        BY <3>1, <3>8, <4>1, Parts
      <4>3. req'[r].pc = "patch" /\ req'[r].org = req[r].org /\ req'[r].gives = req[r].gives
            /\ req'[r].saw = role[req[r].user][req[r].org]
        BY <3>8, Onward
      <4> QED
        BY <3>0, <3>1, <4>1, <4>2, <4>3
    <3> QED
      BY <2>5, <3>2, <3>3, <3>4, <3>5, <3>6, <3>7, <3>8 DEF Passes
  <2>6. CASE Counts(r) \/ Quits(r)
    BY <2>6, Counted, Left DEF Busy
  <2> QED
    BY <2>1, <2>2, <2>3, <2>4, <2>5, <2>6 DEF StepOf, Adopts, Founds, Joins, Applies, Erases, Patches, Falls
<1>4. /\ req'[r].pc \in {"count", "leave"} => req'[r].kind = "quit"
      /\ req'[r].pc = "leave" => req'[r].homes \subseteq req'[r].alone \cup req'[r].left
      /\ req'[r].pc \notin {"count", "leave", "ok"} => Plain(req'[r])
  BY Counted, Left, Ordinary
<1>3. \A q \in Requests : q # r => (Busy(q)' <=> Busy(q))
  BY <1>0 DEF Busy
<1> QED
  BY <1>0, <1>2, <1>3, <1>4 DEF Shape, Plain

\* Meeting is mutual.
LEMMA Symmetric == \A r, s : Met(r, s) <=> Met(s, r)
<1>1. \A r, s : {r, s} = {s, r}
  OBVIOUS
<1> QED
  BY <1>1 DEF Met

\* Two requests that are under way have met.
LEMMA OverlapStep ==
    ASSUME TypeOK, Overlap, NEW r \in Requests, StepOf(r)
    PROVE  Overlap'
<1>0. \A q \in Requests : q # r => req'[q] = req[q]
  BY Alone
<1>1. \A p, q : Met(p, q) => Met(p, q)'
  BY Alone
<1>2. \A q \in Requests : q # r => (Busy(q)' <=> Busy(q))
  BY <1>0 DEF Busy
<1>3. CASE Busy(r)
  BY <1>1, <1>2, <1>3 DEF Overlap
<1>4. CASE ~Busy(r)
  <2>1. met' = met \cup Meets(r)
    BY <1>4 DEF StepOf, Begun, Invited, Dissolved, Passes, Clears, Adopts, Founds, Joins, Applies, Erases,
       Patches, Counts, Quits, Falls, Busy
  <2>2. \A s \in Requests : s # r /\ Busy(s) => {r, s} \in met' /\ {s, r} \in met'
    <3>1. \A s : {s, r} = {r, s}
      OBVIOUS
    <3> QED
      BY <2>1, <3>1 DEF Meets
  <2>3. \A s \in Requests : s # r /\ Busy(s) => Met(r, s)' /\ Met(s, r)'
    BY <2>2 DEF Met
  <2> QED
    BY <1>1, <1>2, <2>3 DEF Overlap
<1> QED
  BY <1>3, <1>4

\* Organizations exist when requests have founded them, and are founded once.
LEMMA FoundationStep ==
    ASSUME TypeOK, Shape, Vouchers, Foundations, NEW r \in Requests, StepOf(r)
    PROVE  Foundations'
<1> USE OrgAssumption
<1>0. \A q \in Requests : q # r => req'[q] = req[q]
  BY Alone
<1>a. \A o : Founded(o) => Founded(o)'
  BY Alone DEF Founded
<1>b. Founded(None)
  BY DEF Founded
<1>c. \A o \in Orgs : role[req[r].user][o] # None /\ Busy(r) => Founded(o)
  BY DEF TypeOK, Shape, Foundations
<1>1. \A o \in orgs' : Founded(o)'
  <2>1. CASE Founds(r)
    <3>1. req'[r].pc = "ok" /\ orgs' = orgs \cup {r}
      BY <2>1, Ended DEF Founds
    <3> QED
      BY <1>a, <3>1 DEF Foundations, Founded
  <2>2. CASE orgs' \subseteq orgs
    BY <1>a, <2>2 DEF Foundations
  <2> QED
    BY <2>1, <2>2 DEF StepOf, Begun, Invited, Dissolved, Passes, Clears, Adopts, Joins, Applies, Erases,
       Patches, Counts, Quits, Falls
<1>2. /\ req'[r].pc \in {"adopt", "check", "erase", "find", "patch", "apply"} => Founded(req'[r].org)
      /\ req'[r].pc = "erase" => Founded(req'[r].gives)
  <2>1. CASE Begun(r)
    BY <2>1, Itself DEF Begun, Foundations
  <2>2. CASE Invited(r) \/ Dissolved(r)
    BY <2>2, Itself DEF Invited, Dissolved
  <2>3. CASE Becomes(r, Over(r)) \/ Becomes(r, Fallen)
    BY <2>3, Ended, Itself DEF Fallen
  <2>4. CASE Clears(r)
    <3>1. req'[r].pc = "lock" \/ (req'[r].pc = "adopt" /\ req'[r].org \in Homes(req[r].user))
      BY <2>4, Onward DEF Clears, Same
    <3> QED
      BY <1>c, <2>4, <3>1 DEF Clears, Busy, Homes
  <2>5. CASE Passes(r) /\ ~Becomes(r, Over(r))
    <3>1. CASE \E pc \in {"locked", "home", "member"} : Becomes(r, Same(r, pc))
      BY <3>1, Onward DEF Same
    <3>2. CASE \E o, i, x, g : Becomes(r, At(r, "join", o, i, x, g))
      BY <3>2, Onward
    <3>3. CASE /\ req[r].pc = "member"
               /\ LET o == invite[req[r].inv].org
                      had == role[req[r].user][o]
                  IN  had # None /\ Becomes(r, At(r, "apply", o, req[r].inv, had, req[r].gives))
      <4> DEFINE o == invite[req[r].inv].org
      <4>1. o \in Orgs
        BY <3>3 DEF Shape, Vouchers, Holds
      <4>2. Founded(o)
        BY <1>c, <3>3, <4>1 DEF Busy
      <4>3. req'[r].pc = "apply" /\ req'[r].org = o
        BY <3>3, Onward
      <4> QED
        BY <4>2, <4>3
    <3>4. CASE /\ req[r].pc = "check"
               /\ \E g \in Fallbacks(r) : Becomes(r, At(r, "erase", req[r].org, req[r].inv, req[r].saw, g))
      <4>1. req'[r].org = req[r].org /\ req'[r].gives \in Fallbacks(r) /\ req'[r].pc = "erase"
        BY <3>4, Onward
      <4>2. Founded(req[r].org)
        BY <3>4 DEF Foundations
      <4>3. \A g \in Fallbacks(r) : Founded(g)
        BY <1>b, <1>c, <3>4, <4>2 DEF Fallbacks, Homes, Busy
      <4> QED
        BY <4>1, <4>2, <4>3
    <3>5. CASE /\ req[r].pc = "find"
               /\ Becomes(r, At(r, "patch", req[r].org, req[r].inv, role[req[r].user][req[r].org], req[r].gives))
      <4>1. req'[r].org = req[r].org /\ req'[r].pc = "patch"
        BY <3>5, Onward
      <4> QED
        BY <3>5, <4>1 DEF Foundations
    <3> QED
      BY <2>5, <3>1, <3>2, <3>3, <3>4, <3>5 DEF Passes
  <2>6. CASE Counts(r) \/ Quits(r)
    BY <2>6, Counted, Left
  <2> QED
    BY <2>1, <2>2, <2>3, <2>4, <2>5, <2>6 DEF StepOf, Adopts, Founds, Joins, Applies, Erases, Patches, Falls
<1> QED
  BY <1>0, <1>1, <1>2, <1>a DEF Foundations

-----------------------------------------------------------------------------
(* Invites *)

\* Who comes to hold an invite has found it open, or held it.
LEMMA HoldsStep ==
    ASSUME TypeOK, Shape, NEW r \in Requests, StepOf(r), NEW i \in Invites, Holds(r, i)'
    PROVE  /\ \/ Holds(r, i) /\ req[r].pc = "member" /\ req'[r].org = invite[i].org
              \/ invite[i].st = "open" /\ (req'[r].pc = "member" \/ req'[r].kind = "login")
           /\ Passes(r)
<1>1. CASE Begun(r)
  BY <1>1, Itself DEF Begun, Holds
<1>2. CASE Invited(r) \/ Dissolved(r)
  BY <1>2, Itself DEF Invited, Dissolved, Holds
<1>3. CASE Becomes(r, Over(r)) \/ Becomes(r, Fallen)
  BY <1>3, Ended, Itself DEF Fallen, Holds
<1>4. CASE Clears(r)
  BY <1>4, Onward DEF Clears, Same, Holds
<1>5. CASE Passes(r) /\ ~Becomes(r, Over(r))
  <2>1. CASE \E pc \in {"locked", "home"} : Becomes(r, Same(r, pc))
    BY <2>1, Onward DEF Same, Holds
  <2>2. CASE req[r].pc = "invite" /\ invite[req[r].inv].st = "open" /\ Becomes(r, Same(r, "member"))
    BY <1>5, <2>2, Onward DEF Same, Holds
  <2>3. CASE /\ req[r].pc = "locked"
             /\ \E j \in Invites : /\ invite[j].st = "open"
                                   /\ Becomes(r, At(r, "join", req[r].org, j, req[r].saw, req[r].gives))
    <3>1. PICK j \in Invites : /\ invite[j].st = "open"
                               /\ Becomes(r, At(r, "join", req[r].org, j, req[r].saw, req[r].gives))
      BY <2>3
    <3>2. req'[r].inv = j /\ req'[r].kind = "login"
      BY <2>3, <3>1, Onward DEF Shape
    <3> QED
      BY <1>5, <3>1, <3>2 DEF Holds
  <2>4. CASE /\ req[r].pc = "member"
             /\ \E pc, x : Becomes(r, At(r, pc, invite[req[r].inv].org, req[r].inv, x, req[r].gives))
    <3>1. req'[r].inv = req[r].inv /\ req'[r].org = invite[req[r].inv].org
      BY <2>4, Onward
    <3> QED
      BY <1>5, <2>4, <3>1 DEF Holds
  <2>5. CASE \E o, j, x, g : Becomes(r, At(r, "erase", o, j, x, g)) \/ Becomes(r, At(r, "patch", o, j, x, g))
    BY <2>5, Onward DEF Holds
  <2> QED
    BY <1>5, <2>1, <2>2, <2>3, <2>4, <2>5 DEF Passes
<1>6. CASE Counts(r) \/ Quits(r)
  BY <1>6, Counted, Left DEF Holds
<1> QED
  BY <1>1, <1>2, <1>3, <1>4, <1>5, <1>6 DEF StepOf, Adopts, Founds, Joins, Applies, Erases, Patches, Falls

\* What happens to the rows of invites and to who used them.
LEMMA InviteRows ==
    ASSUME TypeOK, Shape, Vouchers, NEW r \in Requests, StepOf(r), NEW i \in Invites
    PROVE  \/ /\ invite'[i] = invite[i] /\ joined'[i] = joined[i]
              /\ invite[i].st \in {"open", "used"} => invite[i].org \in orgs'
           \/ /\ invite[i].st = "none" /\ invite'[i].st = "open" /\ joined'[i] = joined[i]
              /\ invite'[i].org \in orgs /\ orgs' = orgs
           \/ /\ invite[i].st # "none" /\ invite'[i].st = "gone" /\ invite'[i].org = invite[i].org
              /\ joined'[i] = joined[i]
           \/ /\ Holds(r, i) /\ req'[r].pc = "ok" /\ invite[i].st # "gone" /\ orgs' = orgs
              /\ invite'[i].st = "used" /\ invite'[i].org = invite[i].org /\ joined'[i] = joined[i] \cup {r}
<1>0. invite \in [Invites -> Invite] /\ joined \in [Invites -> SUBSET Requests] /\ invite[i] \in Invite
  BY Parts
<1>1. CASE Invited(r)
  <2>1. PICK j \in Invites, v \in Invite :
          /\ invite' = [invite EXCEPT ![j] = v]
          /\ \/ invite[j].st = "none" /\ v.st = "open" /\ v.org \in orgs
             \/ invite[j].st # "none" /\ v.st = "gone" /\ v.org = invite[j].org
    BY <1>1 DEF Invited
  <2>2. joined' = joined /\ orgs' = orgs
    BY <1>1 DEF Invited
  <2>3. CASE i = j
    BY <1>0, <2>1, <2>2, <2>3
  <2>4. CASE i # j
    BY <1>0, <2>1, <2>2, <2>4 DEF Vouchers
  <2> QED
    BY <2>3, <2>4
<1>2. CASE Dissolved(r)
  <2>1. PICK o \in orgs :
          /\ orgs' = orgs \ {o}
          /\ invite' = [j \in Invites |-> IF invite[j].org = o /\ invite[j].st # "none"
                                          THEN [invite[j] EXCEPT !.st = "gone"] ELSE invite[j]]
    BY <1>2 DEF Dissolved
  <2>2. joined' = joined
    BY <1>2 DEF Dissolved
  <2>3. CASE invite[i].org = o /\ invite[i].st # "none"
    <3>1. invite'[i] = [invite[i] EXCEPT !.st = "gone"]
      BY <2>1, <2>3
    <3>2. invite'[i].st = "gone" /\ invite'[i].org = invite[i].org
      BY <1>0, <3>1 DEF Invite
    <3> QED
      BY <2>2, <2>3, <3>2
  <2>4. CASE ~(invite[i].org = o /\ invite[i].st # "none")
    <3>1. invite'[i] = invite[i]
      BY <2>1, <2>4
    <3> QED
      BY <2>1, <2>2, <2>4, <3>1 DEF Vouchers
  <2> QED
    BY <2>3, <2>4
<1>3. CASE Joins(r) \/ Applies(r)
  <2>1. Uses(r) /\ Holds(r, req[r].inv) /\ req'[r].pc = "ok" /\ orgs' = orgs
    BY <1>3, Ended DEF Joins, Applies, Holds
  <2>2. CASE i = req[r].inv
    <3>1. invite'[i] = [invite[i] EXCEPT !.st = "used"] /\ joined'[i] = joined[i] \cup {r}
      BY <1>0, <2>1, <2>2 DEF Uses
    <3>2. invite'[i].st = "used" /\ invite'[i].org = invite[i].org
      BY <1>0, <3>1 DEF Invite
    <3> QED
      BY <2>1, <2>2, <3>1, <3>2 DEF Uses
  <2>3. CASE i # req[r].inv
    <3>1. invite'[i] = invite[i] /\ joined'[i] = joined[i]
      BY <1>0, <2>1, <2>3 DEF Uses
    <3> QED
      BY <2>1, <3>1 DEF Vouchers
  <2> QED
    BY <2>2, <2>3
<1>4. CASE invite' = invite /\ joined' = joined /\ orgs \subseteq orgs'
  BY <1>4 DEF Vouchers
<1>5. CASE Quits(r)
  <2> DEFINE alone == req[r].alone
  <2>1. /\ orgs' = orgs \ alone /\ joined' = joined
        /\ invite' = [j \in Invites |-> IF invite[j].org \in alone /\ invite[j].st # "none"
                                        THEN [invite[j] EXCEPT !.st = "gone"] ELSE invite[j]]
    BY <1>5 DEF Quits
  <2> HIDE DEF alone
  <2>2. CASE invite[i].org \in alone /\ invite[i].st # "none"
    <3>1. invite'[i] = [invite[i] EXCEPT !.st = "gone"]
      BY <2>1, <2>2
    <3>2. invite'[i].st = "gone" /\ invite'[i].org = invite[i].org
      BY <1>0, <3>1 DEF Invite
    <3> QED
      BY <2>1, <2>2, <3>2
  <2>3. CASE ~(invite[i].org \in alone /\ invite[i].st # "none")
    <3>1. invite'[i] = invite[i]
      BY <2>1, <2>3
    <3> QED
      BY <2>1, <2>3, <3>1 DEF Vouchers
  <2> QED
    BY <2>2, <2>3
<1> QED
  BY <1>1, <1>2, <1>3, <1>4, <1>5 DEF StepOf, Begun, Passes, Clears, Adopts, Founds, Erases, Patches, Counts, Falls

\* Each shape of step keeps what is known of invites.
LEMMA VoucherStep ==
    ASSUME TypeOK, Shape, Overlap, Vouchers, NEW r \in Requests, StepOf(r)
    PROVE  Vouchers'
<1>0. /\ \A q \in Requests : q # r => req'[q] = req[q]
      /\ \A q \in Requests : req[q].pc = "ok" => req'[q] = req[q]
      /\ req[r].pc \notin {"ok", "failed"}
  BY Alone
<1>1. \A p, q : Met(p, q) => Met(p, q)'
  BY Alone
<1>2. orgs \subseteq Orgs /\ joined \in [Invites -> SUBSET Requests]
  BY Parts
<1> SUFFICES ASSUME NEW i \in Invites
             PROVE  /\ invite'[i].st # "none" => invite'[i].org \in Orgs
                    /\ invite'[i].st \in {"open", "used"} => invite'[i].org \in orgs'
                    /\ joined'[i] # {} => invite'[i].st \in {"used", "gone"}
                    /\ \A q \in Requests : Holds(q, i)' => invite'[i].st # "none"
                    /\ \A q \in Requests : Holds(q, i)' /\ req'[q].kind = "accept" /\ req'[q].pc # "member" =>
                          req'[q].org = invite'[i].org
                    /\ \A q \in Requests : Holds(q, i)' => \A s \in joined'[i] : s # q /\ Met(q, s)'
                    /\ \A s \in joined'[i] : req'[s].pc = "ok"
                    /\ \A p, q \in joined'[i] : p # q => Met(p, q)'
  BY DEF Vouchers, InviteOnce
<1> DEFINE A == /\ invite'[i] = invite[i] /\ joined'[i] = joined[i]
                /\ invite[i].st \in {"open", "used"} => invite[i].org \in orgs'
           B == /\ invite[i].st = "none" /\ invite'[i].st = "open" /\ joined'[i] = joined[i]
                /\ invite'[i].org \in orgs /\ orgs' = orgs
           C == /\ invite[i].st # "none" /\ invite'[i].st = "gone" /\ invite'[i].org = invite[i].org
                /\ joined'[i] = joined[i]
           D == /\ Holds(r, i) /\ req'[r].pc = "ok" /\ invite[i].st # "gone" /\ orgs' = orgs
                /\ invite'[i].st = "used" /\ invite'[i].org = invite[i].org /\ joined'[i] = joined[i] \cup {r}
<1>3. A \/ B \/ C \/ D
  BY InviteRows
<1>4. joined[i] \subseteq Requests
  BY <1>2
<1>5. \A q \in Requests : q # r => (Holds(q, i)' <=> Holds(q, i))
  BY <1>0 DEF Holds
<1>6. ASSUME Holds(r, i)' PROVE Passes(r) /\ (Holds(r, i) \/ invite[i].st = "open")
                                /\ (req'[r].kind = "accept" /\ req'[r].pc # "member" => req'[r].org = invite[i].org)
  BY <1>6, HoldsStep
<1>7. \A q \in Requests : Holds(q, i)' => invite[i].st # "none" /\ \A s \in joined[i] : s # q /\ Met(q, s)
  BY <1>4, <1>5, <1>6 DEF Vouchers
<1>8. \A q \in Requests : Holds(q, i)' /\ req'[q].kind = "accept" /\ req'[q].pc # "member" =>
          req'[q].org = invite[i].org
  BY <1>0, <1>5, <1>6 DEF Vouchers
<1>9. CASE A
  BY <1>0, <1>1, <1>4, <1>7, <1>8, <1>9 DEF Vouchers, InviteOnce
<1>10. CASE B
  BY <1>0, <1>1, <1>2, <1>4, <1>7, <1>8, <1>10 DEF Vouchers, InviteOnce
<1>11. CASE C
  BY <1>0, <1>1, <1>4, <1>7, <1>8, <1>11 DEF Vouchers, InviteOnce
<1>12. CASE D
  <2>1. ~Holds(r, i)'
    BY <1>12 DEF Holds
  <2>2. \A q \in Requests : Holds(q, i)' => q # r /\ Met(q, r)
    BY <1>5, <1>12, <2>1 DEF Overlap, Holds, Busy
  <2>3. \A s \in joined[i] : s # r /\ Met(r, s) /\ Met(s, r)
    BY <1>4, <1>12, Symmetric DEF Vouchers
  <2>4. invite[i].st \in {"open", "used"}
    <3>1. invite[i].st \in {"none", "open", "used", "gone"}
      BY Parts DEF Invite
    <3> QED
      BY <1>12, <3>1 DEF Vouchers
  <2>5. \A q \in Requests : Holds(q, i)' => \A s \in joined'[i] : s # q /\ Met(q, s)'
    BY <1>1, <1>7, <1>12, <2>2
  <2>6. \A p, q \in joined'[i] : p # q => Met(p, q)'
    BY <1>1, <1>12, <2>3 DEF Vouchers, InviteOnce
  <2>7. \A s \in joined'[i] : req'[s].pc = "ok"
    BY <1>0, <1>4, <1>12 DEF Vouchers
  <2>8. invite'[i].org \in orgs' /\ invite'[i].org \in Orgs /\ invite'[i].st = "used"
    BY <1>2, <1>12, <2>4 DEF Vouchers
  <2> QED
    BY <1>8, <1>12, <2>5, <2>6, <2>7, <2>8
<1> QED
  BY <1>3, <1>9, <1>10, <1>11, <1>12

-----------------------------------------------------------------------------
(* First logins *)

\* The organizations of a user after the step.
HomesThen(u) == {o \in Orgs : role'[u][o] # None}

\* Who gives u a membership holds the row of u, or finds it free.
LEMMA NewHome ==
    ASSUME TypeOK, Shape, NEW r \in Requests, StepOf(r), NEW u \in Users, Homes(u) = {}, HomesThen(u) # {}
    PROVE  req[r].user = u /\ Free(u, r) /\ req'[r].pc = "ok"
<1>0. role \in [Users -> [Orgs -> Roles \cup {None}]]
  BY Parts
<1>1. PICK o \in Orgs : role'[u][o] # None
  BY DEF HomesThen
<1>2. role[u][o] = None
  BY <1>1 DEF Homes
<1>3. Founds(r) \/ Joins(r) \/ Applies(r) \/ Erases(r) \/ Patches(r)
  <2>1. CASE Dissolved(r)
    <3>1. PICK p \in orgs : role' = [w \in Users |-> [role[w] EXCEPT ![p] = None]]
      BY <2>1 DEF Dissolved
    <3>2. role'[u] = [role[u] EXCEPT ![p] = None] /\ role[u] \in [Orgs -> Roles \cup {None}]
      BY <1>0, <3>1
    <3>3. role'[u][o] = None
      BY <1>2, <3>2
    <3> QED
      BY <1>1, <3>3
  <2>2. CASE role' = role
    BY <1>1, <1>2, <2>2
  <2>3. CASE Quits(r)
    <3>1. role'[u][o] \in {None, role[u][o]}
      BY <2>3 DEF Quits
    <3> QED
      BY <1>1, <1>2, <3>1
  <2> QED
    BY <2>1, <2>2, <2>3 DEF StepOf, Begun, Invited, Passes, Clears, Adopts, Counts, Falls
<1>4. ASSUME NEW w, NEW p, NEW x, role' = [role EXCEPT ![w][p] = x] PROVE w = u /\ p = o /\ x # None
  BY <1>0, <1>1, <1>2, <1>4
<1>5. CASE Founds(r) \/ Joins(r)
  <2>1. req[r].user = u
    BY <1>4, <1>5 DEF Founds, Joins
  <2> QED
    BY <1>5, <2>1, Ended DEF Founds, Joins
<1>6. CASE Applies(r)
  BY <1>1, <1>2, <1>4, <1>6 DEF Applies
<1>7. CASE Erases(r)
  BY <1>4, <1>7 DEF Erases
<1>8. CASE Patches(r)
  BY <1>1, <1>2, <1>4, <1>8 DEF Patches
<1> QED
  BY <1>3, <1>5, <1>6, <1>7, <1>8

\* A row that another request holds stays held.
LEMMA LockStays ==
    ASSUME TypeOK, Shape, NEW r \in Requests, StepOf(r), NEW u \in Users, NEW q \in Requests, q # r, lock[u] = q
    PROVE  lock'[u] = q
<1> USE OrgAssumption
<1>0. lock \in [Users -> Requests \cup {None}]
  BY Parts
<1>1. CASE lock' = lock
  BY <1>1
<1>2. CASE Release(r)
  BY <1>0, <1>2 DEF Release
<1>3. CASE lock[req[r].user] = None /\ lock' = [lock EXCEPT ![req[r].user] = r]
  BY <1>0, <1>3
<1> QED
  BY <1>1, <1>2, <1>3 DEF StepOf, Begun, Invited, Dissolved, Passes, Clears, Adopts, Founds, Joins, Applies,
     Erases, Patches, Counts, Quits, Falls

\* Each shape of step keeps the rows locked and their users homeless.
LEMMA LockStep ==
    ASSUME TypeOK, Shape, Vouchers, Locks, NEW r \in Requests, StepOf(r)
    PROVE  Locks'
<1> USE OrgAssumption
<1>0. \A q \in Requests : q # r => req'[q] = req[q]
  BY Alone
<1>1. ASSUME NEW q \in Requests, q # r, req[q].kind = "login"
      PROVE  /\ req[q].pc \in {"locked", "join", "home"} => lock'[req[q].user] = q
             /\ req[q].pc \in {"join", "home"} => HomesThen(req[q].user) = {}
  <2> SUFFICES ASSUME req[q].pc \in {"locked", "join", "home"}
               PROVE  /\ lock'[req[q].user] = q
                      /\ req[q].pc \in {"join", "home"} => HomesThen(req[q].user) = {}
    OBVIOUS
  <2> DEFINE u == req[q].user
  <2>1. u \in Users /\ lock[u] = q
    BY <1>1 DEF Shape, Busy, Locks
  <2>2. lock'[u] = q
    BY <1>1, <2>1, LockStays
  <2>3. ~Free(u, r)
    BY <1>1, <2>1 DEF Free
  <2>4. req[q].pc \in {"join", "home"} => Homes(u) = {}
    BY <1>1 DEF Locks
  <2>5. req[q].pc \in {"join", "home"} => HomesThen(u) = {}
    BY <2>1, <2>3, <2>4, NewHome
  <2> QED
    BY <2>2, <2>5
<1>2. req'[r].kind = "login" =>
        /\ req'[r].pc \in {"locked", "join", "home"} => lock'[req'[r].user] = r
        /\ req'[r].pc \in {"join", "home"} => HomesThen(req'[r].user) = {}
  <2>1. CASE Begun(r)
    BY <2>1, Itself DEF Begun
  <2>2. CASE Invited(r) \/ Dissolved(r)
    BY <2>2, Itself DEF Invited, Dissolved
  <2>3. CASE Becomes(r, Over(r)) \/ Becomes(r, Fallen)
    BY <2>3, Ended, Itself DEF Fallen
  <2>4. CASE Clears(r)
    BY <2>4, Onward DEF Clears, Same
  <2>5. CASE Passes(r) /\ ~Becomes(r, Over(r))
    <3>1. CASE req[r].pc = "lock" /\ lock' = [lock EXCEPT ![req[r].user] = r] /\ Becomes(r, Same(r, "locked"))
      <4>1. req'[r].user = req[r].user /\ req'[r].pc = "locked" /\ req[r].user \in Users
        BY <3>1, Onward DEF Same, Shape, Busy
      <4> QED
        BY <3>1, <4>1, Parts
    <3>2. CASE /\ req[r].pc = "locked" /\ Homes(req[r].user) = {} /\ lock' = lock
               /\ \/ Becomes(r, Same(r, "home"))
                  \/ \E i \in Invites : Becomes(r, At(r, "join", req[r].org, i, req[r].saw, req[r].gives))
      <4>1. req'[r].user = req[r].user /\ req[r].kind = "login" /\ req[r].user \in Users
        BY <3>2, Onward DEF Same, Shape, Busy
      <4>2. lock[req[r].user] = r
        BY <3>2, <4>1 DEF Locks
      <4>3. role' = role
        BY <2>5 DEF Passes
      <4> QED
        BY <3>2, <4>1, <4>2, <4>3 DEF Homes, HomesThen
    <3>3. CASE /\ req[r].pc \in {"invite", "member", "check", "find"}
               /\ \E pc, o, i, x, g : Becomes(r, At(r, pc, o, i, x, g))
      <4>1. req[r].kind # "login"
        BY <3>3 DEF Shape
      <4>2. req'[r].kind = req[r].kind
        BY <3>3, Onward
      <4> QED
        BY <4>1, <4>2
    <3> QED
      BY <2>5, <3>1, <3>2, <3>3 DEF Passes, Same
  <2>6. CASE Counts(r) \/ Quits(r)
    BY <2>6, Counted, Left
  <2> QED
    BY <2>1, <2>2, <2>3, <2>4, <2>5, <2>6 DEF StepOf, Adopts, Founds, Joins, Applies, Erases, Patches, Falls
<1> QED
  BY <1>0, <1>1, <1>2 DEF Locks, Homes, HomesThen

-----------------------------------------------------------------------------
(* What overlapped a request *)

\* What was committed while q was under way stays so.
LEMMA TracesStay ==
    ASSUME TypeOK, NEW r \in Requests, StepOf(r), NEW q \in Requests
    PROVE  /\ \A u : RemovedBy(q, u) => RemovedBy(q, u)'
           /\ \A u : MovedBy(q, u) => MovedBy(q, u)'
           /\ \A o : WrittenBy(q, o) => WrittenBy(q, o)'
           /\ \A o : QuitBy(o) => QuitBy(o)'
           /\ \A u : u \notin users => u \notin users'
<1>1. /\ \A u : RemovedBy(q, u) => RemovedBy(q, u)'
      /\ \A u : MovedBy(q, u) => MovedBy(q, u)'
      /\ \A o : WrittenBy(q, o) => WrittenBy(q, o)'
      /\ \A o : QuitBy(o) => QuitBy(o)'
  BY Alone DEF RemovedBy, MovedBy, WrittenBy, Writer, QuitBy
<1>2. users' \subseteq users
  BY DEF StepOf, Begun, Invited, Dissolved, Passes, Clears, Adopts, Founds, Joins, Applies, Erases, Patches,
     Counts, Quits, Falls
<1> QED
  BY <1>1, <1>2

\* A request that ends well leaves its trace with all that are under way.
LEMMA Leaves ==
    ASSUME TypeOK, Overlap, NEW r \in Requests, StepOf(r), Busy(r), Becomes(r, Over(r)),
           NEW q \in Requests, q # r, Busy(q), NEW u, u = req[r].user, NEW o, o = req[r].org
    PROVE  /\ MovedBy(q, u)'
           /\ req[r].kind = "remove" => RemovedBy(q, u)'
           /\ req[r].kind \in {"role", "remove", "accept"} => WrittenBy(q, o)'
<1>1. Met(q, r)'
  BY Alone DEF Overlap
<1>2. req'[r].pc = "ok" /\ req'[r].kind = req[r].kind /\ req'[r].user = req[r].user /\ req'[r].org = req[r].org
  BY Ended
<1>3. \E s \in Requests : s # q /\ Met(q, s)' /\ req'[s].pc = "ok" /\ req'[s].user = u
  BY <1>1, <1>2
<1>4. req[r].kind = "remove" =>
        \E s \in Requests : s # q /\ Met(q, s)' /\ req'[s].pc = "ok" /\ req'[s].kind = "remove" /\ req'[s].user = u
  BY <1>1, <1>2
<1>5. req[r].kind \in {"role", "remove", "accept"} =>
        \E s \in Requests : s # q /\ Met(q, s)' /\ req'[s].org = o /\ req'[s].pc = "ok"
                            /\ req'[s].kind \in {"role", "remove", "accept"}
  BY <1>1, <1>2
<1> QED
  BY <1>3, <1>4, <1>5 DEF MovedBy, RemovedBy, WrittenBy, Writer

\* What a step can do to the role of u in o.
LEMMA RoleRows ==
    ASSUME TypeOK, Shape, Vouchers, NEW r \in Requests, StepOf(r), NEW u \in Users, NEW o \in Orgs
    PROVE  \/ role'[u][o] = role[u][o]
           \/ o \notin orgs'
           \/ Founds(r) /\ o = r /\ role'[u][o] = "owner"
           \/ Joins(r) /\ role[u][o] = None /\ role'[u][o] \in Roles
           \/ /\ Applies(r) /\ req[r].user = u /\ req[r].org = o /\ req[r].kind = "accept"
              /\ role[u][o] # None /\ role'[u][o] \in Roles
              /\ role'[u][o] # "owner" => req[r].saw # "owner"
           \/ /\ Erases(r) /\ req[r].user = u /\ req[r].org = o /\ req[r].kind = "remove" /\ role'[u][o] = None
           \/ /\ Patches(r) /\ req[r].user = u /\ req[r].org = o /\ req[r].kind = "role"
              /\ role[u][o] # None /\ role'[u][o] \in Roles
           \/ /\ Quits(r) /\ req[r].user = u /\ role'[u][o] = None
              /\ role[u][o] = "owner" => QuitBy(o)'
<1>0. role \in [Users -> [Orgs -> Roles \cup {None}]] /\ invite \in [Invites -> Invite]
  BY Parts
<1>1. ASSUME NEW w, NEW p, NEW x, role' = [role EXCEPT ![w][p] = x]
      PROVE  role'[u][o] = role[u][o] \/ (w = u /\ p = o /\ role'[u][o] = x)
  BY <1>0, <1>1
<1>2. CASE Dissolved(r)
  <2>1. PICK p \in orgs : role' = [w \in Users |-> [role[w] EXCEPT ![p] = None]] /\ orgs' = orgs \ {p}
    BY <1>2 DEF Dissolved
  <2>2. role'[u] = [role[u] EXCEPT ![p] = None] /\ role[u] \in [Orgs -> Roles \cup {None}]
    BY <1>0, <2>1
  <2> QED
    BY <2>1, <2>2
<1>3. CASE Founds(r)
  BY <1>1, <1>3 DEF Founds
<1>4. CASE Joins(r)
  <2>1. req[r].inv \in Invites /\ invite[req[r].inv].role \in Roles
    BY <1>0, <1>4 DEF Joins, Shape, Invite
  <2>2. role[req[r].user][invite[req[r].inv].org] = None
        /\ role' = [role EXCEPT ![req[r].user][invite[req[r].inv].org] = invite[req[r].inv].role]
    BY <1>4 DEF Joins
  <2> DEFINE w == req[r].user
             p == invite[req[r].inv].org
             x == invite[req[r].inv].role
  <2>3. role'[u][o] = role[u][o] \/ (w = u /\ p = o /\ role'[u][o] = x)
    BY <1>1, <2>2
  <2>4. role[w][p] = None /\ x \in Roles
    BY <2>1, <2>2
  <2> HIDE DEF w, p, x
  <2> QED
    BY <1>4, <2>3, <2>4
<1>5. CASE Applies(r)
  <2>1. req[r].inv \in Invites /\ invite[req[r].inv].role \in Roles /\ req[r].kind = "accept" /\ req[r].saw \in Roles
        /\ req[r].org = invite[req[r].inv].org
    BY <1>0, <1>5 DEF Applies, Shape, Invite, Vouchers, Holds
  <2>2. Rank(invite[req[r].inv].role) > Rank(req[r].saw) => req[r].saw # "owner"
    BY <2>1 DEF Rank, Roles
  <2> DEFINE w == req[r].user
             p == invite[req[r].inv].org
             x == invite[req[r].inv].role
  <2>3. \/ role' = role
        \/ role[w][p] # None /\ Rank(x) > Rank(req[r].saw) /\ role' = [role EXCEPT ![w][p] = x]
    BY <1>5 DEF Applies
  <2>4. x \in Roles /\ req[r].org = p /\ w = req[r].user
    BY <2>1
  <2>5. Rank(x) > Rank(req[r].saw) => req[r].saw # "owner"
    BY <2>2
  <2> HIDE DEF w, p, x
  <2>6. \/ role'[u][o] = role[u][o]
        \/ w = u /\ p = o /\ role'[u][o] = x /\ role[w][p] # None /\ req[r].saw # "owner"
    <3>1. CASE role' = role
      BY <3>1
    <3>2. CASE role[w][p] # None /\ Rank(x) > Rank(req[r].saw) /\ role' = [role EXCEPT ![w][p] = x]
      <4>1. req[r].saw # "owner" /\ role' = [role EXCEPT ![w][p] = x]
        BY <2>5, <3>2, Zenon
      <4>2. role'[u][o] = role[u][o] \/ (w = u /\ p = o /\ role'[u][o] = x)
        BY <1>1, <4>1, Zenon
      <4> QED
        BY <3>2, <4>1, <4>2, Zenon
    <3> QED
      BY <2>3, <3>1, <3>2
  <2>7. CASE w = u /\ p = o /\ role'[u][o] = x /\ role[w][p] # None /\ req[r].saw # "owner"
    BY <1>5, <2>1, <2>4, <2>7
  <2> QED
    BY <2>6, <2>7
<1>6. CASE Erases(r)
  BY <1>1, <1>6 DEF Erases, Shape
<1>7. CASE Patches(r)
  <2>1. req[r].gives \in Roles /\ req[r].kind = "role"
    BY <1>7 DEF Patches, Shape
  <2> DEFINE w == req[r].user
             p == req[r].org
             x == req[r].gives
  <2>2. role[w][p] # None /\ (role' = role \/ role' = [role EXCEPT ![w][p] = x])
    BY <1>7 DEF Patches
  <2>3. w = req[r].user /\ p = req[r].org /\ x \in Roles
    BY <2>1
  <2> HIDE DEF w, p, x
  <2>4. CASE role' = role
    BY <2>4
  <2>5. CASE role' = [role EXCEPT ![w][p] = x]
    <3>1. role'[u][o] = role[u][o] \/ (w = u /\ p = o /\ role'[u][o] = x)
      BY <1>1, <2>5, Zenon
    <3> QED
      BY <1>7, <2>1, <2>2, <2>3, <3>1
  <2> QED
    BY <2>2, <2>4, <2>5
<1>8. CASE role' = role
  BY <1>8
<1>9. CASE Quits(r)
  <2>1. /\ role'[u][o] = IF u = req[r].user \/ o \in req[r].alone THEN None ELSE role[u][o]
        /\ orgs' = orgs \ req[r].alone /\ Homes(req[r].user) \subseteq req[r].homes /\ req[r].pc = "leave"
    BY <1>9 DEF Quits
  <2>2. CASE o \in req[r].alone
    BY <2>1, <2>2
  <2>3. CASE o \notin req[r].alone /\ u # req[r].user
    BY <2>1, <2>3
  <2>4. CASE o \notin req[r].alone /\ u = req[r].user
    <3>1. ASSUME role[u][o] = "owner" PROVE QuitBy(o)'
      <4>1. o \in Homes(req[r].user)
        BY <2>4, <3>1, OrgAssumption DEF Homes, Roles
      <4>2. o \in req[r].left
        BY <2>1, <2>4, <4>1 DEF Shape
      <4>3. req'[r].pc = "ok" /\ req'[r].kind = "quit" /\ o \in req'[r].left
        BY <1>9, <2>4, <3>1, <4>2, Left
      <4> QED
        BY <4>3 DEF QuitBy
    <3> QED
      BY <1>9, <2>1, <2>4, <3>1
  <2> QED
    BY <2>2, <2>3, <2>4
<1> QED
  BY <1>2, <1>3, <1>4, <1>5, <1>6, <1>7, <1>8, <1>9 DEF StepOf, Begun, Invited, Passes, Clears, Adopts, Counts, Falls

\* An organization that was founded and is gone does not come back.
LEMMA GoneStays ==
    ASSUME TypeOK, NEW r \in Requests, StepOf(r), NEW o, Founded(o), o \notin orgs
    PROVE  o \notin orgs'
<1>1. CASE Founds(r)
  BY <1>1 DEF Founds, Founded
<1>2. CASE orgs' \subseteq orgs
  BY <1>2
<1> QED
  BY <1>1, <1>2 DEF StepOf, Begun, Invited, Dissolved, Passes, Clears, Adopts, Joins, Applies, Erases, Patches, Counts, Quits, Falls

\* What another request knows of the role of u in o is missed only when the organization
\* goes or a writer overlaps.
LEMMA RoleSeen ==
    ASSUME TypeOK, Shape, Vouchers, Overlap, NEW r \in Requests, StepOf(r), NEW u \in Users, NEW o \in Orgs,
           NEW q \in Requests, q # r, Busy(q), Founded(o), role[u][o] # None
    PROVE  \/ role'[u][o] = role[u][o]
           \/ o \notin orgs'
           \/ role'[u][o] # None /\ WrittenBy(q, o)'
           \/ WrittenBy(q, o)' /\ RemovedBy(q, u)'
           \/ u \notin users' /\ (role[u][o] = "owner" => QuitBy(o)')
<1>1. ~(Founds(r) /\ o = r)
  BY DEF Founds, Founded
<1>2. Applies(r) \/ Erases(r) \/ Patches(r) => Busy(r) /\ Becomes(r, Over(r))
  BY DEF Applies, Erases, Patches, Busy
<1>3. Busy(r) /\ Becomes(r, Over(r)) /\ req[r].org = o /\ req[r].user = u =>
        /\ req[r].kind = "remove" => RemovedBy(q, u)'
        /\ req[r].kind \in {"role", "remove", "accept"} => WrittenBy(q, o)'
  BY Leaves
<1>4. Quits(r) /\ req[r].user = u => u \notin users'
  BY DEF Quits
<1> QED
  BY <1>1, <1>2, <1>3, <1>4, RoleRows, OrgAssumption

\* What a step can do to the active organization of u.
LEMMA ActiveRows ==
    ASSUME TypeOK, Shape, NEW r \in Requests, StepOf(r), NEW u \in Users
    PROVE  \/ active'[u] \in {active[u], None}
           \/ /\ req[r].user = u /\ Busy(r) /\ Becomes(r, Over(r))
              /\ \/ Adopts(r, active'[u])
                 \/ Founds(r) /\ active'[u] = r
                 \/ Joins(r) /\ active'[u] = invite[req[r].inv].org
                 \/ Erases(r) /\ active'[u] = req[r].gives /\ req[r].gives # req[r].org
<1>0. active \in [Users -> orgs \cup {None}]
  BY Parts
<1>1. ASSUME NEW w, NEW p, active' = [active EXCEPT ![w] = p]
      PROVE  active'[u] = active[u] \/ (w = u /\ active'[u] = p)
  BY <1>0, <1>1
<1>2. CASE Dissolved(r)
  BY <1>0, <1>2 DEF Dissolved, Without
<1>3. CASE Clears(r)
  BY <1>1, <1>3 DEF Clears
<1>4. ASSUME NEW o \in Orgs, Adopts(r, o)
      PROVE  active'[u] = active[u] \/ (req[r].user = u /\ Busy(r) /\ Becomes(r, Over(r)) /\ Adopts(r, active'[u]))
  BY <1>1, <1>4 DEF Adopts, Busy
<1>5. CASE Founds(r)
  BY <1>1, <1>5 DEF Founds, Busy
<1>6. CASE Joins(r)
  BY <1>1, <1>6 DEF Joins, Busy
<1>7. CASE Erases(r)
  BY <1>1, <1>7 DEF Erases, Busy
<1>8. CASE active' = active
  BY <1>8
<1>9. CASE Quits(r)
  BY <1>9 DEF Quits
<1> QED
  BY <1>2, <1>3, <1>4, <1>5, <1>6, <1>7, <1>8, <1>9 DEF StepOf, Begun, Invited, Passes, Applies, Patches, Counts, Falls

-----------------------------------------------------------------------------
(* Active organizations *)

\* A membership goes only with its organization, in a removal of the user, or with the
\* user's account.
LEMMA HomeGoes ==
    ASSUME TypeOK, Shape, Vouchers, NEW r \in Requests, StepOf(r), NEW u \in Users, NEW o \in Orgs,
           role[u][o] # None, role'[u][o] = None, o \in orgs'
    PROVE  \/ /\ Erases(r) /\ req[r].user = u /\ req[r].org = o
              /\ req'[r].pc = "ok" /\ req'[r].kind = "remove" /\ req'[r].user = u
           \/ u \notin users' /\ active'[u] = None
<1>1. \/ Erases(r) /\ req[r].user = u /\ req[r].org = o /\ req[r].kind = "remove"
      \/ Quits(r) /\ req[r].user = u
  BY RoleRows, OrgAssumption DEF Roles
<1>2. CASE Erases(r) /\ req[r].user = u /\ req[r].org = o /\ req[r].kind = "remove"
  <2>1. Becomes(r, Over(r))
    BY <1>2 DEF Erases
  <2> QED
    BY <1>2, <2>1, Ended
<1>3. CASE Quits(r) /\ req[r].user = u
  BY <1>3 DEF Quits
<1> QED
  BY <1>1, <1>2, <1>3

\* What another request knows of the organization that is to become active still holds.
LEMMA GoalSeen ==
    ASSUME TypeOK, Shape, Vouchers, Overlap, NEW r \in Requests, StepOf(r), NEW u \in Users, NEW o \in Orgs,
           NEW q \in Requests, q # r, Busy(q), Founded(o),
           role[u][o] # None \/ o \notin orgs \/ RemovedBy(q, u) \/ u \notin users
    PROVE  role'[u][o] # None \/ o \notin orgs' \/ RemovedBy(q, u)' \/ u \notin users'
<1>1. CASE RemovedBy(q, u) \/ u \notin users
  BY <1>1, TracesStay
<1>2. CASE o \notin orgs
  BY <1>2, GoneStays
<1>3. CASE role[u][o] # None
  <2> SUFFICES ASSUME role'[u][o] = None, o \in orgs', u \in users'
               PROVE  RemovedBy(q, u)'
    OBVIOUS
  <2>1. Erases(r) /\ req[r].user = u /\ req[r].org = o
    BY <1>3, HomeGoes
  <2>2. Busy(r) /\ Becomes(r, Over(r)) /\ req[r].kind = "remove"
    BY <2>1 DEF Erases, Busy, Shape
  <2> QED
    BY <2>1, <2>2, Leaves
<1> QED
  BY <1>1, <1>2, <1>3

\* The records of the requests keep what they say of active organizations.
LEMMA GoalStep ==
    ASSUME TypeOK, TypeOK', Shape, Vouchers, Overlap, Foundations, Actives, NEW r \in Requests, StepOf(r),
           NEW q \in Requests
    PROVE  /\ req'[q].pc = "adopt" =>
                \/ role'[req'[q].user][req'[q].org] # None \/ req'[q].org \notin orgs'
                \/ RemovedBy(q, req[q].user)' \/ req'[q].user \notin users'
           /\ req'[q].pc = "erase" /\ req'[q].gives = req'[q].org =>
                active'[req'[q].user] # req'[q].org \/ MovedBy(q, req[q].user)'
           /\ req'[q].pc = "erase" /\ req'[q].gives \notin {req'[q].org, None} =>
                \/ role'[req'[q].user][req'[q].gives] # None \/ req'[q].gives \notin orgs'
                \/ RemovedBy(q, req[q].user)' \/ req'[q].user \notin users'
<1>0. PICK u, o, g : u = req[q].user /\ o = req[q].org /\ g = req[q].gives
  OBVIOUS
<1>1. CASE q # r
  <2>0. req'[q] = req[q]
    BY <1>1, Alone
  <2>1. ASSUME req[q].pc = "adopt"
        PROVE  role'[u][o] # None \/ o \notin orgs' \/ RemovedBy(q, u)' \/ u \notin users'
    <3>1. u \in Users /\ o \in Orgs /\ Busy(q) /\ Founded(o)
      BY <1>0, <2>1 DEF Shape, Busy, Foundations
    <3>2. role[u][o] # None \/ o \notin orgs \/ RemovedBy(q, u) \/ u \notin users
      BY <1>0, <2>1 DEF Actives
    <3> QED
      BY <1>1, <3>1, <3>2, GoalSeen
  <2>2. ASSUME req[q].pc = "erase", g = o
        PROVE  active'[u] # o \/ MovedBy(q, u)'
    <3>1. u \in Users /\ o \in Orgs /\ Busy(q)
      BY <1>0, <2>2 DEF Shape, Busy
    <3>2. CASE MovedBy(q, u)
      BY <3>2, TracesStay
    <3>3. CASE active[u] # o
      <4>1. CASE active'[u] \in {active[u], None}
        BY <3>1, <3>3, <4>1, OrgAssumption DEF Orgs
      <4>2. CASE req[r].user = u /\ Busy(r) /\ Becomes(r, Over(r))
        BY <1>0, <1>1, <3>1, <4>2, Leaves
      <4> QED
        BY <3>1, <4>1, <4>2, ActiveRows
    <3> QED
      BY <1>0, <2>2, <3>2, <3>3 DEF Actives
  <2>3. ASSUME req[q].pc = "erase", g \notin {o, None}
        PROVE  role'[u][g] # None \/ g \notin orgs' \/ RemovedBy(q, u)' \/ u \notin users'
    <3>1. u \in Users /\ g \in Orgs /\ Busy(q) /\ Founded(g)
      BY <1>0, <2>3 DEF Shape, Busy, Foundations
    <3>2. role[u][g] # None \/ g \notin orgs \/ RemovedBy(q, u) \/ u \notin users
      BY <1>0, <2>3 DEF Actives
    <3> QED
      BY <1>1, <3>1, <3>2, GoalSeen
  <2> QED
    BY <1>0, <2>0, <2>1, <2>2, <2>3
<1>2. CASE q = r
  <2>1. CASE Begun(r)
    <3>1. role' = role
      BY <2>1 DEF Begun
    <3>2. req'[r].pc = "adopt" => role[req'[r].user][req'[r].org] # None
      BY <2>1, Itself DEF Begun
    <3>3. req'[r].pc # "erase"
      BY <2>1, Itself DEF Begun
    <3> QED
      BY <1>2, <3>1, <3>2, <3>3
  <2>2. CASE Invited(r) \/ Dissolved(r)
    <3>1. req'[r].pc = "ok"
      BY <2>2, Itself DEF Invited, Dissolved
    <3> QED
      BY <1>2, <3>1
  <2>3. CASE Becomes(r, Over(r)) \/ Becomes(r, Fallen)
    <3>1. req'[r].pc \in {"ok", "failed"}
      BY <2>3, Ended, Itself DEF Fallen
    <3> QED
      BY <1>2, <3>1
  <2>4. CASE Clears(r)
    <3>1. role' = role /\ req'[r].user = req[r].user /\ req'[r].pc \in {"lock", "adopt"}
      BY <2>4, Onward DEF Clears, Same
    <3>2. req'[r].pc = "adopt" => req'[r].org \in Homes(req[r].user)
      BY <2>4, Onward DEF Clears, Same
    <3> QED
      BY <1>2, <3>1, <3>2 DEF Homes
  <2>5. CASE Passes(r) /\ ~Becomes(r, Over(r))
    <3>1. CASE req[r].pc = "check" /\ \E x \in Fallbacks(r) : Becomes(r, At(r, "erase", req[r].org, req[r].inv, req[r].saw, x))
      <4>1. PICK x \in Fallbacks(r) : Becomes(r, At(r, "erase", req[r].org, req[r].inv, req[r].saw, x))
        BY <3>1
      <4>2. role' = role /\ active' = active
        BY <2>5 DEF Passes
      <4>3. req'[r].pc = "erase" /\ req'[r].user = u /\ req'[r].org = o /\ req'[r].gives = x
        BY <1>0, <1>2, <4>1, Onward
      <4>4. \/ active[u] # o /\ x = o
            \/ active[u] = o /\ x \in {None} \cup (Homes(u) \ {o})
        BY <1>0, <1>2, <4>1 DEF Fallbacks
      <4>5. o \in Orgs
        BY <1>0, <1>2, <3>1 DEF Shape
      <4> QED
        BY <1>2, <4>2, <4>3, <4>4, <4>5, OrgAssumption DEF Homes, Orgs
    <3>2. CASE \E pc, p, i, x, y : pc \notin {"adopt", "erase"} /\ Becomes(r, At(r, pc, p, i, x, y))
      <4>1. req'[r].pc \notin {"adopt", "erase"}
        BY <3>2, Onward
      <4> QED
        BY <1>2, <4>1
    <3> QED
      BY <2>5, <3>1, <3>2 DEF Passes, Same
  <2>6. CASE Counts(r) \/ Quits(r)
    BY <1>2, <2>6, Counted, Left
  <2> QED
    BY <2>1, <2>2, <2>3, <2>4, <2>5, <2>6 DEF StepOf, Adopts, Founds, Joins, Applies, Erases, Patches, Falls
<1> QED
  BY <1>1, <1>2

\* An active organization that the user has lost, or got too late, has its removal.
LEMMA FitStep ==
    ASSUME TypeOK, TypeOK', Shape, Vouchers, Overlap, Foundations, Actives, NEW r \in Requests, StepOf(r),
           NEW u \in Users, active'[u] # None, role'[u][active'[u]] = None
    PROVE  \E q \in Requests : req'[q].pc = "ok" /\ req'[q].user = u /\ RemovedBy(q, u)'
<1> USE OrgAssumption
<1> DEFINE o == active'[u]
<1>0. /\ active \in [Users -> orgs \cup {None}] /\ orgs \subseteq Orgs
      /\ role \in [Users -> [Orgs -> Roles \cup {None}]]
  BY Parts
<1>1. o \in orgs' /\ o \in Orgs
  BY DEF TypeOK
<1>2. ASSUME req'[r].pc = "ok", req'[r].user = u, RemovedBy(r, u)'
      PROVE  \E q \in Requests : req'[q].pc = "ok" /\ req'[q].user = u /\ RemovedBy(q, u)'
  BY <1>2
<1>3. CASE active[u] = o
  <2>1. CASE role[u][o] = None
    <3>1. active[u] # None /\ active[u] \notin Homes(u)
      BY <1>3, <2>1 DEF Homes
    <3>2. PICK q \in Requests : req[q].pc = "ok" /\ req[q].user = u /\ RemovedBy(q, u)
      BY <3>1 DEF Actives
    <3>3. req'[q] = req[q]
      BY <3>2, Alone
    <3>4. RemovedBy(q, u)'
      BY <3>2, TracesStay
    <3> QED
      BY <3>2, <3>3, <3>4
  <2>2. CASE role[u][o] # None
    <3>1. /\ Erases(r) /\ req[r].user = u /\ req[r].org = o
          /\ req'[r].pc = "ok" /\ req'[r].kind = "remove" /\ req'[r].user = u
      <4> HIDE DEF o
      <4> QED
        BY <1>1, <2>2, HomeGoes DEF o
    <3>2. req[r].gives = o /\ req[r].pc = "erase"
      BY <1>0, <1>3, <3>1 DEF Erases
    <3>3. MovedBy(r, u)
      BY <1>3, <3>1, <3>2 DEF Actives
    <3>4. PICK s \in Requests : s # r /\ Met(r, s) /\ req[s].pc = "ok" /\ req[s].user = u
      BY <3>3 DEF MovedBy
    <3>5. req'[s] = req[s] /\ Met(s, r)'
      BY <3>4, Alone, Symmetric
    <3>6. RemovedBy(s, u)'
      BY <3>1, <3>4, <3>5 DEF RemovedBy
    <3> QED
      BY <3>4, <3>5, <3>6
  <2> QED
    BY <2>1, <2>2
<1>4. CASE active[u] # o
  <2>1. /\ req[r].user = u /\ Busy(r) /\ Becomes(r, Over(r))
        /\ \/ Adopts(r, o)
           \/ Founds(r) /\ o = r
           \/ Joins(r) /\ o = invite[req[r].inv].org
           \/ Erases(r) /\ o = req[r].gives /\ req[r].gives # req[r].org
    BY <1>4, ActiveRows
  <2>2. req'[r].pc = "ok" /\ req'[r].user = u
    BY <2>1, Ended
  <2>3. CASE Adopts(r, o)
    <3>1. role' = role /\ (\/ o \in orgs /\ req[r].pc = "adopt" /\ o = req[r].org
                           \/ o \in Homes(u))
      BY <2>1, <2>3 DEF Adopts
    <3>2. req[r].pc = "adopt" /\ o = req[r].org /\ o \in orgs /\ role[u][o] = None /\ u \in users
      BY <2>1, <2>3, <3>1 DEF Adopts, Homes
    <3>3. RemovedBy(r, u)
      BY <2>1, <3>2 DEF Actives
    <3> QED
      BY <1>2, <2>2, <3>3, TracesStay
  <2>4. CASE Founds(r) /\ o = r
    <3>1. role' = [role EXCEPT ![u][o] = "owner"]
      BY <2>1, <2>4 DEF Founds
    <3>2. role'[u][o] = "owner"
      <4> HIDE DEF o
      <4> QED
        BY <1>0, <1>1, <3>1
    <3> QED
      BY <3>2 DEF Roles
  <2>5. CASE Joins(r) /\ o = invite[req[r].inv].org
    <3>1. role' = [role EXCEPT ![u][o] = invite[req[r].inv].role] /\ invite[req[r].inv].role \in Roles
      BY <2>1, <2>5, Parts DEF Joins, Shape, Invite
    <3> DEFINE x == invite[req[r].inv].role
    <3>2. x \in Roles /\ role' = [role EXCEPT ![u][o] = x]
      BY <3>1
    <3> HIDE DEF o, x
    <3>3. role'[u][o] = x
      BY <1>0, <1>1, <3>2
    <3> QED
      BY <3>2, <3>3 DEF o
  <2>6. CASE Erases(r) /\ o = req[r].gives /\ req[r].gives # req[r].org
    <3>1. role' = [role EXCEPT ![u][req[r].org] = None] /\ req[r].pc = "erase" /\ orgs' = orgs /\ u \in users
      BY <2>1, <2>6 DEF Erases
    <3>2. role'[u][o] = role[u][o]
      <4> DEFINE p == req[r].org
      <4>1. role' = [role EXCEPT ![u][p] = None] /\ p # o
        BY <2>6, <3>1
      <4> HIDE DEF o, p
      <4> QED
        BY <1>0, <1>1, <4>1
    <3>3. RemovedBy(r, u)
      BY <1>1, <2>1, <2>6, <3>1, <3>2 DEF Actives
    <3> QED
      BY <1>2, <2>2, <3>3, TracesStay
  <2> QED
    BY <2>1, <2>3, <2>4, <2>5, <2>6
<1> QED
  BY <1>3, <1>4

\* Each shape of step keeps what is known of active organizations.
LEMMA ActiveStep ==
    ASSUME TypeOK, TypeOK', Shape, Vouchers, Overlap, Foundations, Actives, NEW r \in Requests, StepOf(r)
    PROVE  Actives'
<1>1. ASSUME NEW u \in Users, active'[u] # None, active'[u] \notin HomesThen(u)
      PROVE  \E q \in Requests : req'[q].pc = "ok" /\ req'[q].user = u /\ RemovedBy(q, u)'
  <2>1. active'[u] \in Orgs
    BY <1>1 DEF TypeOK
  <2>2. role'[u][active'[u]] = None
    BY <1>1, <2>1 DEF HomesThen
  <2> QED
    BY <1>1, <2>2, FitStep
<1>2. \A u \in Users : active'[u] # None /\ active'[u] \notin Homes(u)' =>
          \E q \in Requests : req'[q].pc = "ok" /\ req'[q].user = u /\ RemovedBy(q, u)'
  BY <1>1 DEF Homes, HomesThen
<1>3. \A q \in Requests : req'[q].pc = "adopt" =>
          \/ role'[req'[q].user][req'[q].org] # None \/ req'[q].org \notin orgs'
          \/ RemovedBy(q, req[q].user)' \/ req'[q].user \notin users'
  BY GoalStep
<1>4. \A q \in Requests : req'[q].pc = "erase" /\ req'[q].gives = req'[q].org =>
          active'[req'[q].user] # req'[q].org \/ MovedBy(q, req[q].user)'
  BY GoalStep
<1>5. \A q \in Requests : req'[q].pc = "erase" /\ req'[q].gives \notin {req'[q].org, None} =>
          \/ role'[req'[q].user][req'[q].gives] # None \/ req'[q].gives \notin orgs'
          \/ RemovedBy(q, req[q].user)' \/ req'[q].user \notin users'
  BY GoalStep
<1> QED
  BY <1>2, <1>3, <1>4, <1>5 DEF Actives

-----------------------------------------------------------------------------
(* Owners *)

\* An organization with more than one owner has another than u.
LEMMA AnotherOwner ==
    ASSUME NEW o, NEW u \in Owners(o), Cardinality(Owners(o)) > 1
    PROVE  \E w \in Users : w # u /\ role[w][o] = "owner"
<1> SUFFICES ASSUME \A w \in Users : role[w][o] = "owner" => w = u
             PROVE  FALSE
  OBVIOUS
<1>1. Owners(o) = {u}
  BY DEF Owners
<1>2. Cardinality({u}) = 1
  BY FS_Singleton
<1> QED
  BY <1>1, <1>2

\* What a request knows of the roles it is about to write, it still knows after a step.
LEMMA KnowledgeStep ==
    ASSUME TypeOK, Shape, Vouchers, Overlap, Foundations, Ownership, NEW r \in Requests, StepOf(r),
           NEW q \in Requests, q # r
    PROVE  /\ req[q].pc \in {"apply", "patch"} =>
                \/ /\ role'[req[q].user][req[q].org] # None
                   /\ role'[req[q].user][req[q].org] = "owner" => req[q].saw = "owner"
                \/ req[q].org \notin orgs' \/ req[q].user \notin users'
                \/ WrittenBy(q, req[q].org)'
           /\ req[q].pc = "erase" =>
                \/ /\ role'[req[q].user][req[q].org] # None
                   /\ role'[req[q].user][req[q].org] = "owner" =>
                         \E w \in Users : w # req[q].user /\ role'[w][req[q].org] = "owner"
                \/ req[q].org \notin orgs' \/ req[q].user \notin users'
                \/ WrittenBy(q, req[q].org)' \/ QuitBy(req[q].org)'
<1>0. PICK u, o : u = req[q].user /\ o = req[q].org
  OBVIOUS
<1>1. req'[q] = req[q]
  BY Alone
<1> SUFFICES ASSUME req[q].pc \in {"apply", "patch", "erase"}, o \in orgs', u \in users', ~WrittenBy(q, o)',
                    req[q].pc = "erase" => ~QuitBy(o)'
             PROVE  /\ role'[u][o] # None
                    /\ req[q].pc \in {"apply", "patch"} => (role'[u][o] = "owner" => req[q].saw = "owner")
                    /\ req[q].pc = "erase" =>
                          (role'[u][o] = "owner" => \E w \in Users : w # u /\ role'[w][o] = "owner")
  BY <1>0, <1>1
<1>2. u \in Users /\ Busy(q) /\ Founded(o)
  BY <1>0 DEF Shape, Busy, Foundations
<1>3. o \in Orgs
  <2>1. CASE req[q].pc = "apply"
    <3>1. req[q].inv \in Invites /\ Holds(q, req[q].inv) /\ req[q].kind = "accept"
      BY <2>1 DEF Shape, Holds
    <3> QED
      BY <1>0, <2>1, <3>1 DEF Vouchers
  <2>2. CASE req[q].pc # "apply"
    BY <1>0, <2>2 DEF Shape
  <2> QED
    BY <2>1, <2>2
<1>4. o \in orgs /\ u \in users /\ ~WrittenBy(q, o) /\ (req[q].pc = "erase" => ~QuitBy(o))
  BY <1>2, GoneStays, TracesStay
<1>5. /\ role[u][o] # None
      /\ req[q].pc \in {"apply", "patch"} => (role[u][o] = "owner" => req[q].saw = "owner")
      /\ req[q].pc = "erase" => (role[u][o] = "owner" => \E w \in Users : w # u /\ role[w][o] = "owner")
  BY <1>0, <1>4 DEF Ownership
<1>6. role'[u][o] = role[u][o]
  BY <1>2, <1>3, <1>5, RoleSeen
<1>7. req[q].pc = "erase" => \A w \in Users : role[w][o] = "owner" => role'[w][o] = "owner"
  BY <1>2, <1>3, RoleSeen, OrgAssumption DEF Roles
<1> QED
  BY <1>5, <1>6, <1>7

\* A request that has just read the roles knows them.
LEMMA KnowledgeBegins ==
    ASSUME TypeOK, Shape, Vouchers, Overlap, NEW r \in Requests, StepOf(r)
    PROVE  /\ req'[r].pc \in {"apply", "patch"} =>
                /\ role'[req'[r].user][req'[r].org] # None
                /\ role'[req'[r].user][req'[r].org] = "owner" => req'[r].saw = "owner"
           /\ req'[r].pc = "erase" =>
                /\ role'[req'[r].user][req'[r].org] # None
                /\ role'[req'[r].user][req'[r].org] = "owner" =>
                      \E w \in Users : w # req'[r].user /\ role'[w][req'[r].org] = "owner"
<1>1. CASE Begun(r)
  BY <1>1, Itself DEF Begun
<1>2. CASE Invited(r) \/ Dissolved(r)
  BY <1>2, Itself DEF Invited, Dissolved
<1>3. CASE Becomes(r, Over(r)) \/ Becomes(r, Fallen)
  BY <1>3, Ended, Itself DEF Fallen
<1>4. CASE Clears(r)
  BY <1>4, Onward DEF Clears, Same
<1>5. CASE Passes(r) /\ ~Becomes(r, Over(r))
  <2>0. role' = role
    BY <1>5 DEF Passes
  <2>1. CASE /\ req[r].pc = "member"
             /\ LET o == invite[req[r].inv].org
                    had == role[req[r].user][o]
                IN  had # None /\ Becomes(r, At(r, "apply", o, req[r].inv, had, req[r].gives))
    <3>1. PICK o, had : /\ had = role[req[r].user][o] /\ had # None
                        /\ Becomes(r, At(r, "apply", o, req[r].inv, had, req[r].gives))
      BY <2>1
    <3>2. req'[r].pc = "apply" /\ req'[r].user = req[r].user /\ req'[r].org = o /\ req'[r].saw = had
      BY <3>1, Onward
    <3> QED
      BY <2>0, <3>1, <3>2
  <2>2. CASE /\ req[r].pc = "check" /\ Removable(r)
             /\ \E g \in Fallbacks(r) : Becomes(r, At(r, "erase", req[r].org, req[r].inv, req[r].saw, g))
    <3>1. req'[r].pc = "erase" /\ req'[r].user = req[r].user /\ req'[r].org = req[r].org
      BY <2>2, Onward
    <3>2. PICK u, o : u = req[r].user /\ o = req[r].org
      OBVIOUS
    <3>3. u \in Users /\ role[u][o] # None /\ (role[u][o] = "owner" => Cardinality(Owners(o)) > 1)
      BY <2>2, <3>2 DEF Removable, Shape, Busy
    <3>4. role[u][o] = "owner" => \E w \in Users : w # u /\ role[w][o] = "owner"
      BY <3>3, AnotherOwner DEF Owners
    <3> QED
      BY <2>0, <3>1, <3>2, <3>3, <3>4
  <2>3. CASE /\ req[r].pc = "find" /\ role[req[r].user][req[r].org] # None
             /\ Becomes(r, At(r, "patch", req[r].org, req[r].inv, role[req[r].user][req[r].org], req[r].gives))
    <3>1. PICK u, o, x : u = req[r].user /\ o = req[r].org /\ x = role[u][o]
      OBVIOUS
    <3>2. x # None /\ Becomes(r, At(r, "patch", o, req[r].inv, x, req[r].gives))
      BY <2>3, <3>1
    <3>3. req'[r].pc = "patch" /\ req'[r].user = u /\ req'[r].org = o /\ req'[r].saw = x
      BY <3>1, <3>2, Onward
    <3> QED
      BY <2>0, <3>1, <3>2, <3>3
  <2>4. CASE \E pc, p, i, x, y : pc \notin {"apply", "patch", "erase"} /\ Becomes(r, At(r, pc, p, i, x, y))
    <3>1. req'[r].pc \notin {"apply", "patch", "erase"}
      BY <2>4, Onward
    <3> QED
      BY <3>1
  <2> QED
    BY <1>5, <2>1, <2>2, <2>3, <2>4 DEF Passes, Same
<1>6. CASE Counts(r) \/ Quits(r)
  BY <1>6, Counted, Left
<1> QED
  BY <1>1, <1>2, <1>3, <1>4, <1>5, <1>6 DEF StepOf, Adopts, Founds, Joins, Applies, Erases, Patches, Falls

\* Why an organization may be without an owner.
Excused(o) ==
    \/ \E s \in Requests : Writer(s, o) /\ req[s].kind = "role" /\ req[s].saw = "owner"
    \/ QuitBy(o)
    \/ \E s, t \in Requests : s # t /\ Met(s, t) /\ Writer(s, o) /\ Writer(t, o)

\* The owners of an organization after the step.
OwnersThen(o) == {u \in Users : role'[u][o] = "owner"}

\* Who takes the role of an owner took the last one only with an excuse.
LEMMA OwnerGoes ==
    ASSUME TypeOK, Shape, Vouchers, Overlap, Foundations, Ownership, NEW r \in Requests, StepOf(r),
           NEW o \in Orgs, o \in orgs', NEW u \in Users, role[u][o] = "owner", OwnersThen(o) = {}
    PROVE  Excused(o)'
<1> USE OrgAssumption
<1>0. role \in [Users -> [Orgs -> Roles \cup {None}]]
  BY Parts
<1>1. role'[u][o] # "owner"
  BY DEF OwnersThen
<1>q. CASE QuitBy(o)'
  BY <1>q DEF Excused
<1> SUFFICES ASSUME ~QuitBy(o)'
             PROVE  Excused(o)'
  BY <1>q
<1>r. u \in users /\ ~QuitBy(o)
  BY TracesStay, OrgAssumption DEF TypeOK, Roles
<1>2. /\ \/ Applies(r) /\ req[r].saw # "owner"
         \/ Erases(r)
         \/ Patches(r)
      /\ req[r].user = u /\ req[r].org = o /\ req[r].kind \in {"role", "remove", "accept"}
  BY <1>1, RoleRows DEF Roles
<1>3. req[r].user = u /\ req[r].org = o /\ req[r].kind \in {"role", "remove", "accept"}
  BY <1>2
<1>4. Becomes(r, Over(r)) /\ orgs' = orgs
  BY <1>2 DEF Applies, Erases, Patches
<1>5. /\ req'[r].pc = "ok" /\ req'[r].org = o /\ req'[r].saw = req[r].saw /\ req'[r].kind = req[r].kind
      /\ Writer(r, o)'
  BY <1>3, <1>4, Ended DEF Writer
<1>6. ASSUME WrittenBy(r, o) PROVE Excused(o)'
  <2>1. PICK s \in Requests : s # r /\ Met(r, s) /\ Writer(s, o)
    BY <1>6 DEF WrittenBy
  <2>2. Met(r, s)' /\ Writer(s, o)'
    BY <2>1, Alone DEF Writer
  <2> QED
    BY <1>5, <2>1, <2>2 DEF Excused
<1>7. CASE Applies(r) /\ req[r].saw # "owner"
  <2>1. req[r].pc = "apply"
    BY <1>7 DEF Applies
  <2> QED
    BY <1>3, <1>4, <1>6, <1>r, <1>7, <2>1 DEF Ownership
<1>8. CASE Erases(r)
  <2>1. req[r].pc = "erase" /\ role' = [role EXCEPT ![u][o] = None]
    BY <1>3, <1>8 DEF Erases
  <2>2. \A w \in Users : w # u => role'[w][o] = role[w][o]
    BY <1>0, <2>1
  <2>3. ~\E w \in Users : w # u /\ role[w][o] = "owner"
    BY <2>2 DEF OwnersThen
  <2> QED
    BY <1>3, <1>4, <1>6, <1>r, <2>1, <2>3 DEF Ownership
<1>9. CASE Patches(r)
  <2>1. req[r].pc = "patch"
    BY <1>9 DEF Patches
  <2>2. CASE req[r].saw = "owner"
    <3>1. req'[r].kind = "role" /\ req'[r].saw = "owner"
      BY <1>5, <2>1, <2>2 DEF Shape
    <3> QED
      BY <1>5, <3>1 DEF Excused
  <2>3. CASE req[r].saw # "owner"
    BY <1>3, <1>4, <1>6, <1>r, <2>1, <2>3 DEF Ownership
  <2> QED
    BY <2>2, <2>3
<1> QED
  BY <1>2, <1>7, <1>8, <1>9

\* Each shape of step keeps what is known of owners.
LEMMA OwnerStep ==
    ASSUME TypeOK, TypeOK', Shape, Vouchers, Overlap, Foundations, Ownership, NEW r \in Requests, StepOf(r)
    PROVE  Ownership'
<1>1. ASSUME NEW o \in orgs', OwnersThen(o) = {} PROVE Excused(o)'
  <2>1. o \in Orgs
    BY DEF TypeOK
  <2>2. CASE \E u \in Users : role[u][o] = "owner"
    BY <1>1, <2>1, <2>2, OwnerGoes
  <2>3. CASE o \notin orgs
    <3>1. Founds(r) /\ o = r
      BY <2>3 DEF StepOf, Begun, Invited, Dissolved, Passes, Clears, Adopts, Founds, Joins, Applies, Erases, Patches, Counts, Quits, Falls
    <3>2. role' = [role EXCEPT ![req[r].user][o] = "owner"] /\ req[r].user \in Users
      BY <3>1 DEF Founds, Shape, Busy
    <3>3. role \in [Users -> [Orgs -> Roles \cup {None}]]
      BY Parts
    <3>4. role'[req[r].user][o] = "owner"
      BY <2>1, <3>2, <3>3
    <3> QED
      BY <1>1, <3>2, <3>4 DEF OwnersThen
  <2>4. CASE o \in orgs /\ Owners(o) = {}
    <3>1. Excused(o)
      BY <2>4 DEF Ownership, OwnerStays, Excused, Writer, QuitBy
    <3>2. \A s \in Requests : Writer(s, o) => Writer(s, o)' /\ req'[s] = req[s]
      BY Alone DEF Writer
    <3>3. (\A s, t : Met(s, t) => Met(s, t)') /\ (QuitBy(o) => QuitBy(o)')
      BY Alone, TracesStay
    <3> QED
      BY <3>1, <3>2, <3>3 DEF Excused
  <2> QED
    BY <2>2, <2>3, <2>4 DEF Owners
<1>2. OwnerStays'
  BY <1>1 DEF OwnerStays, Excused, Writer, QuitBy, OwnersThen, Owners
<1>3. \A q \in Requests : q # r => req'[q] = req[q]
  BY Alone
<1>4. ASSUME NEW q \in Requests, req'[q].pc \in {"apply", "patch"}
      PROVE  \/ /\ role'[req'[q].user][req'[q].org] # None
                /\ role'[req'[q].user][req'[q].org] = "owner" => req'[q].saw = "owner"
             \/ req'[q].org \notin orgs' \/ req'[q].user \notin users'
             \/ WrittenBy(q, req[q].org)' /\ q # r
  BY <1>3, <1>4, KnowledgeStep, KnowledgeBegins
<1>5. ASSUME NEW q \in Requests, req'[q].pc = "erase"
      PROVE  \/ /\ role'[req'[q].user][req'[q].org] # None
                /\ role'[req'[q].user][req'[q].org] = "owner" =>
                      \E w \in Users : w # req'[q].user /\ role'[w][req'[q].org] = "owner"
             \/ req'[q].org \notin orgs' \/ req'[q].user \notin users'
             \/ (WrittenBy(q, req[q].org)' \/ QuitBy(req[q].org)') /\ q # r
  BY <1>3, <1>5, KnowledgeStep, KnowledgeBegins
<1> QED
  BY <1>2, <1>4, <1>5 DEF Ownership

-----------------------------------------------------------------------------
(* The theorems *)

\* The invariant holds at the start: no request has begun, and every organization has
\* an owner.
LEMMA InitIInv == Init => IInv
<1> SUFFICES ASSUME Init PROVE IInv
  OBVIOUS
<1> USE OrgAssumption
<1>1. \A r \in Requests : req[r] = NewRequest
  BY DEF Init
<1>2. \A r \in Requests : req[r].pc = "new" /\ req[r].kind = "login"
  BY <1>1 DEF NewRequest
<1>3. TypeOK
  <2>1. NewRequest \in ReqState
    BY DEF NewRequest, ReqState, Steps, AllKinds
  <2>2. req \in [Requests -> ReqState]
    BY <2>1 DEF Init
  <2>3. NoInvite \in Invite
    BY DEF NoInvite, Invite, Roles
  <2>4. invite \in [Invites -> Invite]
    BY <2>3 DEF Init
  <2>5. /\ orgs \subseteq Orgs /\ role \in [Users -> [Orgs -> Roles \cup {None}]]
        /\ active \in [Users -> orgs \cup {None}]
    <3>1. orgs = Old /\ Old \subseteq Orgs /\ role \in [Users -> [Orgs -> {"owner", None}]]
          /\ active \in [Users -> Old \cup {None}]
      BY DEF Init, Orgs
    <3>2. {"owner", None} \subseteq Roles \cup {None}
      BY DEF Roles
    <3>3. \A u \in Users : role[u] \in [Orgs -> Roles \cup {None}]
      BY <3>1, <3>2
    <3> QED
      BY <3>1, <3>3
  <2>6. /\ users \subseteq Users /\ \A u \in Users, o \in Orgs : role[u][o] # None => u \in users /\ o \in orgs
        /\ \A u \in Users : active[u] # None => u \in users
    BY DEF Init, Orgs
  <2>7. lock \in [Users -> Requests \cup {None}] /\ joined \in [Invites -> SUBSET Requests] /\ met \subseteq SUBSET Requests
    BY DEF Init
  <2> QED
    BY <2>2, <2>4, <2>5, <2>6, <2>7 DEF TypeOK, ReqState, Steps
<1>4. Shape /\ Overlap /\ Locks
  BY <1>1, <1>2 DEF Shape, Overlap, Locks, Busy, Plain, NewRequest
<1>5. Foundations
  BY <1>2 DEF Foundations, Founded, Init
<1>6. Vouchers
  <2>1. \A i \in Invites : invite[i].st = "none" /\ joined[i] = {}
    BY DEF Init, NoInvite
  <2> QED
    BY <1>2, <2>1 DEF Vouchers, Holds, InviteOnce
<1>7. Actives
  <2>1. ASSUME NEW u \in Users, active[u] # None PROVE active[u] \in Homes(u)
    BY <2>1 DEF Init, Homes, Orgs
  <2> QED
    BY <1>2, <2>1 DEF Actives
<1>8. Ownership
  <2>1. \A o \in orgs : Owners(o) # {}
    BY DEF Init, Owners, Orgs
  <2> QED
    BY <1>2, <2>1 DEF Ownership, OwnerStays
<1> QED
  BY <1>3, <1>4, <1>5, <1>6, <1>7, <1>8 DEF IInv

\* Every step keeps the invariant.
LEMMA NextIInv == IInv /\ [Next]_vars => IInv'
<1> SUFFICES ASSUME IInv, [Next]_vars PROVE IInv'
  OBVIOUS
<1>0. TypeOK /\ Shape /\ Overlap /\ Foundations /\ Vouchers /\ Locks /\ Actives /\ Ownership
  BY DEF IInv
<1>1. CASE Next
  <2>1. PICK r \in Requests : StepOf(r)
    BY <1>0, <1>1, StepForm
  <2>2. TypeOK'
    BY <1>0, <2>1, TypeStep
  <2>3. Shape' /\ Overlap' /\ Foundations'
    BY <1>0, <2>1, ShapeStep, OverlapStep, FoundationStep
  <2>4. Vouchers' /\ Locks'
    BY <1>0, <2>1, VoucherStep, LockStep
  <2>5. Actives' /\ Ownership'
    BY <1>0, <2>1, <2>2, ActiveStep, OwnerStep
  <2> QED
    BY <2>2, <2>3, <2>4, <2>5 DEF IInv
<1>2. CASE UNCHANGED vars
  <2>1. TypeOK' /\ Shape' /\ Overlap' /\ Foundations'
    BY <1>0, <1>2 DEF vars, TypeOK, Shape, Plain, Busy, Overlap, Met, Foundations, Founded
  <2>2. Vouchers' /\ Locks'
    BY <1>0, <1>2 DEF vars, Vouchers, Holds, InviteOnce, Met, Locks, Homes
  <2>a. users' = users /\ orgs' = orgs /\ role' = role /\ active' = active /\ req' = req /\ met' = met
    BY <1>2 DEF vars
  <2>3. Actives'
    <3>1. \A u \in Users : Homes(u)' = Homes(u)
      BY <2>a DEF Homes
    <3>2. \A r, u : (RemovedBy(r, u)' <=> RemovedBy(r, u)) /\ (MovedBy(r, u)' <=> MovedBy(r, u))
      BY <2>a DEF RemovedBy, MovedBy, Met
    <3> QED
      BY <1>0, <2>a, <3>1, <3>2 DEF Actives
  <2>4. Ownership'
    <3>1. \A o : Owners(o)' = Owners(o)
      BY <2>a DEF Owners
    <3>a. \A s, t : Met(s, t)' <=> Met(s, t)
      BY <2>a DEF Met
    <3>2. OwnerStays'
      BY <1>0, <2>a, <3>1, <3>a DEF Ownership, OwnerStays
    <3>3. \A r, o : (WrittenBy(r, o)' <=> WrittenBy(r, o)) /\ (QuitBy(o)' <=> QuitBy(o))
      BY <2>a DEF WrittenBy, Writer, QuitBy, Met
    <3> QED
      BY <1>0, <2>a, <3>2, <3>3 DEF Ownership
  <2> QED
    BY <2>1, <2>2, <2>3, <2>4 DEF IInv
<1> QED
  BY <1>1, <1>2

\* The inductive invariant holds of every behaviour.
THEOREM Invariance == Spec => []IInv
BY InitIInv, NextIInv, PTL DEF Spec

\* Every variable keeps its type; in particular the active organization of a user and
\* the organizations of memberships exist.
THEOREM TypeCorrect == Spec => []TypeOK
<1>1. IInv => TypeOK
  BY DEF IInv
<1> QED
  BY <1>1, Invariance, PTL

\* However many requests a new user sends, and whatever runs beside them, no login gives
\* a membership to a user who has one: the second look is taken under the lock of the
\* user's row (ensure_member_for_user).
THEOREM LoginsGiveOneHome == Spec => HomeOnce
<1>1. IInv => \A r \in Requests :
                req[r].kind = "login" /\ req[r].pc \in {"join", "home"} => Homes(req[r].user) = {}
  BY DEF IInv, Locks
<1>2. IInv /\ [Next]_vars =>
        [\A r \in Requests :
           req[r].kind = "login" /\ req[r].pc \in {"join", "home"} /\ req'[r].pc = "ok" => Homes(req[r].user) = {}]_vars
  BY <1>1
<1> QED
  BY <1>2, Invariance, PTL DEF Spec, HomeOnce

\* An invite is used by one request, unless two overlapped: accept_org_invite reads
\* accepted_at before its commit.
THEOREM InvitesOnce == Spec => []InviteOnce
<1>1. IInv => InviteOnce
  BY DEF IInv, Vouchers
<1> QED
  BY <1>1, Invariance, PTL

\* An organization has an owner, unless an administrator took the role away on purpose, an
\* owner deleted their account and left the organization to others (delete_me), or two
\* writers of its roles overlapped (remove_org_member counts the owners, then commits).
THEOREM OwnersStay == Spec => []OwnerStays
<1>1. IInv => OwnerStays
  BY DEF IInv, Ownership
<1> QED
  BY <1>1, Invariance, PTL

\* A user is active in an organization of theirs, unless a removal overlapped the request
\* that made it the active one (set_active_org, remove_org_member).
THEOREM ActivesFit == Spec => []ActiveFits
<1>1. IInv => ActiveFits
  <2> SUFFICES ASSUME IInv, NEW u \in Users, active[u] # None, active[u] \notin Homes(u)
               PROVE  \E r, s \in Requests : /\ r # s /\ Met(r, s)
                                             /\ req[r].kind = "remove" /\ req[r].user = u /\ req[s].user = u
    BY DEF ActiveFits
  <2>1. PICK s \in Requests : req[s].pc = "ok" /\ req[s].user = u /\ RemovedBy(s, u)
    BY DEF IInv, Actives
  <2>2. PICK r \in Requests : r # s /\ Met(s, r) /\ req[r].kind = "remove" /\ req[r].user = u
    BY <2>1 DEF RemovedBy
  <2>3. Met(r, s)
    BY <2>2, Symmetric
  <2> QED
    BY <2>1, <2>2, <2>3
<1> QED
  BY <1>1, Invariance, PTL

=============================================================================
