---------------------------- MODULE OrgMembership ----------------------------
(***************************************************************************)
(* Who belongs to which organization (src/backend/app/services/            *)
(* organizations.py, api/organizations.py, api/users.py): the first login   *)
(* of a user, invites, roles, removals, the active organization,           *)
(* organizations that are founded and deleted, and users who delete their  *)
(* account.  One who comes back after that has a new row of the users      *)
(* table, and is another user here.                                        *)
(*                                                                         *)
(* A request reads rows, checks them and commits, all without locks but    *)
(* one: a first login holds its user's row (FOR UPDATE), and whoever       *)
(* inserts a membership of that user waits for it, because the foreign key *)
(* takes a share of the same row.  An organization is named after the      *)
(* request that founded it.  Access to single boards is left out.          *)
(***************************************************************************)
EXTENDS Naturals, FiniteSets

CONSTANTS Users,
          Mailless,   \* users without an e-mail address
          Invites,
          Old,        \* organizations that exist at the start
          Requests,   \* requests the server gets
          Kinds,      \* which of the kinds below they are
          Given,      \* roles that invites and administrators give
          None

AllKinds == {"login", "accept", "remove", "role", "active", "found", "offer", "revoke", "dissolve", "quit"}
Roles == {"owner", "admin", "member"}

ASSUME OrgAssumption ==
    /\ Mailless \subseteq Users /\ Kinds \subseteq AllKinds /\ Given \subseteq Roles
    /\ Old \cap Requests = {} /\ None \notin Requests \cup Users \cup Invites \cup Old \cup Roles

VARIABLES users,    \* users that have a row
          orgs,     \* organizations that exist
          role,     \* role[u][o]: the membership of u in o, or None
          active,   \* users.active_organization_id
          invite,   \* invite[i]: the row of an invite
          lock,     \* lock[u]: the login that holds the user's row
          req,      \* req[r]: a request, how far it has got and what it has read
          joined,   \* joined[i]: requests that used the invite
          met       \* pairs of requests that were under way at the same time

vars == <<users, orgs, role, active, invite, lock, req, joined, met>>

Orgs == Requests \cup Old
Admins == {"owner", "admin"}
Rank(x) == CASE x = "owner" -> 2 [] x = "admin" -> 1 [] OTHER -> 0

Invite == [st : {"none", "open", "used", "gone"}, org : Orgs \cup {None}, to : Users \cup {None}, role : Roles]
NoInvite == [st |-> "none", org |-> None, to |-> None, role |-> "member"]

TypeOK ==
    /\ users \subseteq Users /\ orgs \subseteq Orgs
    /\ role \in [Users -> [Orgs -> Roles \cup {None}]]
    /\ active \in [Users -> orgs \cup {None}]
    /\ \A u \in Users, o \in Orgs : role[u][o] # None => u \in users /\ o \in orgs
    /\ \A u \in Users : active[u] # None => u \in users
    /\ invite \in [Invites -> Invite]
    /\ lock \in [Users -> Requests \cup {None}]
    /\ req \in [Requests -> [pc : {"new", "look", "adopt", "lock", "locked", "join", "home", "invite", "member",
                                   "apply", "check", "erase", "find", "patch", "found", "count", "leave", "ok", "failed"},
                             kind : AllKinds, user : Users \cup {None}, org : Orgs \cup {None}, inv : Invites \cup {None},
                             saw : Roles \cup {None}, gives : Roles \cup Orgs \cup {None},
                             homes : SUBSET Orgs, alone : SUBSET Orgs, left : SUBSET Orgs]]
    /\ joined \in [Invites -> SUBSET Requests]
    /\ met \subseteq SUBSET Requests

NewRequest == [pc |-> "new", kind |-> "login", user |-> None, org |-> None, inv |-> None, saw |-> None, gives |-> None,
               homes |-> {}, alone |-> {}, left |-> {}]

\* Every organization has one owner or several, and no other member.
Init ==
    /\ users = Users /\ orgs = Old
    /\ role \in [Users -> [Orgs -> {"owner", None}]]
    /\ \A o \in Orgs : o \in Old <=> \E u \in Users : role[u][o] = "owner"
    /\ \A u \in Users, o \in Requests : role[u][o] = None
    /\ active \in [Users -> Old \cup {None}]
    /\ \A u \in Users : IF active[u] = None THEN \A o \in Old : role[u][o] = None ELSE role[u][active[u]] # None
    /\ invite = [i \in Invites |-> NoInvite]
    /\ lock = [u \in Users |-> None]
    /\ req = [r \in Requests |-> NewRequest]
    /\ joined = [i \in Invites |-> {}]
    /\ met = {}

-----------------------------------------------------------------------------
(* Helpers *)

Busy(r) == req[r].pc \notin {"new", "ok", "failed"}
Homes(u) == {o \in Orgs : role[u][o] # None}
Owners(o) == {u \in Users : role[u][o] = "owner"}
Free(u, r) == lock[u] \in {None, r}
Release(r) == lock' = [u \in Users |-> IF lock[u] = r THEN None ELSE lock[u]]

Begin(r, b) ==
    /\ req[r].pc = "new" /\ b.kind \in Kinds
    /\ req' = [req EXCEPT ![r] = b]
    /\ met' = met \cup {{r, s} : s \in {q \in Requests : q # r /\ Busy(q)}}

Asks(kind, u, o, pc) == [NewRequest EXCEPT !.pc = pc, !.kind = kind, !.user = u, !.org = o]

\* require_org_admin: the caller's role in the active organization.
Admin(c, o) == active[c] = o /\ role[c][o] \in Admins

Goto(r, pc) == req' = [req EXCEPT ![r].pc = pc] /\ UNCHANGED met
Succeeds(r) == req' = [req EXCEPT ![r] = [@ EXCEPT !.pc = "ok", !.inv = None, !.gives = None]] /\ UNCHANGED met
Fails(r) == /\ req' = [req EXCEPT ![r] = [NewRequest EXCEPT !.pc = "failed"]] /\ UNCHANGED met
            /\ Release(r) /\ UNCHANGED <<users, orgs, role, active, invite, joined>>

-----------------------------------------------------------------------------
(* The first login: ensure_member_for_user, which every request runs first *)

Login(r, u) ==
    /\ u \in users /\ Begin(r, Asks("login", u, None, "look"))
    /\ UNCHANGED <<users, orgs, role, active, invite, lock, joined>>

\* get_active_membership: an active organization that does not fit gives way to one
\* the user belongs to.
Look(r) ==
    LET u == req[r].user
    IN  /\ req[r].pc = "look" /\ UNCHANGED <<users, orgs, role, invite, lock, joined, met>>
        /\ \/ /\ active[u] \in Homes(u)
              /\ Succeeds(r) /\ UNCHANGED active
           \/ /\ active[u] \notin Homes(u) /\ active' = [active EXCEPT ![u] = None]
              /\ IF Homes(u) = {} THEN req' = [req EXCEPT ![r].pc = "lock"]
                 ELSE \E o \in Homes(u) : req' = [req EXCEPT ![r].pc = "adopt", ![r].org = o]

\* The commit of set_active_organization; the foreign key wants the organization, and
\* the user's row must be there.
Adopt(r) ==
    /\ req[r].pc = "adopt"
    /\ IF req[r].org \in orgs /\ req[r].user \in users
       THEN /\ active' = [active EXCEPT ![req[r].user] = req[r].org]
            /\ Succeeds(r) /\ UNCHANGED <<users, orgs, role, invite, lock, joined>>
       ELSE Fails(r)

Lock(r) ==
    /\ req[r].pc = "lock" /\ req[r].user \in users /\ lock[req[r].user] = None
    /\ lock' = [lock EXCEPT ![req[r].user] = r]
    /\ Goto(r, "locked") /\ UNCHANGED <<users, orgs, role, active, invite, joined>>

Fitting(u) == {i \in Invites : invite[i].st = "open" /\ invite[i].to = u /\ u \notin Mailless}

\* Fault: the first look is believed.
X_Homeless(u) == TRUE

Homeless(u) == Homes(u) = {}

\* The second look under the lock, then an invite to the user's address, then an
\* organization of the user's own.
Recheck(r) ==
    LET u == req[r].user
    IN  /\ req[r].pc = "locked" /\ UNCHANGED <<users, orgs, role, invite, joined, met>>
        /\ \/ /\ ~Homeless(u) /\ \E o \in Homes(u) : active' = [active EXCEPT ![u] = o]
              /\ Succeeds(r) /\ Release(r)
           \/ /\ Homeless(u) /\ Fitting(u) # {}
              /\ \E i \in Fitting(u) : req' = [req EXCEPT ![r].pc = "join", ![r].inv = i]
              /\ UNCHANGED <<active, lock>>
           \/ /\ Homeless(u) /\ Fitting(u) = {}
              /\ req' = [req EXCEPT ![r].pc = "home"] /\ UNCHANGED <<active, lock>>

\* A new organization with its owner, for a login or create_organization.
Found(r) ==
    LET u == req[r].user
    IN  /\ req[r].pc \in {"home", "found"} /\ Free(u, r)
        /\ IF u \in users
           THEN /\ orgs' = orgs \cup {r}
                /\ role' = [role EXCEPT ![u][r] = "owner"]
                /\ active' = [active EXCEPT ![u] = r]
                /\ Succeeds(r) /\ Release(r) /\ UNCHANGED <<users, invite, joined>>
           ELSE Fails(r)

Create(r, u) ==
    /\ Homes(u) # {} /\ Begin(r, Asks("found", u, None, "found"))
    /\ UNCHANGED <<users, orgs, role, active, invite, lock, joined>>

-----------------------------------------------------------------------------
(* Invites *)

\* create_org_invite
Offer(r, c, i, u, x) ==
    /\ active[c] # None /\ Admin(c, active[c]) /\ invite[i].st = "none"
    /\ u \notin Mailless /\ role[u][active[c]] = None
    /\ Begin(r, Asks("offer", c, active[c], "ok"))
    /\ invite' = [invite EXCEPT ![i] = [st |-> "open", org |-> active[c], to |-> u, role |-> x]]
    /\ UNCHANGED <<users, orgs, role, active, lock, joined>>

\* revoke_org_invite
Revoke(r, c, i) ==
    /\ invite[i].st \in {"open", "used"} /\ Admin(c, invite[i].org)
    /\ Begin(r, Asks("revoke", c, invite[i].org, "ok"))
    /\ invite' = [invite EXCEPT ![i].st = "gone"]
    /\ UNCHANGED <<users, orgs, role, active, lock, joined>>

\* accept_org_invite, by a user who has logged in.
Accept(r, u, i) ==
    /\ Homes(u) # {} /\ Begin(r, [Asks("accept", u, None, "invite") EXCEPT !.inv = i])
    /\ UNCHANGED <<users, orgs, role, active, invite, lock, joined>>

\* Fault: an invite that was accepted is found again.
X_ReadInvite(r) ==
    LET v == invite[req[r].inv]
    IN  /\ req[r].pc = "invite"
        /\ IF v.st \in {"open", "used"} /\ (v.to = req[r].user \/ req[r].user \in Mailless)
           THEN Goto(r, "member") /\ UNCHANGED <<users, orgs, role, active, invite, lock, joined>>
           ELSE Fails(r)

\* The invite is found by its token while nobody has accepted it; it is for one
\* address, which is compared with the user's if there is one.
ReadInvite(r) ==
    LET v == invite[req[r].inv]
    IN  /\ req[r].pc = "invite"
        /\ IF v.st = "open" /\ (v.to = req[r].user \/ req[r].user \in Mailless)
           THEN Goto(r, "member") /\ UNCHANGED <<users, orgs, role, active, invite, lock, joined>>
           ELSE Fails(r)

ReadMember(r) ==
    LET o == invite[req[r].inv].org
        had == role[req[r].user][o]
    IN  /\ req[r].pc = "member"
        /\ req' = [req EXCEPT ![r].pc = IF had = None THEN "join" ELSE "apply", ![r].org = o, ![r].saw = had]
        /\ UNCHANGED <<users, orgs, role, active, invite, lock, joined, met>>

Used(r) == /\ invite' = [invite EXCEPT ![req[r].inv].st = "used"]
           /\ joined' = [joined EXCEPT ![req[r].inv] = @ \cup {r}]

\* accept_invite: one transaction inserts the membership, which must be new and the
\* user's row there, and marks the invite, which must be there.  Only a login finds no active organization.
Join(r) ==
    LET u == req[r].user
        v == invite[req[r].inv]
    IN  /\ req[r].pc = "join" /\ Free(u, r)
        /\ IF u \in users /\ role[u][v.org] = None /\ v.st # "gone"
           THEN /\ role' = [role EXCEPT ![u][v.org] = v.role]
                /\ active' = IF req[r].kind = "login" THEN [active EXCEPT ![u] = v.org] ELSE active
                /\ Used(r) /\ Succeeds(r) /\ Release(r) /\ UNCHANGED <<users, orgs>>
           ELSE Fails(r)

\* apply_invite_to_member: a member's role may rise; a membership that was removed
\* meanwhile is missed only when there is something to write to it.
Apply(r) ==
    LET u == req[r].user
        v == invite[req[r].inv]
        rises == Rank(v.role) > Rank(req[r].saw)
    IN  /\ req[r].pc = "apply"
        /\ IF u \in users /\ v.st # "gone" /\ (rises => role[u][v.org] # None)
           THEN /\ role' = IF rises THEN [role EXCEPT ![u][v.org] = v.role] ELSE role
                /\ Used(r) /\ Succeeds(r) /\ UNCHANGED <<users, orgs, active, lock>>
           ELSE Fails(r)

-----------------------------------------------------------------------------
(* Members *)

\* remove_org_member by another member of the caller's organization.
Remove(r, c, u) ==
    /\ active[c] # None /\ Admin(c, active[c]) /\ u # c
    /\ Begin(r, [Asks("remove", u, active[c], "check") EXCEPT !.saw = role[c][active[c]]])
    /\ UNCHANGED <<users, orgs, role, active, invite, lock, joined>>

\* Fault: an administrator may remove anybody.
X_Removable(r) == role[req[r].user][req[r].org] # None

\* Only owners remove owners, and not the last one.
Removable(r) ==
    LET was == role[req[r].user][req[r].org]
    IN  /\ was # None
        /\ was = "owner" => req[r].saw = "owner" /\ Cardinality(Owners(req[r].org)) > 1

\* Fault: the organization stays the active one.
X_Fallbacks(r) == {req[r].org}

\* What the user's active organization becomes: another one of theirs when it is this
\* one; this one stands for no change.
Fallbacks(r) ==
    LET others == Homes(req[r].user) \ {req[r].org}
    IN  IF active[req[r].user] # req[r].org THEN {req[r].org} ELSE IF others = {} THEN {None} ELSE others

Check(r) ==
    /\ req[r].pc = "check"
    /\ IF Removable(r)
       THEN /\ \E o \in Fallbacks(r) : req' = [req EXCEPT ![r].pc = "erase", ![r].gives = o]
            /\ UNCHANGED <<users, orgs, role, active, invite, lock, joined, met>>
       ELSE Fails(r)

\* The commit; a user who was active elsewhere is not written.
Erase(r) ==
    LET u == req[r].user
        o == req[r].gives
    IN  /\ req[r].pc = "erase"
        /\ IF o = req[r].org \/ (u \in users /\ o \in orgs \cup {None})
           THEN /\ role' = [role EXCEPT ![u][req[r].org] = None]
                /\ active' = IF o = req[r].org THEN active ELSE [active EXCEPT ![u] = o]
                /\ Succeeds(r) /\ UNCHANGED <<users, orgs, invite, lock, joined>>
           ELSE Fails(r)

\* update_org_member: any administrator gives any member any role.
Change(r, c, u, x) ==
    /\ active[c] # None /\ Admin(c, active[c])
    /\ Begin(r, [Asks("role", u, active[c], "find") EXCEPT !.gives = x])
    /\ UNCHANGED <<users, orgs, role, active, invite, lock, joined>>

Find(r) ==
    LET was == role[req[r].user][req[r].org]
    IN  /\ req[r].pc = "find"
        /\ IF was = None THEN Fails(r)
           ELSE /\ req' = [req EXCEPT ![r].pc = "patch", ![r].saw = was]
                /\ UNCHANGED <<users, orgs, role, active, invite, lock, joined, met>>

\* The commit writes the role if it differs from the one read.
Patch(r) ==
    LET u == req[r].user
        x == req[r].gives
    IN  /\ req[r].pc = "patch"
        /\ IF role[u][req[r].org] # None
           THEN /\ role' = IF x = req[r].saw THEN role ELSE [role EXCEPT ![u][req[r].org] = x]
                /\ Succeeds(r) /\ UNCHANGED <<users, orgs, active, invite, lock, joined>>
           ELSE Fails(r)

\* set_active_org
Switch(r, u, o) ==
    /\ role[u][o] # None /\ active[u] # o
    /\ Begin(r, Asks("active", u, o, "adopt"))
    /\ UNCHANGED <<users, orgs, role, active, invite, lock, joined>>

\* Fault: users keep an organization that is deleted as their active one.
X_Without(o) == active

Without(o) == [u \in Users |-> IF active[u] = o THEN None ELSE active[u]]

\* delete_my_org: one transaction that takes everything with it.
Dissolve(r, c) ==
    LET o == active[c]
    IN  /\ o # None /\ role[c][o] = "owner"
        /\ Begin(r, Asks("dissolve", c, o, "ok"))
        /\ orgs' = orgs \ {o}
        /\ role' = [u \in Users |-> [role[u] EXCEPT ![o] = None]]
        /\ active' = Without(o)
        /\ invite' = [i \in Invites |-> IF invite[i].org = o /\ invite[i].st # "none"
                                        THEN [invite[i] EXCEPT !.st = "gone"] ELSE invite[i]]
        /\ UNCHANGED <<users, lock, joined>>

-----------------------------------------------------------------------------
(* Deleting an account *)

\* delete_me, which reads the user's memberships.
Quit(r, u) ==
    /\ u \in users /\ Begin(r, [Asks("quit", u, None, "count") EXCEPT !.homes = Homes(u)])
    /\ UNCHANGED <<users, orgs, role, active, invite, lock, joined>>

Personal(o) == Cardinality({u \in Users : role[u][o] # None}) <= 1

\* One organization after the other: whether the user is alone in it.
Count(r) ==
    LET todo == req[r].homes \ (req[r].alone \cup req[r].left)
    IN  /\ req[r].pc = "count" /\ UNCHANGED <<users, orgs, role, active, invite, lock, joined, met>>
        /\ \/ todo = {} /\ req' = [req EXCEPT ![r].pc = "leave"]
           \/ \E o \in todo : req' = IF Personal(o) THEN [req EXCEPT ![r].alone = @ \cup {o}]
                                                   ELSE [req EXCEPT ![r].left = @ \cup {o}]

\* The commit: the organizations the user was alone in go with everything in them,
\* of the others the user's memberships, and the user's row, which no other
\* membership may name.  The request keeps those the user leaves as an owner.
Leave(r) ==
    LET u == req[r].user
        alone == req[r].alone
        left == {o \in req[r].left : role[u][o] = "owner"}
    IN  /\ req[r].pc = "leave" /\ Free(u, r)
        /\ IF Homes(u) \subseteq req[r].homes
           THEN /\ users' = users \ {u} /\ orgs' = orgs \ alone
                /\ role' = [v \in Users |-> [o \in Orgs |-> IF v = u \/ o \in alone THEN None ELSE role[v][o]]]
                /\ active' = [v \in Users |-> IF v = u \/ active[v] \in alone THEN None ELSE active[v]]
                /\ invite' = [i \in Invites |-> IF invite[i].org \in alone /\ invite[i].st # "none"
                                                THEN [invite[i] EXCEPT !.st = "gone"] ELSE invite[i]]
                /\ req' = [req EXCEPT ![r] = [@ EXCEPT !.pc = "ok", !.homes = {}, !.alone = {}, !.left = left]]
                /\ UNCHANGED <<lock, joined, met>>
           ELSE Fails(r)

\* A commit fails or the server stops: what was not committed is rolled back.
Cut(r) == Busy(r) /\ Fails(r)

Next == \E r \in Requests :
            \/ Look(r) \/ Adopt(r) \/ Lock(r) \/ Recheck(r) \/ Found(r)
            \/ ReadInvite(r) \/ ReadMember(r) \/ Join(r) \/ Apply(r)
            \/ Check(r) \/ Erase(r) \/ Find(r) \/ Patch(r) \/ Count(r) \/ Leave(r) \/ Cut(r)
            \/ \E c \in Users :
                  \/ Login(r, c) \/ Create(r, c) \/ Dissolve(r, c) \/ Quit(r, c)
                  \/ \E i \in Invites : Accept(r, c, i) \/ Revoke(r, c, i)
                  \/ \E i \in Invites, u \in Users, x \in Given : Offer(r, c, i, u, x)
                  \/ \E u \in Users : Remove(r, c, u)
                  \/ \E u \in Users, x \in Given : Change(r, c, u, x)
                  \/ \E o \in Orgs : Switch(r, c, o)

Spec == Init /\ [][Next]_vars

-----------------------------------------------------------------------------
(* Properties *)

Met(r, s) == {r, s} \in met

\* However many requests a new user sends at once, and whatever others do meanwhile,
\* the first login gives one membership: no login gives one to a user who has any.
HomeOnce ==
    [][\A r \in Requests :
          req[r].kind = "login" /\ req[r].pc \in {"join", "home"} /\ req'[r].pc = "ok" => Homes(req[r].user) = {}]_vars

\* Requests that use one invite overlapped.
InviteOnce == \A i \in Invites : \A r, s \in joined[i] : r # s => Met(r, s)

\* An organization has an owner, unless an administrator gave an owner another role,
\* an owner deleted their account, or two of the requests that write its members' roles
\* overlapped.
OwnerStays ==
    \A o \in orgs : Owners(o) = {} =>
        LET writers == {r \in Requests : req[r].org = o /\ req[r].pc = "ok" /\ req[r].kind \in {"role", "remove", "accept"}}
        IN  \/ \E r \in writers : req[r].kind = "role" /\ req[r].saw = "owner"
            \/ \E r \in Requests : req[r].kind = "quit" /\ req[r].pc = "ok" /\ o \in req[r].left
            \/ \E r, s \in writers : r # s /\ Met(r, s)

\* The active organization is one the user belongs to, unless the removal of the user
\* overlapped a request that made it the active one.
ActiveFits ==
    \A u \in Users : active[u] # None /\ active[u] \notin Homes(u) =>
        \E r, s \in Requests : /\ r # s /\ Met(r, s)
                               /\ req[r].kind = "remove" /\ req[r].user = u /\ req[s].user = u
=============================================================================
