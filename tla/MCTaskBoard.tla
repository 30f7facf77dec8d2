----------------------------- MODULE MCTaskBoard ----------------------------
(***************************************************************************)
(* Instances of TaskBoard: the bodies clients send and the rows they       *)
(* create, cut down to the fields each run is about.                       *)
(***************************************************************************)
EXTENDS TaskBoard

CONSTANTS g1, g2

Body(who, s, a, d, c) == [actor |-> who, status |-> s, agent |-> a, deps |-> d, comment |-> c]

\* g1 works, leads and administrators assign to g2.
FromAgents == {Body(g1, s, Same, Same, s = "review") : s \in Statuses} \cup
              {Body(g1, "review", Same, Same, FALSE)}
FromLead   == {Body("lead", s, Same, Same, FALSE) : s \in {"inbox", "done"}} \cup
              {Body("lead", Same, Same, {1}, FALSE)} \cup
              {Body("lead", Same, g2, Same, FALSE)}
FromAdmin  == {Body("admin", s, Same, Same, s = "review") : s \in Statuses \cup {Same}} \cup
              {Body("admin", Same, Same, {}, FALSE), Body("admin", "in_progress", g2, {1}, FALSE)}
AllBodies  == FromAgents \cup FromLead \cup FromAdmin

\* Status changes that meet on one task and on those that wait for it.
RaceBodies == {Body("admin", s, Same, Same, FALSE) : s \in {"inbox", "done"}}

NewRows == {[status |-> s, agent |-> None, deps |-> d] :
              s \in {"inbox", "done"}, d \in {{}, {1}}}
\* A finished task and the work that waited for it.
RaceRows == {[status |-> "done", agent |-> None, deps |-> {}],
             [status |-> "in_progress", agent |-> None, deps |-> {1}]}
=============================================================================
