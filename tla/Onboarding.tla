------------------------------ MODULE Onboarding -----------------------------
(***************************************************************************)
(* The onboarding dialog of a board: the page                              *)
(* (src/frontend/src/components/BoardOnboardingChat.tsx), the server       *)
(* (src/backend/app/api/board_onboarding.py) and the gateway's agent, who  *)
(* gets the user's messages through the gateway and answers each one by a  *)
(* request of its own.                                                     *)
(*                                                                         *)
(* Every handler reads the session, waits for the gateway or the database, *)
(* and then writes the columns it changed, the whole list of messages      *)
(* among them.  The page polls while it waits and takes the answers in the *)
(* order in which they arrive.  A message is named after the request that  *)
(* sent it; the agent's reply to it has the same name.  An update that the *)
(* agent was not asked for, a second reply to one message among them, gets *)
(* a name of its own.  A request reaches the server as it is made; its     *)
(* response may take its time.                                             *)
(*                                                                         *)
(* Three things leave the dialog "rough": a request fails though the agent *)
(* has its message, the dialog is closed while something is under way, or  *)
(* a reading arrives after a newer one.  The safety properties are about   *)
(* dialogs that did not go rough, and the page asks nothing after that.    *)
(***************************************************************************)
EXTENDS Naturals, Sequences, FiniteSets, SequencesExt, FiniteSetsExt

CONSTANTS Calls,     \* requests of the page, polls apart, and updates nobody asked for, in this order
          MaxGets,   \* bound: polls on the way, and updates nobody asked for
          None

ASSUME OnboardingAssumption == Calls \subseteq Nat /\ MaxGets \in Nat /\ None \notin Calls

VARIABLES sess,   \* board_onboarding_sessions, each named after the request that made it
          newest, \* the session updated last
          rev,    \* commits so far; tells which of two readings is older
          call,   \* call[r]: a request of the page and its handler
          reply,  \* reply[r]: the agent's request in reply to the message of r
          board,  \* what confirming wrote: the goal, and the draft the lead is made from
          page,   \* the component's state
          gets,   \* answers to polls on their way
          rough,  \* see above
          unasked \* the agent has sent an update it was not asked for

vars == <<sess, newest, rev, call, reply, board, page, gets, rough, unasked>>

Status == {"active", "completed", "confirmed"}
Entry == [by : {"user", "agent"}, of : Calls]
Session == [status : Status \cup {"none"}, msgs : Seq(Entry), draft : Calls \cup {None}]
Reading == [s : Session, n : Nat]

CallState == [kind : {"start", "answer", "confirm"},
              pc : {"new", "send", "store", "refresh", "answered", "ok", "failed"},
              sid : Calls \cup {None}, msgs : Seq(Entry), about : Calls \cup {None}, got : Reading]
ReplyState == [pc : {"none", "told", "store", "ok", "refused"}, kind : {"question", "complete"},
               sid : Calls \cup {None}, msgs : Seq(Entry), status : Status \cup {"none"}]
PageState == [open : BOOLEAN, view : Session, n : Nat, cur : Calls \cup {None}, awaiting : Calls \cup {None}]

TypeOK ==
    /\ sess \in [Calls -> Session] /\ newest \in Calls \cup {None} /\ rev \in Nat
    /\ call \in [Calls -> CallState] /\ reply \in [Calls -> ReplyState]
    /\ board \in [goal : Calls \cup {None}, lead : Calls \cup {None}]
    /\ page \in PageState /\ gets \subseteq Reading
    /\ rough \in BOOLEAN /\ unasked \in BOOLEAN

NoSession == [status |-> "none", msgs |-> <<>>, draft |-> None]
NewCall == [kind |-> "start", pc |-> "new", sid |-> None, msgs |-> <<>>, about |-> None,
            got |-> [s |-> NoSession, n |-> 0]]
NoReply == [pc |-> "none", kind |-> "question", sid |-> None, msgs |-> <<>>, status |-> "none"]
Closed == [open |-> FALSE, view |-> NoSession, n |-> 0, cur |-> None, awaiting |-> None]

Init == /\ sess = [i \in Calls |-> NoSession] /\ newest = None /\ rev = 0
        /\ call = [r \in Calls |-> NewCall] /\ reply = [r \in Calls |-> NoReply]
        /\ board = [goal |-> None, lead |-> None] /\ page = Closed /\ gets = {}
        /\ rough = FALSE /\ unasked = FALSE

-----------------------------------------------------------------------------
(* The stored sessions *)

\* Bound on what comes without being told: one update, and the rest polls.
Room == IF unasked THEN MaxGets - 1 ELSE MaxGets

By(who, r) == [by |-> who, of |-> r]
Active == {i \in Calls : sess[i].status = "active"}
Reads(i) == [s |-> sess[i], n |-> rev]

\* A commit of a session, which becomes the one updated last.
Save(i, s) == sess' = [sess EXCEPT ![i] = s] /\ newest' = i /\ rev' = rev + 1

\* The last message the agent has in a list: lastAssistantFingerprint.
LastAgent(msgs) == LET at == {i \in DOMAIN msgs : msgs[i].by = "agent"}
                   IN  IF at = {} THEN None ELSE msgs[Max(at)].of

-----------------------------------------------------------------------------
(* Handlers of the page's requests *)

Step(r, pc) == call' = [call EXCEPT ![r].pc = pc]
Ends(r, pc) == call' = [call EXCEPT ![r] = [NewCall EXCEPT !.pc = pc, !.kind = call[r].kind, !.about = call[r].about]]
Tell(r) == reply' = [reply EXCEPT ![r].pc = "told"]

\* start_onboarding, up to the gateway: a session that is active and waits for the
\* agent is resumed, another one is only returned.
LookStart(r) ==
    IF Active = {} THEN {[NewCall EXCEPT !.pc = "send"]}
    ELSE {IF Last(sess[i].msgs).by = "user"
          THEN [NewCall EXCEPT !.pc = "send", !.sid = i]
          ELSE [NewCall EXCEPT !.pc = "answered", !.sid = i, !.got = Reads(i)] : i \in Active}

\* answer_onboarding, up to the gateway: the messages are copied here.
LookAnswer(r, about) ==
    {[NewCall EXCEPT !.kind = "answer", !.pc = "send", !.sid = newest, !.about = about,
                     !.msgs = Append(sess[newest].msgs, By("user", r))]}

\* confirm_onboarding reads the session: the lead is made from its draft, the goal
\* comes from the page.
LookConfirm(r, about) ==
    {[NewCall EXCEPT !.kind = "confirm", !.pc = "store", !.sid = newest, !.about = about,
                     !.got = Reads(newest)]}

\* dispatch_start_prompt, dispatch_answer: the agent has the message from here on.
Send(r) ==
    /\ call[r].pc = "send"
    /\ Tell(r) /\ Step(r, "store")
    /\ UNCHANGED <<sess, newest, rev, board, page, gets, rough, unasked>>

\* The commit: a new session, a touched one, or one whose messages are the copy.
Store(r) ==
    /\ call[r].pc = "store" /\ call[r].kind # "confirm"
    /\ LET i == call[r].sid
       IN  IF call[r].kind = "answer" THEN Save(i, [sess[i] EXCEPT !.msgs = call[r].msgs])
           ELSE IF i # None THEN Save(i, sess[i])
           ELSE Save(r, [status |-> "active", msgs |-> <<By("user", r)>>, draft |-> None])
    /\ call' = [call EXCEPT ![r].pc = "refresh", ![r].msgs = <<>>, ![r].sid = IF @ = None THEN r ELSE @]
    /\ UNCHANGED <<reply, board, page, gets, rough, unasked>>

\* session.refresh reads the row once more for the response.
Refresh(r) ==
    /\ call[r].pc = "refresh"
    /\ call' = [call EXCEPT ![r].pc = "answered", ![r].got = Reads(call[r].sid)]
    /\ UNCHANGED <<sess, newest, rev, reply, board, page, gets, rough, unasked>>

\* Its commit; the goal comes from the page.  The lead is provisioned after it.
StoreConfirm(r) ==
    /\ call[r].kind = "confirm" /\ call[r].pc = "store"
    /\ LET i == call[r].sid
       IN  Save(i, [sess[i] EXCEPT !.status = IF call[r].got.s.status = "confirmed" THEN @ ELSE "confirmed"])
    /\ board' = [goal |-> call[r].about, lead |-> call[r].got.s.draft]
    /\ Step(r, "answered")
    /\ UNCHANGED <<reply, page, gets, rough, unasked>>

\* A request fails: the gateway refuses it or takes the message and does not say so,
\* the server stops, or the response is lost.
Fail(r) ==
    /\ call[r].pc \in {"send", "store", "answered"}
    /\ \/ UNCHANGED reply
       \/ call[r].pc = "send" /\ Tell(r)
    /\ Ends(r, "failed")
    /\ rough' = (rough \/ reply'[r].pc # "none")
    /\ UNCHANGED <<sess, newest, rev, board, page, gets, unasked>>

-----------------------------------------------------------------------------
(* The agent: agent_onboarding_update *)

\* The newest session is read; a confirmed one refuses.
Load(r) ==
    /\ sess[newest].status # "confirmed"
    /\ \E kind \in {"question", "complete"} :
          reply' = [reply EXCEPT ![r] = [pc |-> "store", kind |-> kind, sid |-> newest,
                                         msgs |-> sess[newest].msgs, status |-> sess[newest].status]]

LoadReply(r) ==
    /\ reply[r].pc = "told" /\ newest # None
    /\ \/ /\ sess[newest].status = "confirmed"
          /\ reply' = [reply EXCEPT ![r] = [NoReply EXCEPT !.pc = "refused"]]
       \/ Load(r)
    /\ UNCHANGED <<sess, newest, rev, call, board, page, gets, rough, unasked>>

\* The endpoint takes an update at any time, whether or not the agent was told
\* anything since the last one.
Speak(r) ==
    /\ newest # None /\ ~unasked /\ Cardinality(gets) < Room
    /\ call[r].pc = "new" /\ \A q \in Calls : q < r => call[q].pc # "new"
    /\ Load(r) /\ Ends(r, "ok") /\ unasked' = TRUE
    /\ UNCHANGED <<sess, newest, rev, board, page, gets, rough>>

\* Fault: the status is the word of the agent's message.
X_StoreReply(r) ==
    /\ reply[r].pc = "store"
    /\ LET i == reply[r].sid
           s == [sess[i] EXCEPT !.msgs = Append(reply[r].msgs, By("agent", r))]
       IN  IF reply[r].kind = "question" THEN Save(i, s) ELSE Save(i, [s EXCEPT !.draft = r, !.status = reply[r].kind])
    /\ reply' = [reply EXCEPT ![r] = [NoReply EXCEPT !.pc = "ok", !.kind = reply[r].kind]]
    /\ UNCHANGED <<call, board, page, gets, rough, unasked>>

\* Its commit: the messages, and for a completion the draft and, when it differs
\* from the one read, the status.
StoreReply(r) ==
    /\ reply[r].pc = "store"
    /\ LET i == reply[r].sid
           s == [sess[i] EXCEPT !.msgs = Append(reply[r].msgs, By("agent", r))]
       IN  IF reply[r].kind = "question" THEN Save(i, s)
           ELSE Save(i, [s EXCEPT !.draft = r, !.status = IF reply[r].status = "completed" THEN @ ELSE "completed"])
    /\ reply' = [reply EXCEPT ![r] = [NoReply EXCEPT !.pc = "ok", !.kind = reply[r].kind]]
    /\ UNCHANGED <<call, board, page, gets, rough, unasked>>

-----------------------------------------------------------------------------
(* The page *)

Loading == page.cur # None
Seen == LastAgent(page.view.msgs)
IsAwaiting == page.awaiting # None /\ Seen = page.awaiting
Drafted == page.view.draft # None
Asked == Seen # None /\ reply[Seen].kind = "question"

\* setSession, and the effect that ends the wait when the agent's last message is
\* another one.
Shows(got, awaiting) ==
    [page EXCEPT !.view = got.s, !.n = got.n,
                 !.awaiting = IF LastAgent(got.s.msgs) = awaiting THEN awaiting ELSE None]

Older(got) == page.view # NoSession /\ got.n < page.n

\* A request, the next one of Calls; what the server reads of it when it comes.
Ask(r, looked) ==
    /\ ~rough /\ call[r].pc = "new" /\ \A q \in Calls : q < r => call[q].pc # "new"
    /\ \E c \in looked : call' = [call EXCEPT ![r] = c]

\* The dialog opens and startSession runs.
Open(r) ==
    /\ ~page.open /\ board.goal = None
    /\ Ask(r, LookStart(r))
    /\ page' = [Closed EXCEPT !.open = TRUE, !.cur = r]
    /\ UNCHANGED <<sess, newest, rev, reply, board, gets, rough, unasked>>

\* The dialog is closed: what is on its way to it is dropped.
Close ==
    /\ page.open
    /\ page' = Closed /\ gets' = {}
    /\ rough' = (rough \/ Loading \/ \E r \in Calls : reply[r].pc \in {"told", "store"})
    /\ UNCHANGED <<sess, newest, rev, call, reply, board, unasked>>

\* handleAnswer and submitExtraContext; the controls are disabled while a request
\* runs or the agent's message is awaited.
Answer(r) ==
    /\ page.open /\ ~Loading /\ ~IsAwaiting /\ (Asked \/ Drafted)
    /\ Ask(r, LookAnswer(r, Seen))
    /\ page' = [page EXCEPT !.cur = r, !.awaiting = None]
    /\ UNCHANGED <<sess, newest, rev, reply, board, gets, rough, unasked>>

\* Fault: the draft can be confirmed while the agent works on it.
X_Confirm(r) ==
    /\ page.open /\ ~Loading /\ Drafted
    /\ Ask(r, LookConfirm(r, page.view.draft))
    /\ page' = [page EXCEPT !.cur = r]
    /\ UNCHANGED <<sess, newest, rev, reply, board, gets, rough, unasked>>

\* confirmGoal sends the fields of the draft that is shown.
Confirm(r) ==
    /\ page.open /\ ~Loading /\ ~IsAwaiting /\ Drafted
    /\ Ask(r, LookConfirm(r, page.view.draft))
    /\ page' = [page EXCEPT !.cur = r]
    /\ UNCHANGED <<sess, newest, rev, reply, board, gets, rough, unasked>>

\* Fault: an answer does not begin a wait.
X_Awaited(r) == page.awaiting

\* What is awaited is any message of the agent after the one that was answered.
Awaited(r) == IF call[r].kind = "answer" THEN call[r].about ELSE page.awaiting

\* The response to the page's request.
Arrive(r) ==
    /\ page.cur = r
    /\ \/ /\ call[r].pc = "answered" /\ call[r].kind # "confirm"
          /\ page' = [Shows(call[r].got, Awaited(r)) EXCEPT !.cur = None]
          /\ Ends(r, "ok") /\ rough' = (rough \/ Older(call[r].got))
       \/ /\ call[r].pc = "answered" /\ call[r].kind = "confirm"
          /\ page' = Closed
          /\ Ends(r, "ok") /\ UNCHANGED rough
       \/ /\ call[r].pc = "failed"
          /\ page' = [page EXCEPT !.cur = None]
          /\ UNCHANGED <<call, rough>>
    /\ UNCHANGED <<sess, newest, rev, reply, board, gets, unasked>>

\* Fault: the session is polled only while a request runs.
X_ShouldPoll == Loading

\* shouldPollSession, on a page in the foreground.
ShouldPoll == Loading \/ IsAwaiting \/ (~Asked /\ ~Drafted)

\* refreshSession every two seconds, and get_onboarding: the newest session.
Poll ==
    /\ page.open /\ ShouldPoll /\ newest # None /\ Cardinality(gets) < Room
    /\ gets' = gets \cup {Reads(newest)}
    /\ UNCHANGED <<sess, newest, rev, call, reply, board, page, rough, unasked>>

GetArrives(got) ==
    /\ page.open /\ got \in gets
    /\ gets' = gets \ {got}
    /\ page' = Shows(got, page.awaiting)
    /\ rough' = (rough \/ Older(got))
    /\ UNCHANGED <<sess, newest, rev, call, reply, board, unasked>>

Handler(r) == Send(r) \/ Store(r) \/ StoreConfirm(r) \/ Refresh(r)

Next == \/ Close \/ Poll
        \/ \E r \in Calls : \/ Open(r) \/ Answer(r) \/ Confirm(r) \/ Arrive(r)
                            \/ Handler(r) \/ Fail(r) \/ Speak(r) \/ LoadReply(r) \/ StoreReply(r)
        \/ \E got \in gets : GetArrives(got)

Spec == Init /\ [][Next]_vars

\* The server handles its requests and the agent replies to what it was told (there
\* is only so much of it to do), and the page polls and takes what arrives, each
\* answer in the end.
Fairness ==
    /\ WF_vars(Poll)
    /\ WF_vars(\E r \in Calls : Handler(r) \/ Arrive(r) \/ LoadReply(r) \/ StoreReply(r))
    /\ WF_vars(\E got \in gets : GetArrives(got) /\ \A g \in gets : got.n <= g.n)

FairSpec == Spec /\ Fairness

-----------------------------------------------------------------------------
(* Properties *)

\* A reply that was stored and is in no session any more: the handler of an answer,
\* or of another reply, wrote back the messages it had read before.
Overwritten == \E r \in Calls : reply[r].pc = "ok" /\ \A i \in Calls : By("agent", r) \notin ToSet(sess[i].msgs)

Smooth == ~rough /\ ~Overwritten

\* The agent is told one answer to each of its messages: the user cannot answer again
\* while an answer or the reply to it is under way.  Not in a rough dialog, nor when
\* the reply came before the commit of the answer and was overwritten.
AnsweredOnce ==
    Smooth => \A q, r \in {c \in Calls : call[c].kind = "answer" /\ reply[c].pc # "none"} :
                  call[q].about = call[r].about => q = r

\* Confirming takes the goal from the page's draft and the lead from the stored one:
\* they are the same draft, if the agent only replied to what it was told.  An update
\* nobody asked for replaces the stored draft while a page that shows one does not
\* poll, and confirming then mixes the two.
ConfirmedAsShown == Smooth /\ ~unasked /\ board.goal # None => board.goal = board.lead

\* Waiting for the agent ends, unless the reply was overwritten or refused.
WaitingEnds ==
    page.open /\ IsAwaiting ~> \/ ~page.open \/ ~IsAwaiting \/ Overwritten
                               \/ \E r \in Calls : reply[r].pc = "refused"
=============================================================================
