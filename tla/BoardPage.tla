------------------------------ MODULE BoardPage ------------------------------
(***************************************************************************)
(* The board page (src/frontend/src/app/boards/[boardId]/page.tsx) beside  *)
(* the server it reads: the list of cards, the task stream with its        *)
(* reconnections, and the page's own requests, which change the list when  *)
(* they are sent (a move), when they are answered and when they fail.      *)
(*                                                                         *)
(* The selected task is a copy kept beside the list and merged like a      *)
(* card; it is not modelled, and a save or a delete may name any card.     *)
(***************************************************************************)
EXTENDS TaskStream

CONSTANTS PageJobs,   \* requests this page sends, numbered in the order it sends them
          MaxBreaks   \* bound: connections broken, and times the page loses focus

ASSUME BoardPageAssumption == PageJobs \subseteq Jobs \cap Nat /\ MaxBreaks \in Nat

VARIABLES cards,   \* tasks: what the list shows
          loaded,  \* the board snapshot has arrived
          refused, \* the request for the snapshot has failed
          active,  \* isPageActive
          page,    \* page[j]: the page's side of a request
          breaks   \* connections broken so far

pageVars == <<cards, loaded, refused, active, page, breaks>>
vars == <<clock, row, job, log, conn, cards, loaded, refused, active, page, breaks>>

Acts == {"create", "move", "save", "delete"}

\* A card; guess is the unanswered move whose status it shows, if any.
Card == [task : Tasks, ver : Nat, at : 0..MaxClock, guess : PageJobs \cup {None}]

TypeOK ==
    /\ StreamTypeOK
    /\ cards \in Seq(Card)
    /\ {loaded, refused, active} \subseteq BOOLEAN
    /\ page \in [PageJobs -> [st : {"idle", "waiting", "ok", "error"}, act : Acts, undo : Seq(Card)]]
    /\ breaks \in 0..MaxBreaks

Init == /\ StreamInit
        /\ cards = <<>>
        /\ loaded = FALSE /\ refused = FALSE /\ active = TRUE
        /\ page = [j \in PageJobs |-> [st |-> "idle", act |-> "move", undo |-> <<>>]]
        /\ breaks = 0

-----------------------------------------------------------------------------
(* What the page has *)

Shown == {cards[i].task : i \in DOMAIN cards}
First(t) == Min({i \in DOMAIN cards : cards[i].task = t})

\* Fault: the payload itself becomes the card.
X_Copy(p, g) == p

Copy(p, g) == [task |-> p.task, ver |-> p.ver, at |-> p.at, guess |-> g]
Replaced(p) == [i \in DOMAIN cards |-> IF cards[i].task = p.task THEN Copy(p, None) ELSE cards[i]]
Waiting(act) == \E j \in PageJobs : page[j].st = "waiting" /\ page[j].act = act

\* latestTaskTimestamp, and the server's clock when there is no task.
Newest == Max({cards[i].at : i \in DOMAIN cards})
Since == IF cards = <<>> THEN clock ELSE Newest

-----------------------------------------------------------------------------
(* Loading and streaming *)

\* loadBoard.  The page does nothing between the snapshot and its arrival.
LoadBoard ==
    /\ ~loaded /\ ~refused /\ loaded' = TRUE
    /\ cards' = SetToSeq({[task |-> t, ver |-> row[t].ver, at |-> row[t].at, guess |-> None] :
                             t \in {u \in Tasks : row[u].live}})
    /\ UNCHANGED <<clock, row, job, log, conn, refused, active, page, breaks>>

\* The snapshot is refused or lost: the board stays unset, nothing asks for it again and
\* no stream is opened, but the page can still be used.
LoadFails ==
    /\ ~loaded /\ ~refused /\ refused' = TRUE
    /\ UNCHANGED <<clock, row, job, log, conn, cards, loaded, active, page, breaks>>

\* Fault: a stream that ended is not opened again.
X_Connect == /\ loaded /\ active /\ breaks = 0
             /\ Open(Since)
             /\ UNCHANGED pageVars

\* connect: the first time, when the page is active again, and after the back-off.
Connect == /\ loaded /\ active
           /\ Open(Since)
           /\ UNCHANGED pageVars

Break == /\ breaks < MaxBreaks /\ breaks' = breaks + 1
         /\ Close
         /\ UNCHANGED <<cards, loaded, refused, active, page>>

\* usePageActive: a hidden page closes its stream and opens another later.
Blur == /\ active /\ breaks < MaxBreaks
        /\ active' = FALSE /\ breaks' = breaks + 1
        /\ conn' = Closed
        /\ UNCHANGED <<clock, row, job, log, cards, loaded, refused, page>>

Focus == /\ ~active /\ active' = TRUE
         /\ UNCHANGED <<clock, row, job, log, conn, cards, loaded, refused, page, breaks>>

\* Fault: the list is not searched before the task is put in front.
X_Merged(p) == <<Copy(p, None)>> \o cards

\* The first card of the task takes the payload, or a new card is put in front.
Merged(p) == IF p.task \in Shown THEN [cards EXCEPT ![First(p.task)] = Copy(p, None)]
                                 ELSE <<Copy(p, None)>> \o cards

\* A task event arrives.
Deliver ==
    /\ conn.up /\ conn.pipe # <<>>
    /\ cards' = Merged(Head(conn.pipe))
    /\ conn' = [conn EXCEPT !.pipe = Tail(@)]
    /\ UNCHANGED <<clock, row, job, log, loaded, refused, active, page, breaks>>

-----------------------------------------------------------------------------
(* The page's own requests *)

Ask(j, act, k, t) ==
    /\ loaded \/ refused
    /\ page[j].st = "idle" /\ \A i \in PageJobs : i < j => page[i].st # "idle"
    /\ Request(j, k, t)
    /\ page' = [page EXCEPT ![j] = [st |-> "waiting", act |-> act,
                                    undo |-> IF act = "move" THEN cards ELSE <<>>]]
    /\ UNCHANGED <<clock, row, log, conn, loaded, refused, active, breaks>>

\* handleCreateTask, handleTaskSave and handleDeleteTask wait for the answer, with
\* their button disabled.
StartCreate(j, t) == ~Waiting("create") /\ Ask(j, "create", "create", t) /\ UNCHANGED cards
StartSave(j, t) == t \in Shown /\ ~Waiting("save") /\ Ask(j, "save", "update", t) /\ UNCHANGED cards
StartDelete(j, t) == t \in Shown /\ ~Waiting("delete") /\ Ask(j, "delete", "delete", t) /\ UNCHANGED cards

\* handleTaskMove shows the new status at once and keeps the whole list aside.
StartMove(j, t) ==
    /\ t \in Shown
    /\ Ask(j, "move", "update", t)
    /\ cards' = [i \in DOMAIN cards |-> IF cards[i].task = t THEN [cards[i] EXCEPT !.guess = j] ELSE cards[i]]

\* The cards of other tasks, in their order.
Others(t) ==
    LET keep == {i \in DOMAIN cards : cards[i].task # t}
        nth(n) == CHOOSE i \in keep : Cardinality({k \in keep : k <= i}) = n
    IN  [n \in 1..Cardinality(keep) |-> cards[nth(n)]]

\* The list after the answer to a request.
AfterAnswer(j) ==
    LET act == page[j].act
    IN  IF act = "create" THEN <<Copy(job[j], None)>> \o cards
        ELSE IF act = "delete" THEN Others(job[j].task)
        ELSE Replaced(job[j])

\* The answer carries the row as this request left it.
Answer(j) ==
    /\ page[j].st = "waiting" /\ job[j].pc = "recorded"
    /\ page' = [page EXCEPT ![j].st = "ok", ![j].undo = <<>>]
    /\ cards' = AfterAnswer(j)
    /\ UNCHANGED <<clock, row, job, log, conn, loaded, refused, active, breaks>>

\* Fault: a move that failed is left in the list.
X_AfterError(j) == cards

\* The list after a request that failed: a move puts back the list it kept.
AfterError(j) == IF page[j].act = "move" THEN page[j].undo ELSE cards

\* The request was refused, or its answer did not arrive: the page cannot tell.
Error(j) ==
    /\ page[j].st = "waiting"
    /\ page' = [page EXCEPT ![j].st = "error"]
    /\ cards' = AfterError(j)
    /\ UNCHANGED <<clock, row, job, log, conn, loaded, refused, active, breaks>>

Settle(j) == Answer(j) \/ (job[j].pc = "failed" /\ Error(j))

\* A request of somebody else.
Elsewhere(j, k, t) == /\ j \notin PageJobs
                      /\ Request(j, k, t)
                      /\ UNCHANGED <<clock, row, log, conn>> /\ UNCHANGED pageVars

Server == (Tick \/ Poll \/ \E j \in Jobs : Handle(j)) /\ UNCHANGED pageVars

Next == \/ Server
        \/ LoadBoard \/ LoadFails \/ Connect \/ Break \/ Blur \/ Focus \/ Deliver
        \/ \E j \in PageJobs : Answer(j) \/ Error(j)
        \/ \E j \in PageJobs, t \in Tasks : StartCreate(j, t) \/ StartMove(j, t) \/ StartSave(j, t) \/ StartDelete(j, t)
        \/ \E j \in Jobs, k \in Kinds, t \in Tasks : Elsewhere(j, k, t)

Spec == Init /\ [][Next]_vars

\* The server handles what it was sent and polls; the page's load ends, one way or the
\* other, and the page connects, reads its stream and takes its answers.  Nobody owes it
\* a request, a focus, a break or a load that succeeds.
Fairness ==
    /\ WF_vars(LoadBoard \/ LoadFails) /\ WF_vars(Connect) /\ WF_vars(Deliver)
    /\ WF_vars(Poll /\ UNCHANGED pageVars)
    /\ \A j \in Jobs : WF_vars(Handle(j) /\ UNCHANGED pageVars)
    /\ \A j \in PageJobs : WF_vars(Settle(j))

FairSpec == Spec /\ Fairness

-----------------------------------------------------------------------------
(* Properties *)

\* The page shows something else than the task's row.
Stale(t) ==
    /\ loaded /\ row[t].live
    /\ \/ t \notin Shown
       \/ cards[First(t)].ver # row[t].ver \/ cards[First(t)].guess # None

\* Something is under way that will put it right.
OnItsWay(t) ==
    \/ \E j \in Jobs : job[j].task = t /\ job[j].pc = "written"
    \/ \E e \in IF conn.up THEN Unseen ELSE {e \in log : e.ts >= Since} : e.task = t
    \/ \E i \in DOMAIN conn.pipe : conn.pipe[i].task = t /\ conn.pipe[i].ver = row[t].ver
    \/ \E j \in PageJobs : page[j].st = "waiting" /\ job[j].task = t

Gone(t) == Stale(t) /\ ~OnItsWay(t)

Late == \E e \in log' \ log : e.ts < IF conn.up THEN conn.last ELSE Since

\* A payload older than the card it will replace, which an answer made newer.
Older(p) == p.task \in Shown /\ p.ver < cards[First(p.task)].ver

\* The steps after which a task's state may be lost.
Losing(t) ==
    \/ conn.up /\ ~conn'.up
    \/ Late
    \/ \E j \in Jobs : job[j].task = t /\ job[j].pc = "written" /\ job'[j].pc = "failed"
    \/ \E j \in Jobs : /\ job[j].task = t /\ job[j].kind = "silent"
                       /\ job[j].pc = "sent" /\ job'[j].pc = "recorded"
    \/ cards = <<>>
    \/ conn.pipe # <<>> /\ conn'.pipe = Tail(conn.pipe) /\ Older(Head(conn.pipe))
    \/ \E j \in PageJobs : /\ page[j].st = "waiting"
                           /\ \/ page'[j].st = "error" /\ page[j].act = "move"
                              \/ page'[j].st = "error" /\ job[j].task = t
                              \/ page'[j].st = "ok" /\ (job[j].task = t \/ ~conn.up)

\* The page loses sight of a task's state only when its stream ends, when an event
\* is committed behind the time reached, when a request is cut off between row and
\* event, when the deletion of an agent changes the task, when the list is still
\* empty, when an older payload overwrites what an answer brought, when a move fails
\* and the whole list goes back, and when an answer about the task itself comes late
\* (or, without a stream, any answer moves the time to resume from).
LossOnlyBy == [][\A t \in Tasks : Gone(t)' /\ ~Gone(t) => Losing(t)]_vars

\* Nothing that is under way stays there: on a page whose load did not fail, once nobody
\* hides it any more, each task is shown as it is, or its state was lost by one of the
\* steps above.
CatchesUp == <>[]active => \A t \in Tasks : <>[](refused \/ (loaded /\ (~Stale(t) \/ Gone(t))))

\* Two cards of one task appear only when this page created the task.
OneCard ==
    \A i, k \in DOMAIN cards : i # k /\ cards[i].task = cards[k].task =>
        \E j \in PageJobs : page[j].st = "ok" /\ page[j].act = "create" /\ job[j].task = cards[i].task

\* A move that was answered or refused leaves no trace in the list, unless another
\* move that failed had kept a list with it.
NoPhantom ==
    \A i \in DOMAIN cards :
        cards[i].guess # None /\ page[cards[i].guess].st # "waiting" =>
            \E k \in PageJobs : /\ k # cards[i].guess /\ page[k].st = "error"
                                /\ \E c \in ToSet(page[k].undo) : c.guess = cards[i].guess
=============================================================================
