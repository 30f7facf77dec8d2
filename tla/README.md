# Flowpilot Mission Control in TLA+

Specifications of Mission Control (the backend in `src/backend/app` and two
stateful parts of the frontend), their model checking with TLC, and proofs with
TLAPS. Mission Control is a FastAPI
service over PostgreSQL and Redis that lets people and AI agents share boards of
tasks: agents work on tasks, a lead agent and administrators review them,
approvals gate what agents may do, inbound webhooks wake agents up, and a
*gateway* process outside this repository runs the agents.

File names below are relative to `src/backend/app`, those that begin with `app/`,
`components/` or `hooks/` to `src/frontend/src`; `docs:` is
`src/docs/board-onboarding-guide.md`.

## 1. Inventory

The server has no in-memory state that outlives a request, except what an open
event stream has sent. What the program *is* are its tables, one Redis list with a sorted set next to it, and the rules every
request applies on its way from a read to a commit. The hard behaviour therefore
comes from three sources: requests interleave between their statements (each
request is one READ COMMITTED transaction, or several in a row); requests and
workers end half way; and a gateway or Redis fails while the database does not.
The pages of the frontend add a fourth one: they keep a copy of what they read,
fed by streams, polls and the answers to their own requests in whatever order
these arrive.

| component | state | operations | talks to |
|---|---|---|---|
| Approvals (`api/approvals.py`, `services/approval_task_links.py`) | `approvals`, `approval_task_links` | create, update (decide, reopen), list, stream | locks task rows; notifies the lead through the gateway |
| Task board (`api/tasks.py`) | `tasks`, comments in `activity_events` | create, PATCH by lead / agent / administrator, comment, delete, stream | reads approvals and dependencies for its gates; rewrites approvals on delete |
| Task dependencies (`services/task_dependencies.py`) | `task_dependencies` | validate, replace, blocked-by, dependents | called by create, PATCH, delete |
| Webhooks and queue (`api/board_webhooks.py`, `services/queue.py`, `services/queue_worker.py`, `services/webhooks/`) | `board_webhook_payloads`, a Redis list and sorted set | ingest, enqueue, drain, pop, dispatch, requeue | gateway, Redis, database |
| Agent lifecycle (`services/openclaw/provisioning_db.py`, `api/agents.py`) | `agents` (status, token hash, last seen) | create, spawn, update, heartbeat (of the agent or sent by an administrator), token rotation, delete | gateway at every step |
| Board page (`app/boards/[boardId]/page.tsx`, `hooks/usePageActive.ts`) | list of tasks, open stream, requests under way | load, connect, merge, create, move, save, delete | task API and task stream |
| Onboarding (`components/BoardOnboardingChat.tsx`, `api/board_onboarding.py`) | session rows; session shown, awaited message | start, answer, confirm, poll, agent's update | gateway |
| Organizations (`services/organizations.py`, `api/organizations.py`, `delete_me` in `api/users.py`) | users, organizations, members, invites, board access | first login, invite, accept, grant, delete the account | user row lock |
| Event streams (`api/tasks.py`, `api/approvals.py`, `api/activity.py`, `api/board_memory.py`) | per connection: last seen time, set of seen ids | poll, send | reads tables |
| Board lifecycle (`services/board_lifecycle.py`, `api/boards.py`) | `boards` | create, update, ordered teardown | gateway, all tables of a board |
| Gateway RPC, provisioning templates, coordination, groups, memory, metrics, activity, CRUD of gateways / skills / tags / custom fields, authentication, session helpers, the rest of the frontend, MCP server | see `PROJECT.json` | | |

What makes each of the modelled parts correct, and what is hard about it:

* **Approvals.** A task has at most one pending approval on its board, although
  the check is a query and the insert comes later: `lock_tasks_for_approval` takes
  row locks in the order of ids. Reopening a decided approval must obey the same
  rule, from a status that was read without a lock. Deleting a task rewrites the
  approvals that name it, in three statements. A decision must reach the lead
  whoever else updates the approval meanwhile.
* **Task board.** Three senders have three sets of rules for one PATCH; four board
  rules gate status changes; a request makes up to three commits, and each of them
  may be the last. Done must have been earned on every path; work must not start,
  or go on, over open dependencies; a gate must not be passed while the approval
  it looks for is being written.
* **Dependencies.** The graph of a board must stay acyclic, although it is
  validated by a search of its own, and edited by a delete and an insert that
  happen after the validation.
* **Queue.** A delivery must not get lost between two Redis commands, must not be
  multiplied without bound, must stop being retried, and the worker must not sleep
  through the due time of a retry.
* **Agents.** A board has one lead, a lead gets no more workers than the board allows, an agent that
  is shown online can authenticate, a deleted agent leaves nothing on the gateway, and
  nobody stays "updating" for ever, although every request calls the gateway between
  two commits and no request takes a lock.
* **Organizations.** A new user gets one membership however many requests the first
  page sends, an invite is used once, an organization keeps an owner, and nobody is
  active where they do not belong.
* **Task stream and board page.** A change must reach the page although its event is
  committed after it and perhaps behind the time the stream has reached; the page must
  not show a task twice, nor keep a move that was refused.
* **Onboarding.** Each message of the agent is answered once, what is confirmed is what
  was shown, and the page does not wait for ever, although every handler writes back
  a list of messages it read before it called the gateway.

The hazards of the code, line by line, with the properties that watch over them,
are listed in `PROJECT.json`.

## 2. Modules

| module | models | state and actions in the code's terms |
|---|---|---|
| `ApprovalLedger` | what the approvals API promises, every request atomic | `File`, `Decide` (reopening included), `Forget` a deleted task |
| `Approvals` | create, update and delete as interleaved transactions | below |
| `MCApprovals` | TLC instances of `Approvals` | |
| `ApprovalsProofs` | proofs about `Approvals`, the refinement among them | section 6 |
| `TaskBoard`, `TaskBoardProofs` | create, PATCH and comment on one board; proofs | below, section 6 |
| `MCTaskBoard` | the request bodies each run sends | |
| `DependencyGraph` | the search for cycles, as a function of a graph | below |
| `TaskDependencies`, `TaskDependenciesProofs` | extends `DependencyGraph` by the graph of a board and its editors; proofs | below, section 6 |
| `WebhookQueue`, `WebhookQueueProofs` | ingest, Redis, worker; proofs | below, section 6 |
| `AgentLifecycle`, `MCAgentLifecycle`, `AgentLifecycleProofs` | the agents of a board and the gateway's copy of them; proofs | below, section 6 |
| `OrgMembership`, `MCOrgMembership`, `OrgMembershipProofs` | users, memberships, invites, active organizations; proofs | below, section 6 |
| `TaskStream` | requests that change tasks, their events, the stream | below |
| `BoardPage`, `BoardPageProofs` | the page that reads it; extends `TaskStream`; proofs about both | below, section 6 |
| `Onboarding`, `OnboardingProofs` | dialog, server and agent; proofs | below, section 6 |

An operator named `X_Op` or `Op_Something` next to `Op` is `Op` with one plausible fault (a
dropped `ORDER BY`, a step taken too early, a missing reset). It is used by no
action; it is kept to show that a property depends on the detail it changes:
with the fault in place of `Op`, TLC finds the property violated
(`PROJECT.json`, "mutants").

### Approvals

`status`, `links` and `primary` are the tables (`primary` is `Approval.task_id`),
`live` the tasks that exist, `holder` the row locks of `SELECT ... FOR UPDATE` and
`shared` the weaker ones (FOR KEY SHARE) that the foreign keys of an insert take.
`wr[w]` is a request between its statements: `StartCreate`, `LockNext` (row by
row, lowest id first), `CheckConflicts`, `KeyShareNext` (the rows the inserted rows refer to,
one by one in the client's order), `Insert` for create; `StartUpdate`,
`LoadTasks`, the same locks and checks if it reopens, `Save`, `Refresh`,
`Notify` for update. `del[d]` is a task deletion: `StartDelete` reads the
approvals whose primary task goes, `Unlink` deletes links and chooses new primary
tasks, `FinishDelete` flushes and commits, and fails as a whole when a foreign key
or a row count objects. `Abort` ends a request anywhere, also as the victim PostgreSQL
picks in a deadlock. `owed` is a history variable: the update whose decision the lead
has not been sent yet, or `"lost"` after a try in vain. `Notify` sends, or does not: without a
lead, its session or a gateway `_notify_lead_on_approval_resolution` returns silently
(`api/approvals.py:241`), an error of the gateway is only recorded (255), and an exception
is logged and swallowed (471).

Only a create as pending, or a reopening, comes with the ordered lock statement. A create as
approved or rejected takes its tasks' rows through its foreign keys alone, in the order of
the client's list.

Abstractions: apart from these locks a transaction's writes are flushed and committed in one
step, since nothing reads between them except through locks; the flush of a deletion
takes all its rows in that step, so that deletions take no part in `NoDeadlock`; ids are naturals in the order in
which the database sorts them; the choice of a new primary task is arbitrary
among the remaining ones; ids of tasks inside an approval's JSON payload, which
old clients send, are folded into the set of tasks.

### TaskBoard

`rows[t]` has the status, the assignee and whether `in_progress_at` is set;
`deps`, `pend`, `appr` are dependencies and approvals; `said[t]` the authors of
comments newer than the task's last start. A request goes through `Load`,
`ApplyRules` (`LeadAllowed`/`LeadRow`, `AgentAllowed`/`AgentRow`,
`DepsAllowed`/`AdminRow`), `Flush` (the UPDATE takes the row lock at the first
query of the gates), `CheckGates`, `Commit`, `Refresh`, `Comment`, `Reconcile`
and the reset of the dependents, whose rows `TakeKid` locks one by one (the ORM sends
the UPDATEs of one flush in the order of the primary keys) before `ResetDependents` commits. `Merge` writes only the attributes that differ from the loaded
ones, as the ORM does, so that a stale request overwrites exactly what it would
overwrite in the database. `AskApproval`, `DecideApproval` and `Revoke` are the
approvals API seen from a task; `AskApproval` waits for the row like the lock of
`Approvals`, and `Linkable` says of which tasks an approval is asked. `excused` is a history variable for `Ready`: the two ways in which
the code lets a task go on over an open dependency (a lead adds one to a running
task; the request that reopened it was cut off before its reset).

Abstractions: `previous_in_progress_at` is the `seen.since` of the request that
reads it; a lead's own reconciliation is left out because a lead can only move a
task out of review, which resets nobody; tags, custom fields, titles and
priorities take no part in any rule; deletion is in the other two modules. What the deletion of
an agent does to its tasks (`services/openclaw/provisioning_db.py:1823`) is in `TaskStream`, not here. The
rule `lead_only` is in the model and switched on in no run: it only takes moves away.

### TaskDependencies

`HasCycle`, in `DependencyGraph`, is the depth-first search of the code. `Dfs(edges)` is a
recursive function over the tasks that are off the path, so that the path is what is
missing; `visited` goes in and comes out with the answer, and `Visit` is the loop that
passes it from one neighbour to the next, in the order of a fold: any order, as for a
Python set. `TaskBoard` extends the same module: its `ValidDeps` runs the same search.

`Validate` reads the committed graph and runs `HasCycle`; `Clear` and `Insert` are the
delete and the insert of `replace_task_dependencies`, with what the foreign keys
and the unique constraint refuse at the flush. The rows that `Clear` deletes stay
visible to others until the commit: a concurrent delete of the same rows waits and
then finds them gone, which is the state `Kept` computes. `DeleteTask` removes rows in
both directions. Ids are UUIDs and never come back (`gone`).

### WebhookQueue

`ready` is the Redis list, `later` and `due` the sorted set before and after the
due time (`Tick`). Each Redis command of the drain is a step: `Peek`, `Push`,
`Unschedule`; `Plan` decides how long `brpop` may block, `Pop` and `TimeOut` end it.
`Notify` has the three outcomes of a notification (told, nobody to tell, refused
by the gateway); `Fail` is an exception before the message or at the commit after
it; `Requeue` counts the attempt and schedules or drops. `Interrupt` is a process
that stops and starts again, or a Redis error that makes `_run_worker_loop` start
over. `told`, `ended`, `refused`, `lost` record history for the properties.

Abstractions: time is only "due or not"; delays and jitter are positive, as the
settings make them; one drain stands for the one after a timeout and the one
before the next wait; the limit of 100 due retries per drain is not reached.
One worker is modelled, as `Makefile:147` starts (`scripts/rq worker`). The
container of `compose.yml:73` runs the command line of the `rq` package instead,
which does not call `flush_queue`; that is a matter of deployment and not of this
model.

### AgentLifecycle

`row[a]` is the row of an agent: whether it is a lead, the request that minted the
token whose hash it has, the status, and `provision_requested_at` as `pending`.
`gw[a]` is the gateway's side: whether the agent is there and the token in its files.
A request goes from step to step: `FindLead` or `CountWorkers`, `Insert`, `Apply`,
`Complete` for a create; `Mint`, `Apply`, `Complete` for an update; `Clean`, `Erase` for
a delete; `Beat`, `Store` for a heartbeat, where `Beat` is the authentication by the
token. An administrator's creation (`Add`) goes to `Insert` at once, since
`enforce_board_spawn_limit_for_lead` counts for leads only, and an administrator's heartbeat
(`Report`) needs no token of the agent. `ApplyFails` leaves the gateway in any of the states a failure there can leave,
and `Cut` ends a request anywhere. Writes are those of the ORM: a commit of a row that
is gone fails, and `Store` writes the status only where it differs from the one loaded.
`met` is a history variable, the pairs of requests that were under way together and concern
the same agent, or both create a lead, or both create a worker (`Clash`).

The code takes no locks here, so requests that overlap do break what the properties
want. Each property therefore names the overlap or the failure that it takes: two
leads are those of two requests that met, and so on. That is what an operator can
rely on (nothing goes wrong while requests come one at a time, whatever fails), and
it says exactly where the rest comes from.

Abstractions: one board; names, models and files other than the token; an agent reports
`online` or nothing; the status computed for display from the age of the last heartbeat
is not stored; the second commit of a provisioning (activity rows) has no effect here.

### OrgMembership

`role[u][o]` are the memberships, `active` is `users.active_organization_id`, `lock[u]`
the row lock of the first login. `Look`, `Adopt`, `Lock`, `Recheck`, `Join`, `Found` are
`ensure_member_for_user`; `Accept`, `ReadInvite`, `ReadMember`, `Join`, `Apply` the
acceptance of an invite; `Remove`, `Check`, `Erase` the removal of a member; `Change`,
`Find`, `Patch` a new role; `Quit`, `Count`, `Leave` the deletion of an account
(`delete_me`), which counts the members of the user's organizations one after the other,
takes those the user is alone in with it and leaves the others; `Switch`, `Create`,
`Dissolve`, `Offer`, `Revoke` the rest. `users` are the users that have a row.
The foreign key of a new membership takes a share of the user's row, so `Join` and
`Found` wait for the login that holds it (`Free`); that is why an acceptance cannot slip
between the second look of a login and its insert.

Abstractions: `delete_my_org` and the deletion of an invite are one transaction and one
step; access to single boards does not decide about membership; the administrator's
check is made on the row read at the start of the request. `delete_me` deletes the account
at Clerk first: if the rest fails the user keeps the row and the memberships, and cannot log
in. A user who registers again has a new row and is another user. A membership that is
lost and given again while `delete_me` runs counts as the one it read. That an organization
cannot be deleted because other rows refer to it (skill packs, tags, custom fields)
is one of the failures of `Cut`.

### TaskStream and BoardPage

`Write` is the commit of the row, `Record` the commit of its event, whose time was taken
earlier: another event may have a later time and be visible already. A lead's update
and the reset of a dependent commit row and event together (`Join`), and the deletion of an agent
changes its tasks without any event (`Unassign`). `Poll` is one round
of `_task_event_generator`, with the payload read at the poll and not at the event;
`conn.last` and `conn.seen` are the time reached and the ids sent. `Erase` removes the
row and its events, so that a deletion tells nobody.

`BoardPage` has the list (`cards`), with the version each card shows and whether it shows an
unanswered move (`guess`); `Deliver` merges a payload, `Answer` and `Error` do what each of the
four requests does with its answer. `Break`, `Blur`, `Focus` and `Connect` are the
reconnections, which resume from the newest time in the list. `LoadFails` is the load of
the snapshot that fails: the board stays unset, no stream is opened and nothing loads again
until the user reloads the page (`refused`). Two actions are joined:
the snapshot arrives as it is read, since nothing else changes the list before; and a
response is either taken or lost. The card of a task that was deleted elsewhere stays
until the page is loaded again, which is how the code behaves.

### Onboarding

`sess` are the rows, each named after the request that makes it, and `newest` the one updated
last, which is what every handler but `start` reads. A message is named after the request that
carries it, and the agent's reply has the same name; an update the agent was not asked for
(`Speak`, at most one of them) has a name of its own. The handlers of `api/board_onboarding.py` are split where they wait: `Look...`, `Send`
(the gateway has the message), `Store` (the commit, with the list of messages copied
before the call), `Refresh`. `LoadReply` or `Speak`, then `StoreReply`, are the agent's request: the endpoint
accepts one at any time until the session is confirmed. On the
page, `Shows` is `setSession` with the effect that ends the wait, `ShouldPoll` decides
about polling, and answers arrive in any order (`GetArrives`). `rough` records that one of
three things happened after which nothing is promised: a request failed though the agent
had its message, the dialog was closed while something was under way, or a reading
arrived after a newer one. The page asks nothing more after that, so the properties
about dialogs are about smooth ones; `Overwritten` is the state in which a stored reply
was overwritten by an older copy of the list.

## 3. Runs

| run | question | instance | states |
|---|---|---|---|
| `approvals` | do interleaved requests keep one pending approval per task, linked primary tasks, no deadlock among ordered locks, no decision that slips through untried, and implement the ledger? | 2 tasks, 2 approvals on one board, 2 decisions, 2 requests, 1 deletion | 1.8 million |
| `board` | do all senders' rules and gates together keep done earned, dependencies respected, `in_progress_at` consistent? | 2 tasks, 2 agents, 16 bodies, one request at a time, cut off anywhere | 4.1 million |
| `board_race` | do gate, UPDATE and `FOR UPDATE` leave no gap, and can updates that write a task and reset the same dependents wait in a circle? | 3 tasks, two of which may depend on the first, 2 requests and the approvals API | 1.3 million |
| `dependencies` | is the search exact on every reachable graph, does one editor at a time keep it acyclic, do deletions leave nothing dangling? | 4 tasks, 1 editor | 94 thousand |
| `webhook_queue` | is no delivery lost, multiplied or left asleep? | 2 deliveries, 3 retries (the default), 1 worker, 1 interruption | 297 thousand |
| `board_page` | what can make the page show something else than the task's row, and does it catch up otherwise? | 2 tasks, 2 requests of the page or of others (an agent's deletion among them), a load that may fail, 1 broken connection or hidden page, clock 0..1 | 535 thousand |
| `onboarding` | is each message answered once, the shown draft confirmed, and does waiting end? | 3 requests of the page with the agent's replies, one of them possibly an update nobody asked for, 2 polls on the way | 385 thousand |
| `agents` | which overlaps and failures does it take to break what a board expects of its agents? | 4 requests of any kind, 1 worker allowed | 1.7 million |
| `membership` | first login, invites, owners, active organizations, deleted accounts under interleaved requests | 2 users (one without address), 2 organizations, 1 invite, 3 requests | 1.1 million |
| `approvals_boards` | finding 1 | 1 task, 2 boards | |
| `webhook_retry` | finding 2 | 1 delivery | |
| `agents_retry` | finding 3 | 3 requests for the lead | |

Why these bounds are enough. *Approvals*: a conflict takes two approvals, two
requests and two tasks (one shared, or locked in different orders); the deletion
is the third party. Two decisions let an approval be decided twice in different
ways. For all larger instances there is the proof. *Board*: a dependency takes two
tasks; the bodies hold every status for every sender, and assignments to an agent
other than the one that works. The race is about one finished task, for which approvals are asked,
and two tasks that depend on it: two requests can then reopen it one after the other and hold
the rows of two dependents each while they wait for more. `NoUpdateCircle` fails there as soon as the
dependents' rows are taken in the order in which they were loaded.
*Dependencies*: four nodes contain the diamonds and the longest
detours on which a search with a shared visited set could go wrong.
*Queue*: two deliveries can be in one drain together; three retries are the default and
make a first, middle and last attempt; one interruption can copy a delivery, and the copies
then fail and are requeued apart. The safety properties were also checked with two
interruptions (6.9 million states, too slow to keep as a run), and both are proved for any number.
*Page*: a lost change takes one writer, one event behind the time reached and one
reconnection; two cards take a create and its event; a stale list put back takes two
moves. Two clock readings distinguish before, same time and after.
*Onboarding*: a start and two answers, or an answer and a confirmation, are what the
races between the agent's reply, the commit of the answer and the polls are made of; two
polls on the way can arrive in the wrong order. An update nobody asked for uses up one of
the requests and the room of one poll. *Agents*: two requests that overlap
and a third and a fourth that see what they left (a create, an update that fails, a
heartbeat, a delete); for more of them there is the proof. *Organizations*: two
requests race (a deletion of an account with an acceptance, say), the third prepares (an invite, a role) or looks; the initial
organizations already have their owners.

`CHECK_DEADLOCK FALSE` is set where the instance may really stop: ids of approvals
or tasks are used up, or the worker waits for a webhook that never comes.

Serial runs (`Overlap = FALSE`) still have every interleaving with crashes; they
are serial because four million states of two tasks leave no room for a second
request, and the run `board_race` has the second request.

### Fairness

Nothing is assumed of clients: no request has to be sent. `WebhookQueue!FairSpec` has weak fairness for the worker, whose loop is
`while True`, and for the clock. Redis failures and interruptions are not fair and
are bounded by `MaxInterrupts`.

`BoardPage!FairSpec` has weak fairness for what the server does with a request it was
sent, for polls of an open stream (`while True` with a sleep) and for the page's own
reactions: loading, which ends with the snapshot or with an error, connecting (the back-off
has no limit of attempts), reading its stream and taking an answer. Nobody owes it a request, and connections may break at any time.
`CatchesUp` asks for a page that is not hidden for ever, since a hidden page has
no stream, and promises nothing of a page whose load failed. `Onboarding!FairSpec` has weak fairness for handlers, for the agent's reply
to a message it was told, for the interval timer that polls, and for the arrival of
each poll's answer; it assumes nothing of the user. An agent that never replies is
outside `WaitingEnds`: no timer in the code ends that wait. `Approvals`, `TaskBoard`, `AgentLifecycle` and
`OrgMembership` have only safety properties; none of their requests waits for another one
but for row locks, which end with a transaction; that updates of tasks cannot wait in a
circle is a safety property too.

## 4. Properties

Besides one type invariant per module:

* `OnePending`, `PrimaryLinked`, `NoDeadlock`, `DecisionReported`, `LedgerSpec`
  (`Approvals`);
* `Ready`, `Stamped`, `DoneEarned` (one request at a time),
  `PendingHolds`, `NoUpdateCircle` (requests that overlap) (`TaskBoard`);
* `Acyclic` (one editor at a time), `CycleCheckExact` (`TaskDependencies`);
* `Accounted`, `CopiesBounded`, `Settles` (`WebhookQueue`);
* `OneLead`, `SpawnLimit`, `OnlineIsKeyed`, `NoOrphan`, `UpdatesEnd` (`AgentLifecycle`);
* `HomeOnce`, `InviteOnce`, `OwnerStays`, `ActiveFits` (`OrgMembership`);
* `OneCard`, `NoPhantom`, `LossOnlyBy`, `CatchesUp` (`BoardPage` with `TaskStream`);
* `AnsweredOnce`, `ConfirmedAsShown`, `WaitingEnds` (`Onboarding`).

`LossOnlyBy` is the one to read first for the streams: it lists every step with which
the page can lose sight of a task's state, and says that there is no other. An event that becomes visible
behind the time reached is one of them, because the stream selects by the time at which an event
was built and not by the order of commits; an older payload that overwrites a newer answer
is another; the deletion of an agent, which changes tasks without an event, a third.

`NoDeadlock` says that a circle of approval requests always contains a create of a decided
approval. Such circles exist: a create as approved on tasks 2 and 1, in this order, takes row 2
through a foreign key while a create as pending has locked row 1 and waits for row 2, and then
asks for row 1. PostgreSQL ends them by refusing one of the two requests. `DecisionReported` says that
every decision is tried until it was sent or a try was in vain; it does not say that the lead is
told, which is what docs:625 says: see section 5. `OwnerStays`, `SpawnLimit` and `OnlineIsKeyed`
name what takes the last owner away, goes beyond the limit, or leaves an agent online without
its token; what administrators do is among it.

Each is stated in a comment above its definition. Every one of them is violated by
one of the faults of section 2, under the same configuration.

## 5. Findings

1. *Pending approvals are unique per board only* (`approvals_boards`). The
   documentation says "Only one `pending` approval per task is allowed" (docs:605);
   the queries filter by the board of the request, and `create_approval` accepts
   tasks of other boards.
2. *A delivery the gateway refuses is not retried* (`webhook_retry`), against docs:286.
3. *Asking again for a lead does not provision it* (`agents_retry`). A comment
   (`services/openclaw/provisioning_db.py:219`) says that the row is kept "so a later retry
   can succeed"; the retry finds the row and returns it without calling the gateway.

The models also have the following behaviours of the code, which the properties
above leave room for. They are written down here because a reader of the
properties will ask.

* Two agents that loaded the same unassigned task both pass the test at
  `api/tasks.py:2079`; the second one's claim overwrites the first. Between requests that do
  not overlap the test is all there is to it, so no property is made of it.
* A decision on an approval can fail to reach the lead without a trace (a board without a
  lead, a lead without a session) or with an activity row that nobody acts on, though docs:625
  speaks of a notification without condition.
* A create of a decided approval and a create of a pending one can deadlock (section 4).
* The gate on pending approvals looks at the status a body asks for: the forced reset
  of a blocked task and the reset of dependents change the status of a task whose
  approval is pending (docs:129 speaks of any change).
* The comment that opens the gate to review is committed after the status
  (`api/tasks.py:2391`): a request cut off in between leaves a review without it.
* Two edits of the dependency graph that overlap validate against the same graph and
  together can close a cycle (`Acyclic` is checked for one editor at a time).
* `enqueue_webhook_delivery` ignores what `enqueue_task` returns, so the synchronous
  fallback of `api/board_webhooks.py:513` is not taken when Redis is down.
* An administrator may create a task with any status, and a message can be sent twice
  when the commit after it fails.
* The last owner of an organization cannot be removed, but any administrator can give
  the last owner another role (`update_org_member`), and an owner who deletes their account leaves
  an organization with other members without an owner (`api/users.py:262`); a first login by an invited user
  accepts the invite, so that the acceptance the page sends next is answered with 404.
* A task that another client deletes stays on an open board page, and one that lost its agent to a
  deletion looks unchanged there; a board page whose load failed stays empty until it is reloaded; a create whose event
  is faster than its answer is shown twice; a move that fails takes back whatever
  arrived since it began.
* Closing the onboarding dialog while `start` runs and opening it again makes two
  sessions; a start that is repeated makes the agent reply twice; a reply that is
  stored before the commit of the answer it replies to is overwritten. An update the agent sends
  unasked while the page shows a draft replaces the stored draft unseen; confirming then takes
  the goal from one draft and the lead from the other.
* Two requests for a lead that overlap make two leads, two spawns exceed the limit by
  one, administrators create workers without a limit, an administrator's heartbeat puts an agent
  online whose provisioning failed, an update and a delete that overlap leave an agent on the gateway, and a
  delete that fails after the gateway's part leaves a row shown online that cannot
  authenticate.

## 6. Proofs

`ApprovalsProofs` proves for every set of tasks, approvals, boards, requests and deletions, finite or not:

* `TypeCorrect`: `Spec => []TypeOK`;
* `Inductive`: `Spec => []IInv`; `SharesHeld`: `Spec => []ShareDiscipline`;
* `OnePendingHolds`, `PrimaryLinkedHolds`, `NoDeadlockHolds`, `DecisionReportedHolds`: the four
  safety invariants of the run `approvals`;
* `Refinement`: `Spec => LedgerSpec`.

Apart from a hypothesis of `NoDeadlockHolds` (below) they assume `ApprovalsAssumption` only: ids of tasks are naturals, each approval has
a board, and the null value and the states outside the API are not decisions.

Why `OnePending` is not inductive: between its check and its commit a request
relies on nobody else making an approval pending for its tasks. `IInv` adds what the
code relies on: locks belong to running requests and to tasks they asked for
(`LockDiscipline`), a create owns its id and an update a row that exists
(`RowOfRequest`), a reopening request locks every task its approval counts
against (`Covered`), a request that has checked holds every live task of it and
there is still no conflict (`Checked`), and a chosen heir stays linked while it is
alive (`HeirLinked`, for `PrimaryLinked`). `Checked` survives another request's
write because that request would have to hold a task that this one holds; it
survives a deletion because deletions only take links away; and
`TasksOf` falls back to the primary task only where there is no link, in which
case `PrimaryLinked` says that there is none. The proof has one step per action;
the lemmas `LocalStep`, `EndStep`, `WriteRow`, `DeleterLocalStep` and `DeleteRow`
group the actions by what they change.

The refinement adds one invariant, `OrphansAreDeleted`: an approval that a running
deletion found as its task's own, and that has no link left, has been deleted. With it the
approvals a deletion removes are exactly those that named nothing but the task, which
is the ledger's `Forget`.

Three more invariants sit beside `IInv`. `ShareDiscipline`: the weaker locks belong to creates that are
inserting, so that requests in their lock statement have none. `LockOrder`: a request that is still locking
holds only ids below the ones it is yet to take. `NoDeadlockHolds` takes a circle of
requests that all come with the lock statement. One that inserts already has every row it
needs, so all are still locking; of the rows they wait for, the greatest one is held by one of
them, who waits for a greater one. That argument needs a greatest element, so the
theorem assumes that every nonempty set of tasks has one, which is true of finite
sets. `ReportsOwed` is `DecisionReported` and that only a decision is owed: without it
an update that puts an approval back to pending could not be told from one that
still has something to report. A try that failed is `"lost"` and nobody's to report.

`WebhookQueueProofs` assumes `WebhookQueueAssumption` (finitely many payloads, bounds that
are naturals) and proves

* `TypeCorrect`: `Spec => []TypeOK` for any number of workers. The cap on attempts is
  in the type, so this is where `Exhausted` is used; that a batch can be put in an
  order rests on the finiteness of the set of envelopes;
* `AccountedHolds`: `Spec => []Accounted` if there is one worker. `Accounted` alone is
  not inductive: `Unschedule` takes retries out of the set, so `QueueInv` adds that
  what a worker is about to take out is in the list. With two workers the other one
  could have popped it, and could have been interrupted;
* `CopiesBoundedHolds`: `Spec => []CopiesBounded` if there is one worker. `CopyInv` counts
  what the list, the set and the worker keep, and adds that the batch of a drain is still in
  the set and, once pushed, in the list as often, so that the only step that adds a
  copy is an interruption between push and removal, which at most doubles them.

The bound in `CopiesBounded` is a power of two because the proof asked for it. One copy more per
interruption looks right and passes with one retry: but copies of one delivery fail and are
requeued with different counts of attempts, can then be in one drain together, and an
interruption of that drain copies each of them. With the three retries of the default
settings TLC finds it.

`TaskBoardProofs` assumes `TaskBoardAssumption` (the bodies and rules are of their types, agents are
neither leads nor administrators); that tasks are finitely many, which the module takes over
from `DependencyGraph`, no proof about the board uses. For requests that overlap and are cut off
anywhere it proves

* `TypeCorrect`: `Spec => []TypeOK`;
* `PendingGateHolds`: `Spec => PendingHolds`. `RaceInv` adds that a request that has flushed
  its UPDATE holds the row (`Held`), that it writes the status only to change it (`Decided`),
  and that what the gate found stays so until the commit (`Gated`), because
  whoever makes an approval pending for the task waits for that row.

`UpdatesNeverCircle` is `Spec => []NoUpdateCircle`, provided every nonempty set of tasks has
a greatest id: a request that waits for its own task holds no row, so a circle consists of
requests that reset dependents, each of which holds only rows below the one it waits for. It is about updates
among themselves. The approvals API and deletions lock several rows as well, and the
events an update writes lock its tasks once more through their foreign keys; circles of
updates with those are possible and not excluded here.

With the hypothesis `~Overlap`, under which the run `board` checks the same properties, it proves

* `ReadyToWork`: `Spec => []Ready`; `StampsGo`: `Spec => []Stamped`;
* `DoneIsEarned`: `Spec => DoneEarned`.

`SerialInv` is `RaceInv` with `Fresh`, which says at every point of a request what
it has read and decided that is still so: `Fit`, what each sender was allowed to ask, is what
becomes of the rules after the step that applied them. The hypothesis is not for the
prover's sake: requests that overlap decide on rows that others have changed, and violate the
three.

`OrgMembershipProofs` assumes `OrgAssumption` and proves for any users, invites and number of
requests `TypeCorrect`, `LoginsGiveOneHome` (`HomeOnce`), `InvitesOnce` (`InviteOnce`),
`OwnersStay` (`OwnerStays`) and `ActivesFit` (`ActiveFits`). The lemma `StepForm` says of every action
which of a few changes it makes. `HomeOnce` rests on `Locks`: a login past its lock holds the
user's row and the user has no membership, until it gives one. The three others are
about overlaps, so `IInv` says of each request under way that what it has read is still
so or that it has met the one who changed it (`Vouchers` for invites, `Actives` for the active organization,
`Ownership` for roles). Who deletes their account needs no overlap to leave an organization without an owner;
the request keeps the organizations it left as an owner, and `Ownership` excuses those. `Foundations` keeps an organization from being founded twice.

`BoardPageProofs` assumes `TaskStreamAssumption` and `BoardPageAssumption` and proves for any tasks, requests,
breaks and clock readings

* `TypeCorrect`, `CardsAreSingle` (`OneCard`) and `GuessesEnd` (`NoPhantom`), with `BoardInv`. A move that fails
  puts a kept list back, so every part about the list shown is also said of every list
  a move keeps (`Lists`), and a kept list has no guess of the move that keeps it (`Undone`);
* `LossIsExplained`: `Spec => LossOnlyBy`, one lemma per action. `StreamInv` adds that a closed stream delivers nothing
  (`Quiet`), that what it carries is not newer than the row (`Behind`), and that a request has no event, and
  none was sent, before it records one (`Unlogged`): without the last the page could
  believe an event seen that was never sent.

The proofs about lists use a filter by positions (`Others`) where the code has `filter`: the
community modules' `SelectSeq` is recursive and tells the provers nothing.

TLC checks the inductive invariants too, on the instances of the runs: `IInv` of
`OrgMembership` on `membership`, that of `AgentLifecycle` on `agents`, `SerialInv` on `board`,
`RaceInv` on `board_race`.

`TaskDependenciesProofs` assumes `TasksAssumption` (finitely many tasks) and proves for any
number of editors

* `TypeCorrect`: `Spec => []TypeOK`. The invariant remembers that an accepted edit does
  not ask its task to depend on itself, which is tested long before the commit; that no row
  dangles is what the foreign keys at `Insert` and both directions of `Detached` give;
* `HasCycleIsExact`: for every set of nodes and every graph among them,
  `HasCycle(nodes, edges) <=> Cyclic(edges)`;
* `CycleCheckExactHolds`: `Spec => []CycleCheckExact`, from the two above;
* `AcyclicHolds`: `Spec /\ []Alone => []Acyclic`.

`HasCycleIsExact` is about a recursive function, and is proved without an induction rule:
the strict subsets of a finite set are well founded, so that among the sets of which a
statement fails there is one none of whose members can be spared (`Smallest`). The lemma
gives first that the recursion has a solution (`SubsetRecursion`; of two solutions, a smallest
set where they differ shows there is none, `SolutionsAgree`), hence that `Dfs` satisfies its
equation (`DfsEquation`); then that a fold is a walk through the set one by one
(`VisitsOneByOne`); then, over the tasks off the path, what a search returns (`DfsIsRight`).
What it returns is `Right`: if it found nothing, the tasks it visited and left are
`Explored`, that is, their dependencies were left too and there is no cycle among them; if it found
something, there is a cycle. The second half needs the path to be one: from each of its tasks one can
go on along the path (`LeadsTo`). The visited set is shared among start nodes, and `Explored` is what
makes that sound: a task that was left cannot be on a cycle with one that is still to come.
With either fault of `DependencyGraph` in place of `Dfs` the property fails in TLC.

In `AcyclicHolds`, `Alone` says that no two edits are under way at once; when they are, the
property is false (section 5). Tasks are created and deleted at any time. `Fits` is what the
validation leaves behind and keeps until the commit: laid over the graph as it is now, the
edit still closes no cycle, because creations add edges only at a task nobody depends on
(`NewSource`) and deletions only take some away (`FewerEdges`); and the rows the edit is to
replace are all among those it saw.

`AgentLifecycleProofs` assumes `AgentAssumption` (finitely many requests, since the limit
counts; `None` is none of them) and proves for any number of requests and any limit

* `TypeCorrect`: `Spec => []TypeOK`;
* `LeadsMet`, `LimitKept`, `NoneOrphaned`, `MarksExplained`, `OnlineCanAuthenticate`: the
  five other properties of the run `agents`. `LimitKept` is about steps: the insert of a worker
  for the lead.

None of them is inductive: what a request does depends on what it has seen and on what
others were doing since. The invariant adds, for each property, what a request that
is under way has already left behind. `Overlap` says that any two requests that are both
under way have met. `LeadInv` says that a request for a lead that found none has met
every lead there is now, so that its insert keeps `OneLead`; `WorkInv` that the workers a spawning
request has not met are still below the limit as long as it has not inserted its own, whoever
created them, so that its insert keeps `SpawnLimit`. `Orphans`, `Marks` and `Keyed`
say of every agent how it came into a state the property forbids: which request is still
going to repair it, or which one failed or overlapped. The lemma `StepForm` turns every
action into one of a few forms (which fields of one row, of one gateway agent and of one
request change), and each part is preserved by every form.

`OnboardingProofs` assumes `OnboardingAssumption` (requests are numbered, `None` is none of them)
and proves for any number of requests and of polls on their way

* `TypeCorrect`: `Spec => []TypeOK`;
* `AnsweredOnceHolds`: `Spec => [](~unasked => AnsweredOnce)`;
* `ConfirmedAsShownHolds`: `Spec => []ConfirmedAsShown`, whose definition asks for `~unasked` too.

Both are about dialogs in which the agent sent only what it was asked for. That an unasked update does not
make the page answer a message twice is only model-checked, with one such update.

`Shape` holds of every dialog: which fields a request has at which place, that a list with
messages belongs to a session that exists, that only replies that were stored are in a list.
`Sane` holds of the dialogs that are not `Broken`: not rough, without an update nobody asked for, and every
stored reply still in some list, be it a handler's copy (`Kept`). A broken dialog stays broken (`BrokenStays`), so the
inductive invariant is `Shape /\ (~Broken => Sane)`, and `Smooth`, which the properties ask for,
implies `~Broken` as long as nothing came unasked. The parts of `Sane`: one request runs at a time and the agent has one
message at a time (`Turns`); a reply is in one session, and the session that waits for the
agent is the newest (`Threads`); the lists copied by handlers differ from the stored one only
in what the handler adds, or the reply came first and the commit will break the dialog
(`Copies`); the reading the page shows and every reading on its way that it may still take
either makes it wait or is up to date with an idle agent (`Views`, `Settled`); what was answered
and replied to is the last word of no session (`MovedOn`), and a page whose answer was refused
waits (`Refused`). `Settled` is where the design of the page is put to the test: it compares
the agent's last message and does not count messages, and it takes readings in the order in
which they arrive. `SettledKeeps`, `SettledDone`, `SettledPoll` and `SettledShown` are the four
ways in which a step can touch it. `AnsweredOnce` follows from `Distinct`, `ConfirmedAsShown`
from `Agreed`. TLC checks the whole invariant on the run's instance.

Every safety invariant and every action property of the passing runs is stated by a theorem,
`AnsweredOnce` for dialogs without an unasked update.
Only model-checked: the liveness properties `Settles`, `CatchesUp` and
`WaitingEnds`. Reasoning from fairness needs `ENABLED`, which is outside what the
installed provers do.

## 7. Plan

Done: the modules of section 2 and the proofs of section 6. What remains, in order of
what it would add:

1. `BoardLifecycle`: the teardown of a board over its agents, composed with
   `AgentLifecycle`; the gateway's part is done agent by agent before the rows go.
2. The approval and memory streams with their panels. They have the shape of
   `TaskStream`, but select by two times (`api/approvals.py:290`), so that a
   reopened approval is not sent.
3. A second dialog of the same board in `Onboarding`, and template synchronisation in
   `AgentLifecycle`.

## 8. Not modelled

Reading endpoints, pagination, formatting and templates; the gateway protocol;
CRUD without rules between requests; authentication of users (a model takes its outcome
as the sender of a request); the MCP server, which translates calls one to one. Of the
frontend, the generated API client (`src/frontend/src/api/generated`, one `fetch` per
function) and the views over single queries: they make most of the TypeScript in the
repository, and what they do between two requests is the cache of one query. State
that several requests or a stream write to is in two places, the board page and the
onboarding dialog; both are modelled, the board page without its comments, approvals, chat, live
feed and edit form. The models therefore stand for a small share of the frontend's lines
and for the part of the backend that has rules between requests. `PROJECT.json` lists
every part with the reason.
