# CollabAgent: a TLA+ model of the agent daemon, its workers, the server and the web client

CollabAgent lets people and AI agents share channels.  A Fastify **server** keeps
messages, tasks, reminders and dispatches in PostgreSQL and talks over websockets
to a Vue **web** client and to **daemons** that run on the owners' machines.  A
daemon runs one agent process per agent: Claude Code, or a *bridge* worker in
Python that speaks SARP/1, a JSONL protocol, and wraps LangChain or LangGraph.

What is hard in this system: the daemon is one JavaScript process with many
awaits, child processes that hang and die, a retry policy, a journal on disk that
makes retries idempotent; the server's handlers ask the database in one statement
and act in another; the client keeps a copy of what it was sent over a connection
that comes and goes.  Those parts are modelled here, the daemon first.

## 1. Inventory

Paths are relative to the repository; `D/` is `packages/daemon/src/`, `S/` is
`packages/server/src/`, `W/` is `packages/web/src/`, `B/` is
`bridges/python/slock_runtime/`.

### Daemon

| Part | State | Operations | What makes it correct |
|---|---|---|---|
| Dispatch queue `D/agent-dispatch-queue.ts` | per agent: buckets (pending, inflight, recentContents), `draining`, `retryTimer`, `epoch`; `doneResolvers` | enqueue, drain, the then/catch/finally handlers of a delivery, the retry timer, clear, dispose | one delivery at a time; no lost wake-up; order; every done promise resolves once; clear is a cut; dedup swallows copies and nothing else; bounded attempts |
| Agent runtime `D/agent-runtime.ts`, `agent-runtime-state.ts` | the five-state machine and its startup timer, `stopGeneration`, registration maps, `persistentSessions`, `sessionIdentities`, `credentialIssuedAt` | register, unregister, load, stop, stopAll, cancelTurn, profile invalidation | a halt reaches whatever runs; no orphan process; the state shown is the truth |
| Dispatch pipeline `D/agent-runtime-dispatch.ts`, `-headless.ts` | one dispatch: halt generation, `needsSpawn`, the session it holds, the turn | context, mint, bundle, create session, enter working, send, bookkeeping of interrupts | no dispatch outruns a halt; sessions are created prepared and once; every dispatch ends |
| Idle reclaimer `D/idle-reclaimer.ts` | last activity per agent | touch, untrack, scan | never takes a session from a dispatch |
| SARP driver `D/drivers/persistent-jsonl-worker.ts` | handshake state, active turn, silence, stop and cancel timers, process generation | send, frames in, cancelTurn, stop, kill, exit | each turn settles once; frames of one turn never reach another |
| Claude driver `D/drivers/persistent-claude.ts` | message queue, pump, turn timer, resume that may fail | send, stdout, stop | one turn on the pipe; a failed resume requeues the turn once |
| Interrupt store `D/agent-runtime-interrupt-store.ts` | pending resume token per conversation (file) | put, take, delete, clear | a token that was sent is not kept, one that was not is not lost, the owner sees what waits |
| Turn guards and progress `D/agent-runtime-dispatch-stream.ts`, `agent-progress.ts` | guard and progress per agent | arm, events, turn.end, abort | a guard belongs to the turn that armed it; the channel gets one answer |
| Crash guard `D/agent-runtime-crash-guard.ts` | consecutive failures, cooldown | check, recordFailure, recordSuccess | a crash loop is cut, a healthy agent is not |
| Cost ledger `D/agent-cost-tracker.ts`, `cost-reporter.ts` | ledger file, baselines, pending reports | record, evaluate, report | no turn lost or counted twice, here and on the server |
| Process supervision `D/supervisor.ts`, `exit-coordinator.ts`, `live-run-registry.ts` | the daemon child, restart timer; live runs, exit entries | spawn, exit, restart, stop | the project keeps one daemon |
| Connection `D/client.ts`, `daemon-core.ts`, `handlers/` | socket, reconnect timer | connect, ready, inbound commands | one connection; the daemon answers for the agents on duty |

### Bridge worker

`B/runtime.py` has a reader loop and one handler thread; `B/idempotency.py` keeps
the turn journal and the resume tokens in sqlite.  Operations: turn.start,
turn.cancel, shutdown, end of input; run, issue token, record, emit, release.
Correct when: a finished turn is never run again, a token starts one run, a
result is durable before it is sent.  `B/langgraph.py` runs a turn on a graph
thread whose messages are saved after every node, mends what a broken turn left,
and resumes what waits for an approval; correct when the provider is never given
a list it refuses and no gated call runs unapproved.  `B/langchain.py`, `B/mcp.py`
call into frameworks.

### Server

| Part | State | What makes it correct |
|---|---|---|
| Task board and dispatch contracts `S/routes/tasks.ts`, `agents-tasks.ts`, `agents-dispatch.ts`, `S/lib/dispatch-sync.ts` | message rows as cards, dispatch rows, the numbering lock | one number per task, one holder, one acceptance of a report |
| Reminders `S/lib/reminder-scheduler.ts`, `S/routes/agents-reminders.ts` | reminder rows, claims of ticks | a patrol nobody answers is cut, a recurring one goes on, missed slots are skipped |
| Websocket hub and presence `S/ws/handler.ts`, `S/lib/presence.ts` | slots, metadata, presence members, browser connections | one slot per machine, an open daemon is reachable |
| Agents and duty `S/routes/agents-public.ts`, `S/lib/agent-duty.ts` | agent rows with the wish to be on duty | the daemon answers for those and no others |
| Orgs, members, invites `S/routes/orgs.ts`, `S/lib/orgs.ts` | orgs, roles, invites, homes of agents | seats are counted, an org goes to a member, agents stay at home |
| Attachments `S/lib/upload.ts`, `attachment-gc.ts` | rows, stored objects | the chain from a message to its bytes holds |
| Messages, channels, notifications `S/routes/messages.ts`, `agents-messages.ts`, `channels.ts`, `S/lib/pubsub.ts` | message rows, one sequence; seats of agents; frames between instances | a repeated send is one message; whom it calls is woken, once, and no one else |
| Authentication `S/routes/auth.ts`, `S/lib/login-lock.ts` | sessions, refresh tokens, lock counters | not modelled |

### Web

`W/stores/messageStore.ts` and `W/lib/wsManager.ts`: the queue of unsent drafts;
live messages, reconnect and backfill by sequence number.  The rest is view code.

### How the parts interact

    browser <--ws--> server --ws--> daemon handlers --> dispatchToAgent --> dispatch queue
       |  drafts, feed,   |  duty, messages,  |                                 | deliver(batch)
       |  prompts         |  prompts        stop, register                      v
       v                  v                   |                 doDispatch -> dispatchHeadlessTurn
    message store     PostgreSQL              v                                 | send(turn)
                                      agent runtime (halt) --stop()-->  session (SARP or Claude driver)
                                                                                | JSONL over pipes
                                                                                v
                                                      bridge worker -- sqlite journal, graph thread

The queue calls `deliver` and gets a promise; the dispatch inside it awaits the
server (context, credential), disk and the session.  A halt moves the stop
generation, clears the queue, tears the session down, all in one task, and the
dispatch notices at its next check.  The worker sees frames in order; the
daemon may give up on it at any time.  The journal and the graph thread survive
both.  A worker that asks for an approval ends its turn; the daemon files the
prompt, the server's page shows it, and the next turn of the conversation carries
the token back.  The server tells the daemon of agents and prompts over a socket
that loses what is sent while it is down.

`PROJECT.json` lists the hazards of this code one by one, at their lines, with
the properties that cover them.

## 2. Modules

| Module | Models | Checked in | Proofs |
|---|---|---|---|
| `DispatchPromise` | what the queue promises its callers, abstractly | `queue_safety` | `DispatchQueueProofs` |
| `DispatchQueue` | one agent's entry of the dispatch queue | `queue_*` | `DispatchQueueProofs` |
| `BridgeTurn` | one conversation of a bridge agent: bucket, SARP session, interrupt store, worker generations, sqlite | `bridge_*` | `BridgeTurnProofs` |
| `MessageWake` | one message from the send route over the instances to the agents it wakes | `bridge_safety` | `BridgeProofs` |
| `GraphThread` | the LangGraph thread of one conversation over turns that break | `bridge_safety` | `BridgeProofs` |
| `Approvals` | prompts on their way to the owner, answers on their way back | `bridge_safety` | `BridgeProofs` |
| `AgentLifecycle` | one agent: state machine, halts, one dispatch with its awaits, sessions, reclaimer, startup timer | `daemon`, `lifecycle_edit_spawn` | `DaemonProofs` |
| `SessionContract` | what the dispatcher may rely on in any session, abstractly | `daemon` | `SessionProofs` |
| `SarpSession`, `ClaudeSession` | the two session drivers, each an implementation of `SessionContract` | `daemon` | `SessionProofs` |
| `TurnGuard` | guard and progress message around the turns of an agent | `daemon` | `DaemonProofs` |
| `CrashGuard` | the breaker before a worker that crashes | `daemon` | `DaemonProofs` |
| `CostLedger` | baselines, ledger, budget, reports, the server's copy | `daemon` | `DaemonProofs` |
| `Supervisor` | the supervisor of the daemon process | `daemon`, `supervisor_restart` | `DaemonProofs` |
| `Reminders` | rows, scheduler ticks, requests | `server` | `ClientProofs` |
| `TaskBoard` | cards, contracts, concurrent requests over them | `server` | `ServerProofs` |
| `DaemonHub` | daemon connections, slots, presence | `server` | `ServerProofs` |
| `Roster` | agents on duty as the rows and as the daemon have them | `server` | `RosterProofs` |
| `Attachments` | rows, objects, collectors | `server`, `attachment_bytes` | `ServerProofs` |
| `Membership` | orgs, roles, invites, homes of agents | `server` | `ServerProofs` |
| `Outbox` | drafts of the browser and the insert that takes them once | `server` | `ClientProofs` |
| `MessageFeed` | the browser's copy of a target's messages | `server`, `feed_gap` | `ClientProofs` |
| `MCDispatchQueue`, `MCBridge`, `MCDaemon`, `MCServer` | instances and compositions for TLC | | `BridgeProofs`, `DaemonProofs`, `ServerProofs` |

An action is one JavaScript task: code between two awaits or callbacks runs to
its end.  In the worker, which has two threads and can be killed anywhere, an
action is one step a crash can come after.  In the server an action is one SQL
statement, or one transaction.

`MCBridge`, `MCDaemon` and `MCServer` put modules that share no variable into one
run: a variable chosen at the start says which of them a behaviour is about, the
others rest.  So the state space is the sum of theirs and every property is
checked as if its module ran alone (the theorems `BridgeSidesAreWhole`,
`DaemonPartsAreWhole` and `ServerPartsAreWhole`).  Modules that do interact are composed inside:
`BridgeTurn` has queue, session, store and workers together, `Approvals` daemon,
server and page, `MessageWake` send route, hub instances, broker and daemons, `Outbox` and `MessageFeed` client and server.

**DispatchQueue.**  `pending`, `inflight`, `recent` are the three parts of
`BucketState`; `draining`, `retryTimer`, `epoch` those of `AgentQueueState`;
`flights` are deliveries whose handlers are still to run (the code has them as
closures over batch and epoch); `waiting` is `doneResolvers`.  `Drain` is an
operator over the state its caller has reached, because drain runs inside
enqueue, inside finally and inside the timer, as part of the same task.  `.then` /
`.catch` and `.finally` are two actions, because they are two microtasks and an
enqueue may come between.  A clear is called by the halts of the agent runtime,
which also decide whether the agent is deliverable.  History variables: `fate`,
`runs`, `haltMark`.  The mapping to `DispatchPromise` stands at the end of the module
(`KeepsPromise`).

**BridgeTurn.**  The daemon's side is folded to what the border sees: `pending`
and `flight` are the bucket and the driver's active turn, `session` is the entry
of `persistentSessions`, `store` that of the interrupt store.  Every spawn makes a
new generation of `worker` with its own inbox, outbox, job and backlog; an old
generation goes on until it exits.  `journal` and `tokens` are sqlite tables all
generations share.  `ReadTurnEnd`, `WorkerGone`, `GiveUp` (silence, cancel grace)
and `ForceSettle` are the ways a turn ends; each contains what the dispatch and
the queue do with the settled promise.  What a failed turn puts back in front of the
bucket is stated by what it satisfies (`PutBack`), and the number of a new turn is
one more than those given, as the queue counts them.

**MessageWake.**  `sends[c]` is one call of the send route on its way from statement to
statement; all calls are the same message, and `row` says which one the unique index let
in.  `resolving` is `broadcast()`, which nobody waits for; `wire` holds the broker's
copies, the publisher's own among them; `frames` what a socket carries.  `seated`,
`serving`, `known` are the three places that say whether an agent may be woken: the
channel's rows, the wish to be on duty, the list of each computer of its owner.  The
text of a message is the set of agents it names, never empty for the reader and
never with the robot mark the daemon ignores; a channel's triage flag stands for "switched on, and
the message starts no thread"; the bound of 1024 ids an instance remembers of what it
published is never reached.  The dispatch notice with `forceDeliverTo` is a message of
the task board and left out.

**GraphThread.**  `thread[m].msgs` is the list of messages of the thread that
`checkpoint_thread_id` gives for model `m`, `next` the node the graph would go on
with, `asked` the prompt its gate waits on.  Graph, gate and provider are external:
a node's effect is saved when the node is over, a gated call stops the graph, the
provider takes a list only if every answer with calls is followed by the answers
to them.  `SendTurn`, `ReadThread`, `FeedMessage`, `ResumeThread`, `AskOwner` and
`Decide` are the adapter; `TurnBreaks` may come at any step.  The checkpointer is
either durable or dies with its worker.  `ReadFails` is a `get_state` that throws,
which the adapter takes for an empty thread or for one with nothing to mend; what
such a turn does to the list is excepted in `ProviderIsFed` by `unread`.

**Approvals.**  `filed` is the store's file; `upward`, `downward` and `toBrowser`
are the connections, in order; `snapshot` the server's `meta.interrupts`, `banner`
what the page shows.  `Write` is the store's onChange, which pushes a snapshot.
`Begin` is the drain of the queue with the checks of `take`, `clearIncompatible`
and the decision's staleness; `WorkEnds`, `WorkFails`, `WorkInterrupts` the
bookkeeping after `send`.  The repository says two things of a token whose turn fails
and is retried.  `D/agent-runtime-interrupt-store.ts:9`, its test (line 10) and
docs/2026-09-20/02-daemon-langchain-langgraph-runtime-design.md:614 keep it, because the
turn has not ended; the bookkeeping (`D/agent-runtime-dispatch-headless.ts:514-518`,
`:562-572`) and its tests (agent-runtime-dispatch-headless.test.ts:453-470) give it up,
because a worker may have used it.  The second is what the code does and what the worker
asks for, so `PromptsAreHonoured` states it (`TokenIsSentAgain`); the first texts are out
of date.  What they promise stands beside it as `TokenIsKeptForTheRetry`, which the code
does not keep; see the disagreements in section 3.

**AgentLifecycle.**  `dispatch.stage` is the await the dispatch is at.  `Cut` is
what `assertLive` and `enterWorking` test.  Halts, registrations, profile edits,
timers and process exits come at any stage.

**SarpSession, ClaudeSession.**  The session object's fields are one record and
every handler a function on it, composed of the private methods in the code's
order.  The process may say anything, nothing, or die.  Both are shown to
implement `SessionContract` by a refinement mapping to the states of the promises.

**TurnGuard.**  One guard entry per agent, one progress message per turn, calls of
the message server that overlap; `finish` is what a turn's end still has to do.

**CrashGuard, CostLedger, Supervisor.**  Each is one object of the code with its
callers: `CrashGuard` counts failures over spawns, stops and edits; `CostLedger`
follows a provider's running totals through processes, the ledger file, reports
and the upsert; `Supervisor` has the callbacks of one process over daemons that
take their time to die.

**Reminders.**  `rows` is the table, `claimed` what a tick took in its transaction
and handles row by row; snooze and resume are two statements.

**TaskBoard.**  A request is a record that goes from statement to statement;
`numLock` is the advisory lock of the numbering.  `told` is what members were told.

**DaemonHub.**  `hub` has the slots, a heap of metadata objects (they are shared by
reference), presence members and the connections with their awaited checks.

**Roster.**  `agents` are rows, `listed` the daemon's map, `outgoing` the frames a
request is still to send, `link` the socket, `load` the daemon's reading of the
rows at its start.  `lost` and `raced` mark names with an event that was lost or
overtaken.

**Attachments.**  `row[f]` is the storage key upload `f` ended with, `object` the
stored bytes, `cleanup` and `removing` the work of a collector.

**Membership.**  Routes of `orgs.ts` as requests between whose query and action
others run; the home of an agent is a row that several of them write.  The ids of
agents are UUIDs: a deleted agent's record stays, without an org, so that a request
that read it earlier meets no other agent under its id.

**Outbox, MessageFeed.**  `pend` and `saved` are the queue of drafts and its copy in
local storage; `wire` and `answered` the calls.  `list`, `seen`, `known` are the
store's lists, `lastSeenSeq` and targets; `fill` and `left` a backfill and its
workers; `writing`, `visible`, `fanout` the server's transactions and broadcasts.

## 3. Runs

Passing:

| Run | Shows | Bounds |
|---|---|---|
| `queue_safety` | types, `NoStrandedBacklog`, `SerialDelivery`, `SettledExactlyOnce`, `ArrivalOrder`, `HaltIsACut`, `ItemsAreAccounted` (one live copy of an item, those in flight are live, attempts within the budget, a decision travels alone), and the refinement of `DispatchPromise` (`KeepsPromise`) | 2 buckets, 2 contents, 3 messages, 2 attempts, 2 clears; symmetry in buckets and contents; 0.75 M states |
| `queue_liveness` | every done promise resolves | 2 buckets, 1 content, 3 messages, 1 clear; no symmetry; 0.35 M |
| `bridge_safety` | `DiskKeepsUp` (a result is journaled before it is sent, a stored token is one the worker takes), `NoStrayFrame`, `FinishedTurnsRest`; `ThreadsStaySound`; `PromptsAreHonoured`; `MessagesFindTheirAgent` (an agent is woken once, on duty and from its seat; the manager only when nobody else is; agents do not wake agents; when nothing fails nobody is missed; a mention brings in only the willing) | turns: 2 messages, 2 attempts, 1 stop, 1 cancel, three of these together; graph: 2 tools, one gated, 2 models, 3 turns, 2 answers with calls, 2 breaks; prompts: 2 prompts, 2 messages, 2 answers, 1 failure, 1 lost connection; messages: 2 agents, one of them the manager, 2 computers of one or two owners, 2 instances, 2 calls, 1 failure or change; 1.4 M |
| `bridge_restart` | `RunsAreUsedOnce` (a message is answered by a run that read it, a token starts one run) across a restart of the daemon; every message settles | 3 messages, 1 stop, 1 cancel, three of these together, 1 attempt, 2 incarnations; 0.5 M |
| `daemon` | lifecycle: `WorkingIsATurn`, `HaltReachesTheTurn`, `NoOrphan`, `StoppedIsQuiet`, `TimersFitTheDispatch`, `DispatchEnds`; sessions: `SessionsKeepTheirContract` (with `StopCompletes`: a stop comes to its end); `ChannelIsLeftInOrder`, `RespawnsSlowDown`, `CostsAreKept`, `DaemonComesBack` | lifecycle: 2 sessions, 4 halts, 2 edits; drivers: 2 sends, 2 cancels, 3 processes; guard: 2 turns, 1 failed call, 1 stop; breaker: 2 profiles, threshold 2, 5 spawns, clock to 9; costs: 1 channel, 2 days, 3 paid turns, 3 reports, 1 crash; supervisor: 2 crashes, 2 changes; 0.5 M |
| `server` | `RemindersGoTheirWay`, `BoardIsConsistent`, `DaemonsAreReached`, `RosterAgrees`, `FilesAreWhole`, `MembershipIsSound`, `HandoverReachesAMember`, `DraftsAreDelivered`, `FeedIsComplete` | reminders: one of the agent, one of the owner, 2 ticks, clock to 4; board: 2 messages, 1 contract, 3 requests; hub: 3 connections of 1 machine, 2 scopes; roster: 1 agent, 2 names, 2 profiles, 3 requests and 2 outages but 4 together; files: 2 uploads of equal or of different content, 2 messages, 2 collectors, 1 crash; orgs: 2 accounts, 2 orgs, 3 requests, 2 at a time; drafts: 2, 2 calls each, 1 logout; feed: 2 targets (symmetric), 3 messages, pages of 1 and at most 3 of them, 2 connections, 1 visit; 0.8 M |

Why the bounds are enough: in the queue, three messages over two buckets give a
batch in flight, one in retry and one that is merged with either, and a second
clear can come while a delivery of an earlier epoch is out; a message is
exhausted at its second failure.  In the bridge, two messages give a retry that
merges with a newer message, two generations give an old worker next to a new
one, and a token issued by one run is spent by the next.  To send one token twice
takes three messages: the first is interrupted, the second spends the token and
the daemon dies before it forgets it, the third sends it again; hence three
messages in `bridge_restart`.  A graph thread is broken by one turn, found by the
next, and a third shows whether it was mended; two breaks put a second damage on
top of the first.  In the lifecycle a session object is used again once it is
finished, so two of them are the old and the new one; four halts allow register,
stop, unregister and register again around one dispatch.  In the drivers, three
process generations are one that was replaced, one that runs and one to come.
On the server two requests race and a third sets the stage; three connections of
one machine are one that was replaced, one in the slot and one that comes.  The
feed needs a message before, in and above a gap; pages of one message and three of them
let a backfill that takes several pages come to a good end as well as to the cap.  A message needs two instances, the
sender's and another, and a second call on either of them; two agents are the one that is
called and the one that is not, on one computer or on two.

Violated, each a disagreement of the code with a sentence of the repository:

| Run | Property | Trace in a sentence |
|---|---|---|
| `bridge_error_replay` | `RetryIsANewAttempt` | a rate-limit error is journaled as the terminal result of its turn; the retry reuses the turn id and only gets the error back |
| `bridge_merged_replay` | `DeliveredWasRead` | turn 1 ends in the journal but its answer is lost; message 2 joins the retry under turn 1's id and is reported delivered by the replay |
| `lifecycle_edit_spawn` | `SpawnIsPrepared` | a dispatch that meant to reuse its session loses it to a profile edit during an await and opens a new one with nothing prepared |
| `attachment_bytes` | `RowsHaveBytes` | a collector has found the object unreferenced, an upload of an equal file takes its key, the collector deletes the bytes |
| `supervisor_restart` | `OneDaemon` | two file changes while the old daemon takes its time to die start a daemon each |
| `feed_gap` | `FailureIsMadeGood` | a backfill fails, a live message raises `lastSeenSeq`, the next backfill starts above the gap |

Deadlock: the queue is checked for it.  The other systems really stop when
their bounds are used up and everything has settled (every worker has exited; an
agent that stopAll stopped; no request is left), so their configurations switch
the check off, and what must happen is stated as a property.

Each property of a passing run has a mutant in `PROJECT.json`: a variant of a
definition with a plausible fault, which breaks that property.  The variants
stand in the modules in front of the definitions they vary and no action uses
them.  A property that joins several (`DiskKeepsUp` and its like) is a conjunction
of named parts, each with its own comment.

### Disagreements without a run

These were met while modelling.  Where a definition is named it stands in its
module, as a property the code does not keep.

* Daemon: `NoRubbish` (`TurnGuard`): a stopped turn leaves its progress message,
  against docs/2026-08-20/02-daemon-evolution-tracker.md:231.  `AnsweredAnyway`: a
  final edit that fails loses the answer (`D/daemon-core.ts:207-225`).
  `CancelledTurnStops` and `OneRunAtATime` (`BridgeTurn`): a cancel that is not
  answered in time is retried; a new worker may start while the old handler runs.
  `NoTurnIsOrphaned` (`SarpSession`): a stop whose stdin is broken leaves the turn
  to the exit.  cancelTurn answers "killed" for a turn that ended as an error while
  the worker lives.  Claude: a spawn that throws rejects only the head of its
  queue; a startup death is respawned without back-off.
* Breaker: the failures its header lists first (an invalid manifest, an entrypoint
  that is not there) are thrown before it, and errors of the Claude driver carry no
  code, so neither is counted; a late failure of an old profile resets the count of
  the new one.
* Costs: `EverySpendIsReported`: a report of more than 200 rows is refused and sent
  again for ever; unsent days are known in memory only.
* Supervisor: the late exit of a daemon whose kill timed out clears `child` of the
  new one; a change that finds no child during a shutdown starts a daemon.
* Prompts: `TokenIsKeptForTheRetry` (`Approvals`), against
  `D/agent-runtime-interrupt-store.ts:9` (deleted after a successful resumption, kept on a
  retry, since the turn has not come to its end) and
  docs/2026-09-20/02-daemon-langchain-langgraph-runtime-design.md:614: when `send` throws,
  `D/agent-runtime-dispatch-headless.ts:562-572` deletes the prompt although the queue
  retries the delivery.  These two texts are the ones that are wrong: the worker refuses a
  token it has used.  But giving up has a price they do not have.  With one conversation,
  prompt, message, answer and failure TLC finds it: the owner approves, the turn that
  carries the approval fails and is put back, and the prompt is gone; the retried approval
  then fits nothing and is dropped as done (`D/agent-runtime-dispatch.ts:488-508`).
  A retried message loses only the resumption and starts afresh.
  A dismissal names no interruptId, so one of an old prompt deletes a newer
  one (`D/handlers/index.ts:56-66`); `BannerIsTheSnapshot`: a page that reconnects
  when nothing waits keeps its banner.
* Graph: the daemon's record compares runtime, entrypoint and revision
  (`D/agent-runtime-interrupt-store.ts:137-166`), the thread also the model
  (`B/langgraph.py:124-140`); after an edit of the model and back a token may resume
  what another prompt left (`astray` excepts it).  The adapter's write tools number
  their idempotency keys from 0 in every turn (`B/mcp.py:31-34`, `:70-75`): a rerun
  that goes on from a durable thread reuses key 0 for its next message, which the
  server takes for a repetition.
* Hub: `PresenceIsTheTable` and `SlotScopeIsTheTokens` (`DaemonHub`): a connection
  that closes while its ready frame is being checked is entered afterwards.
* Roster: `ReconnectionRealigns` (docs/2026-08-23/05-agent-duty-design.md:195): duty
  events sent while the daemon is away are lost until it restarts;
  `ProfileSurvivesABreak`: a registration without a profile drops the one that was
  known.
* Reminders: `CanceledStaysCanceled`: the scheduler's last update may overwrite a
  cancel.  Board: `TerminalContractsRest` and `ClosedCardEndsContract`: a report or
  a cancel that has read "open" writes over what came between; an idempotent replay
  may return a dispatch whose card was never written.
* Orgs: `OneOwnerRow`, `OwnersBelong`, `PublicOrgsStay`: two transfers, a transfer
  and a leave, and the deletion of a second public org meet between check and act.
* Waking: `WakesAtOnePlace` (`MessageWake`): an agent is bound to one computer of its
  owner (docs/2026-09-19/01-server-scoped-computers.md:44), but every daemon of the owner
  lists all of the owner's agents (`D/agent-runtime.ts:782`, `S/routes/agents-public.ts:51`)
  and gets every message of the channel, so two computers in one server both start it.
  `DeliveredOnce`: a computer that reconnects to another instance before the
  published copy gets there is handed the message again, against
  `S/lib/pubsub.ts:14-19`.  `AnsweredIsHeard`: when a query after the commit fails, or the
  instance dies, the retry is answered "sent" and nobody is woken.  Of several agents
  called on one computer only the first wakes (`D/handlers/deliver.ts:138`); the
  recipients computed for a mail between agents (`S/routes/agents-messages.ts:137`) are
  never used, because the daemon drops what an agent says (`D/handlers/deliver.ts:108`).
* Feed: a fifth target of a backfill sees what was seen before its turn; the first
  connection fills nothing; a history in flight survives a logout.

## 4. Fairness

* Queue (`FairSpec` of `DispatchQueue`): weak fairness of settling a delivery, of
  its finally handler and of the retry timer.  The drivers end every turn
  themselves (silence timer, exit), and microtasks and timers run.  Nothing is
  assumed of callers, of halts, or that the cost gate ever opens.
* Bridge (`FairSpec` of `BridgeTurn`): weak fairness of `Dispatch` (the drain after
  back-off), `WorkerGone` (the exit event) and `GiveUp` (silence timer).  A worker
  is not assumed to answer, it may hang at any step; but `GiveUp` supposes that it does not
  stream events for ever, since each event winds the silence timer up again.
* `DaemonSpec`: `Fairness` of the lifecycle, that is of the steps of the dispatch
  (requests of `fetch` end by their own timeouts, microtasks run) and of the timer
  that ends a turn; of the SARP session only that its stop timers expire and that
  the exit of a process that is gone is heard.
* `BridgeSpec`, `ServerSpec`: none; their properties are of safety.

## 5. Proofs

`DispatchQueueProofs` holds for all buckets, contents, numbers of retries, messages
and clears; the assumptions on the constants are `ConstantsAssumption`.

* `QueueTypeOK`: `TypeOK` is inductive.  `DrainType` does the work for the three
  callers of drain.
* `QueueNeverStrands`, `QueueDeliversSerially`: neither is inductive alone.  A
  finally handler may drain only because its delivery was the only one, and a
  retry timer may be armed only by a delivery that is still there; so the two are
  proved together with `TypeOK`, on `Serial`, the condition a caller of drain has
  to meet (`DrainWakes`).
* `QueueHaltsAreCuts`: from `CutInv` and `MarkInv`.  What waits, and what flies in
  the current epoch, is younger than the mark of the last clear; the mark is never
  ahead of the submissions, so the next one is younger too.
* `QueueKeepsOrder`: from `OrderInv`, which adds to the order inside each sequence
  that the batch in the air is before what waits in its bucket and that no id is
  ahead of the submissions.  It needs `SerialDelivery`: with two batches in the air
  a retry could put the older one behind the younger one.  `PutBack` describes the
  sequence a retry returns to the bucket.
* `QueueSettlesOnce`: from `AccountsInv`, the balance of callers, waiting messages,
  airborne messages and open fates, kept at every point a task calls drain.  It
  rests on `OrderInv`, because a batch cut from a bucket takes its ids away from
  the bucket only when ids do not repeat there.

`DaemonProofs`, on the lifecycle, holds for any set of sessions and any number of halts and
profile edits.  `LifecycleTypeOK`, `HaltsReachTurns`, `NoOrphans`,
`WorkingIsTrue`, `StoppedStaysQuiet`, `TrackedStaysIdle`, `TimersHaveDispatch` and
their join `TimersFit` are all the safety invariants the `daemon` run checks of the
lifecycle, from one inductive `Inv`.  They need one another, and three facts no
single one of them states:

* `DispatchFacts`: a dispatch never has a generation of the future; while its
  generation is the current one, the agent is registered and not stopped (so a
  reconnect that puts an agent back on duty cannot revive a halted dispatch); the
  turn that is out runs on a session that is open or stopping, and the map holds
  that session or none.  The first two are why comparing generations after every
  await is enough.
* `RegisteredIsKnown`: a registered agent has left the initial status, so
  `starting` and `working` are valid moves for its dispatch.
* `MappedIsOurs`: the map never holds a session that was told to stop.

It shows `CrashesAreSlowedDown` for every threshold, cool-down and
set of profiles and without a bound on clock or spawns.  `RespawnsSlowDown` is not
inductive: it needs `RoomForTheNext` (whatever may crash next, a session or a start
the guard would allow, is still below the bound) and `CrashesAreCounted` (the
entry's count is never behind the crashes, so the breaker does open at the
threshold).  `FailedCounts` says of recordFailure that it counts, opens and never
closes.

It shows `ADaemonComesBack` for every number of crashes and file
changes.  An exit is taken for a planned one only while a restart waits
(`PlannedMeansWaiting`), only the dead are heard (`HeardAreGone`), and the number
a daemon is started under is new (`NextIsNew`).

The lemmas of the lifecycle follow the code's own sharing: `FailKeeps` is the catch around the
dispatch, `AskKeeps` is ensurePersistentSession, `SettleKeeps` the settled promise
of a turn, `SessionDropped` and `HaltedKeeps` the teardown; an action's lemma only
shows that it is a use of one of them.

`QueueAccountsForItems` adds to the accounts of `QueueSettlesOnce` what dedup rests on:
what waits in a bucket does not repeat a content, and a content kept as in flight is
that of a delivery of this epoch and of nothing that waits (`CopiesInv`); the attempts
of a message count its deliveries (`TriesInv`).  `QueueKeepsItsPromise` is the
refinement: under the mapping of `DispatchQueue`, every action is a step of
`DispatchPromise` or leaves its variables alone.  It uses the invariants above, since
what ends must be waiting still, and one group is in the air at a time.

`BridgeTurnProofs` holds for any number of messages, attempts, stops, cancels, worker
generations, runs and daemon restarts.  `DiskKeepsUp`, `NoStrayFrame` and
`RunsAreUsedOnce` speak of four processes that see each other only through pipes and a
database, so `IInv` says of each pair what one may still believe about the other: a
frame on a pipe belongs to a generation and, if it ends a turn, to what the journal
has of it (`Sound`); a worker holds one turn in one place, no two workers the same, and
none a turn that may be sent again, but for the one that is out (`WorkersHoldOne`,
`TurnsApart`, `RetriesAreFree`); a token the daemon was told of belongs to a turn that
ended and is not sent again (`ToldAreOver`), one that a run was given is used
(`GivenAreUsed`).  `FinishedTurnsStay` is the action property: `ReadStart` starts a
run only for a turn the journal does not have.

`ServerProofs` has four parts, one per module, each from its own inductive invariant
and for any number of requests at one time:

* `TheBoardIsConsistent` from `BoardInv`: a request that is to write a number holds the
  numbering lock and its number is still the next (`NumbersAreNext`); whoever was told
  of a task is its holder (`ToldIsTheHolder`); the accepted reports and the one that
  waits are not more than were made (`ReportsAreCounted`).
* `FilesStayWhole` from `FilesInv`: an insert that is on its way names a key its own
  upload has stored (`InsertsAreFit`), and a collector only holds rows that are done
  (`CollectedAreDone`).
* `MembershipStaysSound` and `HandoversReachAMember` from `OrgsInv`: what a request has
  read and still believes (`RequestsAreFit`), seats that are taken in one UPDATE
  (`SeatsInv`), agents and machines that are deleted with their org in one transaction
  (`HomesInv`).  The proof needed the ids of agents to be used once; see `Membership`.
* `DaemonsStayReached` from `HubFits`: a slot holds the connection whose key it is
  (`SlotsAgree`), an open connection is in the slot of its key (`KeysAgree`), metadata
  in a machine's slot or under a check was made by a ready frame of that machine
  (`MadeBy`), and so is present only as it (`MembersAgree`).  That is why the close of
  one connection takes away the presence of no other.  The handlers are functions on
  the table, and each is shown to keep the invariant by itself.

`DaemonProofs`, on turns and costs, holds for any number of turns, failed calls, stops,
reports and crashes:

* `ChannelsStayInOrder` from `GuardInv`.  There is one guard per agent and one progress
  message per turn; what lets an event of an old turn leave the new one alone is that
  the guard is always that of the last turn (`TurnIsGuarded`) and that a turn that is
  over has its message closed unless a stop came between (`TurnHasItsTime`).  finish()
  may then decide by what it was told: its plan is an answer exactly if one is owed, and
  nothing is under way any more when it edits or removes (`FinishFits`).
* `CostsKept` is all of `CostsAreKept`, in two parts.  `TheLedgerIsKept` from `CostInv`: the provider's total is the baseline, or that of a
  process nobody told the driver of (`BaselineFits`), so that the difference is the
  price; every report, on its way or answered, is a copy of an earlier ledger
  (`RowsFit`, `ReportFits`), so that the larger of two is right whatever the order.
  `BudgetHolds` from `BudgetInv`: a turn that runs was let in below the budget of the day
  it will be booked on, because a day that has not come has nothing spent; what it adds is
  one price at most.  A day's spending is the sum of the community modules over the rows of
  that day.  `SumsExist` shows that its recursion has a solution, `OneByOne` is induction on
  finite sets, stated for a set of sets and proved from its smallest counterexample (the
  library's induction rule takes an operator, which no prover here can instantiate), and
  `SumWithOneMore` says what an entry that grows does to the sum.

`RosterProofs` proves `TheRosterAgrees` for any number of agents, names, requests,
outages and restarts; the constants need one name and one profile.  `RosterAgrees`
speaks of a quiet system only, so `RosterInv` says what holds before: take all events on
their way, those on the wire before those that wait.  Of a name that has not raced, the
last event tells what the row says now (`TellsTheRow`), a stop is followed by a start
and follows an event of its own agent, and a start nothing stands behind but duty frames
carries the row's profile (`EventsFit`); the daemon's entry is the row's where no
event is left (`EntryFits`).  The proof follows the events' moves: told, sent past others,
dropped, handled.  Each is a map of positions that keeps the order of a name's events
(`Follows`), and what fits is kept along such a map (`EventsFollow`, `EntryFollows`).
Names an id had before a rename are known to have raced (`KnownBy`), which is why a stop,
the one handler that searches by id, takes the right entry.

`SessionProofs` proves that both drivers implement `SessionContract`
(`SarpImplementsTheContract`, `ClaudeImplementsTheContract`), and the other safety
parts of `SessionsKeepTheirContract`, for any number of calls, processes and events.
The proofs are built as the code is: one lemma for each private method, one for each
handler, and a step is anything that goes on so (`GoesOn`, `ClaudeGoesOn`).

* The worker session: between the steps of a handler the open call is no longer the
  active one, so `SarpFits` names the turn that is open apart from the session.  An
  answer of cancelTurn is awaited only after the handshake, the startup timer runs as
  long as the handshake is open and nobody stops the session, and past the grace of a
  stop no turn is active unless stdin is broken: this is why a timer that fires late
  finds nothing of somebody else's to settle.
* The Claude process: `PromptsFit` ties every waiting call to its place in the queue and
  the open one to the process that is there now; what is queued again went to a process
  that has shown nothing and is not the current one.  `ProcessesFit` has the generations:
  none is used twice and the current one alone is up.  A handler is a first half
  (`BeforePump`) and pump(), which writes at most the head (`PumpMoves`).

`BridgeProofs` has the three other sides of the worker:

* `MessagesAreFound` from `WakeInv`, for any agents, computers, owners, instances and calls
  and any number of failures.  One call's row goes in, and only it is sent on (`OneIsSent`);
  nothing is handed out before the members are known (`NothingIsEarly`); a computer that
  kept its connection has the message, will have it or has done with it, never two of these
  (`HandedOnce`).  That nobody is missed holds while nothing fails and nobody moves, so what
  it needs is stated under the same condition (`CalmFits`): the readers are those asked, and
  each computer they live on is still to be reached or has woken one.
* `PromptsHonoured` from `ApprovalsInv`, for any conversations, prompts, restarts and lost
  connections.  A token that was sent is on file no longer than its turn is out
  (`TokensFit`); the last snapshot under way, or the one that has arrived, shows what waits
  (`TellsFit`, `PageFits`): it is the last, not each, because snapshots are taken whole.
* `ThreadsKeepSound` from `GraphInv`, for any models, turns, answers and breaks and a
  finite set of tools.  A thread that goes on with the model has a list the provider takes,
  one that goes on with a call has the answer that made it at its end (`ThreadsFit`); after
  the mending every answer is complete and every tool message claimed (`FedFits`); a token
  that is not spent belongs to the gate its thread still waits at (`TokensHold`); what the
  tools run was approved and has not run (`ToolsFit`).  Half of the proof is about lists:
  what is kept when a list is mended keeps its order (`PlaceIn`), and the result is one the
  provider takes.

`ClientProofs` has what the browser and the scheduler keep:

* `DraftsArrive` from `OutboxInv`, for any number of drafts, calls and accounts: what is not
  stored waits and the saved copy says so (`DraftsAreKept`); before a draft is sent those
  before it are stored or were given up (`OrderFits`); one flush runs (`DraftsFit`).
* `FeedLosesNothing` from `FeedInv`, for any targets, messages, pages and reconnections: what
  a backfill owes and has passed is shown, and the page under way brings the next of it and
  leaves only later ones (`FillFits`).  That pages are cut from the sorted rows is what makes
  a backfill complete, so the proof has the order of a sorted list (`RankIn`).
* `RemindersKeepTheirWay` from `RemindersInv`, for any rules, horizons, ticks, edits and
  failures: a patrol has missed at most one round more than it counted (`RowFits`), and a row
  nobody touched is on a slot after its last fire or held by a tick that will put it there
  (`UntouchedFit`).  The arithmetic of the slots, without drift and over midnight, is
  `NextSlot` and the lemmas before it.

The compositions: `BridgeSidesAreWhole`, `DaemonPartsAreWhole` and `ServerPartsAreWhole` say
that a behaviour of a composed run is a behaviour of each of its modules, so that what is
proved of a module holds of the run, for every value of the constants;
`BridgeTypesHold`, `DaemonTypesHold` and `ServerTypesHold` follow from them and from the
invariants of the parts.

The proof found an ambiguity of the model: where two arms of a CASE hold TLA+ does
not say that the first is taken, as TLC does and the code's early returns do.  The
frames of `SarpSession` are therefore told apart by IF where their guards overlap.

What the proofs changed in the modules.  Where a recursion stood whose result for every
input nobody could reason about, a closed form stands now, with the same result: the list a
backfill leaves behind (`ReceiveAll`, `Sorted` of `MessageFeed`), the mended list (`Mended`,
`Nth` of `GraphThread`) and the sum of a day (`SpendOfDay`).  `MessagesFindTheirAgent` had
to say that an agent missed has a computer at all (`HasComputer`).  Assumptions that were
silent are stated: agents, tools and channels are finitely many, the clock of the breaker has
room for a step, one of the prices is the dearest (`BudgetHolds` speaks of it), ids of agents
are used once.

Only model-checked: the liveness properties, since fairness and ENABLED are out of the
prover's reach (`queue_liveness`, the settling of every message in `bridge_restart`,
`DispatchEnds`, and `StopCompletes` among `SessionsKeepTheirContract`).  Every invariant and
every safety part of an action property that a passing run checks is proved for all values of the
constants.  Where a loop is needed the modules use folds of the community modules or state
a result by what it satisfies, so that they can be reasoned about; none declares a recursive
operator.

## 6. What remains

1. The idempotency keys of the adapter's write tools against the server's nonces.
2. Terminal watches and workspace requests of the hub, frames addressed to one user.
3. Exit coordinator and live-run registry of the daemon.

## 7. Not modelled

* The PTY path (frozen, behind a switch), the one-shot path, prompts and texts,
  manifests, profiles and secrets (configuration files), CLI and MCP clients, the
  frame codec, the database schema, types, view code.
* Authentication: login lock, refresh rotation and session checks are single
  statements or belong to an analysis of another kind.  Read-only routes, search,
  previews, metrics, audit.
* Of the modelled parts: the in-flight timer of the queue (it only logs),
  notification callbacks, stream events other than turn.end in the lifecycle,
  the audit of tools, thread affinity, duty time, reactions, edits and thread
  buffers of the message store, notifications.  Times are an order of timers and
  events, save in `Reminders` and `CrashGuard`, where a clock counts.
* Small differences that change no property: the store's copy of a list in localStorage
  is left out (what it makes known would start from 0);
  `AskUnclaim` is refused for a task that does not exist, where the route answers an
  error; `Retry` takes failed drafts only, which are those the page offers it for.
* Two threads of the worker that look up the journal and take the turn lock are one
  action in `BridgeTurn`: the daemon never sends one turn id twice to one process.
* `BridgeTurn` keeps the handshake and the expiry of prompts out; `SarpSession` has
  the first, `Approvals` the second.

The definitions stand for about a sixth of the repository's lines.  Most of the
rest holds no state of its own: components and pages, command line tools, types,
validation of requests and files, routes that run one query, texts.
