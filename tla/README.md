# A formal model of AgentAgora

AgentAgora is a message broker for AI agents. One server process (`src/src/agent_agora/`, paths below
are relative to it) offers MCP tools over HTTP: workers and bots register under an id, send each other
JSON messages that follow registered schemas, read their inbox by long-poll, and expect results that can
time out. This directory holds TLA+ models of it, the TLC configurations that check them on small
instances, and TLAPS proofs of theorems about them for instances of every size.

    tlc -config Question.cfg MCDispatcher.tla     # likewise Fanout, Threads, Restore, Shutdown, EntryToClosed
    tlc -config Directory.cfg MCDirectory.tla     # likewise Resubscribe
    tlc -config Clients.cfg MCClients.tla
    tlc -config Matrix.cfg MCMatrix.tla
    tlc -config Files.cfg MCFiles.tla
    tlc -config Dashboard.cfg MCDashboard.tla
    tlapm DispatcherProofs.tla                    # likewise Mail-, Promise-, Directory-, Clients-, Matrix-, File-, DashboardProofs

`PROJECT.json` lists the runs, the theorems, the source lines each definition models, the hazards of
the code with the properties that cover them, and for each property a plausible bug it detects.

## 1. The system

| component | state | operations | talks to |
|---|---|---|---|
| broker, `dispatcher.py` | inboxes `_queues`, long-polls `_waiters`, `_last_inbound`, expected results `_in_flight` with `_deadlines`, `_closed`, one `asyncio.Lock` | dispatch, reply, broadcast, bot_emit, flush, wait_notify, system_notify, cancel, coverage, close_thread, operator_close_conversation, expire_overdue_deadlines, restore, close | registries and schemas (routing), conversation store, write path |
| conversations, `conversation_store.py` | the parties of each conversation with their roles, who closed it, its status; the conversation of each command | choice of the conversation of a new command, join, close | called by the broker and the sweeper |
| write path, `dispatch_persistence.py`, `storage/persistence.py` | SQLite tables; a queue of transactions with one worker | submit a transaction and await it; direct statements of the sweeps; what a restart reads | awaited by the broker |
| sweeper, `sweeper.py`, loops in `__main__.py` | none of its own | close half-closed conversations, collect old messages, expire deadlines, unregister dead workers and bots, delete old files | runs in the event loop, partly without the lock |
| registries, `registry/`, `http/auto_register.py` | session to entry and id to entry, for workers and for bots; message type to subscribers; observers | register, detach, unregister, touch last_seen | read by every routing decision |
| schema registry, `storage/schemas.py` | schema by name, its holders, the permanent ones | register, acquire_ref, release_holder | bots hold what they subscribe to |
| MCP tools, `server.py` | none | one tool per operation | call everything above |
| comm matrix, `comm_matrix.py`, `http/admin_routes.py` | rows and columns of patterns with weights, the compiled patterns, active or not; a CSV file | load_csv, load_matrix, set_active, is_allowed, weight_of, cycles | dispatch and broadcast; the dashboard and agora-init change it |
| provisioning, `provisioning/` | a team file | validate a team, draw its matrix, write it and post it, generate worker directories | the matrix file and the admin endpoint |
| channel adapter, `channel_adapter.py`, with `http/channel_routes.py`, `_broker_http.py` | its MCP session, the time since its last notification | long-poll, notify the worker, peek until it has drained, reconnect; file.put, file.get | the broker over HTTP, the worker over stdio |
| bot client, `bot.py` | its MCP session, the message at hand, whether the handler has emitted | register, wait, flush, handle, emit, end | the broker over HTTP |
| file store, `files/` | the bytes in a directory, the `files` table, a policy | upload, download, sweep, replace the policy | the write connection; the adapter over HTTP |
| dashboard, `dashboard/` | hub with a bounded queue per stream, the collector's counters, a log buffer | stream, data, inbox and its acknowledgement, dispatch, broadcast, matrix | the broker's hooks; the page's scripts |

Behaviour that is hard to get right here:

* **Interleaving at awaits.** The broker is single-threaded, but every handler can be overtaken where it
  awaits: before the lock, while its transaction is written, in a long-poll. dispatch chooses its
  conversation *before* it awaits the lock and uses it after; close_thread reads the parties before it
  sends one message to each; the TTL sweep changes conversations without the lock.
* **Two copies of the truth.** Memory and SQLite hold the same messages and statuses and are written at
  different moments; a write may fail after memory has changed; a restart rebuilds memory from the disk,
  or, without `--restore`, discards the undrained rows.
* **Races of endings.** An expected result ends by the answer, the deadline, a cancel or a restart; a
  long-poll by mail, its timeout or close().
* **Registrations that take names from one another.** Sessions and ids are replaced in both directions,
  while indexes and schema references have to follow.
* **Limits.** Inbox depth; conversations that close with the last party to close; the length of an upload;
  the queue of a stream.
* **Clients that outlive the broker, and the other way round.** Sessions and registrations end with a
  restart; a notification may never arrive; a host may end with its adapter in the middle of anything.
* **Several disk operations for one change.** A file is bytes and a row; the process may die between them.
* **A page that hears of changes by events and reads state by requests.** Between subscribing, the first
  snapshot and an event, things change; answers may overtake one another.

What makes each part correct, and where that is stated (a name in code font is a checked property):

* *Broker:* no mail without waking who waits for it (`NoLostWakeup`, `WaiterIsServed`); an expectation lives
  exactly until its answer, deadline or withdrawal and is reported once (`AnsweredIsSettled`,
  `InFlightHasDeadline`, `QuestionIsOut`, `EveryQuestionSettled`, `KeepsPromises`); limits and matrix hold
  for every handler (`CapacityRespected`, `MatrixIsRespected`); calls exclude one another where they must
  and all return (`LockIsExclusive`, `EveryCallReturns`, `NoWaiterAfterClose`).
* *Conversations:* closed by the last party, for good, and joined by everybody who gets their mail
  (`HalfClosedIsOwed`, `ClosedIsFinal`, `ReceiversTakePart`).
* *Write path, sweeper and restart:* what was acknowledged is on disk, and the disk is what memory needs
  after a restart (`AcknowledgedIsDurable`, `DiskAgrees`, `StatusAgrees`); a message goes through a crash once,
  neither lost nor handed out again (`MailSurvives`).
* *Registries:* two views of one set of registrations, indexes that follow them, the last claim wins
  (`RegistriesAgree`, `RoutesAgree`, `LastClaimWins`).
* *Schema registry:* a schema lives as long as it is held and never changes (`SchemasAreHeld`,
  `BodiesAreImmutable`); what a bot subscribes to exists (`SubscriptionsAreServed`, which the code breaks).
* *Comm matrix and provisioning:* a refused request changes nothing (`RefusedIsUndone`); the reported cycles
  are the cycles (`CyclesAreFound`); the drawn matrix lets members reach whom their allow lists match and
  gives nothing to anyone else (`AsProvisioned`).
* *Channel adapter and bot client:* a message is answered once (`OneReply`); mail is drained although
  notifications get lost and the broker dies (`MailIsDrained`); a worker that has ended leaves the registry
  (`GoneWorkersLeave`).
* *File store:* what is listed is there (`ListedIsThere`), what has expired goes (`ExpiredIsReclaimed`), a
  download replaces nothing (`NothingIsOverwritten`), and nothing longer than the limit is stored (`TypeOK`).
* *Dashboard:* a page asks again for whatever it does not know (`NothingIsMissed`); only what was shown is
  acknowledged (`AckedWasShown`); queues are bounded (`TypeOK`).

## 2. The modules

### ConversationStore, Dispatcher, MCDispatcher

`ConversationStore` has the pure part of conversations as operators: `AddParticipants`, `MaybeClose`,
`PartyCloses`, and `ResolveConversationId`, which decides where a new command goes.

`Dispatcher` is the broker with its disk. A call is a number, which is also its command id. `pc[t]`
says where the coroutine is, `res[t]` has the local variables it keeps across awaits, `lockQ` is the FIFO
lock with its waiters and `running` the task that has not yet reached its next await. One action is one
stretch of a handler between two awaits:

| code | actions |
|---|---|
| entry of a tool up to the lock | `EnterDispatch`, `EnterReply`, `EnterBroadcast`, `EnterEmit`, `EnterMailbox`, `EnterCancel`, `EnterCloseThread`, `EnterOperatorClose`, `EnterShutdown` |
| dispatch, broadcast, bot_emit under the lock | `DispatchLocked`, `DispatchTurnedDown`, `BroadcastLocked`, `EmitLocked`, `TurnedDown`, then `Resume` after the transaction |
| flush, wait_notify, cancel, system_notify, close | `FlushLocked`, `WaitLocked`, `Woken`, `TimeOut`, `TimedOutLocked`, `Report`, `CancelLocked`, `NotifyLocked`, `ShutdownLocked` |
| close_thread, operator_close_conversation | `NextClosing`, `AllClosingsSent`, `CloseThreadLocked`, `OperatorCloseLocked` |
| the write worker | `Commit`, `WriteError` |
| sweeps and the process | `ExpireDeadlines`, `CloseTTL`, `MessageGC`, `Restart` |

`_queues`, `_waiters`, `_last_inbound`, `_in_flight`, `_deadlines`, `_conversations` and `_conversation_of`
are the variables `queues`, `waiters`, `lastInbound`, `inFlight`, `deadlines`, `conv`, `convOf`; `wq`, `rows`,
`drained`, `dbConv` are the write queue and the tables. `hist` is a history variable which no action reads;
the properties and the refinement do. `Rest` lets a state in which only clients could do something stutter, so
that TLC's deadlock check reports every other one.

### MessageLife

The abstract specification of the broker: a message waits in an inbox until it is taken or recalled,
once; an expected result is open until it is answered, expires or is withdrawn, once; and an expired one
produces exactly one notice to whoever waited. `Restart` is a new life of the process: notices are gone,
some of the messages posted before are in the inboxes (read ones may be among them: a crash before the
marks of a flush are written brings them back), and a result is expected only if one of those asks for it; it may
then be answered or expire again. There are no calls, lock, conversations or disk. `KeepsPromises` in
Dispatcher is the refinement: `MessageLife` with its variables mapped to the inboxes, the edges and the
history, which `NextLife` carries over a restart. What a restart may not do is `MailSurvives`.

### Registry, Names, Directory, MCDirectory

`Registry` has the operations of `registry/core.py`, with the index hooks of `registry/bot.py`, as
operators on a record of the two dictionaries and the two indexes. `Directory` keeps a registry of workers,
one of bots, and the schema table with its holders; its actions are the calls that change them: `Register`,
`AutoRegister` (the middleware), `RegisterOperator` (the dashboard), `RegisterSchema`, `RegisterBot`,
`RegisterBotFails` (an error after the first change), `Unregister`, `OperatorUnregister`, `Touch`,
`Forget` (time passes), `Sweep`, `Restart`. No handler awaits between two changes of this state, so one
action is a whole call. `Names` is the abstract specification: the last to claim a name has it, and
claiming one gives up the other. Both registries refine it (`LastClaimWins`).

Dispatcher and Directory meet at routing: the constants `Workers`, `Handlers`, `Observers` and the set
`subs` of a request in Dispatcher are what Directory's registries and indexes return at that moment, and
its `Matrix` is what `IsAllowed` of CommMatrix gives.

### Clients, MCClients

The two programs that wait on the broker for somebody else, with as much of the broker as they see:
whether it is up, an inbox per client, who is registered and how long ago it was heard (`registry`), whose
MCP session it still knows (`session`).

| code | actions |
|---|---|
| `watch_loop` and `_run_watch_emit` of the adapter | `Connect`, `BackOff`, `Wait`, `Pause`, `Emit`, `Peek` |
| the end of the adapter (`_serve_channel`) | `Eof`, `Unregister`; `Exit` also kills it without them |
| `AgoraBot.run`, `_dispatch`, the context manager | `Start`, `BotWait`, `Flush`, `Skip`, `DirectEmit`, `Return`, `Settle`, `Close`, `Kill` |
| the worker and its host | `Request` (the auto-register middleware), `Drain`, `Forget` (a notification without effect), `Exit` |
| the broker | `Send`, `Crash`, `Boot`, `Age`, `Sweep` |

A restart ends every session and empties `registry`; with `--restore` the inboxes stay. `Unregister`
changes no registration: the adapter opens a session of its own for the call, and the tool unregisters
the holder of that session, who is nobody.

### CommMatrix, Cycles, MCMatrix

`CommMatrix` has `load_csv`, `load_matrix`, `set_active`, `weight_of` and `is_allowed` as operators on a
record, and as actions everything that replaces the matrix or its file: `AdminPost`, `DashboardPost` (two
halves, each of which may be refused), `Provision` (agora-init: validate the team, draw the CSV, write the
file, perhaps post it), `Edit`, `Stop`, `Start`. `FullMatch` is the table of which token matches which id or
text, so that any regular expression is an instance. `Cycles` is Tarjan's algorithm as it stands in
`cycles()`, recursive and with its stack, and `CyclesAreFound` compares it with the classes of mutual
reachability. Only TLC uses it.

### FileShare, MCFiles

An upload (`Put`, `Receive`, `Store`) awaits the chunks of its body; what it then does to the disk is a list
of operations, which `Operate` takes one by one, and the sweep (`Gc`, `NextVictim`) works in the same way.
`Fail` and `Crash` may come between any two. A download is `Get`, `Open` (in a thread: a sweep may be in
progress) and `Save` in the adapter. `Replace` is the policy endpoint.

### Dashboard, MCDashboard

`Dashboard` has the hub: a hook leaves calls in `publishing`, and `Publish` pushes the events of one call to
the queues before anything else happens. The page is what its scripts do: `Load`, `Subscribe`, `Snapshot`,
`Stream`, `Deliver`, `Drop`, and the answers to its requests, `AnswerData` and `AnswerInbox`, in any order.
Workers come and go (`Register`, `Unregister`), messages are written and later announced (`Dispatch`,
`Announce`), the operator posts (`Post`, `PostNext`, `PostRefused`) and acknowledges (`Ack`, `Mark`).

## 3. What is checked

A request may be made at any time, by any number of overlapping calls up to `MaxCalls`; the sets of
requests are in the MC modules. Every property has in `PROJECT.json` a mutant of a modelled definition
under which the same run finds it violated.

| run | instance | states | properties |
|---|---|---|---|
| question | 2 workers, 4 calls, inbox 2, deadlines | 127 thousand | types; no lost wake-up; the lock excludes; every expectation has a deadline, is not open once answered, and has its question out |
| fanout | 3 workers, handler, observer, 4 calls, inbox 1, matrix with forbidden pairs, a worker named twice in cc | 319 thousand | inbox limit; receivers take part in the conversation; matrix |
| threads | 3 workers, 4 calls, a conversation whose id the clients name, close_thread, TTL and retention sweep, operator close, a message that its cc makes the tables refuse | 1.1 million | half closed means somebody still has to close; disk and memory agree on the status; closed is final |
| restore | 2 workers, handler, 4 calls, one restart, with and without `--restore`, a message that the tables refuse | 424 thousand | undrained rows are the queued messages; no message is lost or comes twice; refinement of MessageLife |
| shutdown | 2 workers, 4 calls, close(), failing writes, fairness | 34 thousand | no waiter after close; acknowledged is durable; every call returns; a waiter with mail is served; every question is settled |
| directory | 2 client sessions (symmetric), dashboard, 2 bot ids, one also a worker id, one shipped and one dynamic schema, two bodies | 34 thousand | types; dictionaries agree; routing indexes agree; schemas live as long as they are held; bodies do not change; refinement of Names |
| clients | 1 worker with adapter, 1 observing bot, 2 messages, 1 restart with `--restore`, 1 start of the bot, a notification repeated after 2 polls, fairness | 140 thousand | a message is answered once; mail is drained; who has ended leaves the registry |
| matrix | 3 ids, 1 operator, 8 patterns (`.*`, two that overlap, three that are another token with a blank or a line break, one that does not compile, one with a comma), 2 changes between any stops and starts | 50 thousand | a drawn matrix grants what the team asks for; the cycles found are the cycles; a refused request changes nothing, but for one body |
| files | 2 workers, 1 name, 2 ids, 2 calls at a time, sizes below and above the limit, a policy that binds, 2 crashes or failures, fairness | 457 thousand | types and size limit; listed files are there and returned handles listed; nothing is overwritten; expired files go |
| dashboard | 1 worker, 1 operator with a page, 2 messages, 2 stream slots (symmetric), queues of 2, 2 changes or restarts | 718 thousand | types and queue limit; no change is missed; only what was shown is acknowledged |

**Why the bounds are enough.** A race in the broker needs a victim and an overtaking call, and the hazards
listed need at most a question, an answer, a reader and a canceller: four calls. Closing a conversation of
three parties takes a joining message and three closings, the first of which opens it: four. Two calls that
take one named id for new need somebody in front of them in the lock: with the operator, who closes what the
second of them overwrites, four again. An inbox of one message makes every second message meet the limit, and
a cc that names a worker twice exceed it; what such a message, which the tables refuse, does to its
conversation takes a second message or closing after it. One restart suffices because restore reads the disk
only, and the disk after a restart has no trace of how often it happened. In Directory the state is finite
without a bound; two sessions and two ids are what a double replacement needs.

In Clients the second message is what a batch, a stale flag and a repeated notification need; the bot
observes, so that its own replies come back to it. One restart meets every pc of both programs. In the
matrix run every graph over three patterns is loaded, with and without a self-loop, which is the smallest
number with an edge into a closed component; each kind of refusal has a table, and two changes put a
refused one after every good one. Two uuids and two calls give FileShare an upload, a download and a sweep
that overlap, and the two faults one failure and a second one in the clean-up of the first. Two events
fill and overflow a queue of the dashboard; two stream slots let a page drop and connect again while its
first queue is still in the hub.

**Fairness.** *shutdown:* the event loop resumes every task that can go on (`WF` of each call's
steps), the write worker takes the next transaction (`WF` of `Commit`), and the 60-second loop expires
deadlines (`WF` of `ExpireDeadlines`). The last one assumes that not every round of the loop fails in an
earlier sweep, whose exception ends that round (`__main__.py:426`). No client has to call, no long-poll
has to time out and nothing has to fail.

*clients:* the event loops of adapter and bot run and handlers end (`WF` of `AdapterNext`, `Eof`, `BotNext`),
the broker is started again (`Boot`), time passes and the sweeps go round (`Age`, `Sweep`). Of the worker only
this is assumed: if it is notified again and again, it drains at some time (`SF` of a `Drain` that a
notification caused). No message has to be sent, nothing has to crash, and a host need not end.

*files:* the process is started again (`Boot`), goes on with the operation it is at (`Operate`,
`NextVictim`), and the daily loop comes to the file sweep infinitely often if there is always something to
sweep (`SF` of `Gc`: it is disabled while another handler is at the disk, and an exception of the message
sweep before it puts it off by a day).

### Disagreements between code and documents

Two runs check one property each, taken from a document, comment or test, and TLC finds it violated by
what the code does:

| run | the statement | the code |
|---|---|---|
| entry_to_closed | a dispatch into a closed conversation gets a new one (`tests/test_v3_dispatcher.py:113`) | the status is read before the lock is awaited; a message can enter a conversation closed in between |
| resubscribe | a re-registering bot acquires its schemas again (`server.py:275`) | a schema that only it held, and whose body it does not send again, is dropped while it stays subscribed |

Others were seen while modelling. They follow from a line or two of the code, so a run would add nothing:

* *Broker.* Two overlapping dispatches that name the same new conversation both begin it (`dispatcher.py:318`
  and `334`): the second one's state replaces the first one's parties and closings, and a close by the
  operator that read the first state ends the conversation on the disk only (`dispatcher.py:1107` to `1117`).
  The closing that close_thread itself makes is not written (`dispatcher.py:1089`), so a restart finds the
  conversation still open. A restart with `--restore` puts back every undrained row, also those of commands
  that a client answered without draining them, whose results are then expected again, and, after a failed
  write has lost the marks of a flush, more than an inbox may hold. `--restore` also puts questions to bots
  into `_in_flight`, without a deadline, although the comment at `dispatcher.py:926` says that only workers
  are tracked there. coverage lists a target whose deadline expired as having responded (`dispatcher.py:976`
  against `990`). A drained timeout notice becomes the context of reply, which then addresses `agora-system`
  (`dispatcher.py:1005` against `774`). cc is not searched for duplicates (`dispatcher.py:299`): an
  instance that it names twice is tested for room twice before anything is appended (`328`, `387`), so that
  one free place of its inbox takes two messages; and the two rows have the same primary key
  (`storage/persistence.py:51`), so that the transaction fails, the caller gets an error for a message that
  will be read, and memory has a conversation, and its status, which the disk has not (`Fits` in
  `CapacityRespected`, `Unwritten` in `DiskAgrees`, `UnwrittenMessage` in `StatusAgrees`). After close_thread
  by one party the conversation is half closed, while `src/plugin/cc-agora/skills/agora-close/SKILL.md:31` has
  it closed.
* *Clients.* The adapter's agora.unregister at its end is sent in a session that has registered nobody
  (`channel_adapter.py:188`), and the tool unregisters by session (`server.py:313`), so it never has the
  effect its comment at `channel_adapter.py:361` describes. The sweeper, which that comment names for
  killed workers, passes over an instance without a last_seen (`sweeper.py:87`): a worker that registers and
  ends before its first call stays registered. A bot whose handler runs longer than the dead-session timeout
  is swept while it works, and idles from then on: its flush gets an error, which it takes for an empty batch.
* *Comm matrix.* An empty JSON object makes an active matrix that denies everything (`comm_matrix.py:112`),
  which the docstring of set_active calls an accident (`117`); with `"active": true` in the same body the
  answer is 422 after the replacement, and no event is sent. `docs/comm-matrix.md` describes `.*` as a
  fallback, while the code takes the maximum over all matching cells. Edits by either endpoint are lost on
  a restart. The matrix agora-init draws can allow more than the team file says, for the text of a member's
  pattern is itself looked up in other allow lists (`provisioning/matrix.py:29`). agora-init writes allow entries
  as they stand, load_csv strips the headers (`comm_matrix.py:33`): in a team where a allows `"b "` and b allows
  `a`, the member b and the entry `"b "` become two headers `b`, of which the later row and column win, so that b
  may reach nobody (`ReadsBack` in `AsProvisioned`).
* *Files.* `docs/file-sharing.md` has a `fallback` field that `files/policy.py` refuses. Bytes whose row was
  never written stay in the directory for ever.
* *Dashboard.* On loading, the page asks for the inbox before its stream is connected, and a reconnection
  only brings a data snapshot (`dashboard.js:38`): a message to the operator in between is not shown until the
  next inbox event. bot_emit, agora.broadcast and timeout notices fire no `operator_inbox_message`, which
  `docs/dashboard.md` does not say; the page has no handler for `comm_matrix_changed`. A stream that is dropped
  before its generator enters its loop leaves its queue in the hub (`dashboard/routes.py:273`).

## 4. What is proved

The theorems hold for every set of instances, sessions, ids, schemas and requests, every matrix, inbox limit
and number of calls and restarts, files, pages and streams. They assume only the named `ASSUME`s of the
modules: the kinds of instances and constants are distinct, the instances are finitely many, requests are
well-typed, clients call under a name that is not the broker's, only a bot calls bot_emit (`server.py:597`),
the id of an operator is never a client's session id, the id of a worker matches itself and nothing else, and
is the id of a worker without the whitespace around it, too; `.*` matches every token without a line break.
Some theorems of `PromiseProofs` add a hypothesis on `Daemons`, the set of things that happen without a call;
each is there because TLC finds the property violated on an instance without it (for `InboxesAreBounded`: with
failing writes and restarts that restore). No theorem excludes a cc that names somebody twice: what it breaks
is named in the properties.

**`DispatcherProofs`.** `InvariantHolds` and `TypeCorrect` (`Spec => []TypeOK`). `TypeOK` is not inductive:
a reply, a cancel and a restart read what another call left in memory or on the disk, and what they then
store is only well-typed if that was. `IInv` adds what they rely on. `CallsOK`: a call past its start has
a well-formed request, a call in the lock has the conversation and the target its handler needs, a
dispatch made by close_thread has a parent that has started. `KnownOK`, `RowsOK`, `WritesOK`, `EdgesOK`:
what `convOf`, the rows, the queued transactions and the expectations know of a command agrees with the
call that sent it. The proof has one lemma per action; `Sends` does the common part of the three sending
handlers.

**`MailProofs`.** `WakeupsAreNotLost` (`Spec => []NoLostWakeup`) rests on two facts: every delivery wakes
all waiters of the inbox, and only `WaitLocked` registers one, for an inbox it finds empty.
`QuestionsHaveDeadlines` (`Spec => []InFlightHasDeadline`): edges are added together with their deadline,
and whoever removes a deadline removes all edges of that command. For cancel this needs `EdgesOK`: it
removes the edges whose `from` is the caller, and by the invariant those are all.
`SendersExcludeOneAnother` (`Spec => []LockIsExclusive`) rests on `OrderInv`: the lock queue has each call
that is in the lock or waits for it exactly once, and only the one in front may have gone further (`LineOK`);
each transaction of the write queue is awaited by the one call that submitted it (`WritesAwaited`); and a
close_thread waits in its loop while a closing of its own is under way, one at a time (`ParentsWait`).
`NobodyIsStuck` is the absence of deadlock for any number of calls, which TLC's deadlock check sees for four:
while some call is neither over nor blocked for mail, the write worker has a transaction to carry out, or
the first in line for the lock can go on, or a close_thread has the control. Its invariant `ProgressOK` says
that whoever awaits a transaction has one in the queue, that a close_thread in its loop runs or has a dispatch
of its own in line, that what runs is a close_thread or the first in line, and that only dispatches have a
parent.

**`PromiseProofs`** has what the broker promises about messages, conversations and the disk. Each part adds an
invariant to those of the two modules before it.

| theorem | property | the invariant and the argument |
|---|---|---|
| `NobodyWaitsAfterClose` | `NoWaiterAfterClose` | whoever set the closed flag is still on its way to the lock, or nobody waits any more |
| `QuestionsAreOut` | `QuestionIsOut` | an expectation is stored with its question delivered; what leaves an inbox is drained, or recalled together with the expectation |
| `MatrixHolds` | `MatrixIsRespected` | a dispatch on its way to the lock was let in by the matrix, and keeps sender and target |
| `BrokerKeepsPromises` | `KeepsPromises` | `PostOK`: every copy of a message in memory, in the write queue or on disk is a letter that a call past its sending sent, each command is sent to each target once, and a notice is of an expectation that has ended. With it each step is a `Post`, `Take`, `Recall`, `Expire` or `Restart` of MessageLife or a stutter: what a restart reads back are letters of the history, and the edges it makes are of those. No hypotheses |
| `MailIsNotLost` | first half of `MailSurvives` | `Durable`: a letter of a call that has returned has its row; `Unmarked`: what is in an inbox is not marked as drained, on disk or on its way there. So a restart finds the letter undrained. No retention sweep |
| `MailIsSafe` | `MailSurvives` | `NoStrays` for the other half: a row, on disk or on its way there, that no mark covers is of a message that is in an inbox; so what was taken or recalled is marked, unless the marks are still in the queue of a call that has not returned. No failing writes, no retention sweep |
| `InboxesAreBounded` | `CapacityRespected` | a handler looks for room under the lock and delivers before it awaits, to an instance named more than once in its cc as often: without the copies of one command (`Fits`), fewer messages than the limit are there, since what a handler adds is of one command and each place had room before it. A restart with `--restore` does not count what it queues: `UnreadFits` says of every prefix of the write queue that the rows unread after it fit, for the crash may cut the queue anywhere. It is kept since a submitted row that no mark covers is in an inbox (`NoStrays`), where it was counted, and since no mark is in front of its row (`LateMarks`). Excluded are failing writes together with `--restore`: a failed write can lose the marks of a flush and keep the rows of what came into the freed room |
| `AcknowledgedMailIsDurable` | `AcknowledgedIsDurable` | a call that is resumed without an error had its own transaction committed, with all its letters; no retention sweep, which deletes rows |
| `HalfClosedAreOwed`, `ClosedStaysClosed` | `HalfClosedIsOwed`, `ClosedIsFinal` | `ThreadsOK`: the closings of a conversation that is not closed are by parties of it, so that a party that joins has not closed yet; and close_thread and operator_close, which act on a state they read before they waited, know whether it is still the one (`born`) |
| `DiskHoldsTheMail` | `DiskAgrees` | `Unmarked` and `NoStrays` say which rows are mail; `LettersFare` says which mail is rows: how the call of each letter stands, so that a letter in an inbox has no row only if its call still waits for the transaction, or was told that the tables refused it, for a missing conversation or a second row of one key. No failing writes, no retention sweep |
| `AnsweredIsNotAwaited` | `AnsweredIsSettled` | `AnswersOK`: an answer names a command that is past its sending when the answer has its turn, so that no question is asked after its answer. No retention sweep, no restart, which restores what was answered and never drained |
| `ReceiversParticipate` | `ReceiversTakePart` | `TurnsOK`: calls are numbered as they start and the lock is FIFO, so that of two senders that wait the earlier one is in front, and a letter is of an earlier call than any sender still to come. A state that is begun under the lock is then newer than every letter (`ReceiversOK`). No hypotheses |
| `StatusIsOnDisk` | `StatusAgrees` | `StatusFollows`: the last write of the queue about a conversation has the status it has in memory, or the table has it and nothing is on its way, or one of the three exceptions of the property applies; `RowsFollow`: a conversation without a row is one whose message was refused or is on its way; `SendsInOrder`: sends are written in the order in which they changed memory, so that the last one refused has no later one behind it that was written; `BornBefore`: no state is as new as a call that waits for its turn, so that a misplaced closing is one of an earlier state. No failing writes |

**`DirectoryProofs`.** A registry is `Sound` if its dictionaries agree and its indexes list exactly the
registered bots. Detaching entries that both dictionaries have keeps it sound, storing an entry whose id
and session are free does, and every operation is composed of the two. With `HeldTable` (a schema exists
exactly if it is shipped or held) this gives `DirectoryTypeCorrect`, `RegistriesStayAgreed`,
`RoutesStayAgreed`, `SchemasStayHeld` and `BodiesStay`; and `RegistriesImplementNames` is the refinement
of `Names`: every action maps, for each registry, to `Claim`, `GiveUp` or a stutter.

**`ClientsProofs`.** `TypeCorrect` and `AnsweredOnce` (`Spec => []OneReply`). `OneReply` speaks of the message
a bot finished last. What makes it inductive is `FlagIsTrue`: while a message is at hand, the library's
`_emitted` is true exactly if the handler has emitted for it; and `AtHand`: a bot that handles has a batch.

**`MatrixProofs`.** `TypeCorrect` (what is in force compiles, so that a lookup of dispatch never fails) and
`ProvisionedMatrixGrants` (`Spec => []AsProvisioned`). The invariant says that the file, as long as nobody
edits it, and the matrix, as long as nobody replaces it, are the CSV drawn from a normalised team. Its core
are lemmas about that CSV: it has every member and every allow token as a row and a column, a member's cell
is 1 exactly if `_allows` says so, and a column that is no member is 0 throughout; and about what load_csv makes
of it (`StrippedOK`, `DrawnGrants`): a pattern granted to nobody stays so, and what is granted is found again if
the tokens of the team are still told apart without the whitespace around them. That a finite set of
cells has a greatest one is got from the well-foundedness of `<` on the naturals: the least distance below a
bound. `RefusalsAreUndone` (`Spec => RefusedIsUndone`) goes through every way a request of either endpoint
can be refused; the only one after which the matrix differs is the body that replaces the matrix with an empty
one and activates it, which is what the property excepts.

**`FileProofs`.** `TypeCorrect`, `ListedFilesAreThere`, `SavedFilesStay`. The invariant `Working` says what is on
the disk in the middle of something: what is still to be done is the rest of an upload of an id that is
not listed, whose bytes are there before its row is inserted, or the rest of the removal of an expired id.
`SavedFilesStay` is an action property and needs only that a call that saves has a worker and a name.

**`DashboardProofs`.** `TypeCorrect`, `PagesAreTold`, `AcksAreOfTheShown`. For the first two the
lemmas are about the hub: `PushKeeps` (a push keeps a queue's bound and loses a refreshing event only if it
sets `dropped`), `ToldKeeps`, `PublishTells` (after a hook call its event is in every queue of a matching
stream), `OthersStayLinked` (subscribing and dropping leave other pages' streams alone). `AckingWasShown`
strengthens `AckedWasShown`: an acknowledgement under way names only what its page has shown.

**Only model-checked:** the liveness properties (`EveryCallReturns`, `WaiterIsServed`, `EveryQuestionSettled`,
`MailIsDrained`, `GoneWorkersLeave`, `ExpiredIsReclaimed`; temporal reasoning under fairness with ENABLED is
out of the prover's reach) and `CyclesAreFound` (Tarjan's search is a RECURSIVE operator). Every other property
of a passing run is a theorem.

## 5. Abstractions

Dispatcher:

* Payloads are left out, except whether they close the conversation, and which bots subscribe to their
  type (`subs`). Message texts, priority, explicit `deadline_ts` and `reply_to` are left out. A deadline
  may expire whenever it exists: clocks are not modelled.
* An inbox is a set: flush returns everything it may, and no property is about the order inside one inbox. A
  cc list may name an instance any number of times (`nth` tells its copies apart). The order in which
  close_thread visits the parties is arbitrary.
* The instances, their subscriptions and the matrix are constant during a run of Dispatcher.
  `--bot-emit-recheck-acl` is off, its default.
* A write finishes within the TTL of half-closed conversations, and no call is as old as the retention of
  messages.
* coverage and the other listings only read and are left out.

Directory:

* `last_seen_at` is never, recent or old against the dead-session timeout. Descriptions, roles, cwd, wait
  mode and emit schemas are left out; so are the notifications and hooks, and the tables `schemas` and
  `bot_subscriptions`, which nothing reads back. A call that is refused before it changes anything is no
  step.
* A body is a model value, and `Invalid` one that `SchemaRegistry.register` turns down. A statement of
  SQLite that fails inside register_schema or register_bot is left out.

Clients:

* An inbox is the sequence of the senders of its messages. Durations occur only where the code compares
  two: the polls since a notification, and where a client may stay unheard for the dead-session timeout
  (`Unheard`: an adapter whose worker does not drain, a bot in its handler).
* A long-poll that finds no mail returns at its timeout; what it waits for in between is Dispatcher.
* The inbox limit, the comm matrix and a schema that is refused are one choice in `BotEmit`.

CommMatrix: weights are small naturals; a cell that is no integer or negative is `Bad`. `Strip` is the table
of what a header is without the whitespace around it. A team entry is its id, its allow list and whether its
other fields are as they must be. Reading and writing the file always succeeds.

FileShare: a policy entry is the ids its key matches and the names its patterns match; a size is a number of
chunks; hashes and content types are left out. A uuid is fresh. A change of policy (`Replace`) may let an upload
in or turn it away at any time; no property says more about it.

Dashboard: of `/dashboard/data` the registered workers stand for all it lists; rendering is left out. A page
sends the same request once while it waits for the answer. A GET that fails is not modelled. Events carry
their kind and operator.

Not modelled: SQLite's own behaviour and the full-text index, HTTP and MCP transport, authentication and
certificates, HTML, health, the log buffer and the metrics collector (counters and rates that
only the dashboard displays; no decision depends on them), command-line parsing, the terminal
interface, the worker directories and scripts agora-init generates, and process spawning. None of
them shares state with the components above in a way their properties depend on.

## 6. Plan

Done: the broker with its disk, sweeps and restart; the registries, the schema registry and their tools; the
channel adapter and the bot client; the comm matrix and the one provisioning draws; the file store; the
dashboard's hub, page and inbox. Type correctness of all of them and every safety
property but one are proved.

Left:

1. A composition of Directory with the inboxes of Dispatcher: mail for an id that is taken over, swept or
   thrown out.
2. The set of the conversation's parties for coverage and the transcripts, with the retention sweep.
