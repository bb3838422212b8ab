# A verification project for 9router

9router is an AI gateway in TypeScript (Node.js). Clients that speak the OpenAI
or the Anthropic protocol send chat requests; the gateway picks a provider, sends
the request upstream, retries and fails over, and translates the answer back,
streaming or not. This directory holds TLA+ modules that model its core logic, TLC
configurations that check them on small instances, and TLAPS proofs about them.
Paths below are relative to the repository, whose root is `src/` here (so
`src/src/...` is the TypeScript source).

One fact shapes every module: a Node.js process runs one callback at a time. What
happens between two awaits is atomic; everything else interleaves. An action is
therefore one callback up to its next await, with every call it makes in between.
Where several processes share an SQLite file, or where a process may end in the
middle of a callback and leave what it has written, an action is one statement.

## 1. Inventory

| Component | State it keeps | Operations | What is hard about it | What makes it correct |
|---|---|---|---|---|
| Request scheduler (`src/src/performance/request-scheduler.ts`) | sorted queue, slot counter, statistics, a timer per task | `add`, the continuation of `fn()`, the timer, `clear` | timer and continuation of one task race; functions may hang; `clear` in mid-flight | limit kept, best task first, nobody waits beside a free slot, a promise settles once, counts add up |
| Health engine (`src/src/engines/health/`, `repositories/circuit-breaker-repository.ts`, `provider-state-repository.ts`) | provider records, circuit breakers | reports, resets, a periodic transition checker | two maps changed by reports, resets and a timer in any order; time | status and breaker agree; probed neither early nor late; the breaker does what the reports say |
| Provider health tracker (`src/src/services/provider-health-tracker.ts`) | counters per provider, windows of latencies and failures | record a success or failure, re-enable, score, rank | caps, windows, rounding, shared default arrays | outcomes move the score the right way; a recovered provider is eligible |
| Routing engine (`src/src/engines/routing/`) | policy and providers read from two files | reload, resolve, chain, order, report, failover | a reload that fails half-way; files edited between its two reads | after a successful reload the engine sees what the files say |
| Intelligent router (`src/src/services/intelligent-router.ts`) | none of its own; ranks the providers file by the tracker | order, report success or failure, name a failover target | a comparator with a tolerance is not transitive | nobody far worse is tried before somebody better |
| Streaming failover and HTTP agent (`services/streaming-failover.ts`, `performance/http-agent.ts`) | one loop per request: link, attempts, text so far; retries of the agent | `execute`, `request` | a loop that steps back, over an agent that retries; streams that break off; connections that are lost | few upstream calls, none to a provider that refused, every call ends |
| Pipeline server (`src/src/pipline/`) | a context per request; the tracker and the monitoring they share | 14 stages, hooks, the route handlers | retryable errors let later stages run; a failing stage after the response; providers disabled while others choose | one response per request, a success was finished, outcomes counted |
| Anthropic controller (`src/src/compatibility/anthropic-controller.ts`) | attempt, open block, text so far, the client connection | callbacks per upstream line, failover; the plain request | events of several upstreams form one message; the server may end the response meanwhile | the client reads one well-formed, complete message |
| Anthropic server and hardening (`anthropic-server.ts`, `anthropic-harden.ts`, `anthropic-middleware.ts`) | rate limiters, metrics, active streams | messages, clean-up of stale streams, shutdown | counts taken at several places; shutdown while streams run | counts agree with streams; shutdown ends |
| Protocol translation (`translator/`, `formatter/`, `compatibility/protocol-adapter.ts`) | none | requests, answers, streams, errors from one protocol to the other | one message becomes several; the form depends on order and on what comes together | what was said reaches the other side; tool calls stay paired with results |
| Compatibility server (`compatibility-server.ts`, `compatibility-layer.ts`) | a cached model list | `/v1/messages`, `/v1/chat/completions`, the model routes | two protocols over one engine; streams closed by a finish reason, an end mark or the end of the body | a stream reads back as the upstream wrote it |
| Aliases and virtual models (`alias-*.ts`, `virtual-model-service.ts`) | SQLite tables that several processes open, a cached list | create, update, delete, import, resolve, list | separate statements of several processes, a cache of 10 s, a recursive rebuild | one alias per name, usage counted for the alias that was used, a list no older than its time |
| Conversations (`conversation.service.ts`, `conversation-repository.ts`, `gateway/conversation-server.ts`) | conversations and their messages in SQLite | open, add messages, compress, fail over, archive at the start | statements that commit one by one, a process that ends between them; metadata read and written back whole | what was acknowledged is kept; usage accounts for the responses; only the idle is archived |
| Security middleware (`src/src/security/`, `engines/engine-server.ts`) | times of the requests of each address, blocked addresses | check, block, clean up, authenticate | a window, a block and a timer that deletes both | the limit per window; who comes back when told is let in |
| Monitoring (`monitoring.service.ts`, `monitoring-db.ts`, `gateway/monitoring-server.ts`) | counts in memory, snapshots in SQLite | report, snapshot, a new provider list | a statement that fails; a list that changes under the counts; the end of the process | no report lost or counted twice; a status no older than an interval |
| Timeline (`timeline.service.ts`, `timeline-repository.ts`) | one table of events | append, query, export, prune | nothing reads it to decide | - |
| Observability (`engines/observability`) | counters of one process | count, show | nothing reads them to decide | - |
| Cache, backup and integrity, configuration, logging, performance tools | see section 6 | | | |

How they interact. The pipeline server calls the tracker, the failover loop, the
agent and the monitoring by function calls in one process, so they share memory
and meet at awaits. The failover loop reports outcomes to the tracker, whose scores
decide in stage 7 of a later request which providers are used. The routing engine has a
tracker of its own, fed by HTTP reports, which its router ranks by. The health engine is
a process that hears of outcomes by HTTP reports as well. The Anthropic controller has
its own failover loop and meets the stream tracker of its server on the client
connection. The controller, the compatibility server and the pipeline share the
conversions between the protocols. The engine servers (health, routing, conversations,
...) put the same middleware before their routes.

## 2. Modules

| Module | Models | Extends / instantiates |
|---|---|---|
| `RequestScheduler` | the scheduler, with `clear` (`Spec`) and without (`ServingSpec`) | |
| `PriorityPool` | abstract: slots handed to the best waiting task | |
| `RequestSchedulerRefinement` | the refinement mapping from the one to the other | both |
| `HealthEngine` | records, breakers, transition checker and clock | |
| `ProviderHealthTracker` | the tracker's methods and its score, as operators of other modules' actions | |
| `RoutingEngine` | reloads, reports, rankings over two files that an administrator edits | extends `ProviderHealthTracker` |
| `StreamingFailover` | `execute()` over the agent's `request()`, several calls at once | instantiates `ProviderHealthTracker` |
| `GatewayPipeline` | stages, engine and route handler around the failover loop, several requests at once | extends `StreamingFailover` |
| `SseGrammar` | the Anthropic event grammar, as a recognizer (external contract) | |
| `AnthropicStream` | `_handleStream` and `_streamFromProvider` | extends `SseGrammar` |
| `ProtocolTranslation` | the conversions between the two protocols, as operators | extends `SseGrammar` |
| `MessagesGateway` | a client with tools over the three routes that translate | extends `ProtocolTranslation` |
| `AnthropicServer` | `POST /v1/messages` around its handler: middleware, both limiters, metrics, stream tracker, graceful shutdown, clock | |
| `AliasStore` | aliases and virtual models: the statements of several processes on one database | |
| `SecurityGate` | the rate limiter before every engine server, with its timer and clock | |
| `ConversationEngine` | conversations behind that gate, statement by statement, over restarts | extends `SecurityGate` |
| `MonitoringEngine` | counts, snapshots, provider lists, restarts | |
| `FoldLemmas` | induction over data, for the proofs: least numbers, left folds, filters, sums over finite sets | |
| `*Proofs` | the TLAPS proofs about the module of that name, and in `GatewayPipelineProofs` about `StreamingFailover`, in `AliasStoreProofs` about `RoutingEngine` and `ProviderHealthTracker`, in `ProtocolProofs` about `AnthropicStream`, `AnthropicServer` and `MessagesGateway` | those modules, and some `FoldLemmas` |
| `MC*` | the model values and chains of the instances | one module each |

Operators named "Faulty variant" are not part of any specification: each is a plausible
mistake in the definition after it, and a run finds its property violated with it.

### Scheduler

`add()` is `Add`; the continuation after `await task.fn()` is `FnReturns` (for a
value or an error); the `setTimeout` callback is `Expire`; `clear()` is `Clear`. Each
ends in `processNext()`, which is `Dispatch`. `phase` says where the promise of a task
is; a settled phase is `task.completed`. `running` is not a variable of the code: it
holds the calls of `fn()` that have not come back, which after a timeout or a `clear()`
go on without a slot. `ticket` is history, the order of arrival.

### Health engine

`Report` is the whole of `reportHealth()`, `Reset` both resets, `CheckTransitions` the
interval callback, `Tick` the passing of time. `history` is the list of reports since a
record was created, which no code keeps: it says what the breaker should be without
repeating how the service computes it. Latency samples are left out because no decision
reads them.

### Tracker, routing engine and router

`{ ...DEFAULT_HEALTH_RECORD }` is a shallow copy, so all records share two arrays, and they
are one variable each. The score is computed in integers, as the numerator and denominator of
twice the weighted sum, rounded half up to hundredths as `Math.round` does.

In `RoutingEngine` a file is known by what the engine can tell apart: a providers file by what
it enables and whether it is valid, refused by the schema, broken or missing; a policy file by
its tiers, or as refused or missing. `ReloadPolicy` and `ReloadProviders` are the two reads of
a reload; nothing else of the process runs between them, but an administrator may write. The requests
(`ReportSuccess`, `ReportFailure`, `Reenable`, `Order`) are one step each. `Ranked` is
`Array.prototype.sort` for short arrays (a leading run and binary insertion), because with a
comparator that is not transitive the result depends on which pairs the sort compares;
`NoApart` lists the neighbouring hundredths whose difference, in 64-bit floating point, is not
above 0.01. `writes`, `began` and `agreed` are history.

### Failover

`Start` enters the loop; every other action is what one upstream answer causes, up to
the next upstream call: `Repeat` (the agent sends it again), `Fail`, `Finish`,
`BreakOff`, `Hang`. `Try` is the head of the `for` statement, which is reached from
three places. An answer is a status, an error code, or a body that is complete,
truncated, empty or cut off by a lost connection. `content` holds the deltas by number.
`posts` and `answers` are history.

### Pipeline

A request is at one of the stages that touch more than its own context; the others are
merged with the next of these. `Proceed` is the engine's rule: a retryable error goes
on to the next stage, any other leaves the pipeline. Stage 13 records the outcome and
always ends in an exception, because `updateDailyStats()` binds 18 values to 17
parameters; the engine makes that an error of its own, and the route handler, `Respond`,
finds the headers sent or sends the error.

### Anthropic stream

One action per upstream event; a callback that settles the attempt's promise is followed
by the handler's continuation (`NextAttempt`, `EndAnswer`) in the same action; where no attempt
is allowed, the handler is at its error message from the beginning (`StreamInit`). `sent` is
what was written to the client. `EndByOthers` is the stream tracker ending a stale
response, or the client going away.

### Messages gateway and translation

The gateway keeps nothing of a conversation, so the client's history is the state: `Compose`
adds a message or the results of the pending tool calls, in any order and with or without a
remark, `Post` translates the whole and asks the upstream, `UpstreamRefuses`,
`UpstreamAnswers`, `UpstreamStreams` and `UpstreamIsEmpty` are what comes back, translated in
the same step because `HttpAgent` reads a body to its end before it is used, `Take` is the
client reading the answer, `GiveUp` its patience with a response that is never ended. Texts are
sequences of pieces that are told apart and never looked into. `transcript` is history: what
each side has said, whatever became of it in translation.

### Anthropic server

A request is read, judged and answered in at most two callbacks: from the middleware to the
handler's first await (`TurnAway`, `StopAtGate`, `Invalid`, `TooLarge`, `Limited`,
`AcceptAndEnd`, `Accept`), and the rest of the handler with section 6 of the route
(`Return`, `Throw`), whose inside is `AnthropicStream`. `ClientCloses` is the `'close'`
listener of the tracker, `Sweep` both clean-up intervals, `Shutdown` the signal handler,
`Close` and `ForceExit` its two ways to end. `phase` and `open` are apart because a
response may be ended by others while the handler goes on. `tracked` holds the keys of
`activeStreams`; their `createdAt` is `at`. The operators on the metrics record are the
collector's methods, so that one callback is a composition of them. `verdict` is history.

### Aliases

The alias server, the routing engine, the pipeline server and the compatibility server are
programs of their own, and each opens `data/aliases.db` (`alias-server.ts:32`,
`engines/routing/server.ts:28`, `pipline-server.ts:57`, `compatibility-server.ts:49`). Within a process better-sqlite3 is synchronous, so a call such as
`create()` is one callback; but the other processes go on between its statements. An action
is one statement: `CreateCheck`, `Insert` and `InsertStats` are `POST /api/aliases` with
`create()`; `Find` with `UpdateRow` or `DeleteRow` is `update()`, `toggle()` or `delete()`,
which look for the id and then use it; `Resolve` and `Record` are the resolver's two. `ImportBegin`
and `ImportEnd` are the first read and the commit of the import's transaction, which fails
(`ImportFails`) when another process has written in between: in WAL mode a transaction
that has read an old snapshot cannot write. `GetModels`, `ReadAll`, `Build` and `Defaults` are
`getModels()`, `Refresh` is `clearCache()` before it. `call` is what a process has on its stack
between two statements, and a crash forgets it. Foreign keys are on, as better-sqlite3 has
them, so statistics need their alias and go with it. `flips` and `credited` are history.

### Gate and conversations

`LetIn`, `RefuseBlocked` and `RefuseFull` are the three ways through `checkLimit()`, `Clean` its
timer, `GateForgets` a new process. In `ConversationEngine` requests do not interleave, since a
handler is synchronous, but each statement commits by itself: `job` is the handler's place, and
`Restart` or `InsertFails` may take the place of any next statement. `InsertMessage` and `Touch`
are the two statements of `addMessage()`, `AddUsage` and `Compress` the read-and-write-back of the
row, `Open`, `FailoverProvider` and `FailoverEvent` the other handlers, `Archived` what the start of
the process does. A row is what the properties tell apart: whether it is there and in use,
when it was updated, its tokens, the failover events and the compression in its metadata. `served`,
`told`, `acked` and `usedAt` are history.

### Monitoring

`Report` counts, `Refresh` posts a list, `Snapshot` is the timer, `EndAndRestart` the end of the
process, within a snapshot after any number of its inserts. `reported`, `lost`, `listedSince` and
`changes` are history.

## 3. Runs

Twelve runs, one per question; all must pass.

| Run | Instance | Shows |
|---|---|---|
| `SchedulerServing` | 4 tasks, 4 priorities with ties, 3 timed, 2 slots, no `clear` | the statistics account for every task; `ImplementsPool` (every callback is a step of `PriorityPool` or invisible to it); timed tasks settle even if every function hangs |
| `SchedulerClear` | the same with 2 timed and `clear` at any moment | every waiting task is in the queue once and never beside a free slot; best first |
| `Health` | 2 providers, thresholds 2, cooldown 3, check every 2, 10 time units, 4 reports per provider | status agrees with breaker; probed neither early nor late; the breaker follows the reports |
| `Routing` | 3 providers, latencies that make scores differ by 0.01, 2 policies, 5 contents of the providers file, 4 requests and edits | the ranking is sound although the comparator is not transitive; scores follow outcomes; a recovered provider is eligible; after a successful reload the engine agrees with the files |
| `Failover` | 2 concurrent requests, chains crossed over 2 providers, 2 attempts, 1 retry of the agent | bounded upstream calls, none after a refusal, every call ends unless its connection is lost in a body |
| `Pipeline` | a streaming and a plain request that share a provider, 3 attempts | at most one response, 200 means finished with the whole answer, outcomes counted once, every request answered (with the two exceptions below) |
| `Stream` | 3 upstreams of which 2 are tried, 3 deltas each: text, tools, arguments, empty | a plain text answer is a well-formed and complete message across failovers; every stream ends |
| `Gateway` | three routes, conversations of up to 5 messages, up to 2 tool calls in an answer, streams of up to 3 lines | the model is shown what was said; tool calls are followed by their results; a success carries an answer; a stream reads back as it was written |
| `Server` | 2 streams and a plain request of one client, 1 request per window of 1, 2 past the gate, streams stale after 1, clean-up every 2, forced exit after 1, shutdown at any moment | metrics agree with requests, tracker with open streams, none outlives its age and a period, 429 agrees with the rate, a shutdown ends |
| `Aliases` | an administrator, a resolver and a lister; 2 names, one of them a default; 2 ids, list valid for 2 of 3 time units, stack of 2 calls | one alias per name, usage counted for the alias that was used, a list right about what has not changed for its time |
| `Conversations` | 1 address and 1 conversation; window 1, 2 requests, block 3, clean-up every 2, 4 time units; 3 requests of up to 3 messages, compression from 4 messages on, beyond 6 messages or 1 token, keeping 5; the process ends anywhere | the rate; `Retry-After` is honoured; what was acknowledged is kept; usage accounts for the responses; only the idle is archived |
| `Monitoring` | 2 providers, lists with a duplicate and without one of them, interval 2, 2 reports, 2 changes, 4 time units | no report lost or counted twice; status at most an interval old |

Why the bounds are enough.

- Scheduler: with two slots and four tasks a task can wait behind another one while both slots are
  held, with ties in priority.
- Health: a breaker is opened, checked too early, checked in time and opened again; 10 units are
  more than two cooldowns with their checks, and four reports trip, close and trip again with
  thresholds of two.
- Routing: three providers are the fewest for which a tolerance is not transitive, and the
  latencies 6, 7 and 25 of at most 25 give scores that are 0.01 apart; four steps are two reports
  about each of two providers, or edits before, within and after a reload. The sort sees its run and its
  binary insertion.
- Failover and pipeline: the attempts are fewer than links and retries together, so both ways out of the
  loop occur; one request disables the provider the other one chooses, before or after it chooses. The
  answers are one per class of `STATUS_TO_FAILURE` and `ERROR_CODE_TO_FAILURE` that the loop
  treats differently, with each kind of body.
- Stream: fewer upstreams are tried than there are, with enough deltas to break off before, inside and
  after a block.
- Gateway: five messages are two calls with their results and an answer; two calls in one answer are the
  fewest of which one gets lost; three lines are text before, between and after tool calls, a
  finish reason and an end mark.
- Server: three requests of one client are more than either limiter admits in a window, the clock runs over
  two clean-ups and several windows, and the age of a stream is shorter than the period of the clean-up.
- Aliases: each kind of process runs once, and the lister also creates; two ids let a name be deleted and
  created again while another process still holds the old id, and three time units let a list go stale
  while it is built.
- Conversations: three requests let one cycle be cut off and sent again beside a failover; requests of up to three messages
  compress in one cycle or over several. The service keeps 8 recent messages and compresses beyond 30, or fewer when they have many tokens; with 5 and 6 the run has a slice
  that ends before the recent ones, one that ends below zero (4 messages), and one too short. The contents of a request are texts or, except for the
  response, lists, so that all, some or none of a slice are compressed; the block outlasts the window and two clean-ups, and
  seconds of two units make `Retry-After` round up. One address and one conversation suffice because
  no statement and no limiter entry concerns two.
- Monitoring: a provider is taken off the list with counts pending and put back, and the process ends inside a snapshot.

`MaxTime`, `MaxReports`, `MaxSteps`, `MaxChanges`, `RequestBound`, `PerRequest`, `MaxStreamLines`,
`MaxMessages` and `MaxCalls` of the gateway, `MaxId` and `MaxUses` are bounds of the models and of
nothing in the code; the limits, windows, thresholds, ages and periods are parameters of the code with small values.

`CHECK_DEADLOCK FALSE` stands where the system may stop: all tasks settled, all
requests answered, the stream or the conversation over, the process gone or the clock at its bound.

### Fairness

- Scheduler: weak fairness of the timers only. Node fires them; nothing makes a function
  return, so `TimedTasksSettle` must hold without that.
- Failover: weak fairness of `Settle(r)`: a call that stays silent is ended by the agent's
  timeout. A connection lost after the response headers is not silent in this sense: the
  `'end'` event never comes and `Hang` takes the call to where nothing continues it.
- Pipeline: weak fairness of `Advance(r)`, the same for the whole request. Arrivals are not fair.
- Stream: weak fairness of `Handle`: an upstream answers, fails, or is ended by the timeout
  of 30 s. `EndByOthers` is not fair.
- Server: weak fairness of `Tick`, `Sweep` and `ForceExit`: time passes and timers fire, and the
  clock waits for a timer that is due. Nothing makes an upstream answer, a client leave or a
  connection close, so `ShutdownEnds` rests on the forced exit.
- Health, gate and monitoring: no liveness is claimed. `ProbedOnTime`, `RetryHonoured` and `StatusIsFresh` are
  safety properties because the clock waits for a timer that is due, which assumes that timers are on time.

### Exceptions in the liveness properties

`FailoverEnds` and `EveryRequestAnswered` name the states in which the code waits for ever:
a connection lost in mid-body (`doRequest()` listens for neither `'aborted'` nor `'error'`
of the response), and, in the pipeline, a streaming request without healthy providers,
whose headers stage 12 flushes and whose response nobody writes.

## 4. Disagreements

What the models show of the code that its docs, comments or names would not lead one to
expect. None has a run of its own: the actions named do what the code does, and the
properties are stated so that they say what holds nevertheless.

Scheduler, health, tracker, routing:

- `clear()` sets the counter of slots to 0 while started functions go on, and as many again are
  started (`request-scheduler.ts:87`, `Clear`): the limit holds only without it.
- A breaker leaves half-open only on a report, though the troubleshooting guide says it resets by itself
  (`CheckTransitions`).
- All health records share the arrays of one default (`provider-health-tracker.ts:55`), so the
  failures of one provider lower the score of the others; `reset()` would not clear them.
- Scores within 0.01 count as equal (`:194`), which is not transitive, and floating point decides
  which neighbours are within it (`Before`).
- A reload that fails on the providers file answers with an error but has taken over the new policy
  (`routing.service.ts:137`, `ReloadPolicy`); a missing file leaves the old configuration and the
  answer says it was reloaded (`ReloadProviders`).
- Resolution uses the loaded and validated configuration; order and reports read the file as it is now, without
  the schema (`Candidates`). With a file that cannot be parsed, `/report` answers 500 and the
  failure is not recorded (`ReportFailure`). A failure of authentication names no failover target.
- The filter of candidates by model lets every provider through, so it is left out.

Failover, pipeline:

- Retries of one provider use up the attempts, and `onError()` ("called if all providers fail") is called
  although others were never tried (`streaming-failover.ts:106`, `Try`).
- The agent repeats a 429 that the router means to skip (`AgentRetriesAfter`); a 502 is retried for as long as
  attempts are left (`Fail`); a stream that breaks off has a success on record and no failure
  (`BreakOff`); the analytics stage records every request a second time (`Analyze`).
- The 503 of stage 7 never reaches a client: its error is retryable, so the pipeline goes on and ends in
  the 500 of the failing analytics stage, or in flushed headers and nothing else
  (`07-provider-health-stage.ts:40`, `CheckHealth`). The list of healthy providers is used as computed, while
  other requests disable them.
- Partial content is kept but never sent (`StreamSettle`).

Anthropic route:

- A tool block is started while the text block is open (`anthropic-controller.ts:206`, against the comment at
  `:140`), so `StreamWellFormed` speaks of plain text. The next upstream starts over and its text is told again, a
  truncated answer counts as finished, an empty one stops a block that was never started, and pieces
  of tool arguments after the first are dropped (`NextAttempt`, `EndEarly`, `Farewell`, `ArgumentsGoOn`).
- A handler that throws has its 500 counted twice (`anthropic-server.ts:194`, `Thrown`), a stream that failed counts
  as completed because its status was 200 (`Return`), what the middleware turns away is counted nowhere
  (`StopAtGate`), and the shutdown clears the rate limiter while requests still arrive (`Shutdown`).
- An upstream's 502 or 503 becomes a 500, because the type of the error decides (`ErrorStatus`); tool arguments
  that are not JSON make the formatter throw, which is a 500 too (`Throws`).

Translation and compatibility server:

- Of several tool calls in one message only the last reaches the upstream, and the results of the others are
  left without a call (`Translated`); a message of results only adds a blank user message.
- `/v1/messages` of the compatibility server hands on the Anthropic messages as they are, without system prompt and tools;
  `/v1/chat/completions` drops the system prompt and everything about tools (`Forwarded`, `FromOpenAI`).
- Both ignore the upstream's status, so a refusal becomes an empty 200 (`MessagesReply`, `ChatReply`), and a stream with
  an empty body is never ended (`UpstreamIsEmpty`).
- Its streams start a block of tool use while the text is open and stop the last block twice
  (`MessageEvents`); a chat stream loses the reason it finished with (`ChunkEvents`).
- A stream is the default on one route and not on the other (`Streams`). Express matches paths whatever their case, the
  detection of the protocol does not, so such a request is refused with 400.

Aliases:

- `getModels()` creates its defaults when no alias is enabled, where its comment says "If no aliases exist yet",
  and when all defaults exist but are disabled it calls itself until the stack is full (`Defaults`).
- `create()` reports an error for an alias that exists when the alias was used or deleted before its statistics row was
  written (`InsertStats`), and `resolve()` throws when the alias it found is deleted before its use is
  recorded (`Record`).

Gate and conversations:

- The documentation speaks of a sliding window (`README.md:44`, `ADMINISTRATOR_GUIDE.md:89`); the limiter blocks an address
  for five minutes (`RefuseFull`). A restart forgets windows and blocks (`GateForgets`).
- Of 5, 6 or 7 messages with more than 12,000 tokens, 2, 4 or 6 are compressed although 8 are to be kept: the end of the slice is below zero and
  counts from the end (`SliceEnd`). A compression marks messages in memory only, so the history stays whole, and the next one finds them unmarked and its count replaces the last one
  (`Compressible`); one that finds only lists writes nothing (`Compress`); `getOrCreate()` returns the row as it was before its update (`Open`).
- Messages and a new provider do not make an archived conversation active again (`Touch`, `FailoverProvider`); a new
  provider for an unknown conversation is answered "updated" (`Update`). A cycle that is sent again after a failure
  stores its messages twice (`InsertFails`).

Monitoring:

- Every report is answered with 500 although it is counted, because the statement after it binds 18 values to 17
  parameters; the daily statistics stay empty, and a client that repeats the report has it counted
  twice (`Report`).
- The tracker of that process is told of no outcome, so every provider is always shown alive and healthy.
- The rows of a provider that was taken off the list are shown for ever; one that is listed twice gets two rows
  (`Snapshotted`); the process ends without `stop()`, so up to an interval of counts is lost (`EndAndRestart`).
  `totalRequests` of the summary is that of the last window.

Seen while reading, outside the models: `verify()` of the integrity check replaces the manifest it is about to
compare with (`integrity-verifier.ts:65`).

## 5. Proofs

All proofs hold for every value of the constants that the named assumptions allow. The bounds that
make the runs finite (`MaxTime`, `MaxReports`, ...) are among these constants.

**`RequestSchedulerProofs`.** Assumes a finite set of tasks with integer priorities and a
natural limit. For `Spec`, with `clear()`: `TypeOK`, `QueueExact`, `QueueOrdered`,
`WorkConserving` and `TimersAndCalls`. They are proved as one inductive invariant, `IInv`,
because each needs the others: that `Insert` keeps the queue exact needs the
order (the insertion point is the number of tasks that do not rank lower, and that
these form an initial segment is `DownClosed`), and that a free slot leaves nobody waiting needs that the
slot counter and the queue move together in `Dispatch`. `NobodyForgotten` follows. For `ServingSpec`, a second
invariant, `ServingInv`, adds that the slot counter is the number of started tasks, which
is false after `clear()`; from it follow `ConcurrencyLimit`, `StatsConserved` and `SlotAccounting`.

From the same invariants follow `BestFirst`, for `Spec`, because the head of
an ordered, exact queue ranks before everything else in it (`HeadIsBest`), also right after an insertion
(`AddHands`) or the end of a task (`EndHands`); and `ServingImplementsPool`, that `ServingSpec`
refines `PriorityPool`. The step simulation sorts the scheduler's steps into arrivals, ends and steps that the
pool does not see (`ServeSteps`); `DispatchGrants` says that what `processNext()` leaves is what the pool grants, for
which the slot counter must be the number of holders (`ServingInv`) and the head of the queue the best
of the waiting.

**`HealthEngineProofs`.** Assumes positive thresholds, cooldown and period. `HealthInv` is
`TypeOK`, `Agrees` (how status, counters and breaker hang together, per provider) and
`Aged`: an open breaker was opened no earlier than a cooldown and a period before the next
check, and a half-open one has had its cooldown. `ProbedInTime` itself is not inductive: it
says nothing of when the next check comes, which is what `Aged` adds. Theorems: `TypeOK`,
`StatusAgreesWithBreaker`, `ProbedInTime` and `NotProbedEarly`, together `ProbedOnTime`, and `BreakerSteps` as an
action property. `BreakerFollowsReports` speaks of the whole list of reports, which the service does not keep;
`ReportsInv` adds what its two counters know of that list (`CountsReports`: the successes are those reported, the
failures the length of the run of bad reports at its end). That suffices because a report can trip the breaker
only by making that run long enough (`TrippedDown`), and can reset it only as the last of enough good ones (`TrippedUp`).

**`GatewayPipelineProofs`, the failover loop.** Assumes chains over the providers, at least one attempt and
any number of retries of the agent, and holds for any number of concurrent requests. `FailoverInv` is types and counting: while a call waits,
its posts are `link + attempts`. That gives `PostsBounded`, and with `CallsInv`, which counts the
agent's budget, `RetriesBounded`; both together are `UpstreamCallsBounded`. `NoCallAfterRefusal` needs one assumption more,
`ChainsDistinct`: a chain names no provider twice. `execute()` does not check that, so it is a premise of the theorem; the combos of
`pipline-server.ts:81-91` satisfy it.
`RefusalInv` says that every link that has refused is behind the one being tried; it holds because the
loop never turns back and the action for a refusal is to go on (`SettleAnswers`).

**`GatewayPipelineProofs`, the pipeline.** Any requests, streaming or not, and any combos, with repeated providers too. `PipelineInv` says what
a client may have been told (`Told`: nothing before the formatter has run, and no error that says 200) and where a request may be
(`Placed`: only stage 10 waits for an upstream, and a streaming request gets to the formatter only when a provider has
finished, because `STREAM_FAILOVER_EXHAUSTED` is not retryable and leaves the pipeline). The deltas of the last provider
end the text whatever was delivered before (`TailOfConcat`). Theorems: `AnsweredAtMostOnce`, `SuccessIsFinished`, and, for finite sets of
requests and providers, `AnalyticsCounted`: the totals of the tracker are the upstream answers that reached the loop
and the requests that reached the analytics (`CountInv`). Each step changes one summand of one or two of these sums
(`SumChanges`); a post counts from the moment it is settled, so a call that hangs or still waits is not in them.

**`ProtocolProofs`, the server.** Assumes a finite set of requests, natural limits and positive
periods. `ServerInv` is `TypeOK`, `StreamsReaped` and `Aged`: `StreamsReaped` alone could be
broken by a tick, and `Aged` adds when the next clean-up comes. `CountInv` is
`MetricsConserved` as a formula over the sets it counts (accepted, thrown, refused, done), and that a
request without a verdict has not been answered. The collector's methods come in three
compositions - a refusal, an acceptance, the end of a handler (thrown or not) - and one
lemma each says that the equations survive it; every action is then one or two of these.
`RateLimited` bounds every span of a window in the past, of which the limiter remembers nothing. `RateInv`
says what an entry knows: what was accepted since it opened is within its count, what was accepted in the
window before it opened is within the limit, and nothing was accepted since it ended (`InEntry`); a client without an entry has had
no more than the limit in the last window (`Idle`). A new span then overlaps at most two entries, hence twice the limit (`Spans`), and a
count is of requests really made, hence the 429 is earned (`Earned`).
Theorems: `TypeOK`, `StreamsReaped`, `MetricsConserved`, `RateLimited`.

**`ProtocolProofs`, the stream.** Any number of upstreams, attempts and deltas. `StreamInv` relates the two parties: as long as
the handler waits for an upstream, the client has read into the first block exactly as far as the handler's `startedBlocks` and
`blockIndex` say, unless somebody else ended the response, after which nothing more is sent. For this the reading is
shown to be a fold that goes on with each event (`ReadIs`, `Moving`), and each of the handler's answers to be a move of
the grammar. What ends the attempts is a farewell that closes the block (`EndAnswer`). Theorems: the type invariant,
`StreamWellFormed`, and `StreamCompleted` as an action property.

**`ProtocolProofs`, the gateway.** Conversations, answers and streams of any length, over the three routes. The four properties compare
sequences before and after a translation that filters and regroups them. `Values`, `TextOf`, `TextRead`, `Turns` and
`AnthropicToOpenAI` are left folds, so a conversation is shown to grow by what its last message becomes (`ShownOn`),
and each filter by what it keeps of that. `GatewayInv` has three relations:

- `OnRecord`: the translation of the history, which is never sent between two requests but could be at any time, tells the transcript (`Tale`).
  Each turn is there once (`TurnsSeen`), the prompt comes first (`PromptFirst`), and every call that is shown is followed by its results
  (`CallsAnswered`), except those of the last turn, which the client still has to answer (`OpenLast`, `Due`). `Numbered` and `Dated` are
  needed for `Linked`, that the result of a single call comes after it: a call is named by the turn that makes it, so nothing that was shown before
  can be its result. `TaleOn` adds a turn of either side.
- `InCall`: the upstream was asked with that translation, which the client does not change while it waits.
- `InAnswer`: the response is a function of the route and of the outcome (`Spoken`, `Streamed`), whatever came before.

`ModelSeesItself` and `ToolTurnsPaired` follow from the first two, because `Post` is only possible when the last turn is the user's
and so leaves no call open; `SuccessIsAnswer` and `StreamReadBack` from the third. For the streams, `ReadsBack` follows the conversion line by line: the client has
read the text up to there, into the block that the handler's index names, as long as no tool is called; `MessageEventsAre` and its
counterpart for the chunks add the end, which no line can counterfeit. Theorems: `ModelSeesItself`, `ToolTurnsPaired`,
`SuccessIsAnswer`, `StreamReadBack`.

**`AliasStoreProofs`, the store.** Assumes a finite set of names, a sequence of defaults over it and positive
bounds, and holds for any number of processes in any of the three roles. `StoreInv` is
`TypeOK`, which includes that no two aliases have a name; `Counted`, which says of each id what
`UsageCounted` says of each name; and `HoldsAll`: the id a process found by an earlier statement was
given out before, and its alias still has the name that was asked for or is gone. This is what AUTOINCREMENT is for:
if ids were given out again, a use could be counted for another alias. `ListInv` says that a list dated
`t` is right about every name not changed since `t`, of the cached lists as of those being built; with
the time to live it gives `ListFresh`. Theorems: `TypeOK`, `UsageCounted`, `ListFresh`.

**`AliasStoreProofs`, the routing engine's files.** Any providers, policies and contents of the files. `ReloadAgrees` is not inductive between
the two reads of a reload; `RoutingInv` adds that the policy is its file's unless somebody has written since
the reload began, and orders the three counts of writes. Theorem: `ReloadAgrees`.

**`AliasStoreProofs`, the tracker's score.** Any providers, caps, windows and latencies, in the process of the routing engine, which
performs every operation of the tracker. `HealthScore` is written as a function of numbers (`Score`), and so is what a success or a
failure does to them. Both scores of a step have different denominators: `ScoreFollows` compares them
share by share (`Shares`) after cross-multiplication, and `Rounds` says that rounding half up keeps the order. `Parts` bounds each share by its
weight, which gives the range of the score; without a streak, and with a latency of at most four tenths of the cap, the last and the second share
alone make the threshold (`Recovered`). `TrackerInv` has the relations between the counters these need, of which a
reenabled provider and the arrays that all records share are the hard part: as much of a streak as fits the window is within `recentFailures`.
Theorems: the tracker's types, `RecoveredIsEligible`, and `ScoreFollowsOutcomes` as an action property.

**`AliasStoreProofs`, the order of the providers.** Any list of providers. The comparator is not transitive, so that no
invariant of sorting applies, and what the order is depends on the pairs compared. What survives each insertion is
`Chained`: nobody comes right after one who is more than a hundredth worse. For this it is enough that the binary search ends between one that does not go behind the
new one and one that does (`Boundary`, `SearchFinds`), and that the comparator, whatever its answer, is never wrong by more than a
hundredth (`BeforeIs`). The run with which the sort begins is chained, reversed or not; a failover passes over the head
of the order only, and along a chain nobody is further behind than the places between (`ChainedBehind`). That the recursion of the search has a value
at all is `SearchExists`. Theorem: `RankingSound`.

**`ConversationEngineProofs`, the gate.** Assumes positive times and a block longer than the window, which the
defaults are (five minutes and one, `rate-limiter.ts`). `GateInv` says of each address that its window is what is left of
all the requests let in when a head of them is taken off, that this head is too old to count, and that whatever is in the window when a block begins is
too old when the block ends. The loop that shifts out the old takes off the first
`Expired` times; that there is one such number is `ExpiredIs`. Theorems: `RateKept`, and `RetryHonoured`, for which the time a client was told, rounded up
to seconds, is not before the end of the block.

**`ConversationEngineProofs`, the conversations.** Any addresses, conversations, limits, ages and forms of contents, and a process that ends and
is started again any number of times, after any statement. `DatedInv` says that no conversation is used
after its row was last dated, of the rows that are there, and of a cycle in progress that its row was dated at this
very time, because its last statement may find nothing to write (`CompressKeeps`). Every `UPDATE` of a handler
is an instance of one relation, `Redated` (`HandlersRedate`). Theorem: `ArchivedWasIdle`.

`KeptInv` adds to it what is in the tables: requests are told apart by their numbers (`NumberInv`); the messages of an acknowledged cycle are all there and stand together in its history,
and of the cycle being handled those that were inserted stand at its end (`HistoryInv`); an event is in its row once, and the acknowledged ones are
(`EventsInv`); and the tokens of the row lie between those of the acknowledged cycles and those of the messages stored, with the
cycle in progress counted on the side it has got to (`AccountsInv`). None of these is inductive by itself, and the
two theorems, `AcknowledgedIsKept` and `UsageAccounts`, speak of acknowledged requests and stored rows only, so they say nothing of what a half-handled request
leaves; that is why the invariant must follow it statement by statement.

**`MonitoringEngineProofs`.** Any providers, lists and interval, lists with duplicates too. `CountsInv` says, per provider and field, that what is in
the table, in memory and lost at the end of a process adds up to what was reported; that a snapshot keeps
the sum holds only because it clears a count at the very insert that writes it, so that a provider listed twice gets a second row of zeros
(`SnapshotLeaves`, for any prefix of the list, which is where the process may end). `FreshInv` says that whoever was on the list before the last snapshot has a row of it; with
`TimesInv` (the next snapshot is at most an interval away) it gives `StatusIsFresh`. Theorems:
`ReportsConserved`, `StatusIsFresh`.

**`FoldLemmas`.** The induction theorems of the library take an operator, which the provers cannot instantiate, so this module does
induction by the least counterexample (`LeastNat`, from the well-foundedness of the numbers). It shows that the fold over a
sequence exists, is unique, has the type of its operation, and goes on with an appended element (`FoldAppend`) or along an invariant
(`FoldAlong`); and that sums over finite sets do not depend on the order of their summation (`SumsRemove`), which gives `SumAdd`,
`SumSame` and `SumChanges`. Filters over a sequence are folds too (`Sieve`): `SieveRuns` and what follows it say what one gives of a
concatenation, of a sequence that passes or fails as a whole, and that two filters which agree about the elements give the same. Operations are given as functions; each proof that uses a lemma first shows its
operator and the function to agree.

Only model-checked, and why. Liveness under fairness and `ENABLED` are out of the prover's reach: `TimedTasksSettle`,
`FailoverEnds`, `EveryRequestAnswered`, `StreamEnds` and `ShutdownEnds` stay with TLC. Every other property of the runs is
stated by a theorem.

## 6. Not modelled

- **Timeline**: one table with one insertion (`POST /api/timeline/capture`), queries and an export. Nothing reads it
  back to decide, and no two of its operations can disagree.
- **Observability**: counters of one process that no decision reads.
- **Cache**: `performance/cache.ts` is constructed by no server.
- **Backup and integrity**: run by hand, one file after the other.
- **Configuration and logging**: read once at the start; output only.
- **Performance tools, dashboards, scripts**: measurements, assets and process management.
- **JavaScript twins** (`src/server.js`, `src/health-engine`, `src/shared`, ...): earlier versions of
  modules that are modelled from their TypeScript sources.

Left out of components that are modelled:

- Pipeline: plugins and hooks, the model list, and what stages 2, 4 and 5 write, which no modelled stage reads. The failover
  events that `execute()` collects are returned to nobody; abort signals are never passed.
- Anthropic controller and server: the model list, the alias lookup, headers, latencies, byte counts, wording.
- Translation: images beyond their place in a message, documents, thinking, token counts, the validator;
  `renderStream()` has no caller, and the Anthropic branches of `protocol-adapter.ts` are not reached.
- Compatibility server: the detection of the client and its sessions, and the model routes beyond the cached
  list, which only read.
- Aliases: searches, filters, the export and the aliases of `config/aliases.json` only read; failures are
  never recorded (`recordFailure()` has no caller).
- Conversations: files, tags, searches, deletion, statistics; texts, models and costs.
- Security: headers, the sanitizer, secrets, the audit log; `SecurityMonitor` has no caller.
- Tracker: `reset()` has no caller.
- Monitoring: latencies, tokens and costs are summed like the errors; summaries and charts only read.

## 7. State of the plan

Every component that keeps state which some decision of the program reads back is modelled, and composed with what it
shares memory, a process or a database with. Every safety
invariant and action property of the runs is proved, for every value of the constants. What would come next: several addresses and conversations
at once, should a statement ever concern two; the timeline, should anything begin to read it.
