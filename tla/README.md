# FutureBI / DataAgent in TLA+

FutureBI answers business questions in natural language: a web service turns a
question into a query DSL, compiles it to SQL, runs it on DuckDB under guards
and explains the result; a second, longer path (the *agent graph*) plans,
fetches, analyses in a sandbox and reviews its own work. This directory models
the parts of the program whose correctness depends on the order of events
(control flow with budgets and retries, threads, shared pools and queues,
processes, restarts, reconnecting clients) and the rules by which a question and
the turns before it become a query, with its row filter, its tables and its dates.

File references are to the repository root. The specifications were written
from the code; where a comment or a document says something else, the section
*What the runs found* quotes both.

## Inventory

| component | state it keeps | operations | what is hard | correct when |
|---|---|---|---|---|
| agent graph (`core/orchestrator/{graph,nodes,agent,state}.py`) | `AgentState`: phase, plan, datasets, step outputs, counters, report | `run`, `resume`, six nodes, conditional edges | replanning loops under two budgets, partial failure of a plan, pauses that are resumed much later, state that outlives its round | ends within budget; the report agrees with what was fetched and with the failures; a pause can be resumed |
| agent event stream (`web/server.py`, `core/orchestrator/events.py`) | event queue per stream, `_AGENT_PAUSED_STATES` | start a run, resume by token, write events, drop when full, idle timeout | worker and writer thread, clients that vanish, two calls with one token, full queue | a pause is taken up once and by its owner; the outcome is delivered; both threads end |
| query concurrency (`exec/pool.py`, `exec/guards.py`, `web/service.py`) | pool queue and count, gate semaphore, statement worker threads | acquire, release, close, run under timeout | lock order, close while in use, statements that ignore interruption | no connection lost or shared; the gate holds; everybody is served |
| conversation memory (`agent/memory.py`, `agent/slotfill.py`, `persistence/kvstore.py`, used by `run_query`) | session states and pending questions, in each worker's memory and in SQLite | get, update, clear, TTL and LRU eviction; set, get, clear of slots | objects shared by overlapping requests, stale copies in other workers, restarts, clear racing update | sessions stay apart; a turn builds on the last successful one; a question is answered once |
| multi-tool agent (`agent/tool_agent.py`, the tools of `tools/builtins`) | local to a run: plan, executed calls, answer; on the one agent object: the conversation | `run`: plan, execute, correct, replan, reflect, synthesize | nested retries under one step budget, failures in mid-plan, an object shared by all requests | bounded work; a failure stops the run or is repaired; the last call decides whether the answer is an error; a run plans on its own conversation |
| query core and cache (`tools/builtins/_query_core.py`, `exec/query_cache.py`) | current DSL, rewrite count, LRU/TTL cache | compile, execute, rewrite, get, put | a rewritten DSL must pass the policy; stale cache entries | at most `SQL_SELF_HEAL_MAX_RETRIES` rewrites, policy on each; rows no older than promised |
| NL to DSL pipeline, query planning rules (`agent/pipeline.py`, `agent/heuristic.py`, `agent/time_utils.py`) | none | parse a question, default window | many rules on one question; which of them composes with which | what the rules make compiles or is refused, and the engine resolves its names |
| SQL compiler, DSL, catalogue (`compiler`, `semantic`) | none (a catalogue loaded once) | validate, compile in four ways, resolve windows | boundaries of windows, comparison and alignment computed apart, tables missing from FROM | windows ordered, compared periods pair up, no unknown alias |
| data policy (`security`) | rules loaded once | apply, strip, scope | must hold for every DSL that is run, over merges and rewrites | the row filter is on every statement, once after a merge |
| background tasks (`web/tasks.py`) | task table, events, pool queue | submit, run, snapshot, wait, cleanup | cleanup racing submit and wait | unfinished tasks are never dropped; who is woken sees the outcome |
| login and sessions (`auth/*`) | failure counters in memory and on disk, login sessions | check, record, authenticate, create, revoke | check-then-act over threads, restart | a lock holds for its delay, and ends |
| export store (`tools/builtins/_export_store.py`) | a file and its metadata per export | save, get, cleanup, download | two files per export, unlocked readers | only owners read a file |
| browser client (`web/static/app.js`, `js/*.js`) | the page's store, its streams | ask, answer, new thread, logout, reconnect | events of a stream whose thread is gone; reconnections; a stream that just ends | a thread shows its own events; a submission ends |
| intent router, clarification rules (`agent/router/intent_router.py`, `agent/clarify.py`, `attempt_fill` of `agent/slotfill.py`) | none (the open clarification is a session's) | route, ask back, put an answer together with its question | a question is routed twice, by the service and by the planner, with state that changed in between and patterns that differ | nothing is queried over the whole history unasked; an answer completes its question |
| retrieval, sandbox, skills (`core/*`) | files, a child process | mask, export, profile, execute | isolation | unit tests |
| providers, audit, presentation, evaluation, demo data | configuration, logs | adapters, rendering | external services, layout | unit tests |

Interactions: `server.py` calls `run_query` (data and glossary questions) or the
agent graph; both take connections from the one pool of `exec/pool.py` and run
statements through `exec/guards.py`; `run_query` reads and writes the
conversation stores around its call of the multi-tool agent; the agent graph
reports through an observer that feeds the stream's queue; a pause of the graph
becomes an entry of `_AGENT_PAUSED_STATES` that a later call redeems. The tools
of the agent parse the question by the rules (or take the DSL the session merged
for a follow-up), put it through the policy and the compiler, look in the result
cache and store exports, which the download endpoint serves. Asynchronous
queries run `run_query` on the task manager's threads. The browser's streams are
the clients of the stream endpoint; each of their reconnections starts a run of
its own on the server.

## Modules

| module | models | checked by | proofs |
|---|---|---|---|
| `Orchestrator` | the agent graph | `MCOrchestrator` | `OrchestratorProofs` |
| `AgentContract` | what a conversation promises, abstractly | through `OrchestratorRefinement` | `OrchestratorProofs` |
| `OrchestratorRefinement` | the mapping of the first to the second | `MCOrchestrator` | `OrchestratorProofs` |
| `QueryGate` | pool, gate, watchdog and the requests that use them | `MCQueryGate` | `QueryProofs` |
| `AgentStream` | the two agent endpoints and their pauses | `MCAgentStream` | `AgentStreamProofs` |
| `ChatSession` | session memory and clarification slots around `run_query` | `MCChatSession` | `ChatSessionProofs` |
| `ToolAgent` | the multi-tool agent and the self-heal loop of its queries | `MCToolAgent` | `ToolAgentProofs` |
| `SemanticDsl` | the catalogue and the query DSL with its validators | through `QueryTurns` | lemmas in `QueryTurnsProofs` |
| `SqlCompiler` | which DSLs compile, and the names of the SQL they become | through `QueryTurns` | lemmas in `QueryTurnsProofs` |
| `Heuristic` | the rules from a question to a DSL | through `QueryTurns` | lemmas in `QueryTurnsProofs` |
| `FollowUps` | merge, policy, and the normalisation of the trend tool | through `QueryTurns` | lemmas in `QueryTurnsProofs` |
| `Router` | intents, clarifications and their answers | through `QueryTurns` | lemmas in `QueryTurnsProofs` |
| `QueryTurns` | the turns of a session, composed of the five above | `MCQueryTurns` | `QueryTurnsProofs` |
| `Gregorian` | the calendar of Python's dates | through `TimeWindows` | lemmas in `QueryProofs` |
| `TimeWindows` | windows, comparisons and spines as dates | `MCTimeWindows` | `QueryProofs` |
| `Login` | failure counter, login requests, login sessions | `MCLogin` | `WebProofs` |
| `Tasks` | the task manager of asynchronous queries | `MCTasks` | `WebProofs` |
| `ToolStores` | result cache and export store | `MCToolStores` | `ToolStoresProofs` |
| `Client` | the page and its event streams | `MCClient` | `WebProofs` |

Some modules hold operators marked *Mutant*: variants of an action with a
plausible bug. `PROJECT.json` says which property each of them breaks; no
specification uses them.

### Orchestrator

One conversation: a first `run_agent` and the resumptions that follow its
pauses. `at` is the node the engine is executing; the other variables are the
fields of `AgentState` that the control flow reads. A node is one action; the
query and analyze nodes take one action per plan step, as their loops do, so
that a step may fail between others that succeed. `Route` is the engine's part
of leaving a node (count the visit, stop past `max_iterations`), `Suspend` and
`Resume` are the human-in-the-loop pause. The plan is the heuristic one or any
of `LlmPlans`; a fetch returns rows, no rows, or raises; the sandbox saves a
finding, the template summary, or fails; the reflector wants more or not. The
classification of the question's text is chosen once (`query`). `Fingerprint`, by which
the critic stops replanning without progress, tells a dataset with rows from an empty
one, and not one set of rows from another. A run that pauses on its last visit has
none left for its resumption, which ends at once.

`fetched` is a history variable: names registered since the last plan.

`AgentContract` says what the layers above rely on: fuel that only decreases,
over all resumptions; questions only while failures may still be made up for;
one outcome that the evidence and the failure count call for, or a cut-off when
the fuel is spent. `OrchestratorRefinement` maps `iteration` to fuel, `retries`
to strikes, the datasets and `no_data_reason` to evidence and the report to the
outcome; `ContractKept` is the contract's specification under that mapping.

### QueryGate

Three kinds of threads: data queries (connection first, then the gate), glossary
questions (the gate first, then a connection for each tool call) and agent runs
(a connection for each fetch, no gate). `acquire` is split where its lock is
released: the queue is tried (`Acquire`), a new connection is made
(`Create`), or the thread waits in the queue (`Get`); `release` is split between
its check and its put; `close` empties the queue step by step. A statement runs
on its own thread: `TimesOut` returns to the caller with that thread ended or
still running (`orphaned`).

### AgentStream

A stream has a worker thread that runs the agent and a writer that sends the
queue to the client. `Emit` and `DropOldest` are the observer, which discards
the oldest event of a full queue; `Put` is the endpoint's own blocking put (the
question, an error, the end marker). `Register` stores the paused state under a
new token; `Redeem` pops it and only then compares its owner. A post runs on one
thread and has a queue in the model only so that its answer is a frame like the
others. A run that raises is an error event of a stream; nothing catches it in a post,
whose connection ends without a response (`Break`). A client may disconnect, which the writer notices at the next frame, or
the response may time out after 300 idle seconds while the run goes on.

### ChatSession

A request is one call of `run_query`; `frame` holds its local variables, with
one action between two accesses to the stores. Session objects live on a `heap`
because `get` returns the stored object itself: what one request appends, an
overlapping one sees before `update` stores anything. `items` and `slots` are
the dictionaries of each worker process, `disk` and `slotDisk` the SQLite tables
they share. Anything may have expired whenever it is read (`RecallExpired`,
`RecallOutdated`, the second disjunct of `LookUp`). `update` is split at its two
locks and its persistence: `Check`, `Store`, `Dump`, `Write`. `Restart` loses a
worker's memory and its requests. A turn is named by its request: a DSL, a
message and a question are the request they come from. The router's verdict, the
match of an answer to a question, the merge decision and the agent's outcome are
nondeterministic. Errors of SQLite itself are left out.

### ToolAgent

A request is one call of `ToolAgent.run`; `frame` holds its local variables.
One `ToolAgent` serves the whole process, and `run` stores its caller's
conversation in two attributes of it (`history`, `lastDsl`) before it plans:
`StoreHistory`, `StoreLastDsl` and `Plan` are separate steps, since other
threads may come between. The rest is local. `Call` is the head of the loop
over a batch of planned calls, `Start` the beginning of a call, `RunTool` a
tool up to the DSL of its query (or the whole of a tool without a query),
`RunStatement` and `Rewrite` the self-heal loop of `_run_guarded`, `Finish` the
record of the call; `AfterCall` says which failures are corrected. `AfterBatch`
is the head of the replanning loop, `AfterSchedule` the test before the
reflection. `Correct`, `Replan` and `Reflect` are what the planner and the
reflector decide; without an LLM (`llm`) a call is never corrected, nothing is
replanned, and the reflector only judges.

Each call of the LLM is one step with any valid outcome: the retries inside a
decision leave no state behind. An output is its tool and what it came to;
a file that an export makes of an output without rows is `hollow`. Errors are
of two kinds, as `_is_permanent_error` tells them apart. A hit of the result
cache counts as a statement that succeeds. Parallel runs share only `history`
and `lastDsl`, which no other variable depends on, so one request suffices for
all properties but `PlansOnOwnContext`.

`Synthesize` is the end of `run` with its `except`: a synthesizer that raises
leaves an error beside whatever answer is there. It reads data only of a last
output that succeeded, so it can raise over no other. The answer is then the
planner's, which `run` sets again, or none, or, with an LLM, the one
`LLMSynthesizer` had from the rules before it came to its own; that the raise
may come before or after that answer is the choice in the action. An error and
an answer can therefore come together, and `LastCallDecides` says when: after a
successful last call only.

### QueryTurns, with SemanticDsl, Heuristic, FollowUps, SqlCompiler and Router

`SemanticDsl` is the contract: the catalogue of the code, a DSL as a record of
metrics, dimensions, filters, time axis and shape, and what its validators refuse
or erase. `Heuristic` is `DeterministicNL2DSL`: a question is the set of features
its keyword tests find, and `Parse` builds the DSL rule by rule in the order of
the code. `FollowUps` has what happens to a DSL between two turns: which
questions reset or continue a session, the deltas of a follow-up, the stripping
and the appending of the row filter, and what the trend tool adds (an axis, a
granularity, a comparison, an order, zero filling). `SqlCompiler` says of each
DSL whether it is refused and, if not, which tables FROM brings in, which
aliases the statement uses, which columns it has and what it sorts by, for the
four ways of compiling. The text of questions and SQL, literals, limits and sort
directions are left out.

`Router` has the marks that the patterns of the router and of the clarification
look for, apart from the features of the rules, because the patterns differ: the
router looks for metrics in lower case only (`intent_router.py:267`), the
clarification in any spelling, and either counts time words that the rules cannot
read. `Route` is the fast path, then any decision of an LLM, or the rules;
`Clarifications` is what a question is asked back for; `Fills` and `Joined` put an
answer together with its question. Where both have a feature of which the rules
take the first they find, either may win.

`QueryTurns` runs a session through these operators. A turn without a query is
`Chat`, `Clarify`, `Explain`, `Refuse`, `SystemAction` or `Reset`; each has the
effect of its branch of `run_query` on the open clarification and on the last DSL.
For a data question the planner, which routes it again after `Begin` may have reset
the session, plans a query or asks back itself (`AskBack`); a follow-up is not
planned again. `AskMetric` and `AskTrend` are the two tools on a question of its
own (the trend tool guards what the pipeline has already guarded), `FollowUp` a
merged DSL handed to either; `Succeed` keeps the DSL for the next turn, `Rewrite`
is the self-heal loop with any of `LlmDsls`, which may copy the row filter it was
shown, `Fail` leaves the session as it was, and `Forget` is the expiry of what the
session holds. `dsl.rls` counts the copies of the row filter. `asked` is a
history variable: the question of a query that no LLM had a hand in. A
clarification of an LLM, or one that only says something is missing, is never
filled, and is no open clarification here.

### TimeWindows

`Gregorian` is the calendar that the program's dates come from: a day is its
ordinal, as `datetime.date.toordinal` counts it, a month twelve times its year and
its place in it, as `_sub_months` counts months. `First` gives the first day of a
month in closed form, without a recursion over years, and `Month` finds the month of
a day; both agree with Python's on every day of the years 1 to 9999.

`Resolve` is
`_resolve_window`, `Shift` is `_shift_window`, `Align` the interval that the
comparison adds to a bucket, `Steps` the spine of a filled series, `Trunc` the
engine's `date_trunc`. `Ask`, `Trend` and `Answer` give a session any filter that
the rules, the default windows or an LLM can produce, after any other; an LLM may
also give a `reference_date` of its own, where the rules write `AS_OF_DATE`. A window that
leaves the years of a Python date, and a trailing year from the 29th of February that
leads to a year without one, is an error of the program (`NoWindow`).

`PeriodsPair` holds whatever day the windows start and end on, but says something else of
a window that `Vanishes`: one on days of a single month that the base's month ends
before, or on. Both of its ends are clamped to one day, the base is empty, and
the current bucket has nothing to be compared with. The anchors reach such windows.

### Login

`Check`, `Verify` and `RecordFailure` or `RecordSuccess` are the steps of a login
request, with other requests and restarts between them. `Seen` is the entry the
check looks at, `Failures` what the next failure counts from, which is the memory
of the process only. `Delay` doubles up to a maximum; a power that no float
holds is an error of the request (`Overflows`). `lock` is a history
variable: what remains of the delay that the last failure earned.
A session has an age; `Use` finds it expired, `PostLogout` ends it.

### Tasks

Every locked section of `TaskManager` is a step: `Submit` (cleanup), `Insert` and
`Enqueue` make a submission; `Start`, `Finish` and `Wake` run a task; `Wait`,
`Woken` and `Look` are a waiter. `Dropped` is the cleanup: expired tasks, then the
oldest ended ones beyond the limit. `backlog` is a history variable for
`HistoryBound`: only what is unfinished may exceed the limit.

### ToolStores

The cache is a sequence of entries, the one used last at its end, with the time
since each was stored and the time since its rows were read, which the program
does not know. `Hit`, `Miss` and `Put` are its calls; a statement takes up to
`Timeout` between the last two. An export is a file and its metadata: `Save`,
`SaveMeta` (or `SaveFails`) and `Announce` make it; `Expired`, `Unlink` and
`UnlinkTheMeta` are a cleanup, file by file; `Find`, `ReadMeta` and `Download` the
endpoint. Missing metadata name no owner, and then nothing is refused.

### Client

One handler of the page is one step, since the script runs each to its end.
`Run`, `Reply`, `NewThread` and `Logout` are the user, `Connect` to `Close` a stream
and its reconnections. `active` and `window` are the two references to a stream
that the code keeps, of which an answer sets only the first and a new thread
aborts only the second. `cards` counts the click handlers of a question's card,
each of which sends an answer of its own. `shown` is what the page shows,
reduced to the streams it came from.

## Runs

All runs use ordinary constants, and no bound replaces a guard of the code except
those named here.

| run | instance | shows |
|---|---|---|
| `orchestrator` | four step ids, four LLM plans and the heuristic one, one finding, 11 visits, 2 retries | `PausedIsResumable`, `PlansWithoutNoData`, `AnswerHasRows`, `DiagnosisHasSummary`, `ComesToRest`, `ContractKept` |
| `querygate` | two queries (one of two statements), a glossary question, an agent run, two connections, one permit, `close` at any time | `TypeOK`, `ConnectionsAccounted`, `GateHolds`, `RequestsFinish` |
| `agentstream` | a stream, two posts, two users, a queue of two, up to three progress events | `TakenUpOnce`, `TokenWorks`, `OutcomeDelivered`, `ResponsesEnd`, `RunsEnd` |
| `chatsession` | three requests, two in flight, two users on one session and a second session, one cached session, one turn of history, one worker that restarts | `SessionsApart`, `BaseSucceeded`, `AnsweredOnce`, `SeesLastTurn` |
| `toolagent` | one request, four steps, one rewrite, comparisons of up to five objects | `WorkBounded`, `FailureStops`, `LastCallDecides`, `ExportFollowsQuery`, `RunsEnd` |
| `queryturns` | 24 questions with a few features each (series, comparisons, windows, rankings, enumerations, follow-ups, a time alone, metrics in capitals, commands), the three built-in principals, two DSLs of an LLM, one rewrite, one answer to a question | `RowFilterOnce`, `EngineResolves`, `HistoryIsAskedFor`, `AnswerIsUsed` |
| `timewindows` | eight dates of the day, amounts 1, 2 and 5, absolute windows between six dates of an LLM, two reference dates of its own | `WindowsOrdered`, `PeriodsPair`, `SpineCovers` |
| `login` | one user and address, three requests at once, two failures lock, delays up to three ticks, two sessions, restarts | `LockHolds`, `LockEnds` |
| `tasks` | four tasks, two request threads, two pool threads, a history of one, restarts | `WorkIsKept`, `WokenSeesEnd`, `HistoryBound` |
| `toolstores` | two threads, two users and an admin, two exports, two keys, a cache of one, restarts | `OnlyOwnersRead`, `RowsFresh` |
| `client` | three streams, one reconnection each | `ThreadsApart`, `SubmissionEnds` |
| `querygate_queuedisserved` | two queries, two glossary questions, two connections; a violation is expected | `QueuedIsServed` |

Every module with a longer list of variables has a type invariant, `TypeOK` (of `Login`
and `Client`: `LoginTypeOK`, `PageTypeOK`). The table lists it where a run checks it; for
the other modules it holds on the same instances when added to the configuration, and
for all but `QueryTurns` it is proved.

Why the bounds are enough. *orchestrator*: two retries and eleven visits let the
run replan past both limits, pause and resume in every node that can pause, and
run out of visits; four ids cover the longest heuristic plan. *querygate*: as many connections
as queries, so that one more thread must queue; one permit against three users
of the gate, which one of them can hold while the queries hold the connections
(two permits and a second glossary question, 3.6 million states, show the same). *agentstream*: the queue overflows with one event less than a run
can emit; two posts race for the stream's token. *chatsession*: eviction needs a
second session, trimming a second recorded turn, a stale read a third request.
*toolagent*: four steps hold a plan that fails, its correction, a replan and a
follow-up; a comparison of five objects does not fit; a second rewrite would
repeat the first. The limits are within those the program accepts (3 to 5
steps), and the proofs hold for all of them. *queryturns*: a question has only
the features that some rule combines, and each rule that looks at two features
finds both; a session remembers one query and one open clarification, and turns
go on until no new state is reached; a question that was put together with an
answer and is still open (only an undefined metric can be) takes no second answer,
which would be put together with it in the same way, and its text is not kept. *timewindows*: the reference dates are the first and last days of
months of 28 to 31 days, the leap day, the turn of the year and a day in the
middle of a week; an amount of two or five reaches over a short month and a year.
The calendar itself has no bound. *login*: two failures lock and the third
request in flight is the one that the check has let pass before; a delay doubles
twice before it stays at the maximum, and an exponent of two is one past which
the power overflows. *tasks*: a history of one is passed by two submissions at
once; four tasks let two be ended while two are not. *toolstores*: a cleanup, a
save and a download want three steps of two threads; more threads repeat them.
*client*: three streams are one asked, one that answers it, and one of a second
handler or of a new thread.

`CHECK_DEADLOCK FALSE` where a finite number of calls end, and in the pool,
where a closed pool really leaves waiters behind, and in the client, whose page is left for good. The agent graph has an
explicit terminal step instead. Symmetry is used in `chatsession` (requests and
workers), `tasks` (threads of each kind) and `toolstores` (threads, exports, keys;
its one CHOOSE picks the only entry of a key): no liveness in any of them.

Fairness. *Orchestrator*: weak fairness of the engine (`Compute`): a single
thread whose calls of the LLM, the warehouse and the sandbox all have timeouts;
none of `Resume`, since nothing makes a user reply, so `ComesToRest` ends at a
question or at the end. *QueryGate*: weak fairness of every thread that has
begun and of a `close` in progress; none of `OrphansEnd`, since nothing makes an
interrupted statement stop. *AgentStream*: weak fairness of both threads; none of
clients. *ToolAgent*: weak fairness of every run, which is one thread whose calls
of the LLM and the warehouse have timeouts. *Login*: weak fairness of `Tick`, since
a wall clock goes on; none of the requests. *Client*: weak fairness of each
stream, whose connection the server ends (`ResponsesEnd` of `AgentStream`) or the
network breaks, and of leaving the page once a logout has been sent; none of the
user. The other modules have no liveness property.

`RequestsFinish` says that a request ends unless `Closed` or `Entangled` comes
first. `Entangled` is the circular wait of the finding of
`querygate_queuedisserved`: queries hold all connections and glossary questions
all permits. Both runs reach it (`querygate` with one permit, so that a single
glossary question holds the gate; without the exception the property fails
there too), and the property says that it is the only one. After `close` a
request that waits in `acquire` stays there for ever, which is why the property
ends at `Closed`.
`RunsEnd` excepts `Stranded`: a client that leaves with the queue full blocks the
worker in its last put. With the code's 256 places a run emits fewer events than
that, and the property says that nothing else can keep a run from ending.

## What the runs found

One run checks a property stated from a comment and is refuted by TLC;
`PROJECT.json` quotes the lines.

- `QueuedIsServed`: glossary questions and data queries take the gate and a
  connection in opposite orders (`service.py:415`, `service.py:477`).

Six more properties say what a reader of the code would expect or what a comment
suggests, and do not hold. Each has a configuration of its own beside the module
that states it (`MC<module>_<property>.cfg`) that reproduces the behaviour; they
are not among the runs of `PROJECT.json`.

- `InputsOfThisRound`: after a query step failed, the analysis of a new round
  reads the datasets the step fetched in an earlier round (`nodes.py:801`).
- `ReplanFollowsProgress`: the fingerprint that should stop idle replanning
  covers an append-only list, so it changes every round (`nodes.py:1406`).
- `StatementsExclusive`: two seconds after an interruption the watchdog gives up
  waiting and the connection is used again (`guards.py:391`).
- `SeesEveryTurn`, which is `SeesLastTurn` without its exception, with two
  workers: a worker's own copy of a session hides the newer row on disk
  (`memory.py:204`).
- `ClearedStaysCleared`: a request in flight stores the session that a reset has
  just cleared (`memory.py:251`).
- `PlansOnOwnContext`: two runs at once share the attributes the conversation is
  passed in, so one may plan on the other's (`tool_agent.py:1251`).

Smaller observations, without a run.

*Agent graph, streams, sessions, tools*: the template's summary, which says nothing
was found, counts as the attribution a diagnosis must have (`nodes.py:1424`); an
export after a glossary call or after another export writes a file without rows
though it has a question of its own (`export_report_tool.py:77`, against its
lines 6-7); a comparison of more objects than steps is cut silently; a follow-up
of the reflector that fails turns an answered run into an error; `retries` may exceed its declared maximum by
up to three (`TypeOK` of `Orchestrator` has the exact bound, and the proof);
with `retries` at the maximum a report is degraded even when the guard blocked
the query for lack of data; resuming past the visit limit leaves no mark and no
report, unlike `run`; a token is popped before its owner is compared, so a call
with the wrong user consumes the pause; a post whose run raises ends its
connection without a response (`server.py:525`); a pause never expires, though the error
message says it may; a restart loses all pauses; `pool.close` leaves threads in
`queue.get` waiting, and a connection released at the same moment may stay open
in a queue nobody drains; the session's DSL is dropped from the shared object
before the query of a new topic has run, so a query that then fails has no base
to return to, against the comment at `service.py:526`.

*Query planning and compiler*: the trend tool applies the row filter a second time
to a question of its own (`RowFilterOnce` therefore says once only of merged
queries); a follow-up that asks for zero filling after a comparison, and a window
metric with either, never compile; a follow-up's time delta sets the axis back to
the order time while the dimensions stay on the refund time; zero filling drops
other dimensions without saying so; with several metrics and none of them `gmv`
the ranking still goes by `gmv` and is refused; the fallback of the trend tool
skips the check for undefined metrics; the table of the time axis is not collected
for FROM, which only the DSL of an LLM can meet (`EngineResolves` is about the
others); a calendar window of n periods covers only the one n periods ago, though
the comment at `sql_compiler.py:155` says the past n; the spine starts at the
window's start rather than its bucket's, so that a series over a window that
starts in mid-month is filled with zeros throughout (`SpineCovers` is about whole
windows); a trailing year on a leap day raises a `ValueError` and not a
`CompileError`; the alignment by a month maps the last days of a month to one, weeks
never align, and a leap day falls on its neighbour (`PeriodsPair` is about months
and quarters); a window on the last days of a month, such as the 28th of February 2024
compared with the year before, has an empty base when both of its ends are clamped to one
day (`sql_compiler.py:75,108`), so the growth is missing although the base's month
has rows (`Vanishes`).

*Routing and clarification*: a metric in capitals (`GMV`) is no signal to the router
(`intent_router.py:606` searches the unlowered text), so with a last DSL the service
takes the question for a follow-up, and the planner, which routes it again once the
new topic has reset that DSL, asks back: two routings that `tool_agent.py:359-366`
says always agree (`HistoryIsAskedFor` shows that the second one is needed).
Yesterday, this week, last year or a bare month satisfy the clarification
(`clarify.py:50`), but the rules have no window for them, so such a question
queries the whole history after all, against `clarify.py:3-4` (the property excepts
them). Quarters and half years are the other way round: the rules read them, the
clarification does not, so the time is asked for though it was given, and such an
answer never fills. An undefined metric that is answered with a defined one is
asked back again, with a question that grows, since the undefined word stays in it
(`slotfill.py:166`). Any text with a time counts as an answer, so that a new
question is put together with the open one. System actions and refused requests
leave an open question in place, against `slotfill.py:9`. What an LLM asks back
(`llm_clarify`) is stored as a slot that nothing can fill, against `service.py:506`.

*Login, tasks, stores*: the count of failures begins again at one after a restart
or in another worker, against `ratelimit.py:3-4`; with two workers a memory entry
hides the newer one on disk; about a thousand failures past the limit make the
power overflow before it is cut off; the success of a request in flight ends a
running lock. The backlog of unfinished tasks is unbounded, and a result may be
dropped by the history limit before its time to live; nothing in the program
calls `wait`. An export without metadata refuses no one, which is safe only because
a file is deleted before its metadata and its id is unknown until both are written
(`OnlyOwnersRead`); a crash in between leaves an orphan for ever; the estimate that
the scan fuse uses is cached without a time to live (`guards.py:313`); queries that
do not go through the tools use no result cache.

*Browser client*: a new thread does not abort the stream of an answer, which goes
on writing into it (`ThreadsApart` states the exception), and leaves the page
running with its button disabled; a reconnection starts a whole new run and shows
its steps a second time; a second question before an answer gives the first card
a second handler, so that one click answers twice; the end of an earlier stream
clears `running` while an answer is being worked on; client errors are retried
like broken connections; `login.js` stores the session under another key of
`sessionStorage` than the console reads.

## Proofs

`tlapm` checks the following for every value of the constants that satisfies the
modules' assumptions. Each proof module defines `IInv`, proves that the initial
state satisfies it and that every action preserves it (one step per action, one
lemma per group of conjuncts that is disturbed in the same way), and derives the
properties.

- `OrchestratorProofs`: `TypeOK`, `PausedIsResumable`, `PlansWithoutNoData`,
  `AnswerHasRows`, `DiagnosisHasSummary` and `ContractKept`. The properties are
  about the end of a run, so the invariant says what holds on the way there:
  `RetryBudget` (how many failures can have been counted at each node; the
  planner is only reached within the bound, and query, analyze and critique may
  add one each), `VisitsInBudget`, `SynthesisReady` (what the critic has made
  sure of before it lets a run synthesize) and `ReportFounded`. `KeepsContract`
  maps every step to a step of the contract or to a stutter under `IInv`.
  Assumptions: the two limits are positive naturals, and LLM plans are among
  those `_plan_from_llm` accepts.
- `QueryProofs` holds two components that share nothing but the query they serve, the
  connection it runs on and the dates it asks for.
  Of `QueryGate`: `TypeOK`, `ConnectionsAccounted`, `GateHolds`, for any
  number of requests, connections and permits. `Possessions` ties the place of a
  request in the code to what it holds; `PermitsHold` counts the permits.
  Of `TimeWindows`: `WindowsOrdered`, `PeriodsPair`, `SpineCovers`, for all dates of the
  years 1 to 9999, all positive amounts and all filters of an LLM. The
  state needs little of an invariant, that the filter of the session is well formed
  (`Filters`: an absolute window in order, or a relative one of at least one unit); the
  properties follow from it and from arithmetic over the calendar, in steps:
  - a month begins where the one before it ends (`MonthStep`, from the lengths of years
    and the days before a month), so `First` is monotone (`FirstMonotone`), every day
    is in one month (`MonthFits`, `MonthUnique`), and no induction is needed;
  - taking months from a day takes as many from its month (`SubMonthsIs`) and keeps the
    order of days, although it may make two days one (`ShiftMonotone`);
  - a resolved window is in order (`ResolveOK`, mode by mode) and its base window earlier
    at both ends: `WindowsOrdered`;
  - the buckets of a window are those of the months from its first day's to its last
    day's (`BucketsAre`), and the shift moves both by the same number (`EndShifts`),
    which is the number the alignment adds and for quarters a multiple of three
    (`Agree`), so that aligning is a bijection between the buckets; the ends of a base fall
    together exactly if the window vanishes (`BaseVanishes`, `BaseRemains`): `PeriodsPair`;
  - a window of whole months starts and ends with first days of months, and a step of
    the spine is one of the months between (`MonthsCover`; weeks and days alike):
    `SpineCovers`.
- `AgentStreamProofs`: `TypeOK`, `TakenUpOnce`, `TokenWorks`, for any number of
  calls and any queue. `PausedFresh` says that a waiting state has not been taken
  up, `ToldWaits` that a token that is on its way to a client waits until some
  call sends it, `QuestionsOwn` that a call asks only with its own token.

- `ToolAgentProofs`: `TypeOK`, `WorkBounded`, `FailureStops`, `LastCallDecides`, for
  any number of runs and all budgets. `InBudget` and `ReplansInBudget` say that
  whoever may execute a call has a step left for it, and that a replan is paid
  for by the step it leads to; `AttemptsInBudget` charges each statement to the
  step it belongs to. `Trajectory` says what failures may lie behind a run at
  each place: none unrepaired before a planned call (`Fine`), exactly the last
  one before a correction (`Reparable`), only repaired ones as long as the run
  goes on (`Open`). `Answering` ties error and answer to the last call, through
  `Told`: what a planner concludes it concludes on a trajectory that is `Fine`. A
  step of one run leaves the others alone (`Locality`).

- `ChatSessionProofs`: `TypeOK`, `SessionsApart`, `BaseSucceeded`, `AnsweredOnce` and
  the action property `SeesLastTurn`, for any number of requests, workers, users
  and sessions, with and without a disk. Sessions stay apart because every object
  on the heap keeps the user and the session of the request that made it
  (`ObjectsProper`), which is what memory, disk, images about to be written and
  requests refer to (`ItemsProper`, `StoredProper`, `MineProper`); an object gets its
  `DSL` only from a request that succeeded (`PlacesFit`). `AnsweredOnce` needs that
  a question has been asked for good when it is stored (`Past`), that nothing
  overlaps a request that is alone, and that such a request leaves its question
  neither in its worker's memory nor on disk (`Consumed`). `SeesLastTurn` rests on
  a second invariant, `RecordedLast`: from the step that gives the session its DSL
  to the write of the row, the object, the worker's dictionary and the image agree
  (`Kept`), and once the row is written, disk and that worker's memory hold the last
  turn until a request of the session begins (`Last`). Assumption: no value that is
  stored is the `None` that stands for nothing. The proof showed that both
  properties were too strong for several workers, whose in-memory copies outlive
  what another worker does; they say so now, and runs with two workers agree.
- `WebProofs` holds three components that share nothing and extends all three.
  Of `Tasks`: `TypeOK`, `WorkIsKept`, `WokenSeesEnd`, `HistoryBound`, for any number
  of tasks and threads and any history limit. `OneOwner` says that a task is with
  one submission, once in the queue or with one worker, so that no step of another
  changes its status; `OverOnly` that only what is over expires or has its event
  set. `Counts` adds those that have cleaned up and not yet inserted to what is kept.
  Of `Login`: `LoginTypeOK`, and the action property `LockHolds`, for any number of keys and requests and
  any limits, under the assumption that failures are kept on disk: without it a restart
  ends every lock. A lock ends no later
  than the delay of the counter that the check would see (`Covered`); since a failure is
  counted from memory alone, no failure may be on its way to a locked counter that is
  on disk only (`NoneInFlight`).
  Of `Client`: `PageTypeOK` and `ThreadsApart`, for any number of streams and reconnections. At most
  one stream that may still deliver is of a thread without an answer, and it is the one
  that both references of the page name (`Held`), so that whichever of them a handler
  aborts by, that stream is aborted.
- `ToolStoresProofs`: `TypeOK`, `OnlyOwnersRead`, `RowsFresh`, for any number of threads,
  users, exports and keys. `Owned` says that an export whose id is known has its
  owner in its metadata or no file any more; `Held` carries that over the steps of
  a save, a cleanup and a download, so that a download that read no metadata finds
  the file gone. `CacheInv` bounds the age of rows by the age of their entry, and
  needs that a key has one entry. Assumption: every user has a principal.

`AgentStreamProofs` and `ToolAgentProofs` each hold a second invariant on top of the
first. `DInv` says what a stream still owes its client: the frames sent, queued and
in hand are in order, and an end marker follows an outcome, in the queue or
already received (`EndsWell`); it proves `OutcomeDelivered`. `EInv` says of what is
left of a plan that each export in it follows a query (`Paired`), and that the
query before an export about to be executed has given rows (`Following`); it proves
`ExportFollowsQuery`.

`QueryTurnsProofs` proves `RowFilterOnce`, `EngineResolves`, `HistoryIsAskedFor` and the
action property `AnswerIsUsed`, for any set of questions, any DSLs of an LLM that
pass the validators, and any number of rewrites and answers.

- The first three rest on `Remembered` and `Running`, one for the DSL the session
  keeps and one for the query of the turn. A DSL has its fields (`Shaped`), and
  unless an LLM wrote it, its time axis is one whose table FROM brings in or the
  compiler refuses it (`Dated`). That is stronger than `EngineResolves`, because the
  FROM clause does not look at the time axis: an axis of refunds must come with a
  metric of refunds, or with a window metric, which a comparison refuses and which
  else needs its time dimension. Each rule, delta and normalisation of the trend
  tool keeps it (`ParseDated`, `FallbackIs`, `MergeKeeps`, `TrendNormal`), also
  where a comparison takes the dimension away.
  Every way of compiling sorts by names that it selects (`SortsSelected`).
- `AnswerIsUsed` rests on `Open`: at most one question is open, no command or greeting,
  and what it lacks is what the clarification would ask for again. A question
  with a time put to it differs from the question alone in its time and its marks
  (`AnsweredIs`), so it is read as the same metrics, dimensions and filters
  (`SameReading`), is a data question to the service and to the planner alike
  (`CompletedIsData`), and stays readable through the guards (`StaysReadable`).
  The proof needs the exception the property states: a question of a definition, or
  small talk, that an LLM took for a data question without a time is asked back, and
  the answer brings the rules back to the definition.

`TypeOK` of `QueryTurns` is only model-checked: the prover does not know a string
literal to be a member of `STRING`, the set its aliases and values are taken from.

Only model-checked are also the liveness properties (`ComesToRest`, `RequestsFinish`,
`ResponsesEnd`, `RunsEnd`, `LockEnds`, `SubmissionEnds`): what a fair scheduler brings about is
beyond the prover.

## Not modelled, and the plan

Every invariant and every action property of the runs is proved. What remains to prove
is `TypeOK` of `QueryTurns`.

A composition of `AgentStream` with the contract of the agent graph (a pause in the
one is a question of the other) would repeat what the two already show: the
stream uses nothing of a run but that it emits, pauses and ends.

Not modelled, and why:

- *Retrieval, analysis skills*: masking, export formats, data quality, floating-point
  attribution. Pure functions of a result, beyond TLC's data; `Orchestrator` takes
  their outcome as any.
- *Sandbox*: a child process and the screening of a syntax tree; its verdict is any.
- *Model providers*: adapters to external services; an LLM is any answer or an error.
- *Tool registry, audit, metrics, presentation*: a table filled at start-up,
  append-only records, layout.
- *Evaluation and demo data*: offline tools and generated data.
- Of modelled components: the entities a routing decision carries for display and the
  older three-way classifier (`Router`), password hashing and signed tokens (`Login`), the owner a
  task's snapshot is compared with (`Tasks`), policy files (`FollowUps` has the built-in
  rules), scan limits and EXPLAIN audits (`QueryGate`), rendering, the status light,
  provider settings and the login page (`Client`), the two maintenance calls of the
  session store that nothing calls.
