# Verification of MiniAlpha

MiniAlpha answers research questions about stocks in durable, multi-turn
threads. A question becomes a *run*: it is admitted in PostgreSQL, executed by an
agent graph in a background worker, its events are published to Redis Streams
and followed by browsers over SSE, and it ends in exactly one terminal status.
Many hands touch one run (an HTTP submission, the worker, Stop, readers,
shutdown, a starting process), across two stores and several awaits. Around the
runs stand the agent with its tools, a result cache, the browser's chat client,
accounts, and the market-data services the tools and the workspace share. This
directory models these parts in TLA+, checks them with TLC and proves the safety
properties of most of them with TLAPS, for every value of the constants.

Paths below are relative to `src/`.

## 1. Inventory

| Component | State it keeps | Operations | Hard behaviour |
|---|---|---|---|
| Conversation repository (`app/persistence`) | threads, runs, request-key index | `admit_run`, `complete_run`, `fail_run`, `cancel_run`, `recover_abandoned_runs` | concurrent sessions, row locks and unique indexes, idempotent keys, compare-and-set on the head |
| Thread research service (`app/services/thread_research.py`) | a request's admission | `research` (synchronous), `prepare_stream`/`stream`, `recover_abandoned_runs` | crash between admission and finalization, another process recovering live runs |
| Detached run manager (`app/services/run_manager.py`) | queue, channels, worker and execution tasks | `start`, `submit`, `cancel`, `ensure_events_available`, `events`, `close` | task cancellation at any await, shutdown, second failures |
| Run event transport (`app/events/store.py`) | local replay buffer, Redis streams, degraded runs | `publish`, `events`, `latest` | failed or late publications, eviction, expiry, refused ids |
| Run and thread routes, SSE framing, lifespan (`app/api`) | none | HTTP handlers, start and shutdown | the interleavings above reach the service through them |
| Frontend chat client (`frontend/src/api/client.ts`, `chat/`) | cursor, reduced turns, cached transcripts | `send`, `stop`, `openThread`, `newThread`, `streamMessage`, `attachEvents`, `reduceRunEvent` | reconnects, a fetch in flight while a run ends, Stop before acceptance |
| Agent graph and orchestration (`app/agent`, `app/services/research_agent.py`) | graph state, LangGraph checkpoints | routing, model calls, tool calls, `stream_thread`, result extraction | recursion limit, failed turns and their checkpoints, calls without ids, cancellation |
| Tool execution (`app/agent/tool_executor.py`, `retry.py`, `tools.py`) | attempts of each call | `ainvoke`, retries, failure metadata | one call failing among its siblings, retry against deadline |
| Caches (`app/cache`) | exact and semantic entries, fill locks | `lookup`, `store`, `acquire_fill`, `wait_for_fill`, `release_fill` | two fillers, expired locks, copies that outlive their source |
| Accounts and sessions (`app/auth`) | accounts, sessions | register, login, resolve, logout, the local account | duplicate registration, creation races, expiry |
| Company research and watchlist (`app/services/company_research.py`, `watchlist_market.py`) | none between requests | lookups, comparison, watchlist batches | concurrent lookups of which some fail |
| Quantitative research (`app/services/quantitative_research.py`) | none (pure) | drawdowns, backtest, correlations, statistics, indicators | lookahead, alignment of dates, series boundaries |
| Market data provider (`app/providers/yahoo.py`) | threads of the default executor | overview, price history, seven datasets | blocking calls under a deadline on a shared pool |
| Grounding (`app/grounding`) | none (pure) | claim verification, provenance | |
| Observability, configuration, migrations, workspace pages, evaluation scripts | none that matters here | | |

How they interact: a route calls the run manager, which calls the service, which
calls the repository; the manager's worker executes the service's event stream
and hands each event to the transport; the browser attaches to the transport
through the manager. The service's agent runs the graph; its tools call the
company and quantitative services, and these the provider, which the watchlist
uses too. The stateless research route goes through the cache instead of a
thread. PostgreSQL is the only authority on a run's status: Redis, the local
buffer and the browser must agree with it and may lag behind it.

What makes each modelled component correct, in a sentence:

- *Repository*: one active run per thread, dense turn numbers, a linear chain of
  committed checkpoints, immutable terminal runs, one run per request key.
- *Service*: an agent graph never runs twice at a time for one run, equal keys
  get equal answers, an answer once given is durable, no run is left to nobody.
- *Run manager*: run_end carries the committed status and comes after the
  commit; every run ends and is announced; shutdown drains what it accepted.
- *Transport*: a reader gets each event once, in order, from its cursor to
  run_end; live runs survive eviction.
- *Agent*: the model only sees tool calls that were answered, every step spends a
  budget, and the stored result agrees with the live events.
- *Cache*: a hit answers the question asked, from evidence still fresh; one
  request at a time fills a key; nobody keeps a reservation.
- *Chat client*: events are reduced in order across reattachments, the view ends
  as the stored transcript, a send always ends.
- *Accounts and market data*: one account per address, a session belongs to who
  signed in; every symbol of a batch has its own answer, reports match their
  sources, and a market request ends whatever the threads do.

`PROJECT.json` lists every component with its status, and under `hazards` every
place of this code that is hard to test, with the properties aimed at it.

## 2. Modules

| Module | Models | Checked by |
|---|---|---|
| `ConversationRepository` | the repository protocol, each operation atomic (`memory.py`) | extended by the next ones |
| `PostgresTransactions` | the same operations as multi-statement READ COMMITTED transactions; implements `ConversationRepository` | run `postgres_transactions` |
| `ThreadResearch` | the synchronous path over the repository; processes that crash, recover, or come up without Redis and recover nothing | run `thread_research` |
| `RunLifecycle` | abstract: what clients rely on about a run | through the refinement below |
| `DetachedRunManager` | the run manager, the streaming path of the service and the part of the transport they depend on; implements `RunLifecycle` | runs `run_manager*` |
| `RunEventStore` | the bounded local buffer, Redis streams, degradation, readers | runs `run_event_store*` |
| `ToolExecutor` | isolated execution of one message's tool calls | extended by `ResearchAgent` |
| `ResearchAgent` | the agent graph over a durable thread, and `stream_thread` | run `research_agent` |
| `ResearchCache` | both cache tiers, fill locks, the stateless research path | run `research_cache` |
| `ChatClient` | one browser tab against an abstract server | run `chat_client` |
| `RequestThreads` | requests on the event loop and the thread pool they share | extended by the next ones |
| `AccountSessions` | accounts and sessions | run `workspace_services` |
| `QuantitativeResearch` | drawdowns, backtest, correlation as operators | run `workspace_services` |
| `FundamentalDatasets` | the records of the provider's seven datasets as operators | run `workspace_services` |
| `MarketData` | requests for market data over the provider | run `workspace_services` |
| `WorkspaceServices` | composes accounts and market data in one process | run `workspace_services` |
| `ConversationRepositoryProofs` (with `PostgresTransactions`), `ThreadResearchProofs`, `DetachedRunManagerProofs`, `RunEventStoreProofs`, `ResearchAgentProofs`, `ResearchCacheProofs`, `ChatClientProofs`, `WorkspaceServicesProofs` | the theorems about the module each is named for | TLAPS |
| `MC*` | model values, inputs and symmetry sets | |

### ConversationRepository

`threads`, `runs` and `requestKeys` are the tables; an identifier that was not
generated yet is a record with status "absent". `lineage` is a history variable:
the checkpoint a run started from and the one it committed. Answers, tool calls
and artifacts are one value: none, partial, final. `AdmitOutcome` is
`admit_run`'s decision in the order of the code (key, thread, active run), the
other operations are one action each, and `RepoNext` lets any caller call any of
them at any time. `FreshCheckpoint` is external: LangGraph never reuses an
identifier.

### PostgresTransactions

Each session's transaction (`txn`) is at one of the statements of
`postgres_admission.py` / `postgres_lifecycle.py`. Committed rows are the
variables of `ConversationRepository`; an open transaction's writes are applied
at its commit, its row locks and new index entries are in `holds`, and `Wants`
says which of them the next statement waits for. A statement that waited reads
the newest committed row, as PostgreSQL does at READ COMMITTED. A raced request
key rolls back and is looked up again in a new transaction, as `admit_run` does
after `UniqueViolation`. `Rollback` is a lost connection or failed statement at
any point before the commit. Of a transaction that has ended only what a
property needs is remembered. Messages are a single value in the run: a request
can still differ from the key's first use by its thread.

### ThreadResearch

`calls[c]` is one HTTP request: executing the agent (`pc = "agent"`), between the
two reads of a replay, or answered. A process is down, "managed" or "unmanaged":
only a run manager recovers (`Start`), and the lifespan builds none when Redis cannot
be opened, although it serves this path (`StartWithoutRedis`). A recovery that
committed and raised leaves the process down (`StartRaises`); `Crash` forgets the
requests of a process and leaves its runs. An admission or a finalization may raise
with nothing written (`AdmissionRaises`, `FinalizationRaises`) or after its commit
(`AdmissionLands`, `FinalizationLands`); its caller is told of a server error. Two
processes share the database, so one can recover what the other still executes.
A client that asks again is another caller.

### DetachedRunManager

One action is what happens between two awaits of the asyncio process. `exec[r].pc`
is where a run's `_execute` task is suspended, `worker.pc` the `_work` task's,
`submits`/`cancels`/`attaches` where each request is, `closer` where `close()` is.
An awaited repository call may take effect, raise, or both (`Landed`), and a task
that is cancelled meanwhile sees CancelledError afterwards. Redis is modelled by
what the lifecycle depends on: explicit ids, refused duplicates, publications
that fail or time out although they were applied. `durable` is the run's status
only. Runs stand for their request keys, so a second `SubmitCheck` for the same
run is a retransmission. When the grace period is over `close()` iterates its dict of
channels and awaits in the loop: `closer.visited` and `closer.owned` are the entries
visited and those the dict had when the iteration last went on. If a late submission
has added one, the next step of the iteration is `InterruptBreaks`, the RuntimeError
that leaves `close()`; an exception of `fail_run` leaves it too (`InterruptRaises`).

### RunEventStore

`streams` and `order` are the buffer's OrderedDict, `degraded` the one of degraded
runs, `primary` Redis. `Publish` runs up to the await of the primary
publication, `PublicationSucceeds`/`PublicationFails` complete it. A reader
picks its source when it attaches (`Attach`) and is then woken by `Read`; a reader
whose stream is evicted keeps the old object (`orphan`). Runs in `Replayed` start
with an old stream in Redis: their new events are the synthetic stream of an
idempotent replay, whose ids Redis refuses. `MaxLive` bounds how many runs produce at
once; `BufferSuffices` says that as many streams fit the buffer, which is what the
code's defaults are meant to achieve and what the promises about live runs rest on.

### ToolExecutor and ResearchAgent

One action of `ResearchAgent` is a node of the graph, or an attempt of one tool
call while the tools node awaits its `gather`. `graph` is the state LangGraph
carries and `saved` the checkpoints it keeps: the newest one, written after every
superstep, and the one the service published as the thread's head. `stream` is
what the live events said so far, `result` what `_extract_result` made of the
finished turn. `saved.published` is empty until a first turn completes. Messages
are records of type, call ids and status; the model may
call any tools with any ids (or none), answer, say nothing, or fail transiently
or for good. The router is a choice over what its rules select. `ToolExecutor`
has the executions of one message: each attempt ends in an artifact, a financial
error's artifact, a deadline or an exception, and the executor retries or makes
it the one message of that call.

### ResearchCache

One action per await of `_research_stateless`. `exact` and `lock` are Redis,
`rows` the semantic table, all with expiry times on a discrete clock; `Tick` may
happen between any two steps, so a lock can expire under its owner. Every cache
operation may raise after or before it took effect. A query is its key, its
class of symbols, intents and period, and whether its language is relative to
the date; the semantic tier may return any row its WHERE clause admits. `Earlier`
are the queries whose row an earlier process may have left in PostgreSQL.

### ChatClient

`send` is the hook's message in progress (posting, attached, reading, reloading),
`view` the turns on screen, `cached` the turns per thread, `data` and `inflight`
React Query's transcripts and its fetch. The server is what the run manager
promises: runs, numbered events, a transcript. Requests and streams fail a bounded
number of times, anywhere. A stream that closes keeps its cursor; one that breaks
with an exception loses it (`thrown` remembers that).

### RequestThreads, AccountSessions, MarketData, WorkspaceServices

`req` holds what each request slot serves; `queue`, `busy` and `stuck` are asyncio's
default executor: jobs in order, jobs somebody awaits, and threads still in a
lookup whose `wait_for` gave up. Account handlers are one action per database
call or hashing job; market requests start one task per distinct symbol, settle
them in any order, and answer at the first exception or after the last task, as
`gather` does. `QuantitativeResearch` keeps the code's single passes with prices as
integers and ratios as pairs. `FundamentalDatasets` keeps which records a dataset
has, from which part of Yahoo's answer, in which order and under which limit, and of
the ratios which metric is in which of the four categories, with its number or
without one.

## 3. Runs

All constants are model values or small strings; symmetric where the
specification treats a set's members alike (never in runs with liveness). Every
property of every passing run has a mutant in `PROJECT.json`: a plausible bug
that the run finds.

| Run | Bounds | Shows |
|---|---|---|
| `postgres_transactions` | 3 sessions, 2 threads, 2 runs, 1 key, 2 checkpoints | three transactions are needed for a waiter behind a waiter (a run's holder, a recovery, an admission). Every commit is a repository step, no circular wait (`LocksAreSound`), the thread lock alone serializes turns (`ThreadLockDecides`), a statement that waited decides on what is committed now (`WaitersReadAgain`); the committed rows are consistent (`ThreadsConsistent`, `HeadsConsistent`, `RowsConsistent`) and history is not rewritten |
| `thread_research` | 3 requests, 2 processes, 1 thread, 2 runs, 1 key, 2 messages | executor uniqueness and no checkpoint conflict, agreement and durability of replies, and no run left to nobody while every process is managed, under crashes, recoveries of live runs, starts without Redis, and admissions and finalizations that raise before or after their commit |
| `run_manager` | 2 runs, one request of each kind, 1 restart | run_end is right, shutdown leaves only late arrivals and what they cut off, refinement of `RunLifecycle`, and every admitted run ends or the process does. Two runs are needed for one to be queued while the other runs |
| `run_manager_faults` | 1 run, two requests of each kind, 2 repository faults, 1 Redis fault, 1 chunk, 1 restart | with calls that raise (and may have committed) and a publication that fails: the agent runs once, ids stay contiguous and run_end follows a terminal commit, and as long as no repository call raised the announcements are right |
| `run_manager_cancel_race` | 1 run, one request of each kind | violation, section 5 |
| `run_manager_worker_death` | 1 run, 2 repository faults | violation, section 5 |
| `run_event_store` | 3 runs in a buffer of 2 streams of 2 events, 3 events a run, 1 failure, 1 replayed run, 1 reader | readers get nothing twice, and those the properties do not exempt (section 5) miss nothing; live streams are retained; the same readers, and `latest` of a run whose degradation is remembered, find the end. Every limit is smaller than what reaches it, so eviction, trimming and forgetting a degraded run all happen. Readers do not affect each other, so one is enough. No deadlock check: everything may have been published and read |
| `run_event_store_expired` | 1 run, 1 reader | violation, section 5 |
| `research_agent` | 2 turns, 1 tool and 1 unregistered name, 2 ids, 2 calls, 2 attempts of tool and model, 6 supersteps | answered calls, budgets, agreement of result and stream. Two turns are needed for a turn to start from a failed one; two calls for ids to collide and for a message to fail in part; six supersteps let the limit fall on either node |
| `research_cache` | 2 request slots, 2 requests, 4 queries, 2 artifact sets, clock up to 4 (two ticks per second), 1 raising operation | hits are sound, fills are exclusive, reservations return. The queries are a question, a paraphrase the semantic tier may match, one of another period it may not, and one about today; an earlier process may have left a row in PostgreSQL, valid or of an old schema, so two requests suffice for promotion and reuse; the lock, the wait and the shortest retention are one second of two ticks, so each can expire under whoever relies on it and times are really rounded to whole seconds |
| `chat_client` | 2 threads, 2 sends, 1 chunk a run, 1 failure | order of reduction, the view is the transcript, every send ends. Two sends let one run's fetch meet the other's end; one failure can be any of refused, closed, broken, unanswered |
| `workspace_services` | 2 requests over 1 thread, 2 symbols, 4 spellings, 1 address, 2 passwords, 81 price histories of 5 points, 5 short ones, 14 dataset answers, windows 2 and 3, 1 database failure | identities, batches, reports, and that market requests end. Five points and windows of 2 and 3 let a position open and close; one thread makes every lookup wait behind another or behind a hashing job |

Except for the repository transactions, the service and the run manager runs, a
finished system may stop (bounds on requests, clock or sends), so deadlock is not
checked there.

### Fairness

- `run_manager`: weak fairness of the worker, of each execution task, of suspended
  submissions and cancellations and of the shutdown, because the event loop
  resumes every task whose awaited call has returned, and repository and agent
  calls return (the agent under `asyncio` deadlines, the database under its own).
  Nothing is assumed of new requests, of crashes or of `close()` being called. The run
  has no repository faults: with one, a run whose `cancel_run` raised while it was
  queued does stay in progress until the next start, which is how the code is.
- `chat_client`: the server ends its runs (what `run_manager` shows) and, once the
  bounded failures are spent, requests are answered and streams deliver.
- `workspace_services`: tasks that can start do, and timers fire. No thread is
  assumed ever to return: the deadline is what ends a market request. Sign-ins have
  no deadline, so nothing is claimed of them.

`research_agent` needs no fairness: `TurnsSpendBudgets` says of every step that it
draws on a budget that is not refilled, so no turn goes on for ever.

## 4. Proofs

A TLC run shows a property on a small instance; a theorem shows it for every
value of the constants: any number of threads, runs, sessions, requests, turns,
tools, queries, retentions and faults. None of the properties below is inductive
by itself, so each proof module defines an invariant that is, checks it from
`Init` and through every action (one lemma per action), and derives the properties
from it. Before it was proved, each of these invariants was checked by TLC on the
instance of the module's run.

Assumptions. Every one is named, declared with the constants it is about, and
evaluated by TLC on a run of a module that extends it. `ThreadResearchProofs` extends
the repository's proofs and so sees `TablesAssumption`, but cites it nowhere:

| Assumption | Says |
|---|---|
| `NoneAssumption`, `AbsentAssumption` | the value for "nothing" is none of the things it stands beside |
| `CodesAssumption`, `ServiceAssumption` | `process_interrupted`, the agent's codes and `thread_conflict` are error codes |
| `TablesAssumption` | identifiers of threads, runs and keys differ, as rows of different tables do |
| `ManagerAssumption` | the worker's stop sentinel is no run and no queued item; bounds are numbers |
| `CacheAssumption`, `KeysAssumption`, `EarlierAssumption` | retentions, lock, wait and clock resolution are whole numbers (all but retentions positive); a cache key names one query; earlier processes stored only semantically eligible queries |
| `StoreAssumption` | the limits of the buffer are positive, replayed runs are runs and their run_end is a second event, "nothing" is no event |
| `ChatAssumption` | bounds are numbers, there is a thread, "nothing" is no thread, no transcript and no fetch under way |
| `AsksAssumption` | every spelling a client sends has a normal form or is refused |
| `ExecutorAssumption`, `AgentAssumption`, `PoolAssumption` | attempts and threads are at least one; the other limits are numbers |

**ConversationRepositoryProofs.** That `HeadStableWhileActive` survives a completion
needs that no other run of the thread is active; that history stays linear needs
that nothing has extended the current head (`HeadIsUnextended`), that heads and
parents are committed checkpoints, and that checkpoints are fresh; that turns stay
dense needs that the active run is the newest. `RepoInv` is the conjunction. Each
operation first gets an *effect lemma*, which states pointwise what it does to the
tables (`AdmitEffect`, `CompleteEffect`, `FailEffect`, `CancelEffect`,
`RecoverEffect`); the preservation lemmas use only these. The properties the runs
check group the results (`ThreadsConsistent`, `HeadsConsistent`, `RowsConsistent`,
`HistoryIsKept`), and each group is a theorem of its own.

The second half of the module is about `PostgresTransactions`. The transactions implement the repository
(`TransactionsAreAtomic`): statements stutter, and each commit is one operation. The
invariant `TxInv` is `RepoInv`, `HeldOnce` (no row is held twice) and `CallOK`, which
says per statement what a transaction may still rely on: past its thread lock an
admission's turn and head are those of the thread row, a finalization that locked
its run knows it active, a recovery has every active run it saw in hand or ahead
of it. A statement changes one transaction and no table (`LocalStep`). A commit
changes only rows its transaction holds, so what others rely on stands
(`CommitStep`); this is where `HeldOnce` is needed. Freedom from circular waits
(`LocksSound`), sufficiency of the thread lock (`ThreadLockSuffices`) and current reads
after a wait (`WaitersReadCurrentRows`) follow from `CallOK`. Since a commit is a
step of the repository, `RepoInv` carries over, and with it the consistency of the
tables (`TablesStayConsistent`) and of history (`TransactionsKeepHistory`).

**ThreadResearchProofs.** A step of the service is a repository step or leaves the
tables alone (`ServiceStepIsRepoStep`), so `RepoInv` carries over; this is by the shape
of the definitions and a lemma only. `ServiceInv` adds what a request remembers: an executor
holds an existing run and the head it was admitted with, a replay names a
completed run, a keyed request names what its key resolves to. From it: a single
executor per run and an unreachable `CheckpointConflictError` handler
(`ExecutionIsExclusive`), keyed agreement and durable answers (`RepliesAreKept`).
`NobodyStranded` is proved by a second induction on top: each step either leaves a
run's attendant alone, ends the run, replaces its attendant, or takes a process out
of "managed". It says of the code that nobody is stranded under two conditions, each
with a case where the code fails without it (section 5): that every process has a run
manager, and that no request of the run ended in a server error.

**DetachedRunManagerProofs.** `ManagerInv` has two halves. `SafeInv` holds whatever
fails: `RunInv` ties the position of a run's task to its row, channel and streams
(a task that has more to say has no terminal channel; a channel is terminal only
when the row is; the buffer is numbered as the channel counts), and the other
parts say the same of whatever refers to a run: a fresh submission's run is
untouched, a queued run has no task, the only suspended task is the one the worker
awaits, whatever is on its way to Redis as run_end belongs to a run that is over.
That the agent starts once and that events are in order follow from `SafeInv`, with
any repository and Redis faults. `QuietInv` speaks of behaviours in which no
repository call has raised: there a task that has not finalized finds its run in
progress, every announcement carries the committed status, and every open run is
queued, executing, being cancelled or still to be failed by `close()` (`Accounted`). From
both: `AnnouncementsStayRight` and the refinement of `RunLifecycle`
(`ManagerImplementsLifecycle`, for `DbFaults = 0`: with a repository fault the code
does announce "error" for a run that may have completed, section 5).

`CloseDrains` needs a third invariant, `DrainInv`. There is one sentinel, put on the queue
as `close()` begins, and a worker that returned within the grace period took it, so what
is queued then came behind it (`SentinelInv`); a channel that appeared since the loop of
`close()` last took stock belongs to a late arrival (`LoopInv`), so whatever the loop did not
visit because it broke is `CutOff` by one. A run queued before the sentinel is not
exempt: it was executed, or the loop failed it. A run that is cut off takes three runs
(one the loop is failing, one it has not visited, a late one); the run `run_manager` has
two, and TLC checked `DrainInv`, the property included, with three as well (3.8 million states,
with one submission and one cancellation at a time and no attachment).

**RunEventStoreProofs.** `StoreInv` relates three copies of a run's stream to what its
producer has handed over. A buffered stream is the newest part of it, and all the
buffer can hold of it while live runs fit (`StreamOK`); the Redis stream of a run that
never failed is all of it but the event under way (`RedisOK`); what a reader was sent
is the part between its Last-Event-ID and its cursor, without a gap from Redis, and
without one from the buffer unless that had to trim (`FromRedis`, `FromBuffer`). A
reader whose stream was evicted follows the old object, which is finished (`OrphanOK`).
What `SelectInSeq` and `RemoveFirst` return, of which the libraries state no facts, is
derived from their definitions by the least element of a set. The proof did not go
through for every value of the limits: with more live runs than streams the buffer
evicts one that is live, and no promise to its readers is left. The properties now
name that condition, `BufferSuffices`.

**ResearchCacheProofs.** `CacheInv` says what each entry promises: a PostgreSQL row
lives no longer than its evidence plus the second of rounding, a promoted copy in
Redis at most one more second short of a tick (`RowOK`, `ExactOK`), which is the
slack that `HitsAreSound` allows. Of the locks it says that a live reservation is in the
lock (`Kept`) and that a lock is its holder's reservation unless a fault hid it
(`Owed`); `FillsStayExclusive` and `ReservationsEnd` need both, and that a request
executes without reservation only past its deadline or after a fault (`Turn`).

**ResearchAgentProofs.** `AgentInv` follows three states of a thread: the one that is
executing, the newest one LangGraph saved and the one the service published.
`History` says of each which tool calls may lack an answer: in the running state
those the tools node is about to answer, in a published one only those of turns
that ended before any had completed. The property was first stated for two turns,
in which such calls could be told by their turn being the first unpublished one;
the proof failed at a third turn, which starts from a published state that still
has them, and TLC confirmed it with `MaxTurns = 3`. The property now exempts these
calls by their turn (`LeftUnpublished`), and the theorem is for any number of turns.

`Story` is a second invariant, for `ResultMatchesStream`: a running turn begins once in
its messages, its live events are what its messages show (`Shown`), and its messages
tell of every call that is not pending (`Told`). The result is extracted from the
same messages, so both name the same calls in the same order. That needs what
flattening, selecting and superseding do to sequences: `FlattenSeq` is reasoned about
by least counterexamples, and `Picked` states what the code's comprehensions select as
an increasing choice of positions, which gives its facts directly.
`TurnsDrawOnBudgets` needs no more than types: each step draws on the recursion
limit, on the model's attempts or on some call's attempts while it restores no
other's (`SpendsBudget`), which says more than that their sum decreases.

**ChatClientProofs.** `ChatInv` says for each position of a send what its turn has been
told of the run (`SendOK`: nothing before acceptance; then the first events of it,
each once and up to the cursor unless an attachment threw; at the reload the last
event and a final status), and that with nothing streaming the view agrees turn for
turn with whatever transcript React Query holds (`ViewOK`). A transcript is the n-th run
of its thread for each n (`Nth`), so a send that is accepted or a turn that ends changes
one place of it. For any values of the constants the proof also needs that "nothing"
is neither a transcript nor the mark of a fetch that has been asked for, which
`ChatAssumption` now says.

**WorkspaceServicesProofs.** `AccountsInv` is about the two tables (`Ledger`: one row
per address, ids no larger than the number of rows, so the next id is fresh) and
what each handler has established at its await (`AccountOK`: a login's account has
the address it was asked for, a request that opens a session gave its account's
password, a session keeps its user). The pool of threads does not occur in
`AccountsInv`: when threads take or return jobs, and what market requests do, cannot
matter to whose account a session is.

`BatchInv` is about the pool and the market requests. The pool holds a job at most
once (`PoolOK`), and only a job its slot's request awaits: an account request that is
hashing, or a task that is at its lookup (`Awaits`). So a slot never serves a
new request while a thread may still report to its former one, and a request that was
answered is told nothing more that its reply depends on. A batch was refused, with no
task, or has one task per symbol and a reply that follows from them (`Refused`,
`Working`). `BatchesAnswerEverySymbol` then rests on what normalization makes of the
spellings: `NormalizedFacts` says that each symbol comes once, where it is first
mentioned, and is proved by counting: a first mention is its symbol's place by how
many first mentions precede it (`RankFacts`, `RankFilled`). For these proofs
`Normalized` is written with positions in place of a fold, and `Computed` so that the
arms of its CASE exclude each other: two of them used to overlap, and the value of
such a CASE is that of any arm whose guard holds, of which TLC happens to take the
first.

Model-checked only:

- Liveness (`AdmittedRunsEnd`, `StreamingEnds`, `MarketRequestsEnd`) and ENABLED:
  outside the prover's reach.
- What `QuantitativeResearch` and `FundamentalDatasets` compute
  (`ReportsMatchTheirSources`): folds over sequences, whose value for every input takes
  induction over data.

## 5. Where code and documents disagree

1. **Stop during the commit** (`run_manager_cancel_race`). `cancel()` interrupts the
   execution wherever it is. If `complete_run` has committed, or commits while the
   task is being cancelled, `cancel_run` then raises a lifecycle conflict before
   `publish_terminal`: the run is completed and its readers never get run_end.
   `docs/phase-7-api.md:12` promises events "until `run_end`".
2. **The worker can die** (`run_manager_worker_death`). Two repository errors in a row
   leave `_execute`, and with it the only worker; the process goes on accepting
   runs nobody executes (`docs/phase-7-api.md:24`: "One worker executes queued runs").
3. **Expired streams are still served** (`run_event_store_expired`). After the Redis
   stream expired, `latest()` answers from the local buffer, so the attachment is
   not refused with 404 as `docs/phase-8-api.md` says, but follows an empty stream.

Met while modelling, and stated in the properties as exemptions instead of runs
of their own:

- If the acknowledgement of `complete_run`'s commit is lost, the handler publishes
  run_end with "error" for a run that is completed. `AnnouncementsAreRight` therefore
  speaks of behaviours without repository faults, `EventsAreOrdered` of all.
- A restart that finds no Redis recovers nothing: only `DetachedRunManager.start` calls
  `recover_abandoned_runs` (`run_manager.py:131`), and the lifespan builds no manager when
  Redis cannot be opened (`main.py:117`), while the thread API is served. What a crash
  interrupted stays in progress, and its thread answers `run_in_progress`, until a start
  that finds Redis (`NoStrandedRun`). `docs/phase-8-api.md:29` says "Redis loss affects
  live delivery, not the authoritative run status".
- A submission suspended in its admission while `close()` begins enqueues behind the
  sentinel and stays in progress until the next start. If it inserts its channel while
  `_interrupt_open_channels` awaits inside its iteration of `self._channels.values()`, the
  next iteration raises RuntimeError out of `close()`, and runs accepted long before stay
  in progress too (`CloseLeavesOnlyLateArrivals`), although the docstring
  (`run_manager.py:341`) says "Durably fail accepted work that outlived the shutdown grace
  period".
- A reader that attached to Redis before a publication failed stays there
  (`store.py:252`): it never gets that event, and waits for good if it was run_end, while
  the buffer of the same process has it (`ReadersMissNothing`, `EndIsNeverHidden`).
  `store.py:172-175` says "Attachments owned by this process read the local copy", and
  `docs/phase-7-api.md:12-13` that the endpoint "replays buffered events and follows new
  events until `run_end`".
- On the synchronous path an admission that committed and raised, or an exception out
  of a finalization other than `CheckpointConflictError`, leaves the run in progress
  until the next start that recovers (`NoStrandedRun`).
- A run that outgrew the buffer, more live runs than it has streams, and a degradation
  forgotten beyond the limit cost readers events or the end (`ReadersMissNothing`,
  `EndIsNeverHidden`).
- A retransmission that waits for the thread lock behind its first copy is told
  `run_in_progress` and not which run, since the key is looked up before the lock.
  The HTTP code is the same on the synchronous path.
- A thread whose first turn failed or was cancelled has published no checkpoint;
  its next turn resumes the newest state LangGraph saved, unanswered tool calls
  included (`research_agent.py:683`). If that turn completes, it publishes them,
  and every later turn sends them to the model again. `ModelSeesAnsweredCalls`
  exempts the calls of such turns and no others.
- Tool calls without ids, or with equal ones, are named differently by the graph,
  the live events and the extracted result (`ResultMatchesStream`).
- The artifact type a failing tool call carries is stripped from its name and is for
  some tools not the type its artifacts have (`tool_executor.py:255`).
- A cache miss that acquires the fill lock after another request has stored does not
  look again and executes the graph once more; a request that waits for an owner
  that failed waits until its deadline, then executes without a reservation
  (`FillsAreExclusive` is about two requests at a time).
- The browser loses the cursor of an attachment that ends in an exception and reduces
  those events twice (`client.ts:188`, `EventsReducedInOrder`); a failed reload after
  run_end shows the streamed turn, or after a failed attachment none, until the next
  fetch; Stop before acceptance may leave an admitted run behind.
- A raw close of zero behind positive adjusted closes raises ZeroDivisionError and fails
  the whole watchlist batch (`watchlist_market.py:100`, `BatchesAnswerEverySymbol`).
- A gather that fails leaves its other lookups running, and a lookup that timed out
  keeps its thread; password hashing queues behind them without a deadline
  (`MarketRequestsEnd`).
- Filings and news apply their limit before they drop malformed entries, so a symbol
  with usable entries can be reported as unknown (`yahoo.py:675`, `yahoo.py:764`).
- The correlation of a symbol with itself is 1 also for a constant price
  (`quantitative_research.py:343`), while that of two constant series is absent.

## 6. Not modelled, and the plan

Not modelled: grounding (the verifier and the delivery policy are pure functions
that no part of the application calls yet); return statistics, volatility, EMA
and RSI (real arithmetic, which TLC does not have); conversion of single field
values, prompts, texts and wording; tracing, settings, the command line; page
layout; migrations as programs; offline evaluation. The wiring of resources in the
lifespan, HTTP error mapping and SSE framing are left to the code.
