# agent-ctl: TLA+ models, model checks and proofs

agent-ctl is a control plane for calls to language models: a library and an
OpenAI-compatible HTTP server that route a call to a chain of providers, retry
and fall back, keep failing providers out with a circuit breaker, enforce
spending caps, cache responses, and capture every call in a store. This
directory holds TLA+ modules translated from its source (`agent_ctl/`), the TLC
configurations that check them on small instances, and proofs that TLAPS checks
for every instance.

## Inventory of the system

| component | state | operations | interacts with |
|---|---|---|---|
| circuit breaker `core/circuit.py` | per provider: consecutive failures, time of opening, time of the probe slot; one lock | `allow`, `record_success`, `record_failure` | asked and told by the three runners, concurrently |
| budget guard `core/budget.py` | spent and last cost per consumer (LRU, bounded), global total; one lock | `check`, `add`, eviction | checked by the runners, charged by the capturer |
| gateway `core/gateway.py` | none of its own besides the shared parts | `invoke`, with retries, fallback, deadline | breaker, budget, cache, router, capturer, providers |
| embedding runner `core/embedding_runner.py` | none | `embed` | the same, without cache and retries |
| stream runner `core/stream_runner.py` | locals of a suspended generator | `invoke_stream`, native and buffered targets | the same; the client drives and may close it |
| capturer, cost meter `core/capture.py`, `core/cost.py` | prices | cost, budget charge, metrics, redaction, save | budget, metrics, store |
| response cache `core/cache.py` | LRU dictionary with expiry; one lock | `get`, `set` | gateway |
| asynchronous store `store/async_store.py` | bounded queue, flag `_closed`, drop counter, worker thread | `save`, `flush` and reads, `close` | capturer, inner store, atexit |
| SQLite store `store/sqlite_store.py` | database file shared by processes; one connection and lock per process | schema migration, insert, queries | asynchronous store, command line |
| metrics `obs/metrics.py` | lazily built registry of counters, double-checked lock | `record_call`, `render` | capturer, server |
| rate limiter and authentication `server/app.py` | two tables of sliding windows (LRU, bounded) | the middleware before every request | clients, proxies, the handlers |
| HTTP handlers `server/app.py` | none | chat, streaming, embeddings, captures, health | gateway and its streams, store |
| providers `providers/*.py` | SDK clients | `invoke`, `stream`, `embed` | remote services |
| tool translation `providers/tooltrans.py` | none (pure) | OpenAI <-> Anthropic messages, validation | providers, server, gateway |
| router, configuration, models, redaction, command line, client | tables, parsed input | pure or input and output | |

What is hard here is not in any one function. It is in calls that overlap: a
budget is checked in one place and charged in another; a breaker gets reports
without identity from calls admitted under another state of it, or no report at
all; a generator may be closed by its client at any of its yields; a store is
closed while it is written to; processes upgrade one database at once; a
conversation goes now to one family of models and now to another, each with a
protocol of its own. `PROJECT.json` lists these hazards at their
lines, each with the properties that would catch it going wrong.

What makes each component correct:

- **breaker**: opens exactly after the threshold of consecutive failures; sends
  an open provider one probe per cooldown; never forgets an open provider.
- **budget**: money a cap counts is never forgotten; overspending is bounded by
  what is in flight; the tables stay bounded.
- **asynchronous store**: a record is written, refused, or counted as dropped;
  reads see earlier writes; the inner store is never closed under the worker;
  `close()` returns and shuts the worker down.
- **gateway and embeddings**: one capture record per call, agreeing with the
  attempts; a fallback only when it is justified; at most one charge for a
  check and one report for a grant; every call ends.
- **stream**: one record; never text of two providers; no provider stream left
  open; the usage known is charged.
- **server, streamed requests**: an HTTP error only before the first byte; the
  stream ends with the response; `[DONE]` only for a call recorded as served; an
  endless stream ends at the deadline.
- **rate limiter**: the limit holds for every client in every window, and no
  client is refused for what others did; the tables stay bounded.
- **response cache**: no expired, replaced or foreign response; what was used
  recently is kept.
- **metrics**: one registry, whoever comes first; no call is counted into
  another one; the lock is given back.
- **SQLite store**: an open store has the whole schema, whatever else starts or
  crashes; the mark of a complete backfill is true; saved records stay.
- **tools**: whoever answers a request reads what was said in the conversation,
  call ids included; the client gets the calls the model made; what the gateway
  lets in does not fail later as the provider's fault.

## Modules

| module | models | state and actions |
|---|---|---|
| `CircuitBreaker` | the record of one provider in `circuit.py`, as operators | `Granted`/`AfterAllow` are `allow`, `AfterSuccess` and `AfterFailure` the reports, `Elapse` a clock tick |
| `Circuit` | one breaker and the concurrent calls that use it | `Allow`, `RecordSuccess`, `RecordFailure`, `Vanish` (a call that never reports), `Tick` |
| `Budget` | `BudgetGuard` and its callers | `Check`, `Refuse`, `Add` (with eviction, `Victims`) |
| `AsyncStore` | `AsyncCaptureStore` | writer: `SaveCheck`, `SavePut`; worker: `Get`, `InnerSave`, `TaskDone`; reader: `FlushStart`, `FlushEnd`, `Read`; closer: `CloseBegin`, `PutStop`, `PutTimeout`, `JoinReturns` |
| `Gateway` | `Gateway.invoke`, `_invoke_target` and `EmbeddingRunner.embed`, several calls at once | one action per stage, in the order of the code; `Embed...` where `embed` differs |
| `Stream` | `StreamRunner` with its client | `Admit` to `Finish` run the generator, which may fall back from a native to a buffered target, or back, and yields the text of either; `Resume`, `CloseInTry`, `CloseAfter` are the client's |
| `ServerStream` | the streaming branch of the chat handler and its SSE body, `server/app.py` | `GatewayRuns` is a step of `Stream` in the thread pool; `FirstChunk`, `ErrorResponse`, `Frame`, `ClosingFrames`, `BodyBreaks` the server's; `Disconnect` the HTTP client's |
| `RateLimiter` | the middleware of `server/app.py` | one request is one step: `Unauthorized`, `Unlimited`, `Limit429`, `BadLength`; `TickWindow` ages the windows |
| `ForgetfulCache` | what `Gateway.invoke` relies on in the `Cache` protocol | `Lookup`, `Store`, `Forget` |
| `Cache` | `MemoryCache` of `core/cache.py` | `get` is `Miss`, `GetExpired` or `Hit`; `Set`; `CacheTick` |
| `MetricsRegistry` | `MetricsRegistry.get`, `record_call`, `render` | each read and write of `_resolved` and `_instance` outside or under the lock is a step of a thread |
| `SqliteStore` | `SqliteCaptureStore` in several processes | a start runs from `Open` to `CommitSchema`, one step for each statement others can see; `SaveInsert`, `SaveLocked`, `SaveCommit`, `ReadRows`; `Stop` is an exit or a crash |
| `ToolTrans` | `providers/tooltrans.py` | operators: both translations of messages, of tool choices and of replies, and what a model of each family reads in a list of messages |
| `ToolLoop` | a conversation with tools over `ToolTrans`, the two providers and the reply formats of the server | the client speaks (`SayText`, `ShowPicture`, `PlaySound`, `AnswerCalls`); `Send`; `ReplyWhole`, or `StartStream`, `FragmentArrives`, `StreamDone`; `RequestFails`, `StartOver` |
| `MC...` | small instances for TLC | |
| `CircuitProofs`, `BudgetProofs`, `AsyncStoreProofs`, `GatewayProofs`, `StreamProofs` (also of `ServerStream`), `TableProofs` (of `SqliteStore`, `Cache`, `RateLimiter`, `MetricsRegistry`, `MCTables`), `ToolLoopProofs` (also of `ToolTrans`) | theorems | |
| `SequenceLemmas` | lemmas about orders, sequences without repetition (moving a member to the end, evicting the first, as the budget's, the cache's and the limiter's tables do), and about comprehensions (`MapSeq`, `FlatMap`, `FlattenSeq`), of which the translations of messages are made | |

`Gateway` composes: it extends `CircuitBreaker` and holds one breaker per
provider, instantiates `Budget` for the guard, and instantiates both `Circuit`
(one per provider, seen by the calls that hold a grant of it) and `Budget` (seen
by the calls between check and charge) as abstract specifications of how a
runner has to use them. `CircuitsImplemented` and `BudgetImplemented` are these
refinements, checked and proved: what is proved of `Circuit` and `Budget` for any
callers holds of the calls the gateway makes. (`CircuitsImplemented` lets all breakers step
together with the clock, so it conjoins the step relations.)

`ServerStream` extends `Stream`: the HTTP handler is its client. It pulls the first
chunk before it answers and closes the generator with the response, so each of
its steps is a step of `Stream` or leaves `Stream` alone, which is proved.

`Cache` implements `ForgetfulCache` under a refinement mapping: the response the
cache still owes for a key is the one stored last, if its entry is there and has
not expired. That is all `Gateway` assumes of a cache: a cached key there may be
forgotten at any time. The mapping is what makes the boundary at the expiry
visible, and eviction is a `Forget` that nobody asked for.

`MCTables` puts `RateLimiter`, `Cache`, `MetricsRegistry` and `SqliteStore` side by
side. They share no state, so their product would only multiply states: a
variable `focus`, chosen at the start, says which of them runs.

Definitions called "Faulty" are not part of any specification. Each is a
plausible mistake in the code the definition after it models; substituting it
makes a property fail, which shows that the property sees the code.

### Abstractions

- **Locks.** Methods of the breaker and of the budget hold one lock from start
  to end and are one step. `_closed` of the asynchronous store is read and
  written without one and its reader's next step is separate. An operation of
  `queue.Queue` is atomic; so is `_dropped += 1`, because CPython switches
  threads at calls and backward jumps, not inside that statement. For the same
  reason `if self._closed` and `self._closed = True` at the start of `close()` are
  one step (`CloseBegin`), so only one `close()` queues a sentinel; the check in
  `save()` and its put are two, as the put is a call.
- **Time.** The breaker only compares elapsed times with the cooldown, so a stamp
  is kept as the time elapsed since it, up to the cooldown. A call's time is what
  has elapsed since it started, up to the deadline. Steps take no time; `Tick`
  may come between any two of them. The timeouts of `put` and `join` in `close`
  may expire whenever what they wait for has not happened.
- **Money.** Costs are natural numbers. A consumer that is missing in a
  dictionary reads as 0 in the code and is 0 in the model.
- **Windows and expiry.** Of a time stamp in the limiter or the cache only its
  age, or what is left until it, matters; both saturate just past the boundary,
  where the code drops the entry at its next look.
- **SQLite.** The library is external and modelled from how the code uses it:
  one writer at a time, statements outside a transaction commit by themselves,
  a wait for the lock may time out and leaves the transaction open. What one
  transaction writes is published in one step, as nobody else can see less.
  The statements of a start before its UPDATE meet a lock only if they go by an
  old look at the schema: whoever holds one for longer than a statement has
  completed the schema, so there is nothing left for them to do but wait for the
  lock, and raise if that is in vain (`StartLocked`).
- **Messages.** A text is a sequence of words, a picture a URL, the arguments of
  a call one value or `Broken`. Schemas of tools, names of functions and stop
  reasons are renamed field by field and left out.
- **Exceptions.** A retriable error and a `TimeoutError` take the same path and
  are one outcome. Any other exception of a provider is `untyped`: in `invoke`
  and `embed` it leaves without a record and without a report.
- **Cache.** A cached key may expire or be evicted at any time.
- **Chunks.** A text chunk carries no counts in the providers' streams; a meter
  or done chunk may: one of input tokens, one of output tokens, both or none. A
  count that is missing, or 0, leaves the known one as it is (`Latest`). A record's
  cost is the two counts it is computed from, as the prices are factors.
- **What a stream brought** (`metered`) is noted when a chunk arrives, before the
  runner looks at it or discards it, and apart from the runner's own counts.
- **Tool choices** are made with the messages of a request and refused with them.
  `ToolChoices` has every string of OpenAI's, one it does not have, and the
  objects of both protocols; other shapes the server refuses before.
- **History variables** (`streak`, `ledger`, `submitted`, `late`, `awaited`,
  `verdicts`, `metered`, `heard`, `left`, `admitted`, `seen`, `stored`, `usedSince`,
  `begun`, `finished`, `saved`, `said`, a call's `records`) record what the
  code does not keep and no guard reads them, except that a record is submitted
  to `save` once, and that `begun` bounds the calls.

## Runs

| run | configuration | shows |
|---|---|---|
| `circuit` | 4 calls, threshold 2, cooldown 3 | `OneFreshProbe`, `OpenIffStreak`, and, with fairness, `OpenIsRetried` |
| `budget` | 3 callers, 5 consumers, 3 caps, 2 tracked, costs to 2, global cap 4 | `SpendingKept`, `TrackedBounded`, `OvershootBounded` |
| `async_store` | 2 records, 2 writers, 2 closers, queue of 2 | `RecordsAccounted`, `ReadYourWrites`, `NoWriteAfterClose`, `CloseReturns`, `StopEndsWorker` |
| `async_store_flush` | 1 record, 1 writer, 2 closers | violation of `FlushReturns` |
| `gateway` | 1 thread, 4 routes and an unknown model, 2 attempts, deadline 2 | `CallRecorded`, `FallbackJustified`, `CallsReturn` |
| `gateway_shared` | 2 threads, 2 providers, 1 attempt, no deadline | `CircuitsImplemented`, `BudgetImplemented` |
| `server_stream` | native, buffered, native; two counts, each to 2; a deadline | of the gateway `OneRecord`, `OneVoice`, `StreamsClosed`, `KnownUsageCharged`; of the server `ResponseHonest`, `BodyEndsStream`, `RequestEnds` |
| `stream_truncated` | 2 native targets | violation of `RecordedAtMostOnce` |
| `tables` | limiter: 3 clients behind 0, 1 and 2 proxies, limit 2, window 1, 2 tracked; cache: 3 keys, 2 entries, time to live to 2; metrics: 3 threads, 3 calls; store: 2 processes, 2 old records, one unreadable, 2 new, 2 crashes | `LimitHolds`; `RecentlyUsedKept`, `CacheImplements`; `CallsCounted`, `GetReturns`; `DatabaseSound`, `UpgradeEnds` |
| `store_locked` | 2 processes, 1 old record, 2 new, 1 crash | violation of `LockedByAnother` |
| `tool_loop` | all four pairs of a dialect and a family; 2 requests, 2 calls in a reply, 9 tool choices | `HeardBesides`, `CallsDelivered`, `RequestsUnderstood` |
| `tools_lost` | openai/openai; 1 call | violation of `HeardIsSaid` |

Every passing run also checks the type invariant of its modules. A property
with several parts is a conjunction of named ones in its module:
`SpendingKept` of `CappedSpendingKept` and `GlobalSpendingKept`, `OvershootBounded`
of `CapOvershoot` and `GlobalOvershoot`, `RecordsAccounted` of `RecordsConserved` and
`OnlyLateRecordsLost`, `CallRecorded` of `OneRecord` and `RecordMatchesLog`,
`KnownUsageCharged` of `TargetCharged` and `LostBeforeText`, `ResponseHonest` of `ErrorsComeFirst` and `DoneIsCharged`, `LimitHolds` of
`OverLimitOnlyIfEvicted` and `RefusedOnlyAtLimit`, `CallsCounted` of
`EveryCallCounted` and `ScrapeShowsFinished`, `DatabaseSound` of `ReadyIsComplete`,
`MarkedIsBackfilled` and `SavedKept`, `RequestsUnderstood` of `RolesAlternate`,
`NeverRefusedLate` and `ChoiceKept`.

**Why the bounds are enough.** A threshold of 2 tells the first failure from the
one that opens; a cooldown of 3 lets a probe be granted, age, and expire beside a
circuit re-opened by a stale report; 4 calls allow a probe, its successor, and two
stale calls at once. In `budget` there are more caps than tracked consumers, so
eviction meets a table it may not shrink, and two consumers without a cap, so it
has a choice. In `async_store` a queue of 2 is full with two records, or with a
record and the sentinel, in either order. In `gateway` the routes fall back
from one provider to another and from a provider to itself, lack a price, and
lack a provider; a provider that cannot embed comes before one that can. Two
attempts tell a retry from the last try, and a deadline of 2 can pass in any
stage. `gateway_shared` needs two calls that overlap at one breaker and at the
budget; retries and the deadline, which are local to a call, are in `gateway`.
In `server_stream` a third target follows a native and a buffered one, and counts up to
2 tell a replaced count from the last one, and one of the two from the other.
In `tables` there are more clients, and more cache keys, than a table holds; one
client sends an `X-Forwarded-For` of its own with another's address in it, and
probes, scrapes and guesses tokens; a window of 1 has an entry at its boundary; a
third thread may read the metrics while one builds and one waits for the lock;
a database is found in every state an upgrade can leave it in, and a process
may die twice, in the middle of any start or save. In `tool_loop` a second
request reads the reply to the first, and two calls in a reply can be
answered, and arrive in fragments, in both orders.

**Fairness.** `Circuit`: time passes, traffic keeps arriving, calls end, as
providers are called with a timeout; reports are *not* assumed. `AsyncStore`: a
closer that has begun goes on, as both its waits have timeouts; that the inner
store answers is a hypothesis of `StopEndsWorker` and not of `CloseReturns`.
`Gateway`: threads run, and a provider answers or raises in the end.
`ServerStream`: the generator runs when asked, a pull returns (its read timeout),
the server goes on with the body, and time passes; that a stream ever ends, or
that a client disconnects, is not assumed. `MCTables`: a thread inside `get()`
runs on (it holds no other lock, so it is scheduled), and a process that is
starting or saving goes on and is started again when its start failed, as a
supervisor does; new records, scrapes and crashes are not assumed.

**Deadlock.** The `async_store` runs allow it: records are finite, `close()`
returns, and a reader may really wait in `flush()` for ever. `Stream` and
`ServerStream` stutter explicitly when the call or the response is over.

## Findings

Each is a run with one property that quotes the repository and fails.

1. `async_store_flush`: a `save()` that found the store open queues its record
   after a `close()` has queued the sentinel. The worker ends at the sentinel, so
   the record stays, the count of unfinished items with it, and every later
   `flush()`, and so every read, waits for ever. The check in `save()` is there, it
   says, so that no backlog arises that nobody takes.
2. `stream_truncated`: a client that closes at the last chunk of a stream
   truncated by its deadline makes the runner record, and charge, the call a
   second time as aborted. The path is guarded against a double record when
   the provider's stream fails to close, not for this.
3. `store_locked`: a `save()` that timed out waiting for the lock leaves the
   transaction open that its INSERT began. A read then fixes what that
   connection sees, and after the next commit of another process every later
   `save()` raises at once, although nobody holds the lock, until the process
   opens its store anew.
4. `tools_lost`: when client and model both speak OpenAI's protocol, the
   translation to that protocol runs all the same, and drops `tool_calls` and
   `tool_call_id` of the messages: the model reads neither its calls nor which
   call a result answers.

### Known limits

Met while modelling, and stated by the passing properties at their true
strength instead of by a run of their own:

- A record that is queued behind the sentinel (finding 1) is neither written nor
  counted as dropped. `OnlyLateRecordsLost` says only these are lost.
- Concurrent calls of a consumer that was never charged all pass `check()`:
  spending passes a cap by up to what is in flight (`CapOvershoot`), where the
  comment on the reserve speaks of about one call.
- The success of a call admitted before a circuit opened closes it in the
  middle of its cooldown; `OpenIffStreak` defines open by the reports alone.
- A call cut off by its deadline discards the chunk it was cut off at with the
  counts in it: `KnownUsageCharged` asks, of such a call, for the counts before
  that chunk.
- A stream that has reported its usage and breaks before its first text makes
  the call fall back. The counts were locals of that target: the record of the
  call has the next target's only, and what the broken one used is charged to
  nobody, where the runner says of its running counts
  (`stream_runner.py:186-188`) that an error in mid-stream is charged the last
  ones known and not 0. `KnownUsageCharged` shows that only such counts are
  lost: those of a target that failed, as its breaker was told, and of which
  the client has read nothing (`LostBeforeText`).
- OpenAI's family is told `auto` for two choices: for Anthropic's `none`, and for
  `{type: function}`, the choice of one function in OpenAI's own form, which
  `anthropic_tool_choice_to_openai` takes for an object of Anthropic's. `ChoiceKept`
  has both exceptions, and shows that there is no other.
- A target without a stream method answers in chunks that carry no calls
  (`StreamRunner._chunks_of`), so `ToolLoop` streams only native targets. An
  assistant message with both a list of content blocks and calls loses the
  text of the blocks on the way to Anthropic; the client of `ToolLoop` never
  sends one, as no reply has that form. Content that is no dictionary makes a
  translation raise inside the provider's call.

## Proofs

TLAPS proves these for every value of the constants that satisfies the named
assumptions. TLC checked each property on the small instances first.

- **`CircuitProofs`** (`BreakerAssumption`): `TypeCorrect`, `SingleProbe`,
  `OpensOnThreshold`. `OneFreshProbe` is not inductive: nothing in it relates
  the age of a call that is a probe to the age of the slot the breaker keeps.
  `IInv` adds that every fresh probe is shielded: the circuit has closed, or it
  opened no earlier than the probe left, or a slot no older than the probe is
  held; and that the failures counted follow the streak (`CountMatches`). The
  stale reports are the interesting cases: a stale failure takes the slot away,
  but starts a cooldown that outlives the probe's freshness.
- **`BudgetProofs`** (`CallersAssumption`, `CapAssumption`, `SizeAssumption`):
  `CapOvershootBounded`, `GlobalOvershootBounded`, `OvershootIsBounded`,
  `CappedKept`, `TypeCorrectness`, `TrackedIsBounded`, `SpendingIsKept`. The bounds are
  not inductive: a call that ends adds its cost whatever is spent. `IInv` says
  that what is spent, plus the most that can still be charged by calls in
  flight, stays under the bound, which a check keeps as it only admits a call
  below the cap, and a charge keeps as its call leaves the set in flight. That
  the table stays bounded needs that the order lists each tracked consumer once
  (`Listed`): then a charge makes it longer by one at most, and one eviction is
  enough, or there is nobody without a cap to evict (`Eviction`). That the
  global total is the sum of all charges is proved for *finite* sets of consumers,
  which is the theorem's hypothesis: the sum of an infinite set is not defined.
  The fold in it is a sum at all because partial sums over subsets exist
  (`Tallies`, `TalliesExist`) and agree with it (`SumByTallies`).
- **`AsyncStoreProofs`** (`QueueAssumption`): `ReadsOwnWrites`,
  `ClosedStoreUntouched`, `EveryRecordAccounted`, `TypeCorrect`. `ReadYourWrites`
  needs that what a flush waits for is in the queue, with the worker, or done,
  and that `unfinished` counts exactly the queue and the worker's item, so that 0
  means neither is left. That every record is accounted for needs that no record
  is in two places (`OnePlace`) and none twice in one (`NoDuplicate`), or the
  sizes would not add up (`Balance`); and that everything behind a sentinel in
  the queue came late (`LateOK`), which holds because a sentinel is only queued
  once `_closed` is set.
- **`GatewayProofs`** (`BreakerAssumption`, `GatewayAssumption`): `RecordsAreTrue`,
  `BudgetIsImplemented`, `BreakersAreImplemented`, `FallbacksAreJustified`,
  `TypeCorrectness`. `CallOK` ties the stage of a call
  to its log (`LogOK`: nothing in it has decided the call before a provider
  answered, and its last entry is that answer afterwards) and to the number of
  its records. For the refinements every step is shown to be a step of `Budget`,
  and for every provider a step of `Circuit`, or to leave it alone: a step that
  is neither the check nor the charge can only end a call's time under the
  budget (`Onward`, a charge of 0), and one that touches no breaker can only
  take a call out of its breaker's sight (`Quiet`, a `Vanish`), because a call has
  a role exactly between `allow` and the report (`RoleOK`) and its target does
  not change meanwhile.
  `FallbackJustified` is not inductive either: it looks at a call only while
  it is at a provider. `GroundsInv` says it of the other stages (`Justified`:
  every earlier target was skipped once or had all its tries, the current one
  has as many failed tries in the log as the call says, and no entry is about
  a later one). It cannot be said of all of them: a call whose time ran out
  leaves its target without a try, and the next one's guard then ends the loop.
  So `Grounds` asks it only of calls that still have time, or are past the
  check of the deadline; time only grows (`AgedTogether`).
- **`StreamProofs`** (`StreamAssumption`): `NeverSpliced`, `NothingLeftOpen`,
  `RecordedOnce`, `ChargesWhatIsKnown`, `TypeCorrectness`. `Voice` ties what the
  client has heard, streamed or buffered, to the current target and, before the
  call is recorded, to `emitted_content`, which is what `Break` looks at before it
  falls back; `Shut` names every place where the
  provider's stream may not be open. `Books` says at which places the record has
  been written; `Meter` that the runner's counts are what the current target's
  stream has brought, short of a chunk that has arrived and is not yet looked at:
  targets not yet reached have brought none, and a target is left, when falling
  back, without a record. `Behind` adds that no target is reported before its
  stream is over, and that one left behind with counts was reported as failed:
  of the steps that leave a target only `Break` comes after a chunk.
  Of the server: `ServerImplementsStream`, `ResponseLeavesNothingOpen`,
  `ResponseHasOneVoice`, `ResponseIsHonest`, `ServerTypeCorrectness`. Each step of the
  server is a step of `Stream` or a stutter, so the invariants of `Stream` carry
  over; what is left is that a response which is over has ended the generator,
  that without a response nothing past the first chunk was pulled, and that the
  counts in the last frame are those of the record (`Told`).
- **`TableProofs`**, the store (`StoreAssumption`): `DatabaseStaysSound`,
  `StoreTypeCorrectness`, for any number of processes, records and crashes.
  `Reached` says how far a start has brought the schema at each of its steps, which
  stays true as other processes only add to it (`GrownReach`); `Writing` that what
  is written and not committed is whole and keeps what is there; `Locking` that
  there is one writer at a time. A crash takes a process back to the beginning and
  its uncommitted writes away, and touches none of the three.
- **`TableProofs`**, the cache (`CacheAssumption`): `EvictsOnlyTheUnused`,
  `CacheIsForgetful`, `CacheTypeCorrectness`. That what was used recently is kept needs
  to know what the order is: every key behind another in it was used since that
  one was (`Recent`), so the first of a full order has seen as many others as
  there are entries. `Holds` says that a key in the order has what was stored for
  it last, and that the order and the dictionary have the same keys. With it each
  step is one of `ForgetfulCache`, whatever eviction takes along, or a stutter.
- **`TableProofs`**, the rate limiter (`LimiterAssumption`): `LimitIsKept`,
  `LimiterTypeCorrectness`. The hypothesis `OneWay` says that each client comes either
  from its own address or always through trusted proxies, with `trust_proxy` on:
  who comes now directly and now through a proxy has two keys, and two limits,
  and who comes through a proxy that is not trusted shares the proxy's. The run
  satisfies it. The address in front of the trusted proxies is then the client's
  own, whatever it wrote into the header (`KeyIsTheClients`). `LimiterInv` says
  that a client's deque holds the youngest of the requests that were let
  through, and all those of this window unless `MaxClients` others were seen since
  the oldest it lacks (`Follows`), which an eviction keeps because the order of
  a table is the order in which clients were seen (`InOrderSeen`): the one
  evicted was seen before everybody else in it.
- **`TableProofs`**, the metrics (`MetricsAssumption`): `MetricsTypeCorrect`,
  `NoCallUncounted`. That the counts are complete needs that there is only one
  registry, which needs that only the holder of the lock is between the second
  check and the release (`OneInside`), and that each thread's place agrees with
  what has been built: whoever has read an instance has read the only one.
  `TypeCorrectness` puts the type invariants of the four components together for
  `MCTables`, in which they run side by side (`EachAlone`).

- **`ToolLoopProofs`** (`ToolTransAssumption`, `LoopAssumption`), the translations:
  `AnthropicReadsAll`, `OpenAIReadsAll`. `ConversationSays` is what a conversation
  says whatever its protocol: the words of each speaker, the pictures, each call
  with its id and parsed arguments, each result with the id of its call, in
  order. For messages of any number and kind that a translation is meant for
  (`Receivable`, `Writable`), what the other family's model reads in the
  translation is what the conversation says. Towards OpenAI each message is
  translated by itself, so it is enough to follow one (`WrittenHeard`), which
  becomes a message for each result and one for the rest. Towards Anthropic
  results wait until the next message of another role, so the argument is about
  the loop: after each message, what has been sent and what is pending say what
  was read so far (`GatheredSays`).
- **`ToolLoopProofs`**, the conversation: `ToolLoopTypeOK`, `CallsAreDelivered`,
  `RolesAlwaysAlternate`, `TranslationsAccept`, `OthersHeard`, `AllHeard`,
  `AllUnderstood`. No property of `ToolLoop` is inductive, as each looks at one
  moment of a turn. `IInv` (`IInvHolds`) says what is true between: every message the
  client keeps is one that the translations take (`Typed`, with `Kept`); the
  fragments of a streamed reply are its calls as far as their parts have come
  (`Assembling`), so that the calls put together at the end are the reply's;
  what the kept messages say, with what is still being streamed, is what was
  truly said (`Faithful`); and the messages gathered for Anthropic alternate,
  with no result left over once the assistant has spoken (`Turns`), which is why
  results and a user's next word become one message. A reply is followed from
  either family into either dialect, whole (`WholeReplyKept`) and streamed
  (`StreamedReplyKept`). TLC checked `IInv` on all four pairs of a dialect and a
  family before it was proved.
  Of the tool choice, `TranslationsAccept` needs that the strings the entrance lets
  in are those the translation has a word for; `ChoiceGoesAlong` follows each
  choice that is let in (`LetIn`) to each family (`Told`).
  Only `AllHeard` has a hypothesis, `NotLooped`: OpenAI's dialect is not served by
  OpenAI's family. That is finding 4. `OthersHeard` needs none: with any set of
  pairs served only those very requests can be misread, and they spoil no other
  one. Nor do the alternation of roles, the acceptance of what the gateway has
  let in, and `AllUnderstood`.

Sequences and sums are data defined by recursion, and the induction theorems of
the library take an operator. Where a proof needs induction it argues by a least
counterexample (`LeastNumber`, `GreatestNumber` in `SequenceLemmas`). `ToolTrans` and
`ToolLoop` write the loops of the translations as functions over positions and
comprehensions as `FlattenSeq` of a function, which the provers can unfold;
`SequenceLemmas` shows that they distribute over concatenation.

What stays with TLC: the liveness properties `OpenIsRetried`, `CloseReturns`,
`StopEndsWorker`, `CallsReturn`, `RequestEnds`, `GetReturns` and `UpgradeEnds`, as TLAPS
does not reach liveness under fairness. All other properties of the passing runs
are proved.

## Not modelled

Prices, the fields of the capture record,
redaction, logging; parsing of configuration and requests; the SQL of filters,
paging and summaries; the schemas of tools; the SDKs behind the providers, how
their errors are classified and the provider catalogue; the command line and
the client, which only read input, call the parts above and print. These are
sequential and read or write no shared state. A file descriptor, connection or
process that fails beyond what these interfaces raise is outside.

## Plan

Done, in this order: the shared parts (breaker, budget, asynchronous store), the
calls that use them (`Gateway`, `Stream`, `ServerStream`), the tables
(`RateLimiter`, `Cache`, `MetricsRegistry`, `SqliteStore`), the translations
(`ToolTrans`, `ToolLoop`). What is left:

1. Abstract specifications: a three-state breaker that `Circuit` implements; a
   governed call (admitted, served, recorded once) that `Gateway` and `Stream`
   both implement.
2. `Gateway` over `SqliteStore` and `AsyncStore` at once, for the way of a record
   from a call to the disk.
