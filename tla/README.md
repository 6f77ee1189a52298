# LiteServe in TLA+

A specification of LiteServe, the continuous-batching LLM server of this
repository: its paged KV-cache, its scheduler, the two threads that share the
requests, the batched decoding, what clients are told and what the metrics say,
and the router with its model catalogue.
Paths below are relative to the repository; the Python package is `liteserve/`.

- Part 1 is the inventory of the system.
- Part 2 says what each module models and how it corresponds to the code.
- Part 3 lists the model-checking runs, their bounds and what they show.
- Part 4 describes the proofs.
- Part 5 lists where the code and its own documentation disagree.
- Part 6 says what is not modelled, and the plan.

## 1. The system

### How the parts interact

```
HTTP handlers --route--> Router --reads--> ModelLoader
     |  \
     |   \--add_request / abort_request--> Scheduler --free, swap_out, swap_in--> PagedKVCache
     |                                        ^
     |                    schedule_step       |
     |             _generation_loop ----------+
     |                    |  run_in_executor(_run_inference_step)
     |                    v
     |             inference thread --prefill, decode_batch--> InferenceEngine (one per model)
     |                    |
     +--<-- stream reads request.generated_tokens / status, waiter is set by the callback
```

Two threads matter. The *event loop* runs the HTTP handlers, the token streams
and `_generation_loop`; its coroutines interleave only at an `await`. The
*inference thread* of the executor runs `_run_inference_step`. While the
generation loop awaits the executor, handlers on the event loop add and abort
requests, and the inference thread changes `status` and `generated_tokens` of
the same `Request` objects without any lock.

The server's KV-cache holds no data: `server/app.py:107` creates "a lightweight
KV-cache just for block-based memory tracking", and no code of the server ever
calls `allocate`, `extend` or `store_kv` on it. The architecture diagram of
`README.md` and the tests draw an engine that does.

### Components

| Component | Source | State | Operations | What is hard |
|---|---|---|---|---|
| Paged KV-cache | `engine/kv_cache.py` | `kv_pool`, `free_blocks`, `block_tables`, `block_metadata`, `swap_space` | `allocate`, `extend`, `free`, `swap_out`, `swap_in`, `store_kv`, `get_kv_for_request` | blocks change owner over long call sequences; calls in an unforeseen order (extend while swapped out) |
| Batch scheduler | `scheduler/scheduler.py`, `engine/types.py` | `pending_queue`, `active_batch`, `preempted_queue`, `_completed_requests`, `_completion_callbacks` | `add_request`, `abort_request`, `schedule_step`, `_try_preempt` | four steps that read what the others changed; memory budget; priorities, preemption and timeouts at once |
| Generation loop and inference thread | `server/app.py:155-243` | the list handed to the thread, `decode_groups` | `_generation_loop`, `_run_inference_step` | the thread works on a copy of the batch while it changes |
| Inference engine | `engine/inference.py` | `_past_kv`, `_seq_len` per request | `prefill`, `decode_batch`, `free_request` | assigns statuses without looking at them; padded batches |
| HTTP handlers and streams | `server/app.py:245-430` | one event and one stream position per request | completions, DELETE, `_stream_tokens` | reads of state another thread writes; waiting for an event that must come; clients that leave |
| Router | `router/router.py` | `_system_state`, `routing_decisions` | `route`, `update_system_state` | decides with the load seen one request ago |
| Model loader | `models/loader.py` | `models`, `default_model` | `load_model`, `get_model*`, `unload_model` | the default model after an unload |
| Metrics | `metrics/collector.py`, `server/app.py`, the counters of `scheduler.py` | counters, gauges, latency samples | `record_*`, `update_*`, `get_summary` | both threads record what they have done after they have done it, and not on every path |
| Configuration | `config.py` | read once | `load_config` | - |
| Scripts, benchmarks, package exports | `scripts/`, `benchmarks/`, `__init__.py` files | - | - | outside the running system |

### What makes each component correct

- *Cache*: a block never has two users; data of one request is never visible to
  another, nor lost by a swap; every block taken comes back.
- *Scheduler*: no request is lost or in two places; every request is answered
  exactly once, or aborted; queue order respects priority and arrival; a batch
  respects its limits; memory is not promised twice.
- *Loop and thread*: what a client has been told stays true; token limits hold
  whatever interleaving of aborts, errors and passes happens; a step returns.
- *Engine*: a decode in a batch equals a decode alone; the stored KV of every
  completed request is dropped.
- *Handlers*: every waiting handler is woken; a stream delivers each token once
  and in order and ends with the right reason.
- *Metrics*: every token, first token, admission and completed stream is counted
  once, and where the code cannot count exactly, the error is bounded.
- *Router, loader*: a routed request gets a loaded model that the strategy
  and the preference allow.

`PROJECT.json` lists, under `hazards`, the lines of the code where these can go
wrong and the properties that watch them.

## 2. The modules

```
BlockPool          abstract cache: counts of free, held and swapped blocks
   ^      ^
   |      +-- implemented by -- PagedKVCache      MCPagedKVCache
   |                                ^
   |                                +-- PagedKVCacheProofs
   |
Scheduler  (EXTENDS BlockPool)                    MCScheduler
   ^            ^
   |            +-- SchedulerProofs  (EXTENDS QueueLemmas)
   |                        ^
Server  (EXTENDS Scheduler) |                     MCServer
   ^  ^  \                  |
   |  |   +-- implements -- ClientView
   |  |                     |
   |  +--- ServerProofs ----+
   |          ^    ^
   |          |    +-- ClientViewProofs
   |          |
   |          +------- MetricsProofs  (EXTENDS Metrics)
   |
Metrics  (EXTENDS Server)                         MCMetrics

SequentialDecode   abstract decoding: each request alone
   ^
   +-- implemented by -- BatchedDecode            MCBatchedDecode
                             ^
                             +-- BatchedDecodeProofs

ModelLoader        the dictionary of loaded models
   ^
Router  (EXTENDS ModelLoader)                     MCRouter
   ^
RouterProofs  (EXTENDS QueueLemmas)
```

`BatchedDecode` and `Scheduler` model the same functions of the engine at
different grain. `Scheduler` keeps every assignment of a status, because the
other thread can act between two of them, and only the number of tokens;
`BatchedDecode` keeps what is in the tensors, and takes any group of requests as
the batch, so that it holds for whatever `Scheduler` hands in.

The router and the scheduler share nothing but the name of the assigned model
(`EngineOf` in `Scheduler`), so they are not composed.

### BlockPool: what the scheduler may rely on

Three counts: `free` = `len(free_blocks)`, `held[r]` = `len(block_tables[r])`,
`swapped[r]` = the blocks of the CPU copy of `r`. `PoolAllocate`, `PoolFree`,
`PoolSwapOut` and `PoolSwapIn` are the cache's operations seen through these
counts. The scheduler calls nothing else, so `Scheduler` is composed with this
module and not with the blocks themselves.

### PagedKVCache: the cache itself

| Variable | Code |
|---|---|
| `free_blocks` | `free_blocks: set[int]` |
| `block_tables` | `block_tables`, a function whose domain is the dictionary's keys |
| `block_metadata` | `block_metadata[b].num_tokens_filled`; the domain is the keys |
| `swap_space` | `swap_space[r]`, a sequence of block contents |
| `kv_pool` | the tensor: block to slot to `Zero` or `<<request, position>>` |

One action per method. The set's `pop()` is any order (`Popped`). Calls that
return early or raise before an assignment change nothing; `store_kv` two or
more blocks past the end, which allocates one block and then raises
`IndexError`, is the third disjunct of `StoreKV`. The reference count is left
out: it is 1 from `allocate` and `swap_in` until `free` and `swap_out`, and
nothing increments it. `free`'s test whether a block has metadata is kept
(`Returned`). Layers, heads and K against V are one value: every operation
treats them alike.

### Scheduler: scheduler, generation loop and inference thread

| Variables | Code |
|---|---|
| `status`, `generated` | `Request.status`, `len(Request.generated_tokens)` |
| `arrival`, `clock`, `lapsed` | `arrival_time` as the ordinal of the call of `add_request`; arrivals up to `lapsed` have waited longer than `max_waiting_time_ms` |
| `pending`, `active`, `preempted` | `pending_queue`, `active_batch.requests`, `preempted_queue` |
| `completed`, `callbacks`, `notified` | keys of `_completed_requests` and `_completion_callbacks`; callbacks called |
| `aborted` | history: `abort_request` returned True |
| `pc`, `reserved`, `late` | where the event loop is in `_generation_loop`/`schedule_step`, and that call's `reserved_blocks` and `timed_out` |
| `todo`, `entering`, `prefilling`, `group`, `pass`, `decoding` | where the inference thread is in `_run_inference_step`, `prefill` and `decode_batch` |
| `free`, `held`, `swapped` | the scheduler's cache, as `BlockPool` |

`schedule_step` has no `await`: nothing else runs on the event loop between its
first and its last line. `pc` goes through `reap` (Step 1), `swapin` (Step 2),
`admit` and `preempt` (Step 3 with `_try_preempt`) and `force` (Step 4), with
one action per iteration of each loop because an iteration reads what the
previous one changed. Handlers (`AddRequest`, `AbortActive`, `AbortPending`,
`AbortPreempted`) run when `pc` is `idle` or `infer` (`EventLoopFree`).
Time (`Tick`) passes at any moment, also inside `schedule_step`, which reads the
clock once, when it fills `timed_out`.

While `pc` is `infer`, the inference thread goes through its list:
`SkipFinished`, `CallPrefill`, `Collect`, then one `BeginDecode` per engine.
`prefill` is three actions because the event loop can act between them: the
test of the status in `_run_inference_step` (`CallPrefill`), the assignment of
`PREFILL` on entry (`BeginPrefill`), and the append and the assignment after the
forward pass (`EndPrefill`). In `decode_batch` every request is an action
(`EmitToken`), and an exception (`PrefillError`, `DecodeError`) can come at any
point, for `DecodeError` also just after a token has been appended.

`Tracked` says for which requests a worker allocates cache blocks. `Tracked = {}`
is the server as it is. `Tracked = Requests` is the design the documentation
draws; `AllocateFor` then gives the request a worker is processing any number
of blocks up to the scheduler's own estimate. The runs and theorems say which
one they are about; a theorem that mentions neither holds for both.

Abstractions:

- `active` is a set. Its list order decides which finished request is reaped
  first and the order inside the thread's list and groups; the model allows
  every order. `_try_preempt` sorts, and `Victim` follows that sort.
- Two requests never arrive at the same `arrival_time`.
- `decode_batch` also drops requests without an entry in `_past_kv`. A request
  that is GENERATING has one (`StoredWhileGenerating` of `Server`, proved).
- Token values matter only for whether the end-of-sequence token came:
  `StatusAfterToken` may complete at any token and must at `max_new_tokens`.
- Log lines and timestamps other than the arrival are left out, as is
  `get_completed`, which the server never calls. The statistics are in `Metrics`.
- Exceptions of `_generation_loop` itself and shutdown are left out.

### SequentialDecode and BatchedDecode: the data of a decode pass

`generate_sequential` is the engine's naive loop, "Generate tokens sequentially for a
single request (baseline)"; `SequentialDecode` is that loop. A forward pass is abstracted to what batching can get wrong: it leaves one
entry `[token, pos]` per input token in the cache, and the logits of a token
depend on the entries it attends to (`context`). Which token is then sampled is any.

| Variable of `BatchedDecode` | Code |
|---|---|
| `status`, `generated` | `Request.status` (PREFILL as PENDING), `Request.generated_tokens` |
| `past_kv`, `seq_len` | `_past_kv`, `_seq_len`, with `<<>>` and 0 for "no key" |
| `group`, `outputs` | the argument of the running `decode_batch`; its forward pass's rows, for the requests whose turn in the loop is still to come |
| `context` | history: what the last token's logits were computed from |

`LeftPadded`, `MaskedColumns`, `Position`, `CausalColumns` and `Unpadded` are the
index arithmetic of `decode_batch`, one operator per tensor. `BeginPass` is the
method up to its forward pass and `EmitToken` one iteration of the loop after
it, because an abort (`Aborted`) or an exception (`PassRaises`) can come in
between: the loop goes on with the lengths it took before the pass. `Prefill` is
one action here. The batch is a set: rows do not touch each other, so their
order in the tensor is left out; layers, heads, and keys against values are one
value, as in the cache. `group` may contain failed requests, which were GENERATING when
the thread collected them. A batch is finite because it is a Python list
(`IsFiniteSet` in `BeginPass`); without that a longest row need not exist.

### Server: what clients see

| Variable | Code |
|---|---|
| `stored` | keys of `_past_kv` (and of `_seq_len`, which changes with it) |
| `stream` | where `_stream_tokens` of a request is: before the test of `is_finished` (`test`), before the read of `num_generated` (`count`, `countLast`), between two `yield`s (`yield`, `yieldLast`), not started or over |
| `count`, `sent` | its `current_count`; tokens the client received |
| `reply`, `usage` | the finish reason and the number of tokens the client was told |
| `busy` | the stream that has the event loop between its two reads |

A coroutine keeps the event loop from one `await` or `yield` to the next, but the
inference thread does not wait for it. The one place where this matters is
between a stream's read of `is_finished` (`StreamTests`) and its read of the
token list (`StreamCounts`), so these are two actions: `busy` keeps the event loop
occupied in between, and only `InferenceStep` and `Passing` can come there.
Tokens are yielded one at a time (`StreamYields`), with the event loop free in
between. The last chunk is one action: the request is finished by then, so its
tokens do not change between the reads of that chunk unless the client aborted
it, and the properties about its content are about requests nobody aborted.
`completions` submits and starts the stream in one action (`Submit`):
`handle_completion` has no `await`. `_complete` assigns COMPLETE and drops the
stored KV in one action; in between nothing reads the store, which belongs to the
thread.

A client may close its connection while its stream is open (`StreamLeaves`):
Starlette then cancels the generator at the `yield` or `sleep` it is waiting in,
and nothing else happens; the request stays where it is and runs to its end. The
handler of a waiting client is not cancelled when its client goes.

`ClientView` is the abstract specification: what one client of
`/v1/completions` may observe, without queues, threads or batches. `Server` implements it
(`ImplementsClientView`) with its stream's position reduced to `PhaseOf`.

`InferenceStep` is `ThreadStep` of `Scheduler` without `AllocateFor`: the server as
it is allocates nothing.

### Metrics: what the server reports about itself

| Variable | Code |
|---|---|
| `Instant` (a constant) | requests with a time to the first token of 0.0, which `app.py:223` takes for none |
| `tokens_total`, `requests_completed`, `ttft_samples` | `_total_tokens_generated`, `_total_requests_completed`, the length of `_ttft_samples` |
| `batch_gauge`, `depth_gauge` | `batch_size` and `requests_in_progress`, which the loop sets to the same number one line apart; `queue_depth` |
| `total_scheduled`, `total_completed`, `total_preempted` | the scheduler's counters of these names |
| `owed`, `sampled` | the inference thread is back from the engine and has this to record |
| `dated` | requests with a `completion_time`, which is what `total_latency` asks |
| `unreported` | streams that have sent their last chunk and are still to record it |

Every action of `Server` is here with what it records. The thread records after
the engine has returned (`InferenceRecords` sets `owed` and `sampled`,
`RecordTokens` and `RecordTTFT` pay), so the event loop can read the counters
and abort requests in between; the executor's future, and with it the next
`schedule_step`, waits for the records (`ThreadFree` in `LoopRecords`). An exception
skips the records of its call. The scheduler's counters change in the step that
moves the request (`Admissions`, `Preemptions`). `_complete`'s assignments of
`status` and `completion_time` are one action, as in `Server`: a stream reads the
second only after a `yield`. A total latency of exactly 0.0, which `app.py:429` would take
for none as well, is left out.

### ModelLoader and Router

`models` is the dictionary's keys in insertion order, because
`get_model_by_quantization` returns the first match and `unload_model` makes the
first remaining model the default. A model is its name, and its quantization is
a function of the name: a name that is loaded again keeps both. Loading itself
is left out. Names of models are not `auto`, `fp16`, `int8` or `int4`
(`LoaderAssumption`): `_get_by_preference` would not find them.

`route` is the operator `Route`, with one operator for each private method.
`HandleCompletion` routes with the old `system_state` and then replaces it, in the
order of `handle_completion`. The GPU load is in percent. The strategy is any of
the four and never changes. No code of the server calls `unload_model`; the
catalogue is modelled with it because it is the loader's interface.

A definition whose name ends in `_<Defect>` stands next to the definition it
distorts; `PROJECT.json` pairs each with a property that must notice it.

## 3. The runs

| Run | Instance | What it shows |
|---|---|---|
| `kv_cache` | 2 requests, 3 blocks of 2 tokens, positions 0..3 | every order of calls: types, `OneOwner`, `MetadataIffUsed`, `FreeBlocksZeroed`, `Isolation`, `ReadsEveryToken`, `OthersUntouched`, `SwapKeepsData`, `LeakOnlyByOverwrite`, and that the cache implements `BlockPool` (`ImplementsPool`) |
| `sched_safety` | 1 NORMAL and 2 HIGH requests, all tracked, 4 blocks of 2, batch of 3, 2 engines | the safety and action properties of the scheduler, with preemption, swap-in, forced additions, engine errors and aborts |
| `sched_live` | 2 NORMAL and 1 HIGH request, nothing tracked, batch of 1, 1 engine | `Answered`, `BatchCap` in the deployed system, with a request that never fits at the head of the queue |
| `server` | a streaming and a waiting request of 2 tokens, 4 blocks of 2, batch of 2, 1 engine | `AnswerWhole`, `StoredWhileGenerating`, `AnswerStays`, `ClientsAnswered`, also with clients that leave, and that the server implements `ClientView` (`ImplementsClientView`) |
| `batched_decode` | 3 requests with prompts of 1, 2 and 4 tokens and at most 3, 3 and 2 new ones, 3 token ids | every mix of lengths in a pass, with aborts and exceptions: `CacheIsHistory`, no padding kept or attended to (`TypeOK`), and that batched decoding implements `SequentialDecode` (`ImplementsSequential`) |
| `metrics` | a streaming and a waiting NORMAL request and a HIGH one that never fits, 4 blocks of 2, batch of 2, 1 engine | how far each counter can be from the truth: `TokensCounted`, `SampledOnce`, `CountedOnce`, `CompletedCounted`, `GaugeTracksBatch` |
| `router` | one model of each quantization, GPU loads 0, 20, 40, 85, 90 %, queue depths 0, 1, 2 | `Routable`, `PreferenceHonoured`, `FastestUnderLoad`, `LoadMonotone` after every order of loads and unloads |
| `server_abort` | as `server` | a disagreement of Part 5 |
| `sched_hang`, `sched_resume`, `sched_memory`, `sched_abort` | 2 or 3 requests | the disagreements of Part 5 |

**Bounds and why they are enough.** A request is submitted once, as in the code,
so all counters are bounded by the number of requests and `MaxNew`; no run uses
a state constraint. In `kv_cache` three blocks let one request own two while
another competes for the third, a block boundary lies inside the positions, and
a position can lie two blocks past an empty table. Requests and blocks are
symmetric: no definition names one. In `sched_safety` the requests need 2, 2
and 3 blocks of 4. The first two can be admitted by one step, which then has to
remember what it has promised (`AdmissionFits`); the third fits beside neither, so a
HIGH request preempts, the preempted one comes back by its swapped copy, the
queue holds up to three requests of both priorities, and the two engines make
two decode groups. The batch has room for all three: with two HIGH requests preempted beside a NORMAL
one, the order of the victims matters (`PreemptsLowest`).
In `sched_live` `n1` needs more blocks than there are and blocks the head of the
queue, and the batch has one place for the other two; `h1` is small enough to be
admitted without a preemption, because a preemption in the deployed system is
never undone (`PreemptedResumes`, Part 5) and a HIGH request that does not fit
can stop the loop (`StepReturns`). `Answered` is therefore a statement about loads that
neither preempt nor exhaust the budget with a HIGH request. The instance of
`server` is chosen the same way: both requests fit together, so `ClientsAnswered`
is about streams and waiters and not about preemption. Two tokens are the least
for which a stream can miss one and not the other, and for which a pass of
`decode_batch` follows a prefill; with one streaming and one waiting client in
one batch, an exception of the pass meets both. In `batched_decode` no two
prompts have the same length or the same content, so a row given to the wrong
request or cut at the wrong place shows; two requests live for two passes, so a
cache that was padded and cut is padded and cut again, with another longest row;
and with every subset as a batch the lengths drift apart in both directions.
Three token ids make two of the prompts' tokens differ from each other and from
the end. In `metrics` two NORMAL requests share a pass, so that a pass
can count one too many for a request aborted under it and lose several by an
exception, one of them gets its first token at once (`Instant`), and the HIGH request, which fits neither beside them nor alone,
preempts both. The slack that `TokensCounted` leaves for aborted and for failed
requests is needed: without either term TLC finds a counterexample in this run.
In `router` the loads lie below,
at and above each threshold (20, 40 and 85 %, depth 1), where the comparisons of
the code are strict; one model of each quantization can be loaded in any order,
so any of them can be the default and any can be missing.

**Deadlock.** The runs of the scheduler, the server, the metrics and the
decoder say `CHECK_DEADLOCK FALSE`: when all requests
have been answered or aborted and all timeouts have passed, nothing is left to
do in a model without new clients. `kv_cache` and `router` check deadlock.

**Fairness.** `FairSpec` assumes `WF_vars(LoopStep)` (the event loop keeps
running the generation loop's task, which catches its exceptions and never
returns), `WF_vars(ThreadStep)` (the executor's thread keeps running: a forward
pass ends, by returning or by raising) and `WF_vars(Tick)` (time passes).
Nothing is assumed of clients, of errors or of allocations: nobody has to
submit or abort, no engine has to raise.

`FairServerSpec` assumes the same of the inference thread and the clock, and
strong fairness of each task of the event loop: the generation loop, each stream
and each waiting handler. A task is enabled only while no other task has the
event loop, so weak fairness would say nothing. Strong fairness is what asyncio
gives: its queue of ready callbacks is first come, first served, and every task
here, also the generation loop (`await asyncio.sleep(0)` after a step), returns
to the end of the queue. A client that stops reading its stream without closing it
is left out. `ClientsAnswered` asks nothing for a client that has left.

**Abstract and detailed.** `ImplementsPool` in `kv_cache` maps the blocks to
counts: every step of the cache is a step of `BlockPool` or leaves the counts
alone. This is what allows `Scheduler` to use the counts.

`ImplementsSequential` in `batched_decode` is what `inference.py:13` claims of the
math, "bit-for-bit equivalent to decoding each request on its own": each `EmitToken` is one
iteration of the single-request loop of its request, sampling from logits over the same
entries, and everything else is a stutter. The refinement mapping reads the
cache from `past_kv` while the request is GENERATING; the store gives the cache
of a completed request up, and that of a failed one may lag behind its last
token, so there the history of the tokens stands in for it.

`ImplementsClientView` in `server` forgets everything but one client's
observations: whatever the two threads do, a stream gets its tokens one at a
time and never more than it asked for, every answer has one end, nothing comes
after it, and its usage counts what was delivered. The mapping is the identity
but for the phase, and the abstract specification has no fairness; that the end
comes is `ClientsAnswered`.

## 4. The proofs

Eight modules hold theorems. Every safety property and every refinement that a
passing run checks is a theorem; what TLC shows on an instance holds for every
value of the constants. Only liveness is left to TLC.

| Theorem | States |
|---|---|
| **`SchedulerProofs`** | |
| `Invariance` | `Spec => []IInv` |
| `TypeCorrect` | `Spec => []TypeOK` |
| `NothingLost` | `Spec => []OnePlace` |
| `OrderKept` | `Spec => []QueueOrder` |
| `NotifiedOnce` | `Spec => []CallbackExactlyOnce` |
| `TokensBounded` | `Spec => []TokenLimit` |
| `BlocksReturned` | `Spec => BlocksComeBack` |
| `NoBlockLost` | `Spec => []BlocksConserved` |
| `AdmissionKeepsItsPromise` | `Spec => []AdmissionFits` |
| `ReapedStays` | `Spec => ReapedIsFinal` |
| `PriorityRespected` | `Spec => NoPriorityInversion` |
| `PreemptionRespectsPriority` | `Spec => PreemptsLowest` |
| `BatchCapped` | `Tracked = {}` implies `Spec => []BatchCap` |
| **`PagedKVCacheProofs`** | |
| `Inductive` | `Spec => []IInv` |
| `TypeCorrect`, `OneOwnerHolds`, `MetadataIffUsedHolds`, `FreeBlocksZeroedHolds`, `IsolationHolds`, `ReadsEveryTokenHolds` | `Spec => []` of the invariant of that name |
| `OthersUntouchedHolds`, `SwapKeepsDataHolds`, `LeakOnlyByOverwriteHolds` | `Spec =>` the action property of that name |
| `ImplementsPoolHolds` | `Spec => Pool!PoolSpec` |
| **`BatchedDecodeProofs`** | |
| `TypeCorrect`, `CacheIsHistoryHolds` | `BatchSpec => []TypeOK`, `BatchSpec => []CacheIsHistory` |
| `ImplementsSequentialHolds` | `BatchSpec => ImplementsSequential` |
| **`ServerProofs`** | |
| `ServerImplementsScheduler` | `ServerSpec => Spec` |
| `StoreFollowsStatus` | `ServerSpec => []StoredWhileGenerating` |
| `AnswersAreWhole` | `ServerSpec => []AnswerWhole` |
| `AnswersStay` | `ServerSpec => AnswerStays` |
| **`ClientViewProofs`** | |
| `ClientsSeeTheirView` | `ServerSpec => ImplementsClientView` |
| **`MetricsProofs`** | |
| `MetricsImplementServer` | `MetricsSpec => ServerSpec` |
| `TokensAreCounted` | `MetricsSpec => []TokensCounted` |
| `FirstTokensSampled` | `MetricsSpec => []SampledOnce` |
| `SchedulerCountsOnce` | `MetricsSpec => []CountedOnce` |
| `CompletionsCounted` | `MetricsSpec => []CompletedCounted` |
| `GaugeIsBatch` | `MetricsSpec => []GaugeTracksBatch` |
| **`RouterProofs`** | |
| `CatalogueHolds` | `Spec => []Catalogue`: the loaded names are distinct and the default is one of them |
| `AlwaysRoutable` | `Spec => []Routable` |
| `PreferenceWins` | `Spec => []PreferenceHonoured` |
| `UnderLoadFastest` | `Spec => []FastestUnderLoad` |
| `Monotone` | `Spec => []LoadMonotone` |

The eighth module, `QueueLemmas`, states what removing an element, dropping the
head, appending and prepending do to the range of a sequence and to its
injectivity.

Assumptions: `Requests` may be infinite; `MaxNew[r]`, `BlockSize` and `MaxBatch`
are positive, as the configuration and the API require; `EngineOf` is any
function into `Engines`. The cache has finitely many blocks, and a zero slot is
no token (`CacheAssumption`). Prompts are not empty and `Eos` is in the
vocabulary (`DecodeAssumption`). `Names`, the loads and the thresholds of the
router are any that satisfy `LoaderAssumption` and `RouterAssumption`; `Instant` is any
set of requests. No fairness is used.

**The scheduler's inductive invariant.** `OnePlace` says that a request's status and the
containers agree, but the inference thread writes statuses without looking at
any container, so alone it is not inductive. `IInv` adds the reason it holds:

- `ThreadOwns`: the thread only ever works on requests of the batch it was
  given, still in the batch or aborted meanwhile; when the generation loop
  runs, the thread has none. This is the `await` of the executor.
- `Reaped`: after Step 1 no request of the batch is finished, so Steps 2 to 4
  only move requests whose status they overwrite knowingly.
- `AbortedStatus`: what the thread may leave as the status of an aborted request.
  It is never `PENDING` or `NEW`, so callbacks and queues are not affected.
- `TokensLeft`: a request that is not finished, or is in the middle of a pass, has
  a token left. The second part is needed because an abort marks a request
  FAILED while the thread is about to append to it.
- `LateTimedOut`: the list of Step 4 belongs to the running step and contains
  only timed-out requests. `NoPriorityInversion` rests on it.
- `ArrivalsPast`: arrivals are not in the future, so a new request is the latest;
  `QueueOrder` needs it.

`StepKinds` splits a step into fifteen kinds that change statuses, tokens, queues,
callbacks or blocks, and the `Quiet` rest. One lemma per part of the invariant
has one step per kind. `BatchCapped` has an invariant of its own,
`UntrackedBatch`: without allocations nothing is ever held or swapped, so Step 2
never swaps a request in, and only Steps 3 and 4, which test the limit, add to
the batch. With allocations the limit can be exceeded, because Step 2 does not
test it. `PreemptionRespectsPriority` is about one action:
`OnlyPreemptOnePreempts` goes through the next-state relation to show that no other
step makes a status PREEMPTED, and the order of the sort then says that the
victim is the least of the candidates. `BlocksReturned` follows from the part
`BlocksHaveOwner` of the invariant, which has to exempt the blocks a worker may
allocate for a request after its abort; the theorem does not exempt the abort
itself, because `AbortReturns` shows that after it the request holds nothing.

**Sums of blocks.** A sum over the requests is stated as the cardinality of a set with
one slot per block (`Slots`): the library has facts about finite sets and none
that a fold would need. `SlotsAdd` and `SlotsChange` say how the number of slots
follows one request's count; `NoBlockLost` is one step per pool operation from
there. `AdmissionFits` needs two more parts. `ReservedCounts` says that `reserved`
is exactly what the requests admitted by this step need and is covered by free
blocks; it is about this step only because of `Prefilled`, which says that no
request of an earlier step is still waiting for its prefill when a step begins.
Preemption only frees blocks, which is why never reducing `reserved_blocks` is
safe. `BatchFitsMemory`, the same promise across steps, is false (Part 5).

**The cache.** `IInv` is the conjunction of its six invariants with `Covered` (no token
lies beyond `num_tokens_filled`) and `SwapNonEmpty` (a swapped copy has a block).
`Covered` is what `ReadsEveryToken` is about and what a swap-in, which declares
every block full, must not break; `SwapNonEmpty` tells a restored table from
none. Every disjunct of `Next` is one of six kinds of steps of one request
(`StepOf`): its table grows by zeroed blocks, a token goes into a block it has or
into a new one, its blocks are returned, copied and returned, or restored. What a
step of `r` leaves alone is stated once, `OthersKept(r)`, and everything about the
other requests follows from it. For the refinement, `ImplementsPoolHolds` counts:
the popped blocks are as many as asked for and distinct, so the cardinality of
the free set goes down by what the table's length goes up by.

**Batched decoding.** `Past(p, g)` is the cache a request should have: one entry per
token of its prompt and of all but its last token, each at its own position.
The invariant says that a GENERATING request has it (`RequestOK`), and that a
request whose row of a pass is still to be read had it when the pass began
(`RowOK`), also when an abort has failed it since. Around it are lemmas about
the index arithmetic for any mix of lengths: padding on the left and then
dropping `maxLen - len` columns gives the row back with one entry more, the mask
covers exactly the padding, and the position of the new token is its length
before the pass. Under the refinement mapping the cache is `Past` of the tokens
in every state, so `Prefill` is the start of the single-request loop, `EmitToken`
and a `PassRaises` that has already appended are one iteration of it, and the
rest stutters.

**The server.** `ServerImplementsScheduler` is what makes the rest short: every step
of the server is one of the scheduler or leaves its variables alone, so `IInv`
holds in every state of the server, and every theorem about the scheduler is
one about the server. `StoreInv` and `ClientInv` are inductive relative to it:

- `FinishedRests`: a finished request that nobody aborted is neither in a prefill
  nor waits for a token of the running pass. It follows from who assigns COMPLETE
  and FAILED, and it is why the tokens of a finished request are final
  (`Settled`, as a statement about one step).
- `Served` and `Truthful`: a stream that is past its last test belongs to a finished
  request, the count it made after that test is all tokens, and "error" was
  told only of a FAILED request. `AnswersAreWhole` is the last part of it.
- `AnswersStay` splits: a waiter has been notified, so its request is reaped and
  rests (`ReapedRests`); a stream was told "error" of a request that is FAILED, and
  no step takes that back. A stream that was told "stop" is outside the statement
  because the code can contradict it.

`ClientsSeeTheirView` adds `Delivered`: what a client has, and what its stream has
counted, never exceeds what was generated, and a COMPLETE request has a token.
With `TokenLimit` this is why a client never gets more than it asked for. Each
step of the server then maps to a step of one client, or to none.

**The metrics.** A step of `Metrics` is a step of `Server` (`MetricsImplementServer`), so the
scheduler's and the clients' invariants hold there. Only submitted requests
are in any of the counted sets, so these are finite (`SetsFinite`) although
`Requests` may not be. Each counter has its own account:

- `TokensAccounted` is sharper than `TokensCounted` and inductive: tokens are
  missing only for failed requests out of the thread's hands (`Lost`), and there
  are too many only for aborted ones that no longer wait for a pass
  (`Overcounted`). Both sets only grow (`AccountGrows`). That a pass skips none but
  aborted requests is `GroupGenerates`, and that a pass that raises loses one token of
  each request at most is the arithmetic of `DecodeError`.
- `FirstTokens`: the first token of a request is that of its prefill, wherever
  aborts and preemptions fall, so `record_ttft` after a prefill sees each once.
- `Counts` with `LoopCounts`: of all steps of the generation loop only `AdmitHead` and
  `ForceAdd` enlarge the set of requests in the batch, preempted or done, each by
  a request that was in none of them; preemption and swap-in leave it alone.
- `ReportedOnce`: the streams counted have ended, are dated and have nothing left
  to record.
- `BatchWhileInferring`: while the thread works the batch changes by aborts only.

Each invariant of this part was first checked by TLC on the run of its module.

**The router.** `Catalogue` is inductive by itself. The rest is about one state:
`LookupByQuantization` says what the search of the dictionary finds,
`MostQuantizedIsLeast` and `FullQualityIsGreatest` what the two chains of lookups
have to do with the number of bits, and `Monotone` compares two loads branch by
branch.

**Only model-checked.** `Answered` and `ClientsAnswered`, the two liveness properties:
reasoning about fairness and ENABLED is out of the prover's reach. The
disagreements of Part 5 are counterexamples and need no proof.

## 5. Where code and documentation disagree

Each is a run that checks one sentence of the repository and finds a
counterexample.

| Run | The text | What happens |
|---|---|---|
| `sched_hang` | `scheduler.py:109` "Returns: The batch to execute." | with two HIGH requests that only fit one at a time, Step 3 reserves blocks for the first; for the second `_try_preempt` finds no candidate, compares with the free blocks only, returns True, and the loop retries for ever, blocking the event loop |
| `sched_resume` | `README.md:15` "then resume them when space frees up" | in the deployed server a preempted request has no swapped copy, so `swap_in` returns False for ever; and `queue_depth` does not count it, so the loop may not even try |
| `sched_memory` | `scheduler.py:29` "while memory allows" | `reserved_blocks` starts from 0 in every step and nothing allocates, so the next step admits a request that does not fit beside the first |
| `sched_abort` | `tests/test_scheduler.py:110` asserts FAILED after an abort | the abort comes during the forward pass of `prefill`; when the pass returns, `inference.py:108` assigns GENERATING over FAILED, and the request keeps that status in no container |
| `server_abort` | `README.md:138` "Generate a completion (SSE stream or JSON)." and `README.md:142` "Abort an in-flight request." | `abort_request` never calls the completion callback, which stays in the dictionary, so a client that waits for the request gets no answer at all |

Further observations are part of the model and not runs of their own.

*Cache and scheduler.* `kv_cache.py:171` says of `extend` "Only allocates if the current last block
is full."; `swap_in` marks every restored block as full, whatever it held, so the
next `extend` allocates although slots are free. `scheduler.py:213` says "Lowest
priority, oldest first"; the key `(priority, -arrival_time)` sorts the newest
first, and `Precedes` follows the code. `max_batch_size` is tested by Steps 3 and 4 and
not by Step 2, so with a worker that allocates a swap-in may exceed it; and Step
4 tests the free blocks without what Step 3 has reserved in the same call. Only
a completed request gives its stored keys and values up: a failed or an aborted one
keeps them. An abort that comes a moment earlier than in `sched_abort`, between
`_run_inference_step`'s test of the status and the start of `prefill`, is overwritten
already by the PREFILL of `inference.py:94`. The stream of a request that either
leaves GENERATING does not end.

*Metrics.* A failed stream is recorded as completed (`app.py:429` asks only for a
latency), and `record_request_failed` is never called; waiting clients are
recorded nowhere. A pass counts requests it skipped because they were aborted
meanwhile (`app.py:238`), and a pass that raises counts none of its tokens. The
gauges are only set when a batch was formed, so on an idle server
`requests_in_progress` ("currently being processed", `collector.py:78`) keeps its
last value.

*Router.* The preference `int4` is looked up as `int4-gptq` only (`router.py:193`), so the
`int4-bnb` model that `configs/gpu.yaml:25` offers is not found by it:
`PreferenceHonoured` says so. And `handle_completion` routes before it updates the
figures (`app.py:256`), so every request is routed with the load measured for the
one before, where `README.md:66` says "current".

## 6. Not modelled, and the plan

Not modelled, with no plan to:

- of the metrics: Prometheus's copies of the counters, the counters that nothing
  updates, the averages of `get_summary` and the GPU figures, which are read from
  the driver;
- configuration parsing, which happens once before anything runs (several of its
  fields are used by nothing: `memory_budget_pct`, `scheduling_interval_ms`, and
  the `kv_cache` section, for which `app.py:110` has constants of its own);
- scripts, benchmarks and package exports, which are outside the running system;
- loading weights, tokenizing, sampling and the transformer: I/O and a third-party
  library;
- the read-only endpoints, startup and shutdown, and exceptions of
  `_generation_loop` itself, which nothing it calls is known to raise.

Planned, most important first:

1. The safety half of `Answered` as theorems: that a request in the queue or in the
   batch always has a step of the loop or of the thread to wait for, so that only
   the fairness argument stays with TLC.
2. That `StepReturns` holds when no HIGH request is longer than the free blocks or
   preemption is off: the condition under which the loop of Step 3 cannot retry for ever.
3. `Scheduler` as an implementation of `BlockPool`, which would compose the theorem
   about the cache with those about the scheduler formally and not only by name.
