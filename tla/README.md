# tnexus in TLA+

tnexus serves chat, OCR and image requests from pools of third-party web
accounts. What is difficult in it is scheduling: which account serves a request,
how many requests may use an account at a time, what happens to an account that
fails, and how state that several tasks and instances share (pools, permits,
leases, cooldowns, queues) survives failure and odd timing. This project models
that part of the code. Formats, prompts, TLS, proof of work and the HTML of third
parties are left out.

Paths below are relative to the repository; `crates/` stands for `src/crates/`.

## 1. The system

### Components

| Component | State | Operations | Talks to |
|---|---|---|---|
| **SimplifiedPool** (`crates/grok-pool/src/lib.rs`) | accounts, pin, cooldowns, strikes, rotation numbers, behind one RwLock | `load`, `reconcile`, `pin`, `unpin`, `select_skip`, `dispatch_success/failure/rate_limited` | engines select and report; scheduler reconciles |
| **ChatEngine** (`crates/grok-provider-web/src/engine.rs`) | the locals of each request, the global OCR gate | `chat_outcome` (retry loop), `chat_for_account`, `execute_for_account` | pool, egress lease, bridge, spawned health writes |
| **Egress lease** (`crates/grok-egress`) | in memory: a semaphore per gate; Redis: one ZSET per gate | `acquire`, `release`, `active`, RAII drop | engines; Redis |
| **Account rows in PG** (`crates/grok-storage/src/repo`) | enabled, cooldown_until, failure_count | `list_pool`, `update_health`, admin edits | reconcile task, health sink |
| **Web dispatch probe** (`crates/grok-ops/src/probe.rs`) | none between rounds | `run_once` | pool, bridge |
| **Scheduler** (`crates/grok-ops/src/scheduler.rs`, `crates/grok2api-rs/src/tasks.rs`) | next run of each task | register, run, back off | pool, PG |
| **Image engine** (`crates/grok-provider-web/src/image.rs`, `crates/grok-image-pipeline`) | as ChatEngine, plus a global image gate and pipeline slots | `generate`, `execute_for_account` | pool, lease, pipeline |
| **Selector, Build pool, pool index** (`crates/grok-pool/src/selector.rs`, `build_pool.rs`, `poolindex`) | candidate cache, sticky sessions, per-account slots, quota, heap, timing wheel, DRR | `acquire`, `release`, `mark_failure`, ... | gateway, PG |
| **Chrome tickets** (`crates/grok-chrome-ticket`) | a queue of one-time tickets per account | `push`, `pop_for_account`, `sweep` | Chrome workers |
| **Image dispatch** (`generate_one_image*` and `collect_image_accounts` in `crates/gateway/src/main.rs`, `scheduling_gate.rs`; `slot_ledger.rs`, `binding_inflight.rs` of `crates/image-schedule`; `touch_inflight` in `crates/tnexus-accounts-db/src/pg.rs`) | in-flight counters in the database, in-flight counts of proxies, slots with a TTL | admit, count, bind, take slots, call the upstream, retry, drop guards; reconcile loop, watchdog | image tasks, upstream, accounts database |
| **Rest of image-schedule** | ready buffer, return window, dispatch interval, cooldowns | filters of candidates, admission of results | GPT gateway |
| **GPT gateway: image tasks** (`crates/gateway`) | task map, file, queue, image permits | handlers, task workers, status page | image dispatch, ready buffer |
| **Image jobs** (`crates/tnexus-api/src/{jobs,routes/jobs}.rs`, `crates/tnexus-worker`) | job rows and results in Postgres, a Redis list, one Redis channel per job | create, push, delete, listen; BLPOP, stages, parallel slots, publish | gateway, Postgres, Redis, browsers |
| **grokproxy** (`src/grokproxy`) | SQLite rows, ready queue, leased ids, the work of two probers and a remint loop | take, refresh, report, refill, purge, probe, remint | xAI, operators |
| others | see `components` in PROJECT.json | | |

### What is hard in it

* **Reports that arrive late.** A request reads an account, awaits for seconds or
  minutes and then books a result *by id*. Meanwhile another request, the probe,
  or reconcile has changed that account's books or removed the account.
* **Two sources of truth.** The pool's books and PG's are written by different
  tasks. reconcile reads PG first and enters its critical section later.
* **Permits across awaits.** Leases and the OCR permit are RAII guards held
  across awaits in functions with many early returns (`?`), in futures axum
  drops when a client hangs up.
* **A distributed semaphore made of separate commands.** The Redis lease cleans,
  counts and adds in three commands; releases are spawned and may be lost.
* **Rotation under churn.** Fairness rests on sequence numbers that must stay
  meaningful through load, reconcile, pin and skip lists.
* **Four ledgers for one image.** An attempt is counted in the database, on its
  proxy, in the slot of its account and in a numbered slot; each has its own guard,
  and a loop repairs all four behind the guards' backs.
* **Single-use refresh tokens.** xAI revokes a token when it hands out the next
  one, and four kinds of task refresh from snapshots of one row.
* **Queues without acknowledgement.** A job is in a list, or in one process's hands;
  its progress is published and written in separate statements.
* **Caches** that are read later than they were filled (ready queue, selector).

Every such place is listed with its line under `hazards` in PROJECT.json,
together with the properties aimed at it, or the reason there is none yet.

### What makes each component correct

* *SimplifiedPool*: an account that is ready waits for at most one turn of every
  other; reconcile changes nothing about accounts that stay; a cooldown lasts.
* *ChatEngine*: permits are conserved on every way out; each attempt goes to a
  different account; a request gives up only when
  nobody is ready, or its turns are used up; it ends.
* *Egress lease*: never more holders than slots; a slot is kept until its expiry
  and comes back after a crash; `acquire` ends.
* *Reconcile*: the pool settles on what the operator enabled.
* *Selector*: never more uses of an account than its limit; a soft stop lasts;
  waiting requests are woken.
* *Chrome tickets*: each ticket is used once, before its expiry, for its account.
* *Image dispatch*: counts equal the tasks that run, whatever order they end in; a
  slot comes back, and is shared only after it has expired.
* *Jobs*: a job is in one place at a time, done means complete, and what a browser
  is shown moves forward.
* *grokproxy*: one user per account, no account lost from the rotation, no refresh
  token lost.

## 2. Modules

| Module | Models | Role |
|---|---|---|
| `FairRotation` | the promise of account selection: turns owed, no counters, no clock | abstract specification |
| `FairRotation_proofs` | | theorems about FairRotation |
| `SimplifiedPool` | `crates/grok-pool/src/lib.rs` | component, implements FairRotation |
| `SimplifiedPool_proofs` | | theorems about SimplifiedPool |
| `ChatEngine` | `engine.rs`, the in-memory lease, the reconcile task, the probe, the health sink and the PG rows they share | composition, EXTENDS SimplifiedPool, implements LeaseGate |
| `ChatEngine_proofs` | | theorems about ChatEngine, on top of those about the pool |
| `LeaseGate` | the contract of the trait `LeaseManager` (`crates/grok-egress/src/lease.rs`): a gate never has more leases out than slots, and frees none that is owned and still runs | abstract specification |
| `EgressLease` | `crates/grok-egress/src/redis.rs`, `lease.rs` | component, implements LeaseGate |
| `EgressLease_proofs` | | theorems about EgressLease |
| `ImageTasks` | the image handlers of the GPT gateway, `image_tasks.rs`, `ready_buffer.rs` | component |
| `ImageTasks_proofs` | | theorems about ImageTasks |
| `ImageDispatch` | `generate_one_image` and what it calls: candidates, `scheduling_gate.rs`, `slot_ledger.rs`, `binding_inflight.rs`, `touch_inflight`, the reconcile loop | composition of four ledgers |
| `ImageDispatch_proofs` | | theorems about ImageDispatch |
| `JobBoard` | what the owner of image jobs may rely on, with no queue, worker or channel | abstract specification |
| `JobPipeline` | `jobs.rs` and `routes/jobs.rs` of tnexus-api, tnexus-worker, Postgres and Redis as they use them | composition, implements JobBoard |
| `JobPipeline_proofs` | | theorems about JobPipeline |
| `GrokProxy` | `pool.rs`, `store.rs`, `probe.rs`, the janitor and remint loops, the forwarding loop of `src/grokproxy` | composition |
| `GrokProxy_proofs` | | theorems about GrokProxy |
| `MC*` | | values of the constants for TLC |

### SimplifiedPool

Every method takes the RwLock once, so every method is one action, and the
variables carry the names of the fields of `Inner`. The map from ids to rows is
the set `accounts`. Time is relative: `cooldown_until[a]` is what is *left* of
the cooldown, the code's `until > now` is `> 0`, and `Tick` takes a unit off.
`load` has the guard that it runs once, before requests: `main.rs` calls it at
start-up and nowhere else (reconcile took over its other uses). PoolNext is the
pool under *any* caller in *any* order, more than the engines do, so what holds
there holds in the composition. `rl_failure_count` stops at 3, because the shift in
the backoff stops at 2. `success_count` and `failure_count` feed metrics only.

`FairRotation` says what this is for. `<<a, b>> \in owed` means that b has had a
turn since a had one, or since a joined. Nobody is served while another ready
account is owed a turn before it, the pinned account excepted; whoever stays
keeps its claims; whoever leaves loses them. The refinement mapping reads `owed`
off the sequence numbers.

### ChatEngine

One action is the code between two awaits at which other tasks can see a change.
The program counter of a request:

| pc | the await |
|---|---|
| `gate` | `ocr_global_gate.acquire_owned()` (OCR only) |
| `select` | turns of the select loop; session keys are read from disk between turns |
| `lease` | `lease.acquire(...)` |
| `prepare` | attachments and the sso token, lease held |
| `upstream` | the bridge call, lease held |

`chat_for_account` enters at `lease` with its account given. `Finish` and
`NextAttempt` drop the guards as Rust's scopes do, so an early return is an action
that ends in one of them. `Cancel` is the future dropped by axum: it may happen at
each await. Error texts are abstracted to whether `is_retryable_error` accepts
them: where the text comes from outside, both happen; a rate limit always is
retryable, an ordinary bridge failure never is, as their texts are fixed.
`spawned` holds the health writes that were spawned and have not run; they run in
any order, or fail. `listing` is the result of `list_pool` between the query and
the critical section. `todo` and `probing` are the probe's round.

### EgressLease

One action is one Redis command. A client cleans (`ZREMRANGEBYSCORE -inf now`),
counts (`ZCARD`), adds (`ZADD now + lease`), sleeps or times out, and holds. It
scores and cleans with the `now` it read at the start of its turn, `age[c]`
seconds ago. The ZSET is the function `left`, from members to the seconds until
their score. Releases are spawned (`releasing`), run later, or get lost. `Abandon`
is a Redis error or a dropped future inside acquire, also between a ZADD that has
run and its reply; `Crash` takes an instance with its lease.

Two backends implement one trait, so there is one abstract specification, `LeaseGate`,
and two refinement mappings, both called `Trait`. The in-memory backend, inside ChatEngine,
maps the leases of an account to the requests that hold one, and has exactly
`LeaseLimit` slots. The Redis backend maps them to the members of the ZSET, orphans and
expired members included, and has `Limit + N - 1` slots for N clients (`KeepsTrait`):
that is the contract a caller can count on, and the run `oversell` shows that it cannot count on `Limit`.
LeaseGate also says whose slot may be freed: that of a lease its caller has dropped, or whose time
is up, and no other. In memory a lease runs until it is dropped; in Redis it runs while its score
is ahead. `Collides` is the branch of `try_acquire` where ZADD finds the id taken: it sets
the score of a member, which may be somebody's lease, and gives nothing out.

### ImageTasks

A handler is one HTTP request and runs, in one action, to the next lock that
another thread can hold for longer than a moment: the RwLock of the task store, and
the two mutexes of the ready buffer. A request is asynchronous (it enqueues a task),
synchronous (it takes an image permit, generates, and passes the ready buffer),
adapted (there is no permit: it enqueues a task and waits for it), or the status
page. Every 429 estimates a waiting time, which reads the store and the buffer.
`update_state` is the only code that keeps the store's lock while it takes another,
and that other is the same lock: its action has no successor that gives it back.

### ImageDispatch

A task is one call of `generate_one_image` (the edit variant has the same frame).
`pc` says which scopes it is in, and so which RAII guards are alive:

| pc | the task | guards |
|---|---|---|
| `count` | is about to increment `image_inflight` of its account | on a retry, the in-flight guard of the account before |
| `uncount` | is about to decrement that of the account before | both in-flight guards |
| `bind` | asks `binding_inflight.try_begin` | in-flight |
| `slot`, `ss` | asks for the account's slot, for an sS slot | and binding, and account slot |
| `upstream` | waits for ChatGPT | all four |
| `end` | has left the loop | in-flight |

That order is the code's: `inflight_guard = st.scheduling_gate.begin_inflight(..)` (`main.rs:1233`)
counts the new account before the assignment drops the old guard. Rust drops the guards of a scope
one after the other without an await between; only the database's is a statement of its
own (`Uncount`, `End`). `FreeSlots` removes a slot by its key, whoever has it by then,
as `release_account` and `release_ss` do. `ChatImage` is an image asked for in a chat
(`chat_image_completions`, `main.rs:924-970`): it goes upstream under the in-flight guard alone,
past the limits of all ledgers, and is seen by those that filter on the counter. Time is an age: a slot is `fresh`, then `old`,
which is what `watchdog_tick` removes. The candidates are any non-empty order of
accounts whose proxy has room, with at most one that is over its in-flight limit (the
account an admin asks for): cooldowns, quotas, the dispatch interval and the
round robin decide which, and are left open. `leaked`, `wiped`, `zeroed` and `expired` are
history variables; no action's guard reads them.

### JobPipeline

One action is one statement to Postgres or Redis. A job's life is
`Create`, `Push`, `Pop`, `Load`, three stages that are each published (`PublishStage`)
and then written (`SetStage`), the slots side by side under the semaphore
(`StartSlot`, `PersistSlot`, `TellSlot`), `Joined`, `Finish`, `Announce`. `Fails` is the
`?` of any of these, where the statement may have been carried out before the error;
`Book` and `TellFailed` are the main loop's answer to it. `Die` and `RedisRestarts` are
the crashes; `Delete` may come at any time, and updates of a row that is gone do
nothing. A stream reads the row (`Listen`), subscribes in a spawned task (`Subscribe`),
and is sent what has been published since. `lost` and `doubted` are history variables.

`JobBoard` says what all this is for. Jobs go through their stages one by one, images
come once each, and what a watcher is told never goes back, is at most one stage ahead of
the board, and is "done" only of a complete job. The mapping reads the board off the
rows and results; the watchers are the streams, and the list, the workers, the channel
and the events under way are invisible.

### GrokProxy

One action runs from an await, or a lock section of `take_ready`, to the next. The
queue is the set of the snapshots in it: which one is first depends on budgets and times
of last use that are not modelled, so `TakeReady` may take any. An
account travels as a snapshot of its row, in the ready queue, with a request
(`acct`), or with a prober (`jobs`); a row has an id, which is an email and a
generation, because SQLite never uses an id twice. `Refill` is one action because it
holds the queue's lock while it reads the table, and `Purge` includes the eviction
that `probe_pool` does right before it. `valid[e]` is what xAI would accept and
`issued[e]` what it has handed out: `RefreshRotates` and `ProbeRotates` are the
exchange, `RefreshSaved` and `ProbeSaves` the write that follows it. `Cancel` is axum dropping
the request: a `Lease` gives the account back, but while a token is being refreshed
there is no Lease yet (`stranded`). Every statement to SQLite may fail, which counts as a fault:
`SaveFails` and `ChargeFails` are the two `?` that leave `acquire_build` with the id still leased
(`pool.rs:136` and 148), `RefillFails` the one before an id is taken, `Unbooked` what `forward`
ignores, `PurgeBreaks` and `ProbeUnbooked` the same for the janitor and the probers. `SetHealth` is the admin page, `Revoke` a token
revoked at xAI, `Crash` a restart of the process.

## 3. Runs

| Run | Module | Question | Result |
|---|---|---|---|
| `rotation` | MCFairRotation | does the abstract rotation starve anyone? | no |
| `pool` | MCSimplifiedPool | are the pool's numbers sound, do stayers keep their books, does it implement FairRotation? | yes |
| `chat` | MCChatEngine | do requests keep permits and account choice right when retried, cancelled, timed out? | yes |
| `chat_live` | MCChatEngine | does every request end, does the pool settle on what the operator enabled? | yes |
| `lease` | MCEgressLease | how far can the Redis gate be oversold, are slots kept and recovered, is none freed under its owner, does acquire end? | by fewer than the number of clients; yes |
| `dispatch` | MCImageDispatch | do the four ledgers agree with the tasks that run, through retries, cancellation, expiry, chat images, reconcile and crash? | yes, but for what a reconcile has zeroed |
| `jobs` | MCJobPipeline | is a job in one place, complete when done, shown in order, does it end, and does it all implement JobBoard? | yes |
| `proxy` | MCGrokProxy | does each account have one user, stay in the rotation and keep a good refresh token? | yes, but for faults during a refresh |
| `backoff_cut` | MCChatEngine | does a backoff last, as lib.rs:38-39 says? | violated |
| `dirty_join` | MCChatEngine | does an account join clean, as docs/44 A.3 says? | violated |
| `oversell` | MCEgressLease | is the gate never oversold, as redis.rs:16-18 says? | violated |
| `task_stall` | MCImageTasks | does an asynchronous image request return, as protocol/src/lib.rs:279 says? | violated |

Deadlock is checked in all of them but `task_stall`, where the gateway really stops.

### Properties

* `NoStarvation` (FairRotation): with requests coming in, an account that stays in
  the pool, ready and without a pin in its way is served again and again.
* `RotationSound` (SimplifiedPool): no selection number is from the future, shared
  by two accounts, or kept by an account outside the pool.
* `StayersKeepBooks`: reconcile, pin and selection cost a member neither its
  place, nor its strikes, nor its cooldown.
* `PermitsConserved`: free permits and requests inside add up, on every way out.
* `EachAttemptElsewhere`: attempts go to different accounts, within the budget.
* `GivesUpOnlyWhenNobodyReady`: a request turned away had no ready account with keys left to
  try, or as many different keyless accounts in its way as the loop has turns.
* `RequestsEnd`, `PoolFollowsStore`: liveness of the engine and of reconcile.
* `OversellBounded`: members plus clients about to add stay below Limit + N.
* `SlotKeptUntilExpiry`, `OneOwner`: nobody else takes an unexpired slot that is
  held; lease ids are not mixed up, nor used after their release.
* `KeepsTrait`: the Redis lease implements LeaseGate with `Limit + N - 1` slots. What it adds to
  OversellBounded is that no command but the lease's own release, or the end of its time, frees a slot.
* `AcquireEnds`, `OrphansAreCleaned`: no call hangs; orphans do not stay.
* `BindingsAccounted`, `InflightAccounted` (ImageDispatch): the count of a proxy is the
  number of attempts running through it, and is below it only while attempts overlap that
  ran when the reconcile loop zeroed it; the counter of an account is the number of tasks on it
  plus what crashes have leaked, and falls short only while tasks overlap that ran when the
  reconciler zeroed it.
* `NoStuckSlot`, `SharedOnlyAfterExpiry`: a taken slot has a task that will give it
  back; two attempts share a slot only if it expired under one of them and they have
  overlapped ever since.
* `NothingForgotten` (JobPipeline): a job that is under way is with exactly one of its
  handler, the list and a worker, unless a fault took it.
* `DoneIsComplete`, `ToldDoneIsDone`, `ShownMovesOn`: done jobs have one result for each
  slot; a browser that is told so finds it so; what it is shown never goes back.
* `BoardSpec`: the pipeline implements JobBoard, faults included.
* `EndedStaysEnded`: no late event, answer or crash takes a job back from done or failed.
* `JobsEnd`: a queued job is done, failed or deleted some day, or a fault took it.
* `OneUserEach`, `LeasedIsHeld` (GrokProxy): no id is with two requests, or with one
  and in the queue; `leased` is what requests hold, and what was left behind where a cancellation or an error
  of SQLite ended `acquire_build` during a refresh.
* `TokenNeverLost`: a row's refresh token is good, or its successor is with a task that is
  about to save it, unless a fault destroyed it.

Every property has a mutant, an operator beside the definition it replaces, which
makes it fail as a plausible bug in the code would.

### Bounds, and why they are enough

* **Accounts.** Three in `rotation` and `pool`: the smallest number where
  one account waits while two others are served. Four in `chat`, two of them without
  keys: a request can retry on the other keyed one, and can use up its two turns
  (`MaxAttempts`) on the keyless ones while a keyed one is ready. One in `chat_live`, `backoff_cut`
  and `dirty_join`, so that requests contend for the same permits.
* **Durations.** One unit each where only "in cooldown or not" counts; in
  `backoff_cut` and `dirty_join`, `RlBase = 2 * FailCooldown`, so that an ordinary
  cooldown is shorter than a backoff. TLC sees orders, the theorems all values.
* **MaxSeq**: selections in a behaviour. 3 in `pool` (each account once, or one
  account thrice); 5 in `chat`: two requests with two attempts each and a keyless turn, or one
  attempt and all four turns on keyless accounts that two requests can meet. 4 in `chat_live` is all
  that two requests can use up, so the bound cuts nothing there.
* **OneOffender, OneStrike** are state constraints on strikes in `pool` and
  `chat`: strikes of different accounts never meet in an expression, and with all
  backoffs equal a second strike is the first. The theorems have no such bound.
* **Managed, Direct, Probed** are accounts that operators, direct requests and the
  probe touch. In `chat` nobody is managed (`chat_live` and `dirty_join` do that)
  and the probe looks at one of the two accounts with keys.
* **Requests** are one-shot: two are enough for the second to meet everything the
  first leaves behind. They are symmetric in `chat`, which has no liveness.
* **EgressLease**: two clients, one slot, three ids (holder, orphan, newcomer), a
  lease of two seconds, `MaxAge` one second for the commands of one turn, one
  fault. The theorems hold for all of them.

* **ImageDispatch**: two tasks, two accounts behind one proxy that takes one attempt, one
  sS slot, two attempts per task, two crashes. The proxy's ceiling in the reconcile loop is 0, below
  its limit as 8 is below a limit of 9 to 16: the loop zeroes the count of a running attempt, and the
  next one gets in beside it. `InflightMax` is 1, so the reconciler's ceiling is 4: two tasks and what
  two crashes of two leak exceed it. A task that outlives its slot overlaps with the
  next owner. Tasks and accounts are symmetric. The theorems have no bound on any of it.
* **JobPipeline**: two jobs of two slots, one worker, one permit, one browser: a job waits
  in the list while another runs, and slots wait for each other's permit. Jobs, slots
  and workers are unbounded in the theorems.
* **GrokProxy**: one account with its web session, two requests and the two probers, two
  tokens, two generations of the row, two tries, one fault, be it a crash, a cancellation or a failing statement. With one account all four kinds of task meet
  on it; `MaxToken` and `MaxGen` allow a rotation and one deletion with a remint.
* **ImageTasks**: two handlers, one whose task a worker takes up and one that comes
  after it; one permit, one worker, one place in the buffer.

### Fairness

* `chat_live`: weak fairness of each request's next step (Tokio polls every
  task, a bridge call has its HTTP timeout, a lease wait its `lease_duration`), and
  of the two halves of reconcile (the scheduler repeats the task). None for
  arrivals, cancellation, operators, health writes or the probe. `PassGate` and
  `AcquireLease` need only weak fairness: with two requests a permit that is free
  for one stays free, or the other has ended.
* `rotation`: one caller that refuses nobody keeps coming.
* `lease`: weak fairness of each client's commands and of spawned releases,
  strong fairness of time, because a clock that stands still whenever a turn is
  slow would not be one; nothing obliges a holder to release.
* `jobs`: weak fairness of each worker's steps, the refusal of a slot whose job is gone
  included (the main loop runs one job after the other, its HTTP calls have timeouts, and
  Postgres and Redis are taken to answer or to fail), and of the push that follows an insert. None for browsers, deletions, failures and crashes.
* `task_stall`: strong fairness of each handler (the locks are fair to their
  waiters), weak fairness of the queue and its worker. None for arrivals.

### Findings

1. `backoff_cut`: `dispatch_failure` *assigns* the cooldown. A second request, or
   the probe, in flight on an account that has just been rate limited cuts its
   60-300 s backoff to 2 s.
2. `dirty_join`: the reports do not ask whether the account is still in the pool.
   One that arrives after reconcile removed the account leaves a strike nobody
   clears; when the account is enabled again its first rate limit costs 120 s
   instead of 60 s.
3. `oversell`: two clients that both read ZCARD before either ZADD share a single
   slot, against the module's comment. `OversellBounded` is what does hold.
4. `task_stall`: `update_state` calls `persist` with its write guard alive, and
   `persist` takes the read lock of the same RwLock. The first worker that takes up a
   task blocks for ever with the store locked; every later enqueue, poll, 429 and status
   page blocks behind it. With that repaired the same model shows a second way to
   stop: `ReadyBuffer::stats` locks bytes then items, `try_admit` and `release` items
   then bytes.

Smaller ones, seen while modelling:

* SimplifiedPool and its engines: the comment on `dispatch_rate_limited`
  (`lib.rs:309-312`) promises 300 s from the third strike on, the code's shift gives
  60 s << 2 = 240 s, and the cap of 300 s is never reached; `record_success` of the PG sink
  clears `cooldown_until`; `RedisLeaseManager::active` uses `Handle::block_on`, which
  panics when called on a runtime thread; a lease is not renewed, so a request longer
  than `lease_duration` runs on without a slot.
* grokproxy: two tasks that refresh from snapshots of one row use one token twice. The
  second is refused as if the token had been revoked, and marks the row, by id,
  `needs_reauth` (`pool.rs:302`, `probe.rs:218-231`), although the stored token is good
  and `src/grokproxy/README.md:32` says that the mark means a revoked token. A purge deletes the
  row; where there is a web session the remint loop brings the account back, unless
  the janitor's purge came first. GrokProxy contains all of this, which is why TokenNeverLost
  speaks of the token and not of the mark.
* grokproxy: a success or a failure reported by a request in flight overwrites an
  operator's `disabled`; a request that is cancelled during a refresh, or meets an
  error of SQLite in `save_refreshed` or `report_failure` (the `?` of `pool.rs:136` and 148), leaves
  `acquire_build` before there is a `Lease`, and the id stays in `leased` until a restart, although
  `pool.rs:54-56` says that "a request that dies mid-flight cannot strand an account outside
  the rotation" (an error in `save_refreshed` loses the new token too); a late `save_refreshed` replaces a token minted after a revocation.
* Image dispatch: with `IMAGE_ACCOUNT_INFLIGHT_MAX=1` a count leaked by a crash stays for
  ever, as the reconciler looks at counts above 4 only (`scheduling_gate.rs:51`), and
  the account is schedulable only by the fallbacks of `collect_image_accounts`.
  `reconcile_above(8)` (`main.rs:297`) takes more than 8 attempts on a proxy for a leak, while the
  runtime configuration allows a limit of 16 (`crates/image-schedule/src/runtime_config.rs:56`):
  with 9 or more running the count is zeroed every 300 s, and as many again are let in. The images of a chat are in no ledger but the
  in-flight counter. `decrement_quota`
  (`pg.rs:124-165`) reads and writes in two statements, so one of two images that end together
  is not counted. `persist_account_row` of tnexus-api (`accounts_store.rs:829`)
  writes the counters it has read before over the live ones.
* Jobs: a job whose results are complete is booked as failed when writing or publishing
  `done` returns an error (`worker/main.rs:376-390`); ToldDoneIsDone excepts exactly these. A
  stream that subscribes after the last event hears nothing for 900 s. A job whose push
  failed stays queued for ever, and nothing reaps what a crash has lost.

## 4. Theorems

All are proved by TLAPS for any values of the constants that satisfy the named
assumptions (`AccountAssumption`, `TimeAssumption`, `EngineAssumption`, `GateAssumption`,
`DispatchAssumption`, `JobAssumption`, `ProxyAssumption`).

**FairRotation_proofs**

* `NobodyIsRefused`: among the accounts that are ready for a caller there always is one
  the rule lets it have. The inductive invariant is that every set of accounts has a first
  (`OrderHasAFirst`): after a turn of `c`, `c` is last; after `Follow`, those who left are first. This is the safety half of NoStarvation.
* `OvertakingIsBounded`: `Ahead(a)` is the set of members that may still be served before
  `a`. While the membership is settled no step but a's own turn adds to it, and each
  turn given to another while `a` is ready, not refused and nobody ready is pinned takes one
  away. So `a` waits for fewer turns than there are members. NoStarvation needs fairness;
  this bound does not.

**SimplifiedPool_proofs**

* `TypeCorrect`: `TypeOK` is inductive by itself. `BackoffPositive` is the lemma
  about the backoff.
* `RotationCorrect`: `TypeOK /\ RotationSound` is inductive. The three parts need
  each other: a new number is unshared *because* none is from the future.
* `BooksKept`: `StayersKeepBooks` as an action property, from `TypeOK` and
  `RotationSound` (a selected account's number grows because it was not from the
  future).
* `ImplementsRotation`: `PoolSpec => RotationSpec`. `RefInit` maps initial states,
  one lemma per operation maps steps. The hard ones are `RefSelect` (owed turns
  after a selection; uses all of RotationSound) and `RefReconcile` (claims of
  those who left; uses `OutsidersUnnumbered`).

**ChatEngine_proofs**, for any number of requests and accounts and any limits

* `IInv` is the pool's own invariant, `LoopSound` (the requests and their gates) and
  `Outside` (rows, listing, spawned writes, probe). `Placed` says what is true of a request
  at each await: in the select loop it passes over all it has tried and else over keyless
  accounts only, and whoever waits for a lease or holds one has an account.
* `EngineServesFairly` and the pool's half of IInv come for free from SimplifiedPool_proofs:
  `RequestIsPool` and `TaskIsPool` show that each step is an operation of the pool, or
  leaves it alone. The one thing to show is that reconcile gets cooldowns PG can hold
  (EngineAssumption: what `update_health` stores, `0..RlBase`, is among `StoreCooldown`).
* `PermitsNeverLost`: a step changes the entry of one request, and `CountOne` turns that
  into a change of at most one in a cardinality. `LeaseDropped`, `FinishServes` and
  `NextAttemptServes` cover the ways out of an attempt, and are cited by each of them.
* `AttemptsDiffer` needs `Placed`: the selected account is not among those passed over,
  hence not among those tried. A direct request never retries, which is why its list may
  hold an account the loop has not chosen.
* `TurnsAwayRightly`: a request that gives up at a keyless account has seen MaxAttempts
  different ones, as it passes over those it has seen; else everybody left is tried or not ready. `OnlyItself` and `OnlySelecting` say whose step it was.
* `RequestsRunOut`: a variant. A request has `RetryMax` attempts, and `ToGo` says how many
  steps an attempt can still take, the turns of the select loop included; every step of a
  request ends it, spends an attempt, or lowers ToGo, and nobody else's step touches
  either. What remains for RequestsEnd is that the steps are taken, which is fairness.
* `MemoryKeepsTrait`: `Spec => Trait!Spec`. A lease is acquired only when a permit is free, and
  PermitsConserved turns free permits into leases that are out; a permit comes back only with
  the step that drops its lease.
* `ChatTypeCorrect`: the upper limits of the permits follow from PermitsConserved.

**EgressLease_proofs**

* `LeaseTypeCorrect`, `OneOwnerCorrect`: the inductive invariant is `LeaseTypeOK /\
  Ownership`, where Ownership adds to OneOwner that a client between ZADD and the
  end of its lease knows its id. LeaseTypeOK needs it: a release spawns that id.
* `SlotKept`: the only actions that shrink the ZSET are cleaning, a release and
  `active`. A client's cleaning removes scores at most `-age[c] <= 0`; a release
  removes an id that is nobody's, by OneOwner.
* `OversellIsBounded`: the strengthening `Bounded` adds that the ZSET is finite.
  `FindsSlot` is the crucial step: below the limit, even all N clients adding
  gives less than Limit + N.
* `RedisKeepsTrait`: `Spec => KeepsTrait`. `AddAcquires` maps ZADD to Acquire and uses Bounded:
  the client that adds is itself one of those about to add, so there were fewer than
  `Limit + N - 1` members. Every other command only takes members away, and none that
  is owned and still runs: `RemovalReleases` for cleaning, late releases (by OneOwner) and `active`,
  `CollidesParts` for a ZADD of a taken id, `LeavingDrops` for crashes and errors, `ClockTicks` for time.

**ImageDispatch_proofs**

* `TypeCorrect`, `ProxiesAccounted`, `CountersAccounted`, `SlotsComeBack` and
  `ExclusiveUntilExpiry` prove TypeOK, BindingsAccounted, InflightAccounted, NoStuckSlot and
  SharedOnlyAfterExpiry, for any number of tasks, accounts, proxies, slots and crashes.
* One inductive invariant `IInv` carries them. It adds to the five `Tidy` (a list of
  candidates names nobody twice, so that the guard of the last account and that of the
  next never count on the same one; an idle task is at its first attempt) and
  `WipedOwesNothing` (a crash leaks nothing on an account that is wiped).
* The five properties speak about cardinalities and guards of one task among many, so the proof
  goes by what a step does to *one* task: `Leaves` says which scopes it leaves, `StaysMeans`
  that the others' guards stay, and `SlotEffects`, `BindingEffects` and
  `CountEffects` reduce each action to "this guard appears, that one goes", from which a
  set of tasks gains or loses one member.
* Nothing is assumed about `BindingMax` and `BindingCeiling`. When a reconcile zeroes live counts,
  `zeroed` remembers the proxy until no attempt runs through it, and `BindingsStep` shows
  that until then its count never exceeds what runs. `SharedOnlyAfterExpiry` needs nothing about `wiped`, and
  `NoStuckSlot` nothing about counts.
* `UpstreamIsBounded` draws the conclusion the ledgers are for: image attempts at the upstream
  through one proxy are at most `BindingMax` unless its count has been zeroed under them, on one
  account at most one and together at most as many as sS slots while no slot has expired, and
  every attempt is in all four ledgers, but for a count that a reconcile has zeroed and a slot the
  watchdog has evicted. With `BindingMax <= BindingCeiling` (`CeilingSpares`) no proxy is ever
  zeroed; the code allows limits of 9 to 16 where that fails. It says nothing of chat images,
  which the code does not bound.

**ImageTasks_proofs**

* The only run of ImageTasks expects a violation, so what is asked of its constants is
  the hypothesis `Limited` of each theorem and not an assumption of the module: finitely
  many requests, limits that are natural numbers. The run's own values satisfy it.
* `OneHolderPerMutex`, `LimitsKept`, `TaskSentOnce`: the mutexes exclude, the buffer
  counts exactly the images under delivery (so its subtraction never underflows), permits, queue
  and workers stay within their capacities, and a task enters the queue once, after it was
  recorded. One inductive invariant `IInv` carries them.
* `FirstUpdateIsTheLast`, `CrossedLocksStay`: the run `task_stall` shows that a request *may*
  hang; these say that each of the two deadlocks is for good, for any
  number of requests and workers. Once a worker updates a task, the store stays locked, no
  other task is ever taken up, and whoever comes to the store stays there; once `stats` and
  a delivery hold one mutex each, neither is unlocked and the buffer never changes.

**JobPipeline_proofs**

* `TypeCorrect`, `NothingIsForgotten`, `DoneMeansComplete`, `DoneIsTrue` and
  `EndedRemains`, for any number of jobs, slots, workers and streams.
* `IInv` adds to the stated properties how far each job in hand can be: `Fresh` and
  `Untouched` (a job not submitted is nowhere; one in the list or with its handler has no
  results), `Running`, `Finishing` and `Ending` (what the row and the results of a
  worker's job are at each place), and for streams `ClosedHearsNone` and `Honest` (a "done"
  in an inbox, or shown, is settled or doubted).
  DoneIsComplete is not inductive without OnlyOnce: two workers on one job would
  each insert the same slot.
* `ShownOnlyMovesOn` and `ImplementsBoard` need more, `BoardInv`: a worker publishes exactly
  the stage after the row's (`Paced`), a stream has events only while it is subscribed
  (`Tuned`), its inbox is ordered and not behind what is shown (`InOrder`), nothing a
  stream knows is past what the job's worker has reached (`Timely`), and an event on its
  way is at most one stage ahead of the row, "done" only for a complete job
  (`Foretold`). Timely is the heart: it is why a browser that read the row early, and subscribed
  late, cannot be sent anything older.
* `ImplementsBoard`: `Spec => BoardSpec`, by `RefInit` and `RefStep`, which has one lemma each
  for the worker, the API with its faults, and the streams.

**GrokProxy_proofs**, for any number of accounts, requests, tokens, generations and faults

* `TypeCorrect`: `Typed` adds to TypeOK that a request that holds an account carries a
  snapshot. The lemmas that end in `Marks` say once and for all which writes of the store
  leave tokens and generations alone and revive nobody (`Undisturbed`); of all writes
  only `SavedRow` and `ImportedRow` do more.
* `NoAccountShared`, `NothingLeaks`: `PoolInv` adds to OneUserEach and LeasedIsHeld that the
  queue has an id once and none that is leased, and that a stranded id is held by nobody. A
  step keeps it because it touches no id (`PoolStays`), takes one (`TakenPool`), queues
  fresh ones (`RefilledPool`), or gives one back or leaves it behind (`GivenBackPool`).
* `TokensSurvive`: `TokenInv` collects what may yet be refreshed with (`Known`) and what has
  been exchanged and not stored (`Work`). A new token is a secret of the task that got it
  (`Secret`), so nobody can use it up before it is stored (`Good`); a token tells the generation of its
  row (`OneGen`), so whoever exchanges a row's token will write to that very row
  (`Kept`), even when the account was deleted and reminted in between. Every action has one of seven
  effects on tokens, from `TokensQuiet` to `TokensRevoked`, one lemma each.

**Only model-checked**: everything under fairness (`NoStarvation`, `RequestsEnd`,
`PoolFollowsStore`, `AcquireEnds`, `OrphansAreCleaned`, `JobsEnd`), because liveness rests on
ENABLED, which these provers do not reason about. For NoStarvation and
RequestsEnd the theorems OvertakingIsBounded and RequestsRunOut give the bound that, with
fairness, makes them true. The four violations are TLC's counterexamples. Every
invariant, action property and refinement that a passing run checks is also a theorem.

## 5. Limits

* Clocks of instances agree in EgressLease; wall clocks do not jump.
* A lease id that is taken is a fault of its own (`Collides`), and of any member; in the code the ids are
  an instance number and nanoseconds.
* A lease timeout is booked as a failure of the account, in ChatEngine as in the code; whether that is
  what an operator wants of a busy account is no property here.
* `RetryMax` is at least 1. The engine accepts `GROK_CHAT_RETRY_MAX=0`, which fails every
  request before it selects an account.
* A request of ChatEngine ends when its answer is complete; streaming to a client
  afterwards, and audit records, are left out.
* Orphans are cleaned because somebody calls `acquire` or `active` again. If nobody
  does, they stay, and harm nobody.
* ImageTasks has no disk, no polls of a task's result and no return window. What a task
  store does after `update_state` is not modelled, as no task gets there; generation
  itself, which the synchronous handler reaches, is ImageDispatch.
* One instance in ChatEngine; several in EgressLease.
* ImageDispatch: a cap of zero (but for the in-flight limit), which switches a ledger off, is left out; the proxy
  of an account does not change while a task is on it; `BindingMax` is fixed;
  statements to the database do not fail; the reads of an admission are one step; image permits are
  in ImageTasks.
* JobPipeline: a Redis that restarts from a snapshot, and so brings ids back, is not
  modelled; progress numbers and texts are left out; uploads are part of `PersistSlot`.
* GrokProxy: a statement of SQLite that fails has written nothing; xAI rotates the token at every refresh, token counts are a
  budget (unknown, rich, low), a prober's round is one chunk, and the reports of a
  success (usage, then health) are one step.

## 6. Plan

Done: FairRotation, SimplifiedPool, ChatEngine, LeaseGate, EgressLease, ImageTasks,
ImageDispatch, JobBoard, JobPipeline, GrokProxy, and the theorems above. Next, in this order:

1. **Selector**: claim slot, candidate cache, sticky accounts, capacity wait.
   Abstract: a semaphore per account; liveness: waiters are woken.
2. **Chrome tickets**: refinement to a ticket used at most once; proof.
3. **Image engine** of grok-provider-web, pipeline slots and the global gate next to
   ChatEngine.
4. **A second writer** of the account rows (tnexus-api) and quotas in ImageDispatch.
5. If time allows: audit sink, scheduler loop, DRR and timing wheel of the pool index.

### Not modelled

Components with status `not_modelled` in PROJECT.json, and why: the selector, Build pool
and pool index, the image engine, Chrome tickets, the scheduler and the audit sink
are on the plan above; HTTP layers, request parsing, clients of third parties (TLS, proof of work,
SSE formats), SQL repositories beyond the columns above, migrations, browser control, user
interface, deployment, ETL and command-line tools have little state of their own that several
tasks share, or are input and output through and through; `ticket_pool` and
`control_client` are frozen crates.
