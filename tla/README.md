# rffmpeg: a TLA+ model of the system

rffmpeg runs ffmpeg commands on a pool of remote workers. A client parses an
ffmpeg command line, uploads its inputs and submits a job; a Go server keeps
jobs and workers in SQLite, hands jobs out, watches the workers' heartbeats and
decides what becomes of a job whose worker goes away; a worker rewrites the
command for the encoders it has, runs ffmpeg with retries and a result cache,
and reports back; the output streams to the waiting client over a WebSocket.

The modules follow a job along that path. The tables and the processes that
write them are the core; admission, streaming, uploads, execution on the worker,
its cache and the rewriting of arguments are modules of their own around it.
Each is model-checked on small instances and has a module of theorems that hold
for every instance.

## 1. Inventory

| Component | State it keeps | Operations | How it interacts |
|---|---|---|---|
| job table (`pkg/server/db/jobs.go`) | one row per job: status, `worker_id`, failure class, progress, timestamps | insert, claim, running / progress / terminal report, cancel, requeue, four failing sweeps, restart recovery | written by handlers, scheduler and monitor, serialised by SQLite |
| worker table (`db/workers.go`) | status, eviction mark, `last_heartbeat`, capabilities | register, heartbeat, idle hook, mark offline, remove, evict, restore | same |
| migration audit (`db/migrations.go`) | `migration_events`, `job_redistributions` | append in the requeue's transaction, count per reason | read back as the two retry budgets |
| scheduler (`pkg/server/scheduler`) | one goroutine, wake-up timer | match and assign, timeout sweep, stuck sweep, starvation sweep | scans a table, acts in a later statement |
| health monitor (`pkg/server/workerhealth`) | one goroutine, in-memory state table | mark offline, migrate, restore after a failed migration, remove rows, judge slow nodes | same |
| handlers (`pkg/server/handlers`) | nothing between requests | submit, cancel, job update, register, heartbeat, pull, probe, uploads | several statements per request, concurrent |
| worker process (`pkg/worker`, `cmd/worker`) | `activeJobs` with a cancel function each, result cache | register, heartbeat, poll, `processJob`, cancel, shutdown | HTTP to the server; every answer may be late or lost |
| quota (`pkg/server/ratelimit`) | counters per client | admit, register, release | terminal hook of every verdict |
| notifier and probe (`handlers/probe.go`) | subscriptions | subscribe, wait, answer | terminal hooks |
| WebSocket hub (`pkg/server/websocket`) | client sets, bounded queue and send buffers, sequence numbers in memory and in `ws_job_seq` | register, stamp, persist, broadcast, shed, close | handlers broadcast, survives a restart |
| chunked upload (`handlers/chunk_upload.go`, `db/chunk_upload.go`) | sessions, chunk files | init, chunk, complete, cancel, expire, clean up | each request several statements and file operations |
| storage and input cleaner | content-addressed files with their age | save, deduplicate, sweep | submissions refer to files by hash |
| worker execution (`worker.go`, `retry_executor.go`, `encoder_fallback.go`) | one attempt per job, staging directory | prepare, rewrite, run, judge, retry, fall back, publish, upload, report | the file system shared by all workers in direct mode |
| worker output cache (`pkg/worker/cache.go`) | data, temporary and metadata files; LRU order, size, count | check, put, invalidate, expire, evict, scan at start | jobs of one process, two eviction loops |
| encoder detection and rewriting (`pkg/encoder`, `rewrite_adapter.go`) | capabilities of the machine, tables | detect, classify, select, translate, inject | the worker, before ffmpeg |
| CLI (`cmd/cli`, `pkg/cli`) | stream position, reconnects, backup poll, upload progress | parse, upload, submit, wait | HTTP, WebSocket |

What is hard here: nothing is locked across statements, so every scan is stale
when it is acted on; a worker that was given up keeps encoding and reporting;
answers get lost after the write they answer for was committed; the server
restarts while workers do not; a migration may fail half way. Along the stream,
a bounded queue sheds, a connection breaks and the numbering restarts from what
was persisted. Two attempts of one job share a target path. Cache and store
keep facts in files and in memory that a crash separates. `PROJECT.json` lists
each of these hazards at its line with the properties aimed at it.

What makes each part correct: a row is never in a state no sweep looks at; a
verdict is given once; a requeue is counted and audited; a worker is not loaded
above its slots; one attempt is executed once; every accepted job ends; what is
delivered as a success is whole, in order, of the codec that was asked for, and
a client is never left waiting or told of a success that has a hole in it.

## 2. Modules

* **`JobLifecycle`** – what the store promises of one job: it is new, waiting,
  held by exactly one worker, or settled once and for all.
* **`JobStore`** – the tables. One action per statement or transaction, with its
  `WHERE` clause as guard and its `SET` clause as a row transform (`Claimed`,
  `Running`, `Reported`, `Failed`, `Requeued`...). Callers are unconstrained.
* **`Cluster`** – EXTENDS `JobStore`; its actions are the store's actions issued
  by the processes that really issue them, with what each process remembers
  between two statements.
* **`Admission`** – the per-client job counter, `POST /jobs` and `POST /probe`
  around it, and what follows every verdict: the quota hook, then the waiters.
  Its jobs behave as an `INSTANCE` of `JobLifecycle` allows, which is what
  `JobStore` is proved to implement: the quota must hold whichever of the eight
  writers ends a job, so it is stated over their common abstraction.
* **`Stream`** – one job's messages from the worker's stdout batcher through the
  handlers, the hub's numbering, queue and pumps, to `WSClient` and the wait of
  the command-line client with its backup poll.
* **`OutputPromise`** – what that wait promises the user: stdout only grows, chunk
  after later chunk but for one whose sender had no answer, until the one answer,
  and the answer is one that the job, what was written and what stdout refused
  allow. Data lost is answered `incomplete` whatever became of the job, as
  `integrityErr` has it. `Stream` implements it.
* **`EncoderFallback`**, **`Execution`** – which software encoder replaces a
  hardware one and with which parameters (operators); and `processJob` on two
  workers, from the first check to the terminal report, for a job that is
  dispatched up to `MaxDispatch` times. `Execution` opens up what `Cluster` has
  as the choice `Outcome`.
* **`AttemptContract`** – what `Cluster` assumes of `processJob`, as a specification
  of its own: an attempt prepares, runs ffmpeg only while the server holds the job
  open for it, ends once, with a report its stage allows or with its worker, and
  the job is settled once. A failure class follows its status, but a timeout may
  carry `WORKER_CRASH`: a stderr that speaks of exhausted memory outranks it. `Execution` implements it (a program counter is mapped
  to a stage by `StageOf`, a failure class to the server's by `ClassOf`).
* **`WorkerCache`** – the output cache of one worker process: `Put` step by step
  under its lock, both eviction loops, and the scan at start after a crash.
* **`Uploads`** – one upload session with all who touch it: concurrent chunk
  requests, two completers, cancel, expiry, cleanup goroutines; and the stored
  file with a plain upload of the same content, the input cleaner and a job
  that uses it.
* **`EncoderTables`**, **`Rewrite`** – the encoder and parameter tables; the
  path of a command line through the client's parser, which puts a placeholder
  for each input, capability detection, `BuildArgs`, which puts the inputs back by
  position and adds the output, and `RewriteArgs`, as operators over token lists.
* **`JobStoreProofs`**, **`ClusterProofs`**, **`AdmissionProofs`**,
  **`StreamProofs`**, **`ExecutionProofs`**, **`WorkerCacheProofs`**,
  **`UploadsProofs`**, **`RewriteProofs`** – theorems about the module each is
  named after.
* **`MC*`** – instances for TLC.

`Cluster` extends `JobStore`; `Admission` and `JobStore` instantiate
`JobLifecycle`, `Execution` `AttemptContract`, `Stream` `OutputPromise`;
`Execution` extends `EncoderFallback`, `Rewrite` extends `EncoderTables`. Stream,
execution, cache and uploads meet the core at one place each (a verdict, a
dispatch, an outcome, a submission), which they take as a nondeterministic step
of their environment, so that their properties hold whatever the core does.

| Variable | Code |
|---|---|
| `jobs[j]` | row of `jobs` (status `"none"`: not inserted); `worker` is `worker_id` |
| `workers[w]` | row of `workers` (`"absent"`: no row) |
| `events[j]` | rows of `migration_events` for the job: count per budget, last reason |
| `sched` | local variables of the scheduler goroutine between a scan and its act |
| `mon[w]` | the monitor's loop over the workers it has just marked offline |
| `pulling`, `admitted`, `idleHook` | requests between two of their statements: a pull past its checks, a submission past its checks, a terminal report before `SetWorkerIdleIfNoActiveJobs` |
| `proc`, `exec`, `doomed`, `hbReply` | worker processes: alive, stage of each `processJob` (`prep` until ffmpeg starts, `run`, `sent` once the output is uploaded, `abort` after a refused running report or a lost upload), cancelled contexts, heartbeat answers in flight |
| `life[j]`, `notice[j]` | a job's lifecycle in `Admission`; what its writer has still to do in `NotifyTerminal` |
| `counts`, `jobClient`, `config` | `InMemoryCounter` and `RuntimeConfig` |
| `req[r]` | a request: how far it is, whether the middleware charged it, the limit it read, its job, and the one-place wake-up channel of its subscription |
| `owner[j]` | who submitted a job: history, for the properties only |
| `Stream`: `hnd` | handlers at work: the attempt's own reports (`out`), everybody else's (`side`), and stdout reports whose sender no longer waits (`Strays`) |
| `Stream`: `counter`, `row`, `queue`, `sconn`, `buf`, `net` | `Hub.seq`, `ws_job_seq.last_seq`, `Hub.broadcast`, the client's connection as the hub sees it, `Client.send`, the wire |
| `Stream`: `cl`, `main`, `poll` | `WSClient`, the goroutine of `WaitForJob...`, the goroutine of `backupPoll` |
| `Stream`: `hist` | history, for the properties only: what was stamped, which of it was the final status, whether a server stopped, the chunks whose sender was not told of their fate |
| `Execution`: `x[w]` | locals of `processJob` and `RetryExecutor` on a worker: program counter, attempt, encoder, context, last error and whether its stderr speaks of exhausted memory (`oom`), report |
| `Execution`: `file`, `staged`, `target`, `segments`, `cache`, `delivered` | what is on disk and at the server, as kinds of content (`partial`, `whole`, `mixed`, `user`...) |
| `WorkerCache`: `file`, `tmp`, `meta`; `lru`, `older`, `total`, `count` | the three files of an entry; the sizes and the `LastUsed` order of `lruTracker` (`older` holds the pairs of entries in that order), and `CacheStats` |
| `Uploads`: `sess`, `chunk`, `up`, `comp`, `clean`, `expirer`, `cli` | `upload_sessions`, chunk files, one record per request or goroutine |
| `Uploads`: `blob`, `sweep`, `job` | the stored file with the age of its mtime, `InputFileCleaner`, a job that names it |
| `Rewrite`: `caps`, `typed`, `job`, `outcome` | the adapter's capabilities (available, hardware, priority, blacklist, devices, and the order of the detected list), the command line, the job submitted for it, the result of `RewriteArgs` |

Action names are those of the functions they model. `PROJECT.json` "map" gives
the lines of each definition.

### Abstractions

* Clocks: a timestamp is `recent`, or `expired` once older than the cutoff of
  the sweep that reads it; `hb` likewise. A clock may run out whenever it is
  running, in any order.
* Columns no decision depends on are left out: `claimed_at`, `assigned_worker`,
  `worker_name`, `cached`, `output_files` (of its UPDATE the model keeps
  `updated_at`), exit code, error text and details.
  `"none"` is the empty failure class; `FFMPEG_ERROR` stands for every other
  class only a worker reports and that is not retryable.
* `Failed` clears `started` also for the starvation UPDATE, which does not name
  that column: it is NULL on every pending row (`StartedIsThisAttempt`).
* Statements merged into one action: `UpdateJob`'s ownership read with the
  guarded UPDATE that repeats it; the queries of one starvation scan;
  `CreateOrUpdateWorker`'s UPDATE and insert transaction; a pull's claim and the
  delivery of its answer (losing the answer is a fault). `Pending(j)` in
  `SelectWorker` stands for the batch `GetPendingJobs` read.
* `MaxConcurrent[w]` is the effective value, after the fallback for `<= 0`.
* Encoder matching is the constant `Tiers`: for each job the workers with the
  requested encoder, then those with each compatible one in priority order.
* Slow-node detection is a nondeterministic `MonitorEvict` / `ClearEviction`; it
  counts as a fault so that it stays bounded.
* A worker keeps its id across restarts, and a restarted process does not
  overtake the pull of its predecessor. The status a heartbeat reports is
  ignored by the server, and so here. Heartbeat answers in flight to one worker
  are a set of job ids.
* Admission: the middleware's `IsEnabled` and `GetLimit` are one read, `PATCH`
  sets both values at once; a client is always named by its token. Every
  refusal before the insert is one action. `CreateFailedJob`'s notification is
  part of `RejectEncoder`, where it finds neither mapping nor waiter. A probe's
  own `CancelJob` leaves its notification to the same two actions as any other
  writer's. Cancelling the context counts as leaving while blocked only.
* `processJob` before, during and after ffmpeg is a choice of how it ends
  (`Outcome`), which may never be made: ffmpeg may hang.
* Stream: a chunk is an attempt number and an index; one job, and of its
  connections the newest (an older one is closed before it is replaced).
  `UpdateJob` checks who owns the job before it broadcasts and not again, so a
  migration, the sender's timeout or a lost answer leaves the report it finds at
  work as a stray, which goes on while the batcher or the next attempt sends its
  next chunk. How many may be under way at once is the constant `Strays`. Of
  a chunk stdout took in part the error counts, not the bytes: the error is what
  the wait answers.
* Execution: a file is what became of its content, not its bytes; a stderr line
  is the error class it matches; the cache is one entry. A stderr on exhausted
  memory is a fault of its own (`oom`), at any end of ffmpeg whose stderr is read
  further (`Telling`). The classes only its text tells apart, a full disk and an
  unreachable input, are counted as `FFMPEG_ERROR`, those of a failed download as
  `INFRA`. Pipes, process groups and progress parsing are left out.
* Cache: a sum of sizes is the number of byte cells of its entries (`Bytes`);
  ages count ticks up to a horizon past every limit; hit and miss counters are
  left out. A job reads its cached copy after
  the lock is released, as in the code.
* Uploads: content is `good`, `changed` or `torn`; a chunk's row and file are
  one fact; every session declares a checksum. Deletions may fail half way: a
  finished session gets one attempt, the sweep of expired ones comes back. Time passes neither during a
  sweep nor between a submission's two steps.
* Rewrite: a token is a flag, an inline option, a word, `-` or `--`, with names
  from the tables; generated tables (muxers, boolean flags) are sampled. Options
  the code collects in a Go map are appended in a fixed order. A file the worker
  fetches or writes has the name of the file it stands for, so that the files
  ffmpeg gets can be compared with those the user meant (`Meant`): the job's
  inputs, each where its placeholder stands. A placeholder no input is left for
  stays, in the model as in the code.

## 3. Runs

Bounds: `MaxFaults`, `MaxRestarts` count faults and server restarts,
`MaxProgress` the progress values, `Faults` and `Expiring` select which faults
and clocks take part. A worker has one slot, the code's default.

| Run | Instance | Question |
|---|---|---|
| `store` | 1 job, 2 worker ids under one name, budgets 2 and 1, progress 0..2 | do the row invariants, the finality of verdicts, monotonic progress, the audit of requeues and the lifecycle survive any interleaving of statements? |
| `capacity` | 3 jobs, 1 worker, no faults | how far can scheduler and pull overcommit a worker? (by one job) |
| `failover` | 1 job, 2 workers of which one lacks the encoder, 1 fault of any kind but a database error, 1 restart | is a second executor always accounted for by a recorded requeue or a restart? |
| `liveness` | 1 job, 1 worker, 1 crash, late or lost answer or eviction, 1 restart, all clocks | does every accepted job end, does a live worker get its row back? |
| `failed_migration` | 1 job, 1 worker, up to 3 shutdowns or database errors, all clocks | does a job end although its migration and the restore after it fail? |
| `admission` | 2 jobs, 2 requests, limits 1 and 2 changed at run time, 1 restart or failing read | is the counter exact, does the limit hold, is no wake-up lost between a probe's read and its wait, and is a probe whose job is settled answered without its budget? |
| `stream` | 2 chunks, queue and send buffer of 1, 1 reconnect, 1 stray report, 1 fault of any kind | does a client print in order, is a hole reported, is a reported gap real, does the wait end, and does it keep `OutputPromise`? |
| `execution` | 2 workers, every kind of job in `MCJobs`, 3 retries, 2 dispatches, 1 fault | is what is delivered whole and of the right codec, a direct target never a fragment, the reported cause one that was met, does an attempt end, do its retries run out whatever happens meanwhile, and is `AttemptContract` kept? |
| `cache` | 2 keys, one of a URL, 2 jobs, sizes 1 and 3 against a cap of 2, 1 crash or failing call | is a hit a whole output within its lifetime, do the books match the directory, is the cap restored? |
| `uploads` | 2 chunks, 2 senders, 2 completers, 2 tries, 1 fault | is a completed upload the client's file, is a job's input kept, does every session settle? |
| `rewrite` | every machine, command and API request listed in `MCRewrite` | are files (the inputs by position) and quality parameters kept, is the selected encoder one the worker has, of the codec asked for and not blacklisted (`TargetFits`), and does it take effect where it is placed (`TargetRuns`)? |

Why these are enough: rows interact only through the count of a worker's active
jobs and the order of claims, which `capacity` covers with one job more than it
takes to overcommit; every other property is about one row, and the proofs lift
the store's to any number of jobs and workers. Two worker ids are the fewest for
reassignment, double execution and same-name registration. Budgets of 1 and 2
let a job be requeued both ways and then exhausted. A database error can only
hurt after a worker was lost, so it needs at least two faults and has a run of
its own. `failover` stops at settled states (`Unsettled`), after which nothing
starts a job. Symmetry is used in `capacity` only, where nothing tells jobs or
workers apart and no temporal property is checked.

Clients share nothing but the configuration, so one is enough for the quota. Two
requests are the fewest that race for the last slot, and two jobs the fewest
that exceed a limit of one. `admission` uses a `VIEW` without the verdict and
the holder of a job, on which no guard and no property of `Admission` depends.

Buffers of one are full after one message, so shedding happens with two chunks;
two chunks are the fewest with an order and a hole. Two workers and two
dispatches are the fewest with an overlap of attempts; three retries are the
code's default, and reach its last software attempt. In the cache one size fits and
one alone exceeds the cap, two keys give LRU an order, and two jobs contend for
the lock. Two senders send the same chunk at once, and two completers race to
assemble. One fault suffices to separate any two adjacent steps. `rewrite` is
exhaustive over its lists, which pair each family, codec and quality option with
machines of each vendor, none, a blacklist and manual entries. The API requests
have their inputs by placeholder and by name, one input for two places, and the
output left out, last, behind `--` or in front of boolean flags.

The largest runs, in distinct states: `uploads` 1.5, `failover` 1.2, `stream` 1.1,
`execution` 0.9, `capacity` 0.7 and `store` 0.4 million.

Some properties are stated short of the difference they would run into, so that
they still check everything else:

* `execution` has no `unheard` fault (a dispatch while an attempt the server has
  given up on is still at work), because then the shared staging directory breaks
  `TargetIntact` (`VStaging`);
* `InputKept` excepts a file its own completion withdrew (`VWithdrawn`);
* `DeliveredInOrder` excepts a chunk whose sender had no answer: its report may be
  broadcast behind its successors, or those of the next attempt, and it is
  printed where it comes. `HolesAreReported` does not ask where such a chunk is in
  an attempt that was given up. In the attempt that completed the job it does,
  because a chunk without an answer makes the final report a failure
  (`FlushAndWait`);
* `GapsAreReal` excepts a client whose first message came when the final status
  was out: the completion forgets the counter, and a report still under way
  starts a new numbering behind it;
* `TargetRuns` and `ParamsKept` except `--` and a boolean flag behind the output
  (`-i in.mkv out.mp4 -y`), which only API arguments can have: what the rewrite
  inserts then stands behind the file. The encoder of the second kind is only
  excepted when the arguments name none.

Deadlock checking is off in `execution` and `uploads` only, where a job or an
upload ends and nothing is left to do. Elsewhere time, heartbeats, registrations
or the next command always leave something.

### Fairness

`FairSpec` assumes what timers and loops guarantee. The scheduler's loop serves
several tickers, so a scan that keeps being due is eventually chosen, also if
other work comes in between (strong fairness on the scans and on
`CheckWorkers`); what it has begun it finishes (weak fairness); clocks advance;
a live worker keeps polling and re-registering; a stopping process exits. Nothing
is assumed of ffmpeg, of any report, of heartbeats arriving, of `SelectWorker`
or of a dead worker ever starting again. `MaxProgress` is 0 in the liveness
runs: see the hazard at `db/jobs.go:236` – an attempt that was given up and
never stops reporting progress refreshes `updated_at` of the row requeued to the
same worker, and the stuck sweep never fires.

`Admission`'s `FairSpec` assumes that a goroutine that can run does: the steps of
a probe that is not blocked (`Subscribe`, `CheckProbe`, `Block`, `Woken`) and of a writer
that has given a verdict (`TerminalHook`, `Notify`). Neither the probe's
two-minute budget nor the client's patience is assumed to end, so that it is the
notification that answers.

`Stream` assumes that running goroutines proceed (handlers, hub, pumps, client,
backup poll, the wait) and that a stopped server is started again; nothing of the
network or of the job. `Execution` assumes weak fairness of a worker's next step:
each has its own time limit (HTTP client, ffprobe, the executor's timeouts).
`WorkerCache` assumes that a `Put` under its lock goes on, that time passes, and
strong fairness of the two eviction loops, whose tickers compete with jobs for
the lock. `Uploads` assumes that requests and goroutines already begun proceed,
and that the expiry ticker comes round; nobody has to send, complete or cancel.

### Where the code and its documentation differ

`user_output` is a run in which TLC exhibits a difference: with a direct target
and no `-y`, a job that is dispatched again deletes the file the user had there
(`worker.go:930`), although the comment at `worker.go:959` says it "is the user's
data and must not be replaced".

Others can be reproduced with the configurations named (`tlc -config V... MC...`),
each of which ends with a counterexample to the one property it checks:

| Configuration, module | Said | Done |
|---|---|---|
| `VSlots`, `MCCluster` | README: no execution above `max_concurrent` | a pull between the scheduler's count and its assignment yields one job too many |
| `VShutdown`, `MCCluster` | README: a graceful exit cannot report `cancelled` | the cancelled job contexts do report it if the process lives long enough |
| `VCancelList`, `MCCluster` | comment: heartbeat answers name terminal jobs too | jobs the server failed, or that are completed, are not named |
| `VEncoder`, `MCCluster` | comment: a job nobody can encode stays pending | a pull claims it whatever it requests (`db/jobs.go:470`) |
| `VSlotLeak`, `MCAdmission` | comment: a job that finishes on any path frees its slot | one that finishes before `RegisterJob` never does |
| `VTail`, `MCStream` | comment `cli/client/wait.go:385`: the terminal message also means "stdout fully delivered" | if the first message after a reconnect is the terminal status, the check for a gap is skipped, and the chunks the broken connection lost go unnoticed (`wsclient.go:586`) |
| `VStaging`, `MCExecution` | comment `worker.go:2088`: "job-private directory" | it is keyed by the job ID alone, so two attempts on workers that share the file system write the same file |
| `VWithdrawn`, `MCUploads` | comment `chunk_upload.go:754`: drop the blob only when this request created it | a completion whose `CreateFile` fails drops the blob it published, which another upload may have been answered with since |
| `VFamily`, `MCRewrite` | comment `rewrite/types.go:180`: the best hardware encoder "for a codec" | `--auto-hw -c:v libxvid` becomes `mjpeg_qsv` on a QSV worker |
| `VTrailing`, `MCRewrite` | comment `rewrite/engine.go:769`: `findOutputFilePos` returns "the last positional (no leading '-') argument" | it skips only flags with a value, so that for API arguments `-i in.mkv out.mp4 -y` it returns `-y`, and the encoder is inserted behind the file (`engine.go:785`) |
| `VKey`, `MCRewrite` | comment of `ResolveTargetEncoder`: the key names the encoder the rewrite will use | it is computed before the output is appended, which decides the codec |

More behaviours of the code are in the model with no property against them:

* core: a starvation sweep may fail a job although a worker has registered
  since its check; a timeout sweep may requeue an attempt begun after its scan;
  a job whose worker is still downloading may be failed as stuck; a cancelled
  job's own report is refused before the idle hook (`handlers/jobs.go:412`); a
  submission rejected for its encoder that came in while limiting was off lowers
  the count of its client's other jobs;
* stream: the first message's number is adopted unchecked; a crash between
  stamping and persisting lets the numbering go back, so `HolesAreReported` is
  stated for a server that did not stop; a migrated attempt sends all its chunks
  again; a client that was shed sees a normal closure; a chunk in flight when its
  job migrates is printed in the middle of the next attempt's;
* execution: a cancel during the retries is reported as failed; a budget that
  expires before ffmpeg starts is an `FFMPEG_ERROR` on the first attempt; a
  stderr match fails a retry even if ffmpeg exits with 0, but not the first run;
  a job reported as `timeout` may carry `WORKER_CRASH` when its stderr mentions
  memory;
  the pixel-format fallback computes a new cache key, which never hits;
* cache: a crash between the rename of the data file and its metadata leaves a
  file that is neither counted nor evicted, and a failing metadata write over an
  existing entry leaves one that is counted for ever (`BookedExactly` is
  stated without these, through `torn`);
* uploads: a cancel that races a completion turns `completed` into `cancelled`;
  a late `SaveChunk`, a failing deletion, or a crash before the cleanup goroutine
  leaves the chunk directory behind; a torn retry deletes a chunk that was acknowledged; a
  completion that deduplicates does not refresh the file's mtime;
* rewrite: `--` before the output, or a boolean flag behind it, misplaces the
  options inserted; a placeholder without an input is handed to ffmpeg as it is; a generic
  `-codec` is ignored when unknown to the worker; `-crf` drops `-crf:v`; a
  `constqp` is added beside `-b:v`; manual encoders bypass the blacklist and
  count as software; parameters without a counterpart stay in the arguments.

## 4. Proofs

`JobStoreProofs` proves, for every set of jobs and workers, every name and slot
assignment and every budget (`NullAssumption`, `SlotsAssumption`,
`BudgetAssumption` are the only assumptions), the type invariant and each property
of the `store` run: `TypeCorrect`, `NoOrphans`, `StartedFresh`, `VerdictsAgree`, `BudgetsKept`,
`VerdictsFinal`, `ProgressNeverRewinds`, `RequeuesAudited` and
`StoreImplementsLifecycle`.

The properties are not inductive one by one: that a requeue leaves no failure
class needs that live rows carry none, that a claim leaves `started_at` NULL
needs that pending rows have none, that COALESCE keeps nothing stale needs both.
`StoreInv` is their conjunction row by row (`RowOK`, which adds that a row not
inserted yet is blank, and `EventOK`), and `Invariance` shows it inductive. The
argument is about rows: one lemma per row transform shows that it takes a good
row to a good row, does not lower progress, and is a legal step of the
lifecycle (`GoodStep`); `JobStep`, `WorkerStep`, `SweepStep` and `EveryStep`
lift that to the actions; the theorems follow from `EveryStep`.

`ClusterProofs` adds the processes, for any number of jobs and workers and any
encoder tiers (`ClusterAssumption`; `FiniteAssumption`, that the set of jobs is
finite, is needed to count them).

* `MemoryWellFormed` and `ClusterImplementsStore`: a process acts on what it
  remembers, so that its step is a step of the store needs that it remembers
  real jobs and workers (`ShapeOK`), and that this is invariant needs that the
  rows it read were well typed. `StepOK` proves both together, action by action;
  `ClusterSpec => Spec` follows, and with it every theorem of the store holds
  of the cluster (`ClusterLifecycle` states the two that matter most).
* `ClusterTypeCorrect`: the full type invariant.
* `OvercommitBounded`: `OvercommitAtMostOne` is not inductive, since it does not
  say what the scheduler may still do. `RoomInv` adds that the worker of an
  assignment in flight has at most its slots' jobs: it had a free one when it
  was chosen, a pull fills only free slots, and nobody else assigns. `HandOvers`
  shows that only `AssignJob` and a pull raise a worker's count, by one.
* `ExecutorsAreAccountedFor`: a worker only begins a job it owns, so whoever else
  executes it has lost it. `ExecutorsInv` counts them against the audited
  requeues and restarts (`Losses`): all executors are at most one more, those of
  a pending job, and those of an active job other than its owner, at most as
  many. Every step is a `Statement` of the store or a restart (`Recovered`),
  and a statement that takes a job from its owner adds an event
  (`CountedRequeue`). The set of workers need not be finite, only the executors
  of one job.

`AdmissionProofs` is for any sets of clients, jobs and requests, the last two
finite (`FiniteAssumption`), and any positive limits (`LimitsAssumption`,
`EnabledAssumption`, `NullAssumption`, `MaxFaultsAssumption`).

* `AdmissionTypeCorrect` and `NoOvercharge`. `NeverOvercharged` compares a count
  with two cardinalities, and needs that a mapping is not overwritten, that is,
  that a request about to register its job is the only one to have it and the
  job is not mapped yet (`Refs`). The lemma `EveryMove` gives each action's effect
  on a client's count and slots together (`Move`): both stay, grow by
  one or shrink by one, both are reset, or a request that was never charged
  (`FreeRide`) lowers the count or adds a mapping; `Inv` follows by arithmetic.
* `LedgerIsExact` and `LimitIsKept`, if limiting is on and nobody may switch it
  off (`AlwaysOn`). `OnInv` adds that every request past the middleware is
  charged (`AllCharged`), so `FreeRide` is out, that the
  count is at most some limit, and that every live job is mapped or carried by
  the request that inserted it (`Covered`, with `HookMeansSettled`). Then the
  live jobs and open probes of a client are no more than its slots, by
  cardinality (`LiveWithinSlots`), the slots are the count, and the
  count is within a limit.
* `WakeupsAreKept`: a probe past its check of the job and a settled job never meet
  without a wake-up in the channel or a notification still to come. This needs only
  the types and `Refs` besides itself: a verdict is given together with its pending
  notification, which reaches every subscriber, and the probe subscribed before it
  read. It is the safety half of `ProbeAnswered`.

`StreamProofs` is for every number of chunks, retries, events and stray reports and
every capacity of the hub's queue and the send buffer (`BoundsAssumption`,
`CapAssumption`, `StraysAssumption`).

* `StreamTypeCorrect`: the capacities are kept and all state is in its types
  (`Shape`).
* `ChunksArriveInOrder`: messages carry the ordinal of their broadcast, and these
  rise along the wire, the send buffer and the queue, above all that was heard
  (`LineInv`). That is not enough, since broadcasts need not come in the order of
  the chunks: a migrated attempt sends its own again, and a stray report is
  numbered whenever it gets there. `StreamInv` says that there is a record of the
  stream (`Tale`): which chunk each broadcast carried. The record goes forward but
  for chunks whose sender had no answer and never repeats one (`Forward`), because
  a chunk is in the hands of one handler at most and behind none of those recorded
  (`Duties`, `Behind`); every message on its way is where the record puts it
  (`OnLine`), and so is every chunk printed (`Written`).
* `SuccessHasNoHoles`: a chunk its sender is sure of comes behind all earlier ones
  of its attempt it is sure of (`Backed`, and `Complete` for the one on its way).
  As long as no server process died and the server has not given the job up,
  numbers and ordinals agree up to the final report (`Numbering`, `Numbered`), only
  chunks without an answer are recorded behind it (`Settled`), and a client without
  a gap has heard everything in between (`Following`). A chunk of the completed
  attempt had its answer (`Accounts`). `ResultInv` relates the verdict of the wait
  to job, gap flag and write error.
* `StreamKeepsPromise`: `Stream` implements `OutputPromise` with `cl.got` as what was
  written, `cl.stdoutErr` as what was refused, `main.result` as the answer,
  `hist.unanswered` and `hist.stopped`. `PromiseStep` goes through the actions: a
  handled chunk is a `Write` (in order by `StreamInv'`) or a `Refuse`, a return of the
  wait an `Answer` for a result that was `Earned`, which by the record is `Due`; a
  report or verdict is a `Settle`, a stop a `Lose`, a lost answer or a migration a
  `GoUnanswered`; all else changes none of it. Beyond the invariants this says that
  nothing is written after the answer, that there is one answer, and which job and
  output each answer needs: `Objections` lists what `integrityErr` may hold against
  the output, whatever became of the job.
* `GapsAreNotInvented`: restarts, saved numbers and lazily loaded ones make the
  numbers differ from the ordinals, so that the argument needs another record,
  `Ledger`: the number each broadcast got. Up to the final status a number exceeds
  its predecessor's by at most one (`Steady`), since what the next is made of never
  runs ahead of the last (`Source`), and numbers rise on one connection (`Rises`);
  only the final report ends the stream, and once (`Agenda`); the client is never
  behind the last number it heard (`Heeds`). A jump then means an ordinal in between
  that was never heard (`Missed`). Behind the status the counter starts over with
  the reports still under way, so that a client that was there before has missed
  the status if it minds their numbers, and one that came later (`Late`) is the
  exception of the property.

`ExecutionProofs` is for any set of workers and job kinds and every number of
retries and dispatches (`ExecutionAssumption`).

* `ExecutionTypeCorrect`, `DeliveriesAreWhole`, `RetriesKeepCodec` and
  `ReportsAreHonest` follow from `ExecInv`, which says of each attempt where it
  can be (`Places`), that its encoder is of the family asked for from the rewrite
  on and still has a software counterpart for the next stage (`KeepsCodec`), what
  its own output file holds at each step (`OwnFile`: the retry clears the
  fragment before it may be taken for an output), and that the grounds of its
  report were met (`Grounded`; `ClassOfRun` has the classes a run may be given, with
  exhausted memory above a timeout). `OneWorker` reduces a step to the attempt that takes it.
* `RetriesAreBounded`: `Rank` counts the steps an attempt may still take: how far it
  is in one run, plus five for each run it may still start. `StepAdvances` shows
  that each of its steps lowers it and that no step of others touches it. For this
  `Places` also bounds the attempt number in the retry loop. It is the safety half
  of `AttemptEnds`, which adds fairness.
* `ExecutionImplementsContract`: by `AdvanceMaps` a step of an attempt goes on within
  its stage, enters `run` from the accepted running report, or ends with a report
  that `MayEnd` allows; `ServerMaps` has the steps of client and server, `FreshEffect`
  the dispatch, `FlagEffect` the cancelled context. Where an
  attempt can be (`Places`) decides which reports it can still make.
* `TargetStaysIntact` assumes `"unheard" \notin Faults`: no attempt works on after
  the server has given it up. Without that the theorem is false (`VStaging`).
  `DirectInv` then has that one attempt is under way (`Alone`), that the staging
  path is clear or its own (`Staging`), and that the target is the old file, none,
  or a finished one with its siblings (`Published`).

`WorkerCacheProofs` is for any finite set of keys, any sizes, limits and number
of jobs (`SizesAssumption`, `AgesAssumption`, `KeysAssumption`).

* `CacheTypeCorrect`, `CachedOutputsAreWhole` and `BooksAgreeWithDisk` follow from
  `CacheInv`: only whole outputs reach a data file (`Whole`); data file and
  metadata come together, but for the key whose rename is ahead of its metadata
  (`Paired`, `Ahead`); entries are the data files and the totals their sums, but
  for the temporary file a `Put` owns (`Counted`, `Owned`). `BookedExactly` speaks
  of a free lock and a live process only; `Counted` says what the books are in
  the middle of a `Put`, and `Paired` what is on disk after a crash, from which
  `scanExisting` restores them. The lemmas on `Bytes`
  give the arithmetic of the sums through cardinalities.

`UploadsProofs` is for any number of chunks, senders and completers
(`ClientAssumption`, `CountsAssumption`; a positive `TTL` because without one the
input cleaner is off, `input_cleaner.go:16`).

* `UploadsTypeCorrect` and `OnlyVerifiedFiles`: what a completer carries past the
  comparison of checksums is the client's content (`Verified`).
* `InputsSurviveTheSweep`: `InputKept` does not say why a sweep that listed the
  files in use before the job's row existed spares its input. `Guarded` does: the
  submission touches the blob first, so that it is young for as long as such a
  sweep may be under way.

`RewriteProofs` is for any machines, command lines and API requests
(`MachinesAssumption`: what a machine lists are sequences of names).

* `RewriteTypeCorrect`: whatever is put in place of the placeholders, a rewrite fails only for an encoder nobody knows.
* `TargetsFit`: `RewriteInv` has that an outcome is that of the job being served
  (`Served`), and the lemmas follow the selection: capabilities are well formed
  (`Sane`) and, without a manual list, free of blacklisted encoders; the first entry
  of a priority list that qualifies exists and qualifies, by the least-number
  principle (`LeastNumber`, `FirstOf`). Encoders of no known family count as one
  family.

`ClusterTypeOK`, `NeverOvercharged` and every `TypeOK` but that of `Rewrite` are
proved and no longer checked by a run: the proofs cover every instance.

Only model-checked:

* `FilesKept`, `TargetRuns` and `ParamsKept` of `Rewrite`. They are about what
  walks along an argument list of any length compute, which takes induction
  over the list; the prover's induction theorems cannot be instantiated here.
* Liveness, which the prover does not cover: `EverySubmittedJobSettles`,
  `LiveWorkerReturns`, `ProbeAnswered`, `WaitReturns`, `AttemptEnds`,
  `BudgetRestored` and `SessionsSettle`. Of `ProbeAnswered` and `AttemptEnds` the
  parts that need no fairness are proved (`WakeupsAreKept`, `RetriesAreBounded`).

## 5. Not modelled

* Slow-node statistics (EWMA, median): arithmetic on floats behind one verdict,
  which `Cluster` takes as a nondeterministic eviction.
* The scheduler's wake-up timer: it only makes a sweep happen sooner.
* Parsing of ffmpeg's progress lines and of error texts: text handling; the
  models have the value or the error class they yield.
* Downloads, `UploadFileFromReader`, path validation, audit, authentication,
  TLS, configuration, access log, GPU metrics: input and output around the core.
* Functions without a production caller (`RescheduleJob`, the cache's `Clear`,
  `ConvertParameter`, `TranslateChain`, `ValidateParameters`,
  `NormalizeParameters`, `ShouldRewrite`, `RewriteSync`).

`PROJECT.json` "components" has the details.

## 6. Plan

Done: all modules of section 2 with their runs, and the proofs of every safety
property and every refinement but the three properties of `Rewrite` named above.
Left:

1. the matching of a requested encoder to workers, as operators that give
   `Cluster`'s `Tiers`;
2. the worker state table, whose memory and row may disagree on an eviction
   after a failed write or a restart; the starvation wake-up.
