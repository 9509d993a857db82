# Verification of logateway

TLA+ models of the logateway message path, the TLC configurations that check
them on small instances, and proofs checked by TLAPS. Paths such as
`wal.go:421` are relative to `src/internal/<package>/`.

## The system

An HTTP upload is authenticated, rate-limited, resolved to a project and
answered with 200 once a task for it is queued in a goroutine pool. The task
runs the project's pipeline and submits a copy of the message to the worker
pool of every sink of the project. A worker pool delivers with retries and a
circuit breaker; what it cannot take or deliver is, with
`backpressure: fallback`, appended to a write-ahead log. A background goroutine
replays sealed log segments through the dispatcher and deletes them.

| Part | State it keeps | Operations | What is hard about it | Model |
|---|---|---|---|---|
| Write-ahead log (`wal/wal.go`) | segment files, active handle, `bufio` buffer with its sticky error, sequence | `Write`, `rotate`, `syncLoop`, `Close`, `NewWriter`, replay loop | crash between any two steps, torn lines, failing system calls, replay concurrent with the writer | `WAL` |
| Sink worker pool (`sink/worker.go`) | channel, `closed`, circuit, `failCount`, `recoveryOnce`, `recoveryStop`, owned messages | `Submit`, `SubmitStrict`, workers, probe, `Shutdown` | check-then-send, drain on shutdown, circuit against probe, message ownership | `WorkerPool`, abstractly `Delivery` |
| Dispatcher (`project/dispatcher.go`) | pools of each project | `Dispatch`, `DispatchStrict`, `ReplayBackoff`, `Shutdown` | one of several sinks refuses; replay stops half way; who releases the message | `Gateway`, `Upload` |
| Upload server (`server/server.go`) | goroutine pool, replay callback, shutdown sequence | `UploadHandler`, `Run`, `Close` | tasks outlive the HTTP server | `Gateway`, `Upload`, `Ops` |
| Message pool (`message/message.go`) | `sync.Pool`s | `AcquireMessage`, `ReleaseMessage` | double release, use after release | `Upload`, and `WorkerPool` for the pool's messages |
| Pipeline (`pipeline/`) | processors of each project | `Process`, factories | order of processors, data that is no object | `Pipeline`; in `Gateway` as a count |
| Configuration (`config/config.go`) | current config, callbacks, watcher | `load`, `Watch`, `Reload` | two reloads at once; requests that meet a reload | `Reload` |
| Rate limiter (`ratelimit/ratelimit.go`) | limiter per project, global limiter | `GetOrCreateLimiter`, `updateGlobalLimiter` | stale rate set last | `Reload` |
| Authentication (`auth/auth.go`) | nonce cache | `Handler`, `consumeNonce` | expiry and bound of the cache, clock read before the lock | `Auth` |
| HTTP middleware (`server/middleware.go`) | none shared | body cache, project resolution | each reads the configuration anew | `Auth`, `Upload` |
| Health (`observability/`) | cached status | `Run`, `checkAll`, `runProbe` | hanging probe, late answer, stop against tick | `Health` |
| Logging (`logging/`) | a file per level and day | `Write`, `rotate`, `Close` | rotation that fails, sticky errors | `DailyLog` |
| Metrics, sink clients, `examples/` | library state | | | not modelled |

`PROJECT.json` lists the hazards at the lines where they bite.

## Modules

**`WAL`** has one variable per field of `Writer` that matters, the directory
with the complete lines of each file (`dir`, `lines`), the files that end in an
incomplete line (`torn`), the lines not yet fsynced (`dirty`), the state of the
replay goroutine, and history variables: `pending` and `durable` (what `Write`
acknowledged, before and after an fsync), `accepted` (what the replay callback
accepted) and `exposed` (active segments that a replay cycle has listed).
Entries are numbered in the order of the `Write` calls, so a file is a set.
`Write` is two steps, `Rotate` or `RotateFails` and then `AppendEntry` or
`AppendFails`, with the lock held in between (`rotated`), because the replay
goroutine reads the directory without the lock. `SyncTick`, `Close`, `Crash`
and `Restart` are one step each. Replay is split at every point where the
writer can run: reading the active name, listing, each entry, end of file,
removal. `Modes` lists the pairs of `SyncInterval = 0` or not and the set of
system calls that may fail; one of them is chosen at the start. A failed flush leaves
a prefix of the lines, possibly with part of the next one, and `bufErr` set.

**`WorkerPool`** models any number of workers and submitters, and a pool with
any of the three backpressure policies. A step ends where
another goroutine can intervene: `SubmitCheck` (flags read under the lock) and
then the send; receive, reading of the circuit, send, wait before a retry; the
probe's tick, `HealthCheck`, reset of the circuit and its deferred reset of
`recoveryOnce`; the four steps of `Shutdown`. The sink goes down and comes back;
a `Send` fails while it is down or when its context is cancelled. `released`
counts how often a message went back to the message pool.

**`Delivery`** is what a sink pool promises per message: taken or refused, then
delivered, logged or dropped, once. `WorkerPool` instantiates it under the
mapping `Status`. A submitter that panics on the closed channel abandons its
message.

**`Gateway`** composes the parts: uploads and their tasks, the dispatch loop
over the pools, pools that deliver or reject, the log, the replay callback and
the shutdown sequence of `Run`. Pools and log appear by what they promise: a
pool is a bounded queue with a circuit, the log a queue whose head leaves once
it is accepted, or is replayed again. `passes` counts how often the pipeline has
run on the message of a task, and `stage` is that count in a copy: it goes into
the queues, the log and back with the data. `dispatchImpl` runs the pipeline
unless `skipPipeline` is set, and only when the current configuration has
pipelines for the project (`pipelined`, which a reload changes). `serving` says
that HTTP handlers may run: `server.Shutdown` may return before they have ended.
The gateway is configured with the fallback policy and a WAL; the other policies
and WAL errors are modelled in `WorkerPool`.

**`Reload`** has the configuration file as a numbered version, `load` in three
steps (read and parse, store, call back) for the watcher and for admin requests,
`watchLoop` with its event, timer and timer channel, the construction of the
rate limiter (read the configuration, register the callback), and uploads that
read the project's rate and then set the project's limiter to it. `overlapped`
records that two loads, or a load and that construction, ran at the same time:
nothing orders their steps, and the limiter may then keep the rate of a
configuration that is no longer current. The next load that runs `alone`, from
its call to its callbacks, ends that. `LoadFails` is a `load` that cannot read
or parse the file; `unread` records that the watcher's own reload failed with no
event pending, so that nothing makes it try again before the next edit.

**`Auth`** is the first part of a request, up to and with `consumeNonce`: any
number of requests at once, each with the configuration it has read, and a clock
that goes on between any two steps. The clock is finer than a second (`Second`):
`Handler` compares the time stamp with whole Unix seconds, while the cache keeps
and compares full times. The difference and `abs` are those of 64-bit integers
(`Wrap`, with `HalfWord` for 2^63). What is checked of the headers is one
`fault` per request (the first check that fails whatever the time is) and the
time stamp. `seen`, `accepted` and `evicted` are history.

**`Pipeline`** has the three processors, their factories and the chain as
operators on data: nothing, null, an object or something else. An object is a
function from field names to values. Decoding and encoding a value again may
change it (`Reencode`: a large number passes through `float64`), a value of
the YAML file may be one that `json.Marshal` refuses, and a number outside
`float64` makes `json.Unmarshal` refuse the whole object (`Undecodable`): filter
and redact then pass it as it is, and add starts from an empty one. `Expected` is the reference
definition of a chain: it tells each field from the last processor that decides
about it and the last mask after that one, without running the chain.

**`Upload`** continues `Auth`: project resolution, the project's rate limit,
`UploadHandler`, the task, `Dispatch` with one step per processor and per sink
pool. Message objects are identified, `pooled` counts how often each is in
`messagePool`, and `lost` holds those that nobody releases: a processor that
fails returns nil, and `ReleaseMessage(nil)` does nothing, although the comment
at `project/dispatcher.go:195` says that the message is always released. Every
step reads the current configuration, as the code does; `since` records the
configurations that were current from the resolution of the project to the
start of `Dispatch`, which builds the chain.

**`DailyLog`** is the output of the `log` package: a daily file for each level,
with `rotate`, the sticky error of `bufio` and `MultiWriter`, which stops at the
first error. **`Health`** is the goroutine of `HealthChecker.Run` with a probe
per sink that answers, fails or hangs. **`Ops`** composes them with `Run`,
`Close` and `main`; the health checker logs its failures to the files.

`MCWAL`, `MCWorkerPool`, `MCGateway`, `MCReload`, `MCUpload` and `MCOps` give the
constants values. Operators whose names end in `Variant` are plausible faulty
versions of the definition after them; no specification uses them. They show
that the properties notice such a fault.

## Runs

| Run | Checks | Bounds |
|---|---|---|
| `wal_faults` | `TypeOK`, `DurableKept`, `ReplayInOrder`, `RemovedOnlyAfterAcceptance` | 3 entries, one of them too long to replay, 4 segments, 2 restarts, 1 rejection; a sync per write with all faults but `remove` and `read`, or the ticker with all faults but `readdir` |
| `wal_live` | `SealedReplayed`, `EventuallySynced` | 3 entries, 1 restart, no I/O faults |
| `wal_active_race` | `ActiveNeverReplayed`, violated | 4 entries |
| `wal_backlog` | `BacklogReplayedWithoutRestart`, violated | 3 entries |
| `pool_fallback` | `TypeOK`, `NotUsedAfterRelease`, `SingleProbe`, `ShutdownSettles` | 2 workers, 3 messages (1 strict), channel of 1, the three policies, panics, WAL errors, 1 outage |
| `pool_settle` | `AckedSettles`, `WorkersExit`, `ImplementsDelivery`, `ProbedCircuitCloses` | 2 workers, 2 messages (1 strict), the three policies, panics of `Send`, 2 outages |
| `pool_recovery` | `CircuitRecovers`, violated | 1 worker, 3 messages, 2 outages |
| `gateway_fallback` | `TypeOK`, `NoSinkForgotten`, `PipelineOnce`, `EntryLeavesWhenTaken` | 2 messages and 1 without pools, 2 pools, channels of 1, 1 rejection before a circuit opens, 1 reload |
| `gateway_shutdown` | `AckedNotLost`, violated | 3 messages and 1 on which the pipeline fails, no rejections |
| `reload` | `TypeOK`, `GlobalFollows`, `FileReachesConfig`, `ProjectLimiterConverges` | 4 versions (one invalid, one with the project disabled, one with defaults), read errors, the watcher, 1 admin request at a time, 2 uploads |
| `upload` | `TypeOK`, `MessageInOnePlace`, `SinkGetsExpected`, `RedactedStaysMasked`, `NonceSpacing`, `CacheBounded`, `RetryRecognised` | 2 requests at a time of 6 kinds, 3 messages, 2 nonces, 7 half seconds, 6 configurations, 2 projects with 2 pools, chains of 2 to 4 processors |
| `ops` | `TypeOK`, `LinesLand`, `PublishedWasTrue`, `StatusFollows`, `CheckerStops` | 1 sink and the gateway's own probe, 3 changes of the sink, 2 levels, 2 disk faults, 2 days |

Why the bounds suffice. Two unit lines fill a segment and the third entry needs
its own, so three entries give a sealed segment with two lines and an active
one. With two restarts a log that was sealed by one restart meets another
crash, and a fourth segment is reached. One rejection makes a replay stop half
way. A channel of one with two or three messages is full, empty and contended;
`MaxFails = 1` lets one message open the circuit, and the second outage of
`pool_settle` reopens one that was closed. Two pools are the least with a partial
dispatch. One reload between the dispatch of a message and its replay
switches its pipeline on or off. In `upload` two configurations are about nonces
(the clock runs, the cache shrinks from two to one by a reload), two about
dispatching (a project is enabled, its chain replaced), in one an authenticated
request is dispatched while the pools close, and one disables the projects:
exploring all at once only multiplies independent parts. The clock has half
seconds, the least with which truncation is seen, and runs for the TTL of three
seconds and a half second more; one time stamp is ahead of it. Its TTLs are in
the first case of `Covers` and its time stamps are small: the default TTL and
window, which are equal, and time stamps near the ends of an `int64` are covered
by the proof only. The chains contain each processor before and after each other
one that it interferes with, and the data null, an object, one that cannot be
decoded, and neither. Three
messages are the least with two tasks and a copy. In `ops` three budgets let the
sink go down, hang and return; the disk fail before and after midnight; and one of
each together. Symmetry is used for invariants and action properties only, never
with liveness. Deadlock checking is off: after the bounded inputs and a
shutdown the system stops.

Fairness. `WAL`: the holder of the lock finishes, the ticker fires, the replay
goroutine goes on; nothing makes a client write, the process crash or restart.
`WorkerPool`: every goroutine that can run does until `Shutdown` has returned,
and `Shutdown`, once called, goes on. After that `Run` closes the log and the
process exits, so nothing more has to happen. The timeout of `Shutdown` may come
at any time and need not come. The sink need not come back; properties that need it say
`<>[]sinkUp`. Go's scheduler, its timers and its fair mutexes justify weak
fairness of each goroutine. `Reload`: the goroutines run, timers fire, and
uploads keep coming; nobody has to edit the file or to call the endpoint.
`Ops`: the goroutines of the checker and of `Run` go on and the ticker ticks.
`select` chooses at random between a tick and the closed `stopCh`, so the loop
does not take the tick for ever: strong fairness of `LoopStops`. Nobody has to
send a signal or to end `main`.

## What the violated properties show

* `ActiveNeverReplayed`: `replaySealedSegments` reads the active name and lists
  the directory afterwards. A rotation in between puts the new active segment
  on the list, and it is replayed and unlinked while the writer appends to it.
  The other log properties therefore speak of segments, or of behaviours,
  that are not `exposed`.
* `BacklogReplayedWithoutRestart`: the active segment is sealed by an overflow
  or a restart only, so a small backlog stays where it is.
* `CircuitRecovers`: the probe closes the circuit, and its deferred function
  resets `recoveryOnce` later. A circuit that reopens in between gets no probe
  and stays open. `ProbedCircuitCloses` is the part that holds.
* `AckedNotLost`: `Run` shuts the pools down without waiting for the tasks of
  the goroutine pool. The `Submit` of such a task returns an error and the
  message is released without a log entry.

## What the other properties leave open

* `AckedSettles` and `WorkersExit` end with a `Shutdown` that gives up after its
  timeout: what is in the channel then is lost with the process. When
  `WriteMessage` fails, which is only logged, the message is lost as well
  (`walFailed`); `pool_fallback` explores that, `pool_settle` does not. Both speak
  of one pool, not of the tasks that `AckedNotLost` is about.
* `NoSinkForgotten` speaks of messages whose `Dispatch` returned nil. After an
  error at one pool the later ones get nothing, which `AckedNotLost` shows.
* `PipelineOnce` disagrees with `doc/PRD.md:382`, which says that the replay
  callback calls `Dispatcher.Dispatch`, the path of a request. The code calls
  `DispatchStrict`, which skips the pipeline (`project/dispatcher.go:190`); the
  log holds processed data already. With the path of a request the property is
  violated.
* `EntryLeavesWhenTaken` says that every pool has taken a copy when an entry
  leaves the log. `src/README.md:591` says that the file is deleted after
  confirmed delivery; `src/README.md:377` and `wal/wal.go:550` speak of the
  callback's acceptance, as the property does.
* `RemovedOnlyAfterAcceptance` does not speak of exposed segments. A writer that
  appends to a listed segment because `nextSegmentNum` returned 1 exposes it.
* `GlobalFollows` allows the rate of a replaced configuration from an overlap to
  the end of the next load that runs alone.
* `FileReachesConfig` allows an old configuration after a read or parse error
  until the next edit.
* `SinkGetsExpected` takes any one configuration that was current between the
  resolution of the project and the dispatch. `src/README.md:613` says that
  requests in progress finish with the old configuration; each middleware, the
  handler and the task read it anew.
* `RedactedStaysMasked` excepts an object with a number outside `float64`: all
  processors but `field_add` pass it with its values (`processors.go:116`).
* `RetryRecognised` needs TTLs of more than twice the windows, or TTLs of at least
  the windows and a nonce that is stored a second or more after its time stamp.
  The defaults (300 and 300) are in the second case. `src/README.md:599` and
  `doc/PRD.md:223` say that the default window suffices; for a request whose time
  stamp is ahead of the server's clock, or that arrives within its second, the
  nonce expires before the time stamp does.
* `StatusFollows` speaks of a gateway that runs. `src/README.md:477` says that
  `/ready` is false during a shutdown; the endpoint reports the verdict of the
  last check, whatever `Run` is doing (`observability.go:171`).
* `LinesLand` assumes that the console, the first writer of `MultiWriter`
  (`logging.go:31`), never fails.

## Proofs

The theorems of `WALProofs`, `WorkerPoolProofs`, `ReloadProofs`, `GatewayProofs`,
`UploadProofs` (which rests on `AuthProofs` and `PipelineProofs`) and `OpsProofs`
hold for all values of the constants that satisfy the assumptions of the modules
they extend. Every safety invariant, every action property and the refinement
that a passing run checks is among them.

* `TypeCorrect`: `Spec => []TypeOK`. `TypeInv` adds what types alone do not
  give, for example that a process that is down does not hold the lock.
* `DeletionSafe`: `Spec => RemovedOnlyAfterAcceptance`, with every fault. The
  inductive invariant `ReplayInv` says that of the segment being scanned every
  line up to `pos` is accepted, and every line in the `remove` state, unless
  the segment is exposed. It is kept because only the active segment is ever
  written (`OnlyActiveWritten`), so a listed segment that is not exposed does
  not grow.
* `Durability`: `Spec => []DurableKept`, which speaks of fault sets without
  `readdir` and of behaviours in which no active segment is exposed. `DurableInv`
  says where an acknowledged entry is: in the buffer or in `dirty` until an
  fsync, and `dirty` holds lines of the active file and nothing durable, so a
  crash cannot take a durable line. A file with a healthy buffer does not end
  in a torn line, because `NewWriter` seals a segment that is not empty; a line
  appended after a torn one would be lost. When `ReadDir` fails,
  `nextSegmentNum` returns 1 and the argument breaks.
* `ReplayOrder`: `Spec => []ReplayInOrder`, with the same two conditions. `OrderInv`
  has three parts. `SegmentsInOrder`: every line of a segment is older than every
  line of a segment with a higher number, and the active segment has the highest.
  `BufferIsYoungest`: what is buffered is younger than every sealed and every
  accepted line. `NoneSkipped`: a linked segment below one that is still to be
  replayed in this cycle is on the list as well, or accepted as a whole (its
  removal has failed). The writer's steps only append to the active file
  (`ActiveGrows`, `GrownInOrder`); a rejection ends the cycle, which is what keeps
  `NoneSkipped`.
* `OneProbe`: `Spec => []SingleProbe`. `ProbeInv` ties the number of recovery
  goroutines to `recoveryOnce`: one if it has run, none otherwise.
* `PoolTypeOK`, `ReleasedOnce`, `DoneMeansSettled`: the invariants of
  `pool_fallback` for any number of workers (at least one), messages and outages.
  `PoolInv` says that no message has two holders (`OneHolder`); that a message is
  in the channel or with a worker exactly from the return of its `Submit` to its
  release, and has an end exactly when it is released (`MsgInv`); and that a
  worker leaves only when the channel is closed and empty (`WorkerInv`). Each
  action is first shown to be one of six kinds of step on messages
  (`SubmitKinds`, `WorkerKinds`), so that the argument about ownership is made
  once per kind.
* `PoolDelivers`: `Spec => ImplementsDelivery`. The mapping is `Status` for the
  state of a message; the six kinds of step map to steps of `Delivery` or to
  stuttering, by `PoolInv`: a message with an end is held by nobody, so no step
  gives it another end.
* `LimiterFollows`: `Spec => []GlobalFollows`. `GlobalInv` says that without an
  overlap there is one load at most and none during the construction of the
  limiter, and that a load that has stored holds the current version and the
  limiter's callback. `AloneInv` says the same of a load that runs alone after an
  overlap: nobody else loads, so its callback sets the rate of what it stored. `ReloadTypeOK`: `Spec => []TypeOK`; it needs that a version
  which `load` has parsed but not stored yet is a valid one (`LoadedValid`),
  although the file changes meanwhile.
* `GatewayTypeOK`, `NoneForgotten`, `ProcessedOnce`, `LeavesWhenTaken`: the four
  properties of `gateway_fallback` for any number of messages and pools.
  `GatewayInv` says that a pool which the dispatch of a message has passed has
  the message, or its sink has, or the log has (`Accounted`); that every copy in
  a queue, in the log, in the replay or at a sink has the stage of its message,
  whose task is past the pipeline (`StageInv`); and that of
  the entry being replayed each pool before `rnext` has a copy or has written it
  to the log again, behind the head (`Replaying`). Without the last part the end
  of a replay could take away the only copy.
* `UploadTypeOK`, `OnePlace`, `Redaction`: `UploadInv` is the place of every
  message, plus, for a task in its chain, that the message hides what the
  processors so far redact, or is an object that does not decode and that no
  processor has touched (`MaskedSoFar`). `SinceInv` (`ChainIsOfOne`) says that the
  chain of a task is that of one configuration in `since`. `ProcessHides` is the lemma about one
  processor: it keeps a hidden field hidden unless it adds it, and a mask hides
  its field whatever the value was.
* `SinkContents`: `Spec => SinkGetsExpected`. The invariant (`AsExpected`) says
  that the message of a task holds its own request and what is expected after
  the processors that have run. `PipelineProofs` has the two facts it needs:
  before the first processor `Expected` is the data itself (`ExpectedNone`), and a
  processor that does not fail makes, of what is expected after n processors,
  what is expected after n + 1 (`ExpectedOneMore`). No induction over the chain
  is needed, because the execution itself goes through it one by one; `Known`
  carries what the earlier processors' success says about a field, for example
  that nothing unencodable was added and that null got no field.
* `NoncesSpaced`, `RetriesRecognised`, `CacheFits`: `AuthInv` says that a nonce
  that was accepted and not evicted is in the cache with the time `seen`, or the
  clock is past `seen` plus the TTL of some configuration (`Remembered`); and
  that `seen` is not before the time window of the accepted request (`Timely`),
  which follows a request from the check of its time stamp to the lock
  (`OnItsWay`). `TwiceWithin` is the arithmetic: between two times at which a time
  stamp is in the window there are not more whole seconds than two windows have,
  `abs` and wrap-around included. `CacheFits` also needs that the cache is finite.
* `Landing`, `Published`: `OpsInv` says that a writer that is at its day has its
  file open, and has an error only if it was spoiled that day (`AtItsDay`); and
  that the results of the current check, and what a probe would answer now, are
  in `was` (`ProbesInv`). `OpsTypeOK`: `Spec => []TypeOK`; it needs that an open
  log file is that of a day that has come (`OpenDated`).

Model-checked only: the liveness properties (`SealedReplayed`, `EventuallySynced`,
`AckedSettles`, `WorkersExit`, `ProbedCircuitCloses`, `FileReachesConfig`,
`ProjectLimiterConverges`, `StatusFollows`, `CheckerStops`), since fairness is
outside the prover's reach, and the four violated properties, which have
counterexamples and no proofs. `WorkerPool` assumes that there is a worker
(`worker.go:66`), and `Upload` that the data of a request is
nothing, null, an object or something else.

## Abstractions and what is left out

* An entry's content, JSON and sequence number are its index; a line that
  cannot be parsed is skipped as in the code.
* `SyncInterval = 0`, a sync after each write, is what the `wal` package offers;
  the server's `applyDefaults` turns a configured 0 into 100 ms.
* After a power loss a prefix of the unsynced lines survives; losing directory
  entries is not modelled. `dirty` follows the current active file: lines that
  a failed fsync in `Close` left behind are not followed into a new segment.
* The file is edited in place; what fsnotify reports when it is replaced by a
  rename is not modelled. An edit before `Watch` is called is not either.
* `purgeOldSegments` deletes nothing (`wal.go:299`) and is no action, although
  `doc/PRD.md:367` describes a limit on the number of segments.
* The Go data race on `recoveryOnce` is modelled as an atomic reset; a
  concurrent `Do` on a half-written `sync.Once` is not.
* `Shutdown` stops a running probe before the workers have drained. A worker
  can then start another; the model has it, but no property is stated, because
  the process exits next.
* `DurableKept` and `ReplayInOrder` do not speak of runs in which `ReadDir` may
  fail: `nextSegmentNum` then returns 1, and the writer may append to an old
  segment. `RemovedOnlyAfterAcceptance` holds there, too.
* `Upload`: the router, the time stamps and the headers of a message are not
  modelled, nor is the file's JSON beyond what `Pipeline` tells apart. The error
  log of a failed dispatch may read the fields of a message that has another
  owner by then (`server/server.go:343`); the step is there, its text is not. A
  submission that panics on a channel closed by `Shutdown` is explored with one
  configuration (`Closing`).
* `Auth`: `Second` steps of the clock stand for the nanoseconds of a second; a
  goroutine serves one request after another. The clock does not jump (the code
  compares wall-clock seconds in one place and times with a monotonic reading in
  the other), it stays a time window away from 2^63 seconds (`ClockAssumption`),
  and the product of a huge `nonce_ttl_seconds` and `time.Second` does not
  overflow.

## What follows from the models without a property

* A nonce is consumed before the project is resolved and limited, so after a
  404, 429 or 503 the identical request gets 401.
* After a failed write a level has no file until the next day. Lines logged
  after `logging.Close` are dropped. When the server cannot listen, `log.Fatalf`
  skips `Close`. JSON lines of `LogJSON` have no `[error]` tag and reach no file.
* A `Write` after `Close` opens a new segment that no sync loop flushes; `WAL` has
  these states, but nothing bounds how long such an entry stays in the buffer.
* `/health` reads the statuses and the verdict under two locks; a check that
  publishes in between makes the answer contradict itself.
* A hanging probe leaves a goroutine behind at every check.

## Not modelled

* Metrics (`metrics/`, `MetricsMiddleware`, the reporters): counters that nothing
  reads back.
* The Redis and Kafka clients: library calls; their outcomes are those of the
  sink in `WorkerPool`. Envelopes live within one `Send`.
* `RequestIDMiddleware`, `LoggingMiddleware`: no state beyond the request.
* `server.New`, `initProject` and the merging of sink configurations and
  defaults: sequential start-up; its result is the initial state.
* HMAC, token buckets, fsnotify, the goroutine pool: libraries, modelled by what
  the code can see of them.
* `examples/send_message_client.go`: a separate program.
