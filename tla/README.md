# A TLA+ verification of frappe-monitor

frappe-monitor is one Go process that watches Frappe benches over SSH: it pulls
metrics on a schedule into VictoriaMetrics (VM), tails log files into Loki,
evaluates alert rules against VM, and serves an HTTP API and a dashboard over a
SQLite store. This directory holds TLA+ models of it, TLC configurations that
check them, and TLAPS proofs. Paths in this file are relative to the repository.

## The system

| Part | State it keeps | Operations | Talks to |
| --- | --- | --- | --- |
| Streamer sink `internal/streamer/sink.go` | buffer and byte count per (server, file); connected flag and last line per server | OnLine, OnSessionState, Flush (snapshot, push, drop, cursors) | sessions and flush loop call it; Loki, cursor rows, VM gauges |
| Session and bench tail `session.go`, `scripts/frappe-monitor-stream.sh` | the link, the offset in the remote command | connect, scan, back off, reconnect, Stop | SSH pool, sink |
| Stream manager `manager.go` | map of sessions, `stopped` | Start, LaunchServer, RemoveServer, flushLoop, Stop | store, sessions, sink |
| Alert evaluator `internal/alerts` | alert rows (SQLite) with LastNotifiedAt | one tick: query, upsert, page, resolve, delete per rule | VM, store, Telegram |
| SSH pool `internal/ssh/pool.go` | map target -> client | Run, RunWithInput, Stream, dropClient, Close | benches; used by pulls, sessions, API |
| Scheduler `internal/scheduler` | cron entries, semaphore, wait group, parent context | AddKeyed, RemoveKeyed, fire, Stop | runs the pipeline |
| Collector pipeline `internal/collector` | none of its own; status column of a server | PullOnce, PullLogsOnce | SSH pool, parser, VM, Loki, store |
| Log tailer `internal/collector/logtail.go` | none of its own; cursor rows | TailFile (cursor, remote stat and tail, new offset) | SSH pool, store |
| Collect script, parser, line protocol `scripts/frappe-monitor-collect.sh`, `internal/parser`, `internal/metrics` | the script file on the bench | emit, tokenize, read sections, samples | run by PullOnce; VM |
| Wiring `cmd/monitor/main.go` | signal context | the boot, hooks on create and delete, hot launch, snapshot goroutine, shutdown order | all of the above |
| Configuration `internal/config` | none after Load | defaults, file, environment, validate | the boot; alerts and streamer validate again |
| HTTP API `internal/api/handlers.go` | none | create, list, get, patch, delete, testConnection, refreshSystem, getSystem, deployCollector | store, SSH pool, hooks |
| Pages `internal/api/hierarchy_handlers.go` | none | listBenches, getBench, listSites, getSite | VM |
| Store `internal/storage`, `ent` | servers, log_cursors, system_snapshots, alert_states | methods of one to three statements, no transaction around them | SQLite |

Authentication, the proxies, the alert listing and the dashboard hold no state
that outlives a request; they are not modelled (PROJECT.json gives the reasons).

What is hard, and what must be true of it:

* Flush runs in several goroutines, unlocked while it pushes. No line may leave
  a buffer before Loki has it, the byte count must stay that of the buffer, and
  the cursor must never pass what Loki has.
* Links drop and the process dies at any point between push and cursor write; a
  restart must not skip lines.
* Alerts are reconciled row by row with calls that fail; paging must respect its
  cooldown over restarts, and must not be lost.
* The pool's map is touched in three separate critical sections per call: no
  connection may leak or be served after it was closed.
* Jobs of all servers share one semaphore and overlap per server; Stop must
  return nil only when nothing runs; the status column must converge.
* Creation, hot launch, deletion and shutdown interleave over three registries.
  The boot may end at any step, and no configuration that was let pass may make
  it panic.
* A store method queries and writes in two steps, and a handler holds a row over
  an SSH round trip: no update may be lost, no good snapshot wiped, no key
  broken, no row left without its server.
* The collect script is rewritten while pulls run it, hosts are out of order in
  part, and pulls overlap: what is pushed must be what the host had.
* Polled log files grow, rotate and vanish between two steps of one call.

## The modules

| Module | Models | State and actions |
| --- | --- | --- |
| `LokiSink` | `sink.go` | `received`, `head` (entries dropped), `bytes`, `cursor`, `loki`; `pc`, `attempts`, `bumps`, `prevOff` are a flushing goroutine's locals. `OnLine`, `Snapshot`, `NothingToFlush`, `PushOk`, `PushFailed`, `Drop`, `ReadCursor`, `SkipCursor`, `UpsertCursor`, `FlushReturns`: one action per critical section or external call |
| `LogDelivery` | one file, end to end: stream.sh, `session.go`, `manager.go` | adds the file, the link, the tail's position, `launchOff`; `Write`, `Connect`, `Deliver`, `Disconnect`, `SinkStep`, `Restart` |
| `AtLeastOnce` | abstract: what the streamer promises of one file | lines written, passed by the tail, held and stored, and where a restart would resume |
| `Paging` | abstract: what the alerting promises the operator | per alert: known, heard, time since its last page; the message under way |
| `AlertEvaluator` | `evaluator.go`, `service.go` | `rows`, `age` (of LastNotifiedAt), the evaluation's locals; one action per store or notifier call and one for its failure, `Crash` |
| `SshPool` | `pool.go` for one target | `stored`, client states, each call's place; `Lookup`, `DialOk`, `Store`, `SessionOpens`, `SessionFails`, `Drop`, `Close`, `LinkBreaks` |
| `Config` | `config.go`, and `Validate` of the alerts' and the streamer's part | operators: `Defaults`, `Merged`, `Accepted`, `AlertsValid`, `StreamerValid` |
| `ServerLifecycle` | `main.go`, the hooks, `manager.go`'s Start, launch and Stop | boot: `LoadConfig`, `OpenStore`, `RegisterPulls`, `StartAlerts`, `BuildStreamer`, `StartStreamer`, `ListenFails`; then `rows`, `children`, `jobs`, `entries`, `session`, `cut` and where the create, launch and delete goroutines and the shutdown are |
| `Scheduler` | `scheduler.go` over robfig/cron | `at`, `server`, `expired` per goroutine, `stop`; `Fire`, `Enter`, `Acquire`, `Bail`, `StopCancel` ... `StopExpires` |
| `Pipeline` | the control of `PullOnce` as the job of `Scheduler`, and `testConnection` | `host`, `status`, `test`; one action per SSH, push and store call |
| `EntTables` | `ent/schema`, and the `ent` builders the store calls | operators: schema, mutations, defaults, checks, constraint errors; a statement answers an error and the table after it |
| `Inventory` | `ent_store.go`, the server and snapshot handlers, the snapshot goroutine | the four tables; one action per statement and per SSH call of each method and handler, `StatementFails`, `Crash` |
| `BenchOutput` | the collect script, `Tokenize`, the section readers, the line protocol | operators: a host's output as lines, its tokens, the capture, its samples |
| `Collect` | the data of `PullOnce`, `deployCollector`, the pages | `host`, `script`, `pull`, `db`; `DeployStart`, `DeployEnd`, `PullStart`, `Parsed`, `RunFails`, `Push` |
| `LogPull` | `logtail.go`, `PullLogsOnce` | files with a generation, `loki`, `cursor`, `pull`; `ReadCursor`, `Stat`, `TailBody`, `Push`, `WriteCursor`, `Crash` |
| `MC*` | instances for TLC | |
| `LokiSinkProofs`, `LogDeliveryProofs`, `AlertEvaluatorProofs`, `SshPoolProofs`, `ServerLifecycleProofs`, `PipelineProofs`, `InventoryProofs`, `LogPullProofs` | theorems | |

Composition: `LogDelivery` instantiates `LokiSink` as its sink and `AtLeastOnce`
as its promise, `AlertEvaluator` instantiates `Paging` as its own; `Pipeline` extends `Scheduler`, `Inventory` extends `EntTables`,
`Collect` extends `BenchOutput`, `ServerLifecycle` extends `Config`.
`ServerLifecycle` sees the scheduler only as its set of entries, the sessions
only as running or over, and the tables only as which rows exist. `PullOnce`
appears twice: `Pipeline` has its control (timeouts, semaphore, status) without
the payload, `Collect` its payload without the control.

Abstractions. A log line is its number in the stream and one byte long, so a
cursor counts lines; in `LogPull` a file is the number of its bytes. A label set
is a model value. A line of the script's output is a record of its parts. A
setting is a number, or a text that is empty, sound or odd. Time appears as the
age of a page (`AlertEvaluator`), as the bench's clock (`Collect`), as the number
of an evaluation (`Inventory`), and otherwise as timeouts that may fire. A
statement is atomic and may fail; a method of several statements is several
actions. Operators named `Mutant...` are faulty variants used to show that the
properties are sensitive; no specification refers to them. Variables commented
"History" change no behaviour.

## The runs

Passing runs:

| Run | Bounds | Shows |
| --- | --- | --- |
| `LokiSink` | 2 streams of one session (3 and 1 lines), ticker and session flush, batch 2; 31 213 states | `DroppedLinesAreStored`, `BytesMatchBuffer`, `ResumeMissesNothing` for streams no two flushes held at once; `EventuallyStored` |
| `LogDelivery` | 3 lines written, 4 received per process, 1 reconnect, 1 restart, batch 2; 279 332 states | `NothingPassedOver`, `GapNeedsRewindOrNoOffset`; `DeliversAtLeastOnce`, the refinement of `AtLeastOnce`; `EventuallyInLoki` |
| `AlertEvaluator` | 2 rules, 1 series each, cooldown 1, 1 crash; 10 848 states | `PagesAsPromised`, the refinement of `Paging`; `CooldownRespected`, `RowsMatchAnswer`, `PersistentAlertIsTold`, `AbsentAlertIsCleared` |
| `SshPool` | 3 callers, 3 dials; 175 920 states | `NoLeak`, `StoredIsNotClosed`, `RetryMovesOn`, `BrokenIsDropped` |
| `ServerLifecycle` | 1 server of the boot, 1 created; every setting wrong alone, in the file or in the environment, and pairs of a bad stream number with a flag or a number of the environment; 8 318 states | `PanicNeedsAStoppedManager`, `EveryServerIsPulled`, `OrphansNeedARace`, `BootStreamsStay`, `RemovedIsNotTailed` |
| `Inventory` | 2 workers, 2 hostnames, 2 servers, 4 requests, 2 captures, 3 evaluations, 4 PATCH bodies; 370 290 states | `KeysAndParents`, `SettingsStay`, `PayloadStays`, `RefreshFindsACapture`, `AlertRowKeepsItsPast` |
| `Collect` | 2 pulls at once, 2 in all, 1 change of the host among 9 shapes, 1 deployment; 26 504 states | `PushedIsWhatWasRead`, `PagesShowTheNewest` |
| `LogPull` | 2 files of up to 2 bytes, read 1 at a time, 2 calls at once, 3 in all, 2 mishaps; 4 452 368 states | `CursorCovers`, `RepeatsHaveAReason` |
| `Pipeline` | 1 server, 2 goroutines, 1 slot, 2 faults, 1 connection test; 53 630 states | `StoppedIsDrained`, `FiredJobsEnd`, `UpIsReported`, `DownIsReported` |

Why the bounds suffice.

* Sink and delivery: every interesting case needs two flushes, a line that
  arrives between snapshot and drop, and a second stream carried by the same
  request: three lines with a batch of two give all of it, and the proofs cover
  the rest. Delivery goes wrong only over one reconnect followed by one restart.
* Alerts: one crash between a write and a page, and a second rule for failures
  that skip a rule.
* Pool: three calls, one that dialled, one that lost the race, one with an old
  client. Pipeline: one goroutine that holds the slot and one that waits.
* Lifecycle: the servers do not touch each other's entries, so one of each
  origin shows every race; settings are validated one by one except the backoff
  pair, the flags and what the environment overrides, which the pairs contain.
  The proofs cover any servers and any settings.
* Inventory: a lost update needs two goroutines, the two of the snapshot race
  are a worker and the goroutine of the creation; two hostnames make a PATCH
  collide with another server, four requests are a creation of each server and
  two that race. The alert rows share nothing with the rest, so their steps
  commute with all others and are taken once the requests have come to rest;
  three evaluations give a row that fires, fires again and fires anew.
* Pipeline: one connection test, at any moment of two overlapping pulls. A
  failing or wedged host may answer it or not. The bound is needed for
  `DownIsReported`: somebody who tests such a host again and again has it
  reported reachable between any two pulls.
* Collect: the nine shapes are a host in order, the ways a bench, a disk or a
  network can be out of order that the script and the parser treat differently,
  a bench served at another port and one not served at all, and empty sections.
  What is expected of a site is its answer on the port where its bench serves.
  An output is cut or disturbed at every fifth line, which falls into every kind of
  section. Two pulls around one change tell an older capture from a newer one.
* LogPull: two overlapping calls and a third one that starts from the cursor
  they left; a file of two bytes read one at a time needs several calls; two
  mishaps let a file vanish or rotate twice.

The workers of `Inventory` and the pulls of `Collect` and `LogPull` are
interchangeable and declared symmetric; these runs check no liveness.
`CHECK_DEADLOCK` is off because each model may come to rest: no more lines,
requests or dials, or a process that has exited.

Runs that end in a violation, each of a sentence the repository states:

| Run | The code does | The repository says |
| --- | --- | --- |
| `LokiSinkOverlap` | two overlapping flushes of a stream drop its prefix twice and lose what came in between | `sink.go:206` "drop EXACTLY that prefix ... without throwing away anything OnLine appended" |
| `LogDeliveryReconnect` | a reconnect runs the command of the launch; lines received twice advance the cursor twice, and a restart skips lines | `protocol.go:18` "on disconnect, backoff and resume from the cursor" |
| `ServerLifecycleHotLaunch` | the hook cancels the context the new session runs under | `manager.go:208` "LaunchServer adds a session for a newly-created server" |

Other disagreements are in the models and in no run:

* The foreign keys refuse to delete a server that has a cursor or a snapshot;
  `handlers.go:238` speaks of a cascading delete that cleans them up.
* A pull cut by its job's timeout cannot record that, its context being over;
  `pipeline.go:77` has SSH errors mark the server unreachable.
* A host that answers no handshake outlives the job's timeout and keeps its
  slot; `docs/guide/operations.md:144` has a hanging pull killed.
* `NotifyRepeatSeconds = 0` repeats at every tick; `service.go:28` has it
  suppress repeats.
* The script takes the first port it tries whatever listens there: a failed
  `curl -w` prints 000 and `|| echo 000` makes it 000000, which is not the 000 it
  compares with. A bench served at a later candidate has all its sites pushed as
  down with code 0; `collect.sh:223` has detection return "0" only if nothing is
  listening, and `collect.sh:238` has "80 (nginx) next". It is `Overlooked` in
  `Collect`: without that exception `PushedIsWhatWasRead` fails on the shape of a
  bench served at port 80.
* A mount, an interface or a version with a comma in its name is skipped without
  an error: `splitLabeledKey` cuts inside the quotes, though `server.go:253` says
  "Label values are required to be double-quoted ... The collector script always
  emits this shape" and `escapeTag` is prepared for commas (`lineproto.go:153`). It
  is `Kept` in `Collect`.
* A connection test runs `echo ok`, so it reports a host reachable whose collector
  fails every pull (`handlers.go:343`); `pipeline.go:77` has SSH and parse errors mark the server
  unreachable. The next pull does so again.
* One bench's stray line refuses the capture of the whole server; `pipeline.go:150`
  wants a single misbehaving site not to drop the rest.
* `dropClient` may close a connection that another call has dialled since.
* The snapshot hook stores what the script printed without asking whether it is
  JSON, which `refreshSystem` asks.

### Fairness

* `LokiSink`, `LogDelivery`: a goroutine inside Flush goes on (each push has a
  timeout), the ticker fires, and a push repeated for ever succeeds at last
  (strong fairness of `PushOk`: Loki is not down for good). The session loop
  retries for ever. No line needs to be written or received.
* `AlertEvaluator`: the loop ticks, time passes, and a query, upsert, page or
  delete that is tried again and again succeeds at last.
* `SshPool`: callers call again, dialling and opening a session return. A
  running command may last for ever.
* `ServerLifecycle`: goroutines and handlers that have begun go on; nobody has
  to create, delete or send a signal.
* `Pipeline`: cron fires each entry at each interval, and senders on the
  semaphore are served in order (strong fairness of `Fire` and `Acquire`); code
  and timers go on. Host changes, slow jobs, store errors and aborted requests
  draw on `MaxFaults`, so that the environment comes to rest; a wedged or mute
  host may stay so.
* `Inventory`, `Collect`, `LogPull`: none; their properties are safety only.

## The proofs

All constants are arbitrary within the modules' `ASSUME`s: any finite or
infinite set of streams, sessions, loops, callers, connections, servers, workers
and files, with `MaxBatchLines` and `MaxBytes` positive; any positive number of
rules, any names (also equal ones), any non-empty set of series, any cooldown;
any configuration file and environment whose numbers are integers; any finite
set of goroutines and any positive number of slots; any bodies of a PATCH, whose
fields are settings and have a value (a JSON null and a missing field are the
same nil pointer); a list that names no file twice. `Null` stands for SQL NULL
and is no value of a column.

`LokiSinkProofs`. `TypeCorrect`, then for streams that no two flushes have held
at once: `DroppedLinesStored`, `BytesFollowBuffer`, `ResumeSafe`. None of these
is inductive. A drop is safe because its lines were pushed, and it cuts off the
right ones because nothing moved `head` since the snapshot; so `BufferInv` adds
that a held attempt starts at the current `head` and carries the byte count of
its lines (`HeldOK`), that its lines are in Loki from the push to the drop
(`PushedOK`), and that idle goroutines hold nothing (`Clean`). The cursor needs
more: advances of several flushes race, so it is no sum of them. `SinkInv(base)`
counts the *settled* lines, the dropped ones minus those of updates still
pending, and states that the cursor, and every offset read from it plus its own
delta, is at most that number above `base`, the row each stream started from
(`CursorFrom`); the lemma `SettledGrows` says what an ending update adds. `base`
is a parameter because a sink that is started again does not start from 0: a
fresh sink satisfies the invariant for the rows it finds (`FreshSinkInv`), and
for any later one while it has nothing in hand (`LaterRow`).

`LogDeliveryProofs`. `NothingPassedOverEver`, `CursorSafeEver`, `GapsExplained`,
`Refinement`, `NoLineIsLostEver`, `PromiseKept`. `LogDelivery` adds the link and
the restart to the sink, so its invariant `DeliveryInv` adds the link to the
sink's: what holds whatever happens (`LinkOK`, with `BufferInv`), that what the
open tail has passed was received by this process or archived by an earlier one
(`PassedOK`), that without a rewind the received lines ascend and end at the
tail (`ForwardOK`), and that the row counts from the place where this process
attached: `SinkInv` with that place as base (`CountedOK`). The last two hold
until a rewind, a tail without an offset, or two overlapping flushes: the three
excuses. The row has advanced by at most the number of settled lines, which are stored, and
two received lines are at least as far apart in the file as in the stream, so the
row lies before the last settled one: that is what a restart relies on, and it
makes the base of the next process sound. With it
every step is one of `AtLeastOnce` or a stutter (`Refinement`). The abstract
delivery loses no line (`NoLineIsLostEver`), so neither does the streamer until
an excuse (`PromiseKept`); the excuses, once there, stay (`ExcusesStay`).

`AlertEvaluatorProofs`. `TypeCorrect`, `CooldownAlways`, `Reconciled`, `Refinement`.
`AlertInv` adds which sets are empty at which place (`Control`), that a row's age never
exceeds the time since the last page, except while that page is being sent
(`CooldownInv`), and that rows already handled agree with the answer (`RowsInv`).
`Refinement` shows that every step is one of `Paging` or a stutter. The mapping takes
the rows for what is known, and a page that is due or a deletion that is due for the
message under way. The upsert is where it could fail: that the code decides by the age
in the row, and the promise speaks of the time since the last page, is what
`CooldownInv` reconciles; and a resolution needs that what is being resolved still has
its row (`ResolveInv`). A type invariant of `AlertEvaluator` is proved, not run.

`SshPoolProofs`. `TypeCorrect`, `NothingLeaks`, `StoredNotClosed`, `RetriesMoveOn`.
`PoolInv` adds that a connection between dial and store is known to one call
only (`DialledAlone`), and that one in use is the stored one or closed
(`UsedIsStoredOrClosed`): that is why a drop, which closes what the map holds by
then, never leaves an open connection behind, and why a second attempt cannot
find the connection the first gave up.

`ServerLifecycleProofs`. `BootNeverPanics` rests on `BootInv`: from the load to the
launch the configuration is one that `validate` accepted, merged from numbers.
`TypeCorrect`, `EveryServerPulled`, `OrphansOnlyByRace`, `BootSessionsStay` rest on
`LifeInv`: nothing is launched before the boot is over (`Quiet`), how far the
goroutines of a server may be from each other (`Places`), what is left of a
deleted server (`Gone`) and what stays of a live one (`Kept`).

`PipelineProofs`. `TypeCorrect`, which contains that at most `MaxParallel` jobs hold
a slot, and `StoppedIsDrainedAlways`. One lemma per move of a goroutine (`GotoOK`,
`ReturnOK`, `AcquireOK`, ...) says what it does to the scheduler; `PullIsAJob` says
that whatever step a pull takes, it is one of these moves. `Acquire` alone adds a
holder. After `Stop` has stopped cron nothing is fired, so the empty set that
`StopReturns` has seen stays empty.

The second part of `PipelineProofs` is about the payload of the same `PullOnce`,
`Collect`, instantiated as `C`. `EscapesAreUndone`: whatever a host printed, each line
of a push reads back with the tags it was made of, and two samples that read back the
same are the same: a name with a comma, a blank or an equals sign neither breaks a
line nor merges two series (`escapeTag`). `PagesShowTheNewestAlways`: for any number
of overlapping pulls, and pushes that fail before or after VM took them, the pages
show the newest capture that was pushed, if every push carried what the host had,
with the exceptions `PushedIsWhatWasRead` names (a site of an overlooked bench
shows as down, in the newest capture as in every other).
`PayloadInv` says that the database is the union of what the accepted captures stand
for (`DbIsAccepted`); the work is to show of each page that the filters of its queries
select exactly the samples of the newest one (`ListShows`, `BenchShows`,
`SiteShows`). The hypothesis `[]PushedIsWhatWasRead` is the other property of the run
`Collect`, so it holds of the states the run visits.

`InventoryProofs`. `TypeCorrect`, `KeysAndParentsAlways`, `SettingsStayAlways`,
`RefreshFindsACaptureAlways`, `PayloadStaysAlways`, `AlertRowKeepsItsPastAlways`.
First what each statement of `EntTables` does to any table: it keeps the columns,
the unique keys and the parents (`TableOK`), or leaves the table alone. `IInv` then
has `TablesOK`, the ids given out (`IdsOK`), that what a goroutine has in hand
between two statements is of a server that was created and, once it stored a
capture, that a payload is there (`TasksOK`), that rows and answers agree on the
settings (`SettingsOK`), and the times of an alert row (`AlertsOK`). The hard step is
a write or delete of one goroutine against what another one holds: nothing a
goroutine has learnt and still relies on is taken back, because a snapshot row
only goes with its server, a server with a snapshot cannot be deleted, and a
status write carries no settings.

`LogPullProofs`. `CursorCoversEver`, `RepeatsHaveAReasonEver`. What a call computes
for one file is a lemma of its own: the new cursor covers what it counts
(`CountedCovers`), and is sound if the file did not grow in between
(`CountedSound`). `CoverInv` extends `CursorCovers` to the cursors a call has in
hand, with the bytes it has not pushed yet: the push makes them Loki's before the
first row is written. For repeats, `FreshInv` says of every file without an excuse
that there is one call at most, that what this call has read is not in Loki, and
that the row (or the cursor about to replace it) is past every byte Loki has of
the file as it is now, and not past its end (`Sound`); a rotation keeps that
because the new file has no bytes anywhere. `DoneInv` says that a call has at
most one cursor in hand per file.

TLC checked the inductive invariants on the instances of the runs (all but the
quantifiers over all numbers, which it takes over the instance's), TLAPS then
checks initial state, one step per action, and the temporal conclusion by PTL.

Only model-checked: all liveness (out of the prover's reach, as is ENABLED),
which is `EventuallyStored`, `EventuallyInLoki`, `PersistentAlertIsTold`,
`AbsentAlertIsCleared`, `BrokenIsDropped`, `RemovedIsNotTailed`, `FiredJobsEnd`,
`UpIsReported` and `DownIsReported`; and `PushedIsWhatWasRead` of `Collect`, which
compares the text of a script's output, its tokens and the samples made of them:
it follows by computing parser and printer, which are folds over sequences, and
needs an induction over data.
No module declares a RECURSIVE operator, and no theorem rests on induction over data.

## Not modelled

* Authentication, the metric and log proxies, the alert listing, the dashboard:
  a comparison, a forwarded request, a listing, a client of the API.
* The part of `ent` the store does not call: predicates, ordering, grouping,
  bulk builders, hooks, transactions, edges loaded eagerly.
* File rotation under the streamer and its line parser (` ##E=` escapes, CRLF,
  lines of more than 1 MiB); the wire format counts one LF per line.
* How the collect script measures a value, and the lines inside the bytes that
  `LogPull` counts.
* A PATCH of the hostname under a running session, which keeps the target of
  its launch.
* The length of backoffs and timeouts; the cost of a synchronous flush per line
  during a Loki outage.
* HTTP and JSON of the clients, gauges the sink sends to VM, message rendering,
  logging.

## Plan

1. Done: the models `LokiSink`, `LogDelivery` with `AtLeastOnce`,
   `AlertEvaluator`, `SshPool`, `Scheduler` with `Pipeline`, `ServerLifecycle` over
   `Config`, `Inventory` over `EntTables`, `Collect` over `BenchOutput`, `LogPull`.
   Theorems for every safety property of the runs except `PushedIsWhatWasRead`, and
   for the refinements of `AtLeastOnce` and `Paging`.
2. Abstract specifications: a connection cell implemented by `SshPool`; an atomic
   store (each upsert one step) implemented by `Inventory`.
3. Lemmas about `BenchOutput` that need no induction: what `Tokenize` yields for one
   line, and which readers an unmatched line may reach.
4. Growth of the models: rotation under the streamer; several targets in the
   pool; scheduler, sink and pool together in the shutdown of `run`.
