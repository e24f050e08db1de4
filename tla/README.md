# TLA+ models of gosu

gosu is a process supervisor. A daemon holds a *session*: a table of *jobs*
read from manifests. Each job runs its main *task* under a *worker*. Launch and
drop *triggers* (named events, boot, always) start and stop jobs. Clustered
tasks put their processes behind an in-process reverse-proxy *load balancer*.
This directory holds TLA+ models of the concurrent parts of that code. Each
module is checked with TLC.

## The system and how its parts interact

| Part | Source | What it does |
|---|---|---|
| mustWorker | `src/pkg/task/work_must.go`, `status.go`, `util/ok.go` | One attempt of a task. It has a cancellation context and goroutines for the start timeout, the memory limit and the `AfterFunc` stop callback. `Stop()` closes `Stopping()` and waits up to StopTimeout. `Kill()` cancels. `Status()` is derived from the context cause, else from the status field. |
| retryWorker | `src/pkg/task/work_retry.go`, `util/rate.go` | A loop that creates one mustWorker per attempt. `tryRetry` rate-limits with a 64-bit word `(tick, counter)` updated by CAS. `Stop`/`Kill` first store a dead tick (`disableRetries`), then stop the attempt they load. |
| options | `task/options.go`, `util/rate.go`, `size.go`, `duration.go` | Task options of a manifest. `WithDefaults` clamps them when a worker is made. They are stored in the jobs collection as JSON and read back on revival. |
| pipelines | `task_pipe.go`, `task_pipe_mode.go` | Ordered, parallel, race and any composition of subtasks, each run as a child worker. |
| process runner | `task_run.go` | Starts the process. It sends SIGINT when the worker is `Stopping()` and is killed by `CommandContext` when the worker is cancelled. With a proxy, the runner waits until the process answers `lifecheck`, adds it as an upstream of the load balancer, and removes it when the attempt's `Stopping()` closes. With N > 1, `TaskRun.Launch` runs N instances, each as a child retry worker, under one pipe scope. |
| job | `src/pkg/job/job.go` | A mutex-protected current worker with Start, Stop, Restart, Kill and Join. `Ready` registers the triggers. |
| triggers, events | `src/pkg/job/trigger*.go`, `events/event.go` | Named events with async and buffered subscriptions. |
| whiteboard | `task/whiteboard.go`, `work_base.go`, `session/service_whiteboard.go` | A `*sync.Map` and a dot-prefix per worker. Tasks such as fetch set results on it. The whiteboard RPC reads and writes the board stored in `Job.Whiteboard`. |
| session | `src/pkg/session/*.go` | The job table with Insert, Update and Delete, revival from the database, and the RPC services. |
| logging | `src/pkg/clog/*.go`, `session/stream_log.go` | A `Writer` per task output (stdout, stderr) that splits what a process writes into lines, prefixes each buffered line and flushes it to the log file and to the registered hooks. The logs RPC tails the file and then follows it through a hook. |
| settings | `src/pkg/settings/settings.go`, `rpc.go` | One JSON file per settings domain under the home directory, shared by the daemon and every CLI process. In each process, `Get` returns the cached `c.last`, or under `c.mu` reads the file, and if that fails saves the defaults. The `rpc` domain's defaults draw a random Secret and Seed at package init. |
| client | `src/pkg/client/main.go`, `session/lock.go`, `cmd/gosu/app.go` | Every `gosu` command is a CLI process. Its first RPC call runs `getClient`: `Running()` takes and at once releases the lockfile `<home>/.lock`. If it got it, the CLI starts `gosu daemon` and pings it up to 50 times. `gosu daemon` runs the session only if `TryAcquire` gets the lock, and otherwise exits. |
| load balancer | `src/pkg/revproxy/*.go` | Upstream set, sticky sessions, least-connection, random or hash selection, and retries through the proxy error handler. |

RPC transport, the CLI's commands and views, log file rotation, manifest
decoding and the foreign-language wrappers are I/O or parsing. They are not
modelled; see "Not modelled" below and PROJECT.json "components".

## Modules

### MustWorker.tla (`work_must.go`)

**State.** One variable per piece of worker state:
- `cause` is the context cause, written `"live"` while not cancelled. `"ok"` stands for `ErrOk`, the nil cause.
- `status` is the status field.
- `stopUsed` is `stopChannelUsed`.
- `afterRan` records that the `AfterFunc` callback has run.
- `pc` is Run's position: before launch, in launch, the first select, the second select, or returned.
- `startTimer` and `memWatch` are the timer goroutines.
- `exit` is the value the task sent on `exitReason`.
- `ret` is Run's return value.
- `stopper` is a `Stop()` caller.
- `parent` is the parent context.

**Actions.** Every select arm of `Run()` is one action. Go chooses at random among ready arms, so any ready arm may fire. Durations are abstract: an armed timer can fire at any time.

Errors are a small set of names:
- `"err"` is a plain error;
- `"nonRetriable"` wraps `ErrNonRetriable`;
- the others are the Status values used as errors.

The rewrapping of Run (`"%w: quit too early"`, and wrapping a non-Errored status in Errored) is `EarlyExitErr` and `ExitErr`. `Options.WithDefaults` always makes StopTimeout positive, so `signalStop`'s immediate-cancel branch is dead code. `Stop()` runs `enforceOrCancel` inline, and that is the `StopEnforce` step.

### Worker.tla (`task/work.go`)

This is the abstract contract of `task.Worker`, as its holders see it through `Status()` and `Run()`.
- `phase` is idle, alive or dead. Alive means a status with `FlagAlive` (`status.go`). `final` is the terminal status, which never changes once set. `returned` means `Run()` has returned.
- `Begin` makes the worker alive. `End(t)` ends it with status `t`, and `RunEnds(t)` ends it and returns in one step: Run's own exit cancels the context and returns.
- `RunReturns` is Run returning from a worker that is already dead. It is weakly fair, so a dead worker's Run returns.

MustWorker defines the refinement mapping `W == INSTANCE Worker WITH ...`:
- `phase` comes from `StatusView`, the value `Status()` returns, through `AbstractPhase`;
- `final` is that status once it is terminal;
- `returned` is `ret # NoRet`.

`must_safety` checks `WorkerRefined == W!Spec` as a PROPERTY. The mutant that drops Run's `Cancel` on exit makes `Status()` report the running status after Run returned, and TLC finds the refinement violated.

### RetryWorker.tla (`work_retry.go`)

The module instances MustWorker for the current attempt, with `stopper` mapped to the retry controller. It adds:
- the retry context cause `rcause`;
- `retry.status`;
- `retryState` as the record `rstate`;
- `retryCancel`;
- Run's position `rpc` and its `err`;
- `created`, which is `must.Load() != nil`;
- a controller `ctl` calling `Stop()` or `Kill()`.

Time is the counter `now`. Its rate tick is `now \div Period`, so one window of one period can straddle two ticks. `starts[t]` records how many attempts were created at step `t`; it is history for the properties and is not read by the code.

Steps:
- `Create` is the top of the loop, up to the select.
- `WaitRetryDone`, `WaitMustDone` and `WaitMustRet` are the three select arms.
- `TryCheck` is the context check and `retriable()`.
- `TryCAS` is one successful iteration of the CAS loop. A failed CAS only repeats it.
- `BackoffCancelled` and `BackoffExpired` are the backoff select.
- `Exit` is `status = Idle` plus the deferred `cancel(err)`.

`Stop` and `Kill` are split where the code can be interleaved: first `disableRetries`, then `must.Load()` and the call on the attempt loaded (`StopMust`, `StopWait`, `KillMust`).

`retryTickDead` is 0xffffffff, which is beyond TLC's integers. The MC module gives it a value above every reachable tick, which plays the same role.

### LoadBalancer.tla (`revproxy/lb.go`, `upstream.go`)

State:
- `ups` is `lb.Upstreams`.
- `life[u]` tracks whether a runner has added or removed `u`. Each attempt builds a new Upstream, so each value is added at most once and removed at most once (`task_run.go` 141-148).
- `sessions[ip]` is the sticky `ClientSession.upstream`.
- `conns[u]` is `numConnections`.
- `req[r]` is the goroutine serving request `r`: its pc, the requestContext (`retryCount`, `previous`), Next's result `us`, and the stack of upstreams whose `ServeHTTP` it is inside. The error handler re-enters `lb.ServeHTTP` from within `Upstream.ServeHTTP`, so each level holds one connection count until `Unwind`.

Next is split at the points where other goroutines can interleave:
- `Sticky`: the session load and the CAS to nil;
- `Select`: the selection under the read lock;
- `Install`: the deferred sticky install, which runs after `RUnlock`.

`MinByConn` is `lo.MinBy` as a left fold. `Probe` is the cyclic probing of the random and hash methods. `Sticky` and `Method` are chosen in Init, so one run covers every method with and without sticky sessions.

### Pipeline.tla (`task_pipe.go`, `task_pipe_mode.go`)

This module models `Pipe.Launch`. One loop goroutine walks the subtasks, runs `serialize` and `wg.Wait` in ordered mode, and checks `pipe.Err()` again after the wait. It starts one goroutine per subtask. That goroutine's select starts the child worker and then takes either `pipe.Done()` (`SubAbort`) or the child's result (`SubEnd`). `SubEnd` runs `mode.end`, which may cancel, and then `left.Add(-1)`, which cancels with nil at zero. `Await` returns the cause, wrapped NonRetriable in parallel mode. `ParentCancel` is the controller's context being cancelled. The mode is chosen in Init.

### JobSession.tla (`job/job.go`, `session/session.go`, `service_job.go`, `service_event.go`)

This module composes the session table with its jobs.
- **Table and collection.** `table` is the instance that `s.Jobs` holds. `coll` is the manifest in the jobs collection.
- **Per job.** Each job has `mu`, which records the caller holding `Job.mu`, and `worker`. Workers are abstract ids with a state: none, starting, running, stopping, lost or done.
- **Workers.** The constant `RetryOn` says whether the manifest leaves `retry_disabled` unset. If it does, which is the default, `task.NewWorker` makes a retryWorker; otherwise it makes a mustWorker. `WorkerStore` is the worker's Run goroutine beginning; a retryWorker stores its first attempt there (`must.Store`). A retryWorker's `Stop` and `Kill` act on `must.Load()`. Before that Store they find nil, so the worker becomes `lost`: it runs until its task ends by itself. A mustWorker's `Kill` closes `Done()` at once. A retryWorker's `Kill` that lands makes it `stopping`, and it ends once Run has seen the cancelled attempt (`StopEffect`). A stop during a backoff whose timer also expires (the other lost Stop of `retry_stop`) is left to the RetryWorker module.
- **Callers.** Each caller runs one RPC at a time through a program counter. Every lock, unlock and unlocked read of the code is a step of its own.
- **Job actions.**
  - `Start` is `startLocked`.
  - `Stop1` and `Stop2` are `stopLocked`. `Stop1` sends `w.Stop()` under the lock. `Stop2` waits for `Done()` and unlocks.
  - `Kill` is `Kill`: `w.Kill()` and `s.worker = nil` under the lock.
  - `Join1`–`Join3` are `Join`, including its unlocked read of `s.worker`.
- **Session actions.**
  - `Swap` and `ReadyJob` are `Update`/`Launch`: store the new job, run `Ready`, subscribe its launch trigger, and stop the old job.
  - `Del1` and `Del2` are `Delete`.
  - `ReviveReady` is the goroutine that `Revive` starts to call `Ready`.
- **Triggers.** `Listen` is what `Ready` does with the job's launch trigger, whose kinds are the constant `LaunchKinds[j]`:
  - for `on`, it subscribes, and a signal then makes one `startOrJoin` goroutine (`Callback`) per subscription;
  - for `boot`, it starts one `startOrJoin` goroutine;
  - for `always` and `every`, it starts the loop of `TriggerAlways.Listen` or `TriggerEvery.Listen`. `AlwaysStart` is `j.Start()` under the job mutex, and `AlwaysWait` is the select on the worker's `Done()`. Then the loop begins again. The `every` loop first sleeps its duration, which the model leaves abstract. Both loops check a `done` flag that only the remove func sets, and that runs only when `j.Context` ends. So in the model the two loops behave the same.

### Events.tla (`job/trigger_event.go`)

This module models one named event with async, once and buffered subscriptions.
- **Signals.** `Emit` is `Signal(name)`. It starts one `go sub.Signal()` per subscriber (`pend`).
- **Async subscriptions.** `AsyncSignal` and `AsyncFn` are the async goroutines.
- **Buffered subscriptions.**
  - `BufferedSignal`, `DrainFn` and `DrainDec` model the atomic queue and the drain loop. `ListenBuffered` has no caller in the repository, so no caller reaches this part today; no run or hazard rests on it.
  - The queue is an `atomic.Int32` reduced to `QueueBits` bits. The arithmetic wraps exactly as the 32-bit code does.
- **Listen.** `ListenStore` is `namedEvent.Listen`'s `subscribers.Store`; from then on a signal reaches the subscription. `ListenReturn` is `TriggerOnce.Listen` returning, which is when its named result `remove` is assigned. The once closure calls `remove()`; if `AsyncFn` runs before `ListenReturn`, it calls a nil func, which the model records in `nilCall`.
- **Remove.** `Remove` is the returned remove func. It swaps in the sentinel `-2^(w-1)`. It never deletes the subscription, because `Listen` never calls `Add` and so `sub.event` is nil.

### Cluster.tla (`task_run.go`, with `work_must.go`, `work_retry.go`, `revproxy/lb.go`)

This module models `TaskRun.Launch` with a proxy and N > 1.
- **Controller.** The task's own mustWorker is the controller: `ctrl` is its context cause and `cstop` its `Stopping()`.
  - `CtrlStop` and `CtrlTimeout` are `Stop()` and the StopTimeout's cancel.
  - `RunDone` and `RunResult` are the two arms of `mustWorker.Run`'s select. Both may be ready at once.
- **Proxy.** `ListenEnd` is the Listen goroutine. `lb.Listen()` returns after `lb.Close()`, or fails while the server is open. If the controller is still live, it is killed.
- **Cluster goroutine.** `LoopSpawn`, `LoopEnd` and `Await` are its loop, `<-pipe.Done()` and the deferred `lb.Close()`.
- **Instances.** `SubLaunch`, `SubResult` and `SubAbort` are the instance goroutine's `pipe.launch` and its two select arms.
  - `ChildStop` is `mustWorker.Launch`'s `<-work.Stopping(); w.Stop()`.
  - `AttemptEnd` is the end of one attempt (`mustWorker.Run`, whose cancel closes `Stopping()` through the AfterFunc) and `retryWorker.Run`'s `tryRetry`.
- **Process runner.** `Start`, `Probe`, `ProcExit` and `ProcStopped` are `processRunner.Launch`: start, one round of the lifecheck wait loop, the process's own exit, and SIGINT or the `CommandContext` kill.
  - `RemoveUp` is the goroutine that calls `RemoveUpstream` on `Stopping()`.
  - The wait loop reads `done`, which the `cmd.Wait` goroutine writes, without synchronisation. `done` only goes from false to true, so a racy read can only be late, and a late read is one more round of `Probe`, which stuttering covers.
- **Abstraction.** The rate limit and backoff of a retry are a nondeterministic refusal. The StopTimeout may fire at any time after a stop. A `disableRetries` is read from the current attempt's closed `Stopping()`. While the cluster scope is live, only the child's `Stop` closes it.

### Whiteboard.tla (`task/whiteboard.go`, `work_base.go`, `service_whiteboard.go`)

This module models the whiteboard of one job whose main task is a pipe of fetch subtasks.
- **Operators.** `Get`, `Set`, `Fork` and `FromContext` are the Whiteboard methods. A key is the sequence of its dot-separated components, so `prefix + key` is concatenation. Map 0 is the nil map of a zero Whiteboard.
- **Worker boards.** `WorkerBoard` is `newWorkerBase`: the context's whiteboard forked by the task's label. No code calls `Whiteboard.WithContext`, so `FromContext` always allocates a new map.
- **Actions.** `StartWorker` and `StopWorker` are `Job.startLocked` and `stopLocked`. `LaunchChild` is the pipe's `mustWorker.Launch` of a subtask. `ChildSet` is the fetch task's `Set`. `RpcPut` is `WhiteboardService.Put`.

### Options.tla (`task/options.go`, `util/rate.go`, `size.go`, `duration.go`, `session/db.go`)

This module models the task options of one manifest and follows them from submission to a restarted worker.
- **Operators.** The value types are operators:
  - `Rescale`, `ClampPeriod` and `Clamp` of `TimerRate`;
  - `ParsableSize.String`;
  - the JSON encoding and decoding of rates, sizes and durations;
  - `Options.WithDefaults`.
- **Launch.** `Launch` is `JobService.Launch` with `UpdateJob`'s `JobCollection.Replace`, which encodes the options.
- **ReviveJobs.** `ReviveJobs` is `reviveJobs` over `Collection.Range`. A value that fails to decode is skipped.
- **NewWorker.** `NewWorker` is `task.NewWorker` applying `WithDefaults`.
- **State.** Init ranges over every option record built from small sets. Durations are in ms and sizes in bytes. The sets include a non-positive duration, values inside the clamps and values beyond them.

### Logging.tla (`clog/writer.go`, `clog.go`, `reader.go`, `session/stream_log.go`)

This module models task output going through a `clog.Writer` into the log file and out to a client of the logs RPC.
- **Sources.** A source is a process output pipe. `Output[s]` is the sequence of its `Write` calls, each a sequence of line segments. A segment's `end` tells whether it ends with a newline. `SourceStep(s)` is one step of `Writer.Write`.
  - `WriteSeg` is one `forEachLine` segment appended under `f.mu`. The prefix goes first when the buffer is empty. A segment that ends a line produces the line (`result`) and starts a flush.
  - The flush runs under `f.mu`. `FlushHooks` is `hooks.Range`: it does a non-blocking send to each hooked client's channel and drops the line when the channel is full. `FlushFile` writes the line to the file, or nothing once the file is closed.
- **Close.** `Close` is `Logger.Close` closing the file.
- **Logs handler.** Each client runs `LogsHandler`:
  - `Request` chooses the tail count `t`.
  - `Reject` is a failed upgrade.
  - `TailStep` is `Tail`. A negative `t` panics in `make`. Otherwise the handler sends the newest `t` lines of the file and records how far the file reached.
  - `Register` is `RegisterHook`.
  - `Receive` and `Disconnect` are the loop: a write to the websocket, or an error ending the loop.
  - `Return` is the deferred `RemoveHook`.
- **State.** A line is a model value, and the channel is a sequence bounded by `ChanCap`.

### LoggingFork.tla (`clog/clog.go` Close and WithContext, `clog/writer.go` Flush)

This module reads Logging's Writer as the Writer of a subtask's forked logger. `newWorkerBase` forks the logger for every label but the namespace, and `WithContext` registers `AfterFunc(ctx, logger.Close)` on the parent's context.
- `ParentDone` is that context ending.
- `CloseString`, `CloseReset`, `CloseHooks` and `CloseFile` are the steps of `Close`'s `Writer.Flush`. Close holds `logger.mu`, not the Writer's `f.mu`, so the sources' `WriteSeg` and flushes interleave with every step.
- The fork opened no handle, so Close closes nothing.

`MCLoggingFork.cfg` checks Logging's `InOrder` under `ForkSpec`, with MCLogging's outputs.

### Settings.tla (`settings/settings.go`)

- **State.** `file` is Absent, Corrupt, or the token of the process incarnation whose defaults it holds. Each start of a process draws fresh defaults (`fastRandom`), so a token stands for a Secret and Seed. Per process there are `def` (its defaults), `last` (`c.last`) and `mu` (`c.mu`). Per goroutine there are `pc` and `got`, the value its last `Get` returned.
- **Actions.**
  - `GetLoad` is the atomic load of `c.last`.
  - `GetLock` takes `c.mu` and looks at `c.last` again.
  - `Read` is `reloadLocked`'s `ReadFile` and `Unmarshal`.
  - `Write` is `saveLocked(c.defaults)`: one atomic rename, which may fail.
  - `Restart` is a process exiting at any point and starting again with new defaults.
- **Faults.** The constant `Faults` switches on a failed read of a present file, or a failed write.
- **Not modelled.** `Save` and `Reload` have no caller in the repository, so they are not modelled.
- **Checks.**
  - `MCSettings.cfg` has two processes with two goroutines each and three starts, and no faults: about 23k distinct states. `StableGet` holds: every Get in one run of a process returns the same settings. The mutant without the re-check under `c.mu` breaks it. `GetReturns` also holds. With `Faults = {"read"}`, `StableGet` still holds. With `{"write"}` it does not: a failed save leaves `c.last` nil, so the next Get reads the file again and can find another process's defaults there.
  - `MCSettings_File.cfg` checks `LastMatchesFile`, which TLC finds violated (see below).

### DaemonStart.tla (`client/main.go` getClient, `session/lock.go`, `cmd/gosu/app.go`)

This module models how CLI processes find or start the daemon.
- **State.** `lock` is the PID in `<home>/.lock`, as the process that wrote it, or `NoHolder`. `cli[c]` is where CLI process `c` is in `getClient` and `Call`, `pings[c]` counts its failed pings, `dmn[c]` is the daemon that `c` started, and `res[c]` is the outcome of its call.
- **CLI.** `Probe` and `Unlock` are `Running()`: `TryLock`, and on success `Unlock` and return false. A busy lock means "running", and the CLI goes straight to `Call`. `Spawn` is `exec.Command(self, "daemon").Start()`. `Ping` is one round of the 50-round loop. `Call` is refused unless a daemon listens.
- **Daemon.** `Acquire` is `main`'s `TryAcquire`. On failure, `client.Run("daemon")` logs an unknown command and exits. `Listen` is `server()`: `session.Open` up to `ListenAll`.
- **Lockfile.** `LockFree` is `TryLock` succeeding: no file, or its PID belongs to a process that has exited. The daemon never unlocks, so its lock goes stale when it exits.

## Runs

| Run | Checks | Result |
|---|---|---|
| must_safety | `TypeOK`; `WorkerRefined`: mustWorker implements the abstract `Worker` (`Status()` goes Idle → alive → a terminal status that never changes; `Run()` returns only once dead, and a dead worker's `Run()` returns); `StopTerminates`: a `Stop()` call always ends the attempt (no exec timeout) | pass |
| retry_budget | `TypeOK`; `RetryBudget`: at most Count+1 attempts per rate tick, with Stop and Kill racing the CAS loop | pass |
| retry_stop | `StopTerminates`: `Stop()` ends the retry worker | **violation**: a Stop before Run's first Store, or during a backoff that still expires, is lost |
| lb_requests | `TypeOK`; `RetryAvoidsFailed`: a retry never goes to the upstream that just failed unless it was the only one; `RequestsComplete`: every request is answered | pass |
| pipe_modes | `TypeOK`; `OrderedSequential`: in ordered mode a subtask starts only after every earlier one ended; `OrderedNoStartAfterFailure`: no later subtask starts after a failure; `PipeReturns`: once the scope is cancelled, Launch returns | pass |
| options_revival | `RevivalRoundTrip` (spec invariant 7): a launched job comes back after a restart with the options it was launched with | **violation**: a manifest with `max_memory` fails to decode and `Collection.Range` skips it |
| job_lifecycle | For a job whose manifest sets `retry_disabled` (`RetryOn = FALSE`): `TypeOK`; `OneLiveWorker` (spec 4.7): at most one live worker per job; `CallsReturn`: every RPC returns, so none waits forever on `Job.mu` or `Done()`. With the default manifest both are violated (see below) | pass |
| jobs_always | `AlwaysRestarts` (spec 4.6): a job launched with `always` or `every` whose worker ended by itself is started again | **violation**: `startLocked` returns the finished worker, so the loop spins on its closed `Done()` and never starts the job |
| events_once | `OnceDeliversOnce` (spec invariant 8) | **violation**: the remove func is a no-op, so a once trigger fires on every signal |
| cluster_live | `TypeOK`; `UpstreamTracked`: every upstream belongs to the running attempt of a child, or its attempt's `Stopping()` has closed; `ClusterReturns`: once every instance's child worker has returned, the cluster goroutine returns; `UpstreamsRemoved`: an upstream whose process exited is eventually taken out of the load balancer | pass |
| logging_stream | `TypeOK`; `NoDuplicate`: a client never receives a line twice, across the tail and the hook; `InOrder`: a client receives lines in the order of the file, across the tail and the hook, because each flush runs its hooks and its file write under the Writer's mutex; `OutputDrains`: every source's output is eventually written and flushed | pass |
| cluster_status | `StatusKept`: unless stopped or killed from outside, the controller returns what the cluster returned | **violation**: the deferred `lb.Close()` ends Listen, whose goroutine kills the still-live controller, so Run returns Cancelled (retriable) instead of NonRetriable or nil |

PROJECT.json "findings" states what each violation shows about the code.

The modules define further properties that TLC finds violated but that have no run of their own. The project keeps at most one run per question.
- `JobSession!OneLiveWorker` with `RetryOn = TRUE` (`MCJobSession_Retry.cfg`), the default manifest. A Start, then a Kill before the worker's Run has stored its first attempt: the Kill finds `must.Load()` nil and is lost, and `s.worker = nil` lets the `always` loop, or any Start, create a second worker beside the one still running. Spec 4.7 says a job has exactly one live worker.
- `JobSession!CallsReturn` with `RetryOn = TRUE` (`MCJobSession_RetryCalls.cfg`). A Stop in the same window is lost, and `stopLocked` waits on `<-w.Done()` holding `j.mu` until the task exits by itself, which a service never does. Every later Start, Stop, Kill or Status of the job blocks.
- `RetryWorker!RetryStatusStable`: after Kill, `Status()` goes from Cancelled back to Idle when Run copies `work.status`.
- `Pipeline!ErrorsNonRetriable`: race and any errors are not wrapped NonRetriable, although spec 4.4 says they are.
- `JobSession!JoinNoNilWorker` (`MCJobSession_Join.cfg`, three callers): Join's unlocked read of `s.worker` can see nil after a concurrent Stop.
- `JobSession!StartAfterReady`: a Start of a revived job before its `Ready` goroutine ran uses a nil `j.Context`.
- `JobSession!CollectionMatches`: concurrent Update/Delete leave the collection and `s.Jobs` disagreeing.
- `JobSession!DetachedJobIdle` (`MCJobSession_DetachedJobIdle.cfg`): a job removed by Update/Delete should not run again. A Start that read the old job from `s.Jobs` before the swap starts it after its Stop returned. Its launch trigger also stays subscribed.
- `Settings!LastMatchesFile` (`MCSettings_File.cfg`): the settings a running process has loaded should be the ones in the file. `c.mu` is per process. So the daemon and a CLI process that both start before the file exists each find no file, each save their own random Secret, and each cache it. The later rename wins, and the other process keeps a secret the file no longer has. Local CLI calls skip the secret, but remote clients configured from the file are refused until the daemon restarts.
- `LoggingFork!InOrder` (`MCLoggingFork.cfg`): when a subtask's parent context ends, `Close` flushes the fork's Writer without `f.mu`. It takes a partial line, and a source's whole line reaches the hooks and the file while Close is between its steps. So the client receives the lines in another order than the file has them. A segment appended between Close's `String` and `Reset` is also lost.
- `Whiteboard!PutVisible` holds under `MCWhiteboard.cfg`: what `whiteboard.put` wrote is what both the RPC and the main task read, across restarts.
- `MustWorker!NoRunningAfterStopping` (spec 8.1, `MCMustWorker_Stopping.cfg`): Stop sets Stopping, then Run's MinUptime arm sets Running over it.
- `Options!RetryLimitKept` (spec 3, `MCOptions_RetryLimit.cfg`): a retry limit already within `[0, 10/30s]` should be kept by `WithDefaults`. `Rescale` divides the wrong way, so 5/1h becomes 0/1h and no retry is ever allowed.
- `Whiteboard!SubtaskVisible` (`MCWhiteboard_Subtask.cfg`): spec says the whiteboard is rooted per job and forked per child by dot-prefix. Every worker allocates its own map instead, because no code calls `Whiteboard.WithContext`.
- `Logging!FollowsAll` (`MCLogging_Follow.cfg`): a client that follows the log and has drained its channel has received every line written to the file after its tail. A line flushed between `Tail`'s snapshot and `RegisterHook` is in neither.
- `Events!RemoveAssignedBeforeCall` (`MCEvents_Nil.cfg`): a once trigger's callback should find `remove` assigned. In four steps (ListenStore, Emit, AsyncSignal, AsyncFn) a signal that arrives between `subscribers.Store` and `Listen`'s return calls the nil `remove`. The panic is in a goroutine, so it ends the daemon.
- `DaemonStart!RefusedOnlyAfterRetry` (`MCDaemonStart_Retry.cfg`): the spec says a connection error spawns the daemon and retries the ping up to 50 times. The code spawns and pings only when `Running()` got the lock. A CLI that probes while another CLI holds the lock for its probe, or while a spawned daemon is still opening the session, calls at once and is refused. TLC finds it in three steps.
- `DaemonStart!SingleDaemon` and `DaemonEventuallyServes` hold under `MCDaemonStart.cfg` (about 18k distinct states). At most one daemon opens the session, and once a CLI has started, a daemon eventually serves. The mutant `AcquireIgnored` (TryAcquire ignores TryLock's error) breaks the first, and `UnlockKept` (Running() does not unlock) breaks the second.
- `Events!SingleDrainer`, `SignalsServed` and `QueueReturnsToZero` hold under `MCEvents.cfg`. They have no run because `ListenBuffered` has no caller in the repository.

- `RetryWorker!SlidingWindowBudget` is spec invariant 2's "any window" bound, checked with `MCRetryWorker_Window.cfg`. A burst that straddles a tick boundary gets 2(Count+1) attempts. The code counts per tick, as spec section 2 describes.
- `LoadBalancer!StickyMember` says a sticky upstream is always a member of the upstreams. It is checked with `MCLoadBalancer_Sticky.cfg`, and there are two causes. `RemoveUpstream` compares the session's `*ClientSession` with the `*Upstream`, so it never purges a session. The deferred install runs after `RUnlock`, so it can store an upstream that was removed after selection.

To reproduce one without a cfg of its own, add a cfg with that property as the only INVARIANT. PROJECT.json "hazards" records each of them.

**Bounds.**
- MustWorker has a single attempt and all four task results. The timers are switched on or off per run. Its runs explore 7–9k distinct states.
- RetryWorker runs use Count = 1, Period = 2 and MaxTime = 3 (two ticks). Task results are `ok`, `err` and `nonRetriable`. A task result `cancelled` behaves like `err` after Run's rewrapping.
- These bounds are enough to fill one tick's budget, cross a tick boundary, and interleave Stop/Kill with every step of the loop. The pass run has about a million distinct states.
- The start-timeout and memory goroutines are switched off in the retry runs. They only add further ways for an attempt to end, and they are covered by the MustWorker runs.

- LoadBalancer has two requests from one client IP, so they share a sticky session. There are two upstreams that can each be added and removed, and RetryMax = 2. That is enough for a retry chain, a 502, and another request rewriting the session in the middle of a retry. A third upstream gives the same verdicts at ten times the states.

- Pipeline has N = 3 subtasks, all four modes, child results `ok`/`err`, and parent causes `ok`/`cancelled`. Three subtasks are enough for a failure in the middle, with one subtask before it and one after.
- JobSession has two job instances (the initial one and the one an Update or Launch makes). The first has the launch kinds `on` and `always`, and the second has `boot` and `every`. There are two RPC callers, six worker ids (reused once they are unreferenced) and one signal. The trigger loop is a third actor that takes the job mutex, so the pass run (about 138k distinct states) still has a Stop holding the lock while a Start and the loop wait. `MCJobSession_Join.cfg` uses three callers and only `on`.
- Cluster has N = 2 instances, and `cluster_live` and `cluster_status` give each instance one attempt: about 100k distinct states. Two instances are enough for one to fail or be cancelled while the other is starting, probing or serving. `MCCluster_Retry.cfg` lets the first instance be retried once and checks `UpstreamTracked` again, so an attempt's upstream outlives its attempt (about 400k states, and it holds). It has no run of its own, because with the fairness check a retry quadruples the states.
- Whiteboard has one key, two values, two subtasks and four maps. That is enough for a restart and both subtasks to allocate their maps.
- Logging has two sources (three lines, one written in two segments), one client, ChanCap = 1 and tail counts −1 and 1. A channel of one is enough for a drop; the code's 128 only changes how many lines that takes.
- DaemonStart has three CLI processes and MaxPings = 2. Three are enough for one CLI to hold the lock for its probe while a second probes and a third's daemon loses TryAcquire. The ping count only decides when a CLI gives up.
- Events has one buffered and one once subscription, three signals, and a 3-bit queue. Three signals are enough to coalesce two signals while a callback runs.

- The Options cfgs pick values on both sides of each threshold:
  - counts 0, 5, 10 and 20;
  - periods 0, 10 s, 30 s and 1 h;
  - sizes 0 and 2 KiB;
  - durations −1, 0, 1 s and 60 s.
  The model is sequential, so these cover every branch of `WithDefaults` and of the encoders.

**Fairness.** The code justifies the following:
- Runnable goroutines run: the worker's Run, the retry loop, and a `Stop()`/`Kill()` caller already inside the call. These are WF.
- Armed timers fire: start timeout, StopTimeout, MinUptime and backoff.
- A process whose context is cancelled is killed, by `exec.CommandContext`.

- In JobSession, a caller inside an RPC proceeds. Trigger goroutines run, and so does the `always` loop (WF on `AlwaysStart` and `AlwaysWait`: the loop goroutine runs and its sleep ends). A worker's Run goroutine begins (`WorkerStore`). A worker whose Stop or Kill landed (`stopping`) ends, which MustWorker's StopTerminates shows. A `lost` worker ends only when its task exits by itself, which is not assumed.
- In Pipeline, a child whose scope is cancelled ends. In Events, started goroutines run.
- In Cluster, the controller's Run, the cluster and instance goroutines, a child's attempts and the remove goroutines run. StopTimeout fires. Listen returns once the server is closed. A process that was signalled or whose context ended exits, because the StopTimeout's cancel reaches `CommandContext`. A process's own exit and its starting to serve are not assumed. WF on the wait loop assumes that its racy read of `done` eventually sees the exit, which the Go memory model does not promise; no property is checked about that read.
- In Logging, a source's Write finishes, and the handler registers its hook and returns once its loop has ended. The websocket writes and the client's disconnect are not assumed.
- In the load balancer, a request goroutine runs and the proxy call returns, with success or an error. The upstream process answers or is killed, which closes the IPC connection.

- In DaemonStart, every CLI and daemon process runs: they are separate OS processes. A daemon's `session.Open` is assumed to succeed.
- In Settings, a goroutine inside `Get` proceeds. Calls and restarts are not assumed.

No fairness is assumed for:
- a task exiting by itself;
- the memory limit;
- the passing of time;
- calls of Stop/Kill;
- parent cancellation.

## Not modelled

- `events/event.go`, the generic On/Emit bus, has no users in the repository.
- `Session.InsertJob` has no caller. `Save` and `Reload` of settings have no caller.
- The RPC transport (`surpc`). `Client.Call` falls back to its WebSocket only when `err != nil && ws != nil`, and `ws` is never set on that path, so the reconnect of spec 7.5 is dead code. The server's `Authorize` compares the 8-character secret prefix; it is a pure function.
- `Logger.Close` with the `merge` option closes the stdout handle before it flushes the stderr writer that shares the file. It runs only through `WithContext`'s `AfterFunc` on `j.Context`, which never ends because nothing calls `j.Cancel`. For the same reason, the log files of a replaced job are never closed.
- The CLI's command table, argument decoding and terminal views are I/O and formatting. A daemon whose `session.Open` fails (database or listen error) exits, and its lock goes stale; DaemonStart does not model that failure.
- The lockfile library is modelled as an atomic test-and-set with stale-PID takeover; its own implementation is not in the repository.

## Plan

The order is the order of importance of the behaviour.

1. MustWorker, RetryWorker, LoadBalancer, Pipeline, JobSession, Events, Options, Cluster, Whiteboard and Logging: done.
2. The abstract Worker specification is done, and MustWorker refines it. Next, RetryWorker's refinement: its Status() after Kill goes back to Idle (RetryStatusStable), so the mapping must follow the attempt's status.
3. The process runner's N <= 1 path and the StartTimeout that bounds the lifecheck wait. Cluster composed with LoadBalancer's request handling, so that requests meet upstreams being removed.
4. JobSession:
   - the boot, on, always and every launch triggers are done;
   - the drop trigger;
   - session revival from the database.
5. `events/event.go` is not modelled, because nothing uses it.
6. Logging: the fork's `Close` race is modelled (LoggingFork). `Logger.Flush` is the same unlocked flush, but it has no caller in the repository.
