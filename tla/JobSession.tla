----------------------------- MODULE JobSession -----------------------------
(***************************************************************************)
(* One job id of the session (src/pkg/session/session.go) with the Job     *)
(* instances that carry it (src/pkg/job/job.go), the RPC handlers of       *)
(* service_job.go that act on it, and its launch triggers: "on <event>"   *)
(* (trigger_event.go), "boot", "always" and "every" (trigger_boot.go,     *)
(* trigger_always.go, trigger_time.go), or a list of them ("any").         *)
(*                                                                         *)
(* Every RPC handler runs on its own goroutine: a Caller.  A handler that  *)
(* acts on matching jobs reads the job from the session map (ForEachJob's  *)
(* Range) and calls the Job method afterwards, so it may act on an         *)
(* instance that has been replaced meanwhile.  A Job method holds Job.mu   *)
(* for its whole body; only stopLocked blocks inside it (<-w.Done()), so   *)
(* Start and Kill are single steps and Stop is two.                        *)
(*                                                                         *)
(* A worker is abstract: starting, running, stopping (Stop or Kill will   *)
(* end it), lost (a Stop or Kill it never acts on) or done (Done() is     *)
(* closed).  Its own behaviour is the MustWorker and RetryWorker modules.  *)
(* A retryWorker's Stop and Kill act on retry.must.Load(); before Run's    *)
(* first must.Store they find nil and only disable retries, so the first  *)
(* attempt runs until its task ends by itself (work_retry.go:45-56).      *)
(* Its Kill cancels the attempt, and the worker ends only after Run has   *)
(* seen it.  A mustWorker's Kill cancels its own context: Done() at once. *)
(***************************************************************************)
EXTENDS Naturals, FiniteSets

CONSTANTS
    Insts,        \* Job instances spawned from manifests with this id
    First,        \* the instance revived from the database at Open
    Callers,      \* goroutines serving RPC calls
    Ops,          \* the RPC calls explored
    MaxWorkers,   \* worker ids; a done worker nobody refers to is reused
    MaxSignals,   \* bound on event.Signal calls
    LaunchKinds,  \* LaunchKinds[j]: the launch triggers of j's manifest
    RetryOn       \* the manifest leaves retry_disabled unset: task.NewWorker
                  \* makes a retryWorker, else a mustWorker

ASSUME First \in Insts /\ MaxSignals \in Nat /\ RetryOn \in BOOLEAN
ASSUME \A j \in Insts : /\ LaunchKinds[j] \subseteq {"on", "boot", "always", "every"}
                        /\ ~({"always", "every"} \subseteq LaunchKinds[j])
ASSUME MaxWorkers \in Nat /\ MaxWorkers > Cardinality(Insts) + Cardinality(Callers)
ASSUME Ops \subseteq {"start", "stop", "restart", "kill", "stopall",
                      "update", "launch", "delete", "signal"}

Nil == "nil"
Workers == 1..MaxWorkers
NoWorker == 0   \* a nil task.Worker
Live == {"starting", "running", "stopping", "lost"}
WStates == {"none", "done"} \cup Live

VARIABLES
    table,     \* s.Jobs[id]
    coll,      \* s.JobCollection[id]: whose manifest is persisted
    spawned,   \* instances created by recipe.Spawn so far
    ready,     \* ready[j]: j.Ready has assigned j.Context
    subs,      \* instances subscribed to the launch event
    cbs,       \* cbs[j]: startOrJoin goroutines of j not yet run
    signals,   \* event.Signal calls so far
    mu,        \* mu[j]: the Caller holding j.mu, Nil when free
    worker,    \* worker[j]: j.worker
    wstate,    \* wstate[w]: "none", "running", "stopping", "done"
    winst,     \* winst[w]: the instance that created w
    pc, op, tgt, nj, wl,  \* per Caller: position, call, the job acted on,
               \* the job Update installs, a local worker
    detached,  \* instances whose removal (Update/Delete) has stopped them
    loop,      \* loop[j]: the "always" goroutine of j: "none", "start", "wait"
    lw         \* lw[j]: the worker that goroutine's startOrJoin waits on

vars == <<table, coll, spawned, ready, subs, cbs, signals, mu, worker,
          wstate, winst, pc, op, tgt, nj, wl, detached, loop, lw>>

\* Positions of a call that has returned, or has crashed the daemon.
Returned == {"done", "nilContext", "nilWorker"}

Pcs == {"idle", "start", "stop1", "stop2", "kill", "join1", "join2", "join3",
        "swap", "ready", "del1", "del2", "done", "nilContext", "nilWorker"}

TypeOK ==
    /\ table \in Insts \cup {Nil} /\ coll \in Insts \cup {Nil}
    /\ spawned \subseteq Insts /\ subs \subseteq Insts /\ detached \subseteq Insts
    /\ ready \in [Insts -> BOOLEAN]
    /\ cbs \in [Insts -> 0..MaxSignals + 1]
    /\ signals \in 0..MaxSignals
    /\ mu \in [Insts -> Callers \cup {Nil}]
    /\ worker \in [Insts -> Workers \cup {NoWorker}]
    /\ wstate \in [Workers -> WStates]
    /\ winst \in [Workers -> Insts \cup {Nil}]
    /\ pc \in [Callers -> Pcs] /\ op \in [Callers -> Ops \cup {Nil}]
    /\ tgt \in [Callers -> Insts \cup {Nil}] /\ nj \in [Callers -> Insts \cup {Nil}]
    /\ wl \in [Callers -> Workers \cup {NoWorker}]
    /\ loop \in [Insts -> {"none", "start", "wait"}]
    /\ lw \in [Insts -> Workers \cup {NoWorker}]

-----------------------------------------------------------------------------
(* Job (job.go)                                                            *)

\* Worker ids no goroutine refers to any more: free for a new worker.
FreeWorkers ==
    {w \in Workers : /\ wstate[w] \notin Live
                     /\ \A j \in Insts : worker[j] # w
                     /\ \A c \in Callers : wl[c] # w
                     /\ \A j \in Insts : lw[j] # w}

\* startLocked: keep the current worker, or create one from s.Context and
\* run it (task.NewWorker, go worker.Run()).
StartLocked(j) ==
    IF worker[j] # NoWorker THEN UNCHANGED <<worker, wstate, winst>>
    ELSE LET w == CHOOSE x \in FreeWorkers : \A y \in FreeWorkers : x <= y
         IN /\ worker' = [worker EXCEPT ![j] = w]
            /\ wstate' = [wstate EXCEPT ![w] = "starting"]
            /\ winst' = [winst EXCEPT ![w] = j]

\* What w.Stop() does to a worker: a retryWorker that has not stored its
\* first attempt loses it; a mustWorker, or a running retryWorker, will end.
StopEffect(st) ==
    CASE st = "starting" -> IF RetryOn THEN "lost" ELSE "stopping"
      [] st = "running"  -> "stopping"
      [] OTHER           -> st

\* A caller's next position once the call it is in returns.
After(c, next) == pc' = [pc EXCEPT ![c] = next]

\* Start: lock, startLocked, unlock.  task.NewWorker reads s.Context, nil
\* until Ready has run; clog.FromContext(nil) then panics.
Start(c) ==
    LET j == tgt[c] IN
    /\ pc[c] = "start" /\ mu[j] = Nil
    /\ IF ready[j] THEN StartLocked(j) /\ After(c, "done")
       ELSE After(c, "nilContext") /\ UNCHANGED <<worker, wstate, winst>>
    /\ UNCHANGED <<table, coll, spawned, ready, subs, cbs, signals, mu, op, tgt,
                   nj, wl, detached, loop, lw>>

\* Mutant: stopLocked's wait is done after the lock is released.
Stop1Unlocked(c) ==
    LET j == tgt[c] IN
    /\ pc[c] = "stop1" /\ mu[j] = Nil
    /\ mu' = mu
    /\ wl' = [wl EXCEPT ![c] = worker[j]]
    /\ IF worker[j] = NoWorker THEN UNCHANGED <<worker, wstate>>
       ELSE /\ worker' = [worker EXCEPT ![j] = NoWorker]
            /\ wstate' = [wstate EXCEPT ![worker[j]] = StopEffect(@)]
    /\ After(c, "stop2")
    /\ UNCHANGED <<table, coll, spawned, ready, subs, cbs, signals, winst, op,
                   tgt, nj, detached, loop, lw>>

\* Stop, Restart and the stop of UpdateJob/DeleteJob/StopAll: lock, then
\* stopLocked up to its wait: w := s.worker; s.worker = nil; w.Stop().
Stop1(c) ==
    LET j == tgt[c] IN
    /\ pc[c] = "stop1" /\ mu[j] = Nil
    /\ mu' = [mu EXCEPT ![j] = c]
    /\ wl' = [wl EXCEPT ![c] = worker[j]]
    /\ IF worker[j] = NoWorker THEN UNCHANGED <<worker, wstate>>
       ELSE /\ worker' = [worker EXCEPT ![j] = NoWorker]
            /\ wstate' = [wstate EXCEPT ![worker[j]] = StopEffect(@)]
    /\ After(c, "stop2")
    /\ UNCHANGED <<table, coll, spawned, ready, subs, cbs, signals, winst, op,
                   tgt, nj, detached, loop, lw>>

\* Mutant: the stop path returns without unlocking Job.mu.
Stop2KeepsLock(c) ==
    /\ pc[c] = "stop2"
    /\ IF wl[c] = NoWorker THEN TRUE ELSE wstate[wl[c]] = "done"
    /\ After(c, IF op[c] = "stopall" THEN "join1"
                ELSE IF op[c] \in {"update", "launch"} THEN "ready" ELSE "done")
    /\ UNCHANGED <<table, coll, spawned, ready, subs, cbs, signals, mu, worker,
                   wstate, winst, op, tgt, nj, wl, detached, loop, lw>>

\* The rest of the call once stopLocked's <-w.Done() returns, then unlock:
\* Restart runs startLocked, StopAll goes on to Join, UpdateJob to Ready.
Stop2(c) ==
    LET j == tgt[c] IN
    /\ pc[c] = "stop2"
    /\ IF wl[c] = NoWorker THEN TRUE ELSE wstate[wl[c]] = "done"
    /\ mu' = [mu EXCEPT ![j] = Nil]
    /\ CASE op[c] = "restart" ->
              IF ready[j] THEN StartLocked(j) /\ After(c, "done")
              ELSE After(c, "nilContext") /\ UNCHANGED <<worker, wstate, winst>>
         [] op[c] = "stopall" -> After(c, "join1") /\ UNCHANGED <<worker, wstate, winst>>
         [] op[c] \in {"update", "launch"} ->
              After(c, "ready") /\ UNCHANGED <<worker, wstate, winst>>
         [] OTHER -> After(c, "done") /\ UNCHANGED <<worker, wstate, winst>>
    /\ detached' = IF op[c] \in {"update", "launch", "delete"}
                   THEN detached \cup {j} ELSE detached
    /\ UNCHANGED <<table, coll, spawned, ready, subs, cbs, signals, op, tgt, nj, wl, loop, lw>>

\* Kill: lock; if s.worker != nil, w.Kill() and s.worker = nil; unlock.
\* A mustWorker's Done() closes at once; a retryWorker's Kill is lost like
\* its Stop before the first Store, and otherwise ends it later.
Kill(c) ==
    LET j == tgt[c] IN
    /\ pc[c] = "kill" /\ mu[j] = Nil
    /\ IF worker[j] = NoWorker THEN UNCHANGED <<worker, wstate>>
       ELSE /\ wstate' = [wstate EXCEPT ![worker[j]] =
                            IF RetryOn THEN StopEffect(@) ELSE "done"]
            /\ worker' = [worker EXCEPT ![j] = NoWorker]
    /\ After(c, "done")
    /\ UNCHANGED <<table, coll, spawned, ready, subs, cbs, signals, mu, winst, op,
                   tgt, nj, wl, detached, loop, lw>>

\* Join: work := s.Worker() (under the lock); Idle if nil.
Join1(c) ==
    LET j == tgt[c] IN
    /\ pc[c] = "join1" /\ mu[j] = Nil
    /\ wl' = [wl EXCEPT ![c] = worker[j]]
    /\ After(c, IF worker[j] = NoWorker THEN "done" ELSE "join2")
    /\ UNCHANGED <<table, coll, spawned, ready, subs, cbs, signals, mu, worker,
                   wstate, winst, op, tgt, nj, detached, loop, lw>>

\* Join's select evaluates s.worker.Done() on the field, read without the
\* lock: a nil worker there is a nil dereference.
Join2(c) ==
    LET j == tgt[c] IN
    /\ pc[c] = "join2"
    /\ IF worker[j] = NoWorker THEN After(c, "nilWorker") /\ UNCHANGED wl
       ELSE After(c, "join3") /\ wl' = [wl EXCEPT ![c] = worker[j]]
    /\ UNCHANGED <<table, coll, spawned, ready, subs, cbs, signals, mu, worker,
                   wstate, winst, op, tgt, nj, detached, loop, lw>>

\* The select: the worker's Done(), or StopAll's waitCtx.  The timeout is
\* abstract and may expire at any time, so Join may return either way.
Join3(c) ==
    /\ pc[c] = "join3"
    /\ After(c, "done")
    /\ UNCHANGED <<table, coll, spawned, ready, subs, cbs, signals, mu, worker,
                   wstate, winst, op, tgt, nj, wl, detached, loop, lw>>

\* Job.Ready, after it assigned j.Context: trigger.Listen(startOrJoin) for
\* each launch trigger of the manifest.  "on" subscribes to the event,
\* "boot" starts one startOrJoin goroutine, "always" and "every" start the
\* goroutine that calls startOrJoin until its remove func runs.  The remove funcs
\* run only when j.Context ends, and nothing cancels it (j.Cancel has no
\* caller; the session's context outlives the model).
LoopKinds == {"always", "every"}

Listen(j) ==
    /\ subs' = IF "on" \in LaunchKinds[j] THEN subs \cup {j} ELSE subs
    /\ cbs' = IF "boot" \in LaunchKinds[j] THEN [cbs EXCEPT ![j] = @ + 1] ELSE cbs
    /\ loop' = IF LoopKinds \cap LaunchKinds[j] # {}
               THEN [loop EXCEPT ![j] = "start"] ELSE loop
    /\ UNCHANGED lw

-----------------------------------------------------------------------------
(* Session (session.go)                                                    *)

\* UpdateJob: prev := s.Jobs.Swap(id, j); prev.Stop() if there was one.
Swap(c) ==
    /\ pc[c] = "swap"
    /\ table' = nj[c]
    /\ IF table = Nil THEN After(c, "ready") /\ UNCHANGED tgt
       ELSE After(c, "stop1") /\ tgt' = [tgt EXCEPT ![c] = table]
    /\ UNCHANGED <<coll, spawned, ready, subs, cbs, signals, mu, worker, wstate,
                   winst, op, nj, wl, detached, loop, lw>>

\* UpdateJob, continued: JobCollection.Replace(id, manifest); j.Ready(s.ctx)
\* assigns j.Context and subscribes the launch trigger.  JobService.Launch
\* then calls j.Start().
ReadyJob(c) ==
    LET j == nj[c] IN
    /\ pc[c] = "ready"
    /\ coll' = j
    /\ ready' = [ready EXCEPT ![j] = TRUE]
    /\ Listen(j)
    /\ IF op[c] = "launch" THEN After(c, "start") /\ tgt' = [tgt EXCEPT ![c] = j]
       ELSE After(c, "done") /\ UNCHANGED tgt
    /\ UNCHANGED <<table, spawned, signals, mu, worker, wstate, winst, op,
                   nj, wl, detached>>

\* DeleteJob: JobCollection.Delete(id) first ...
Del1(c) ==
    /\ pc[c] = "del1"
    /\ coll' = Nil
    /\ After(c, "del2")
    /\ UNCHANGED <<table, spawned, ready, subs, cbs, signals, mu, worker, wstate,
                   winst, op, tgt, nj, wl, detached, loop, lw>>

\* ... then s.Jobs.LoadAndDelete(id) and Stop of whatever was stored.
Del2(c) ==
    /\ pc[c] = "del2"
    /\ table' = Nil
    /\ IF table = Nil THEN After(c, "done") /\ UNCHANGED tgt
       ELSE After(c, "stop1") /\ tgt' = [tgt EXCEPT ![c] = table]
    /\ UNCHANGED <<coll, spawned, ready, subs, cbs, signals, mu, worker, wstate,
                   winst, op, nj, wl, detached, loop, lw>>

\* reviveJobs: go j.Ready(s.ctx) for the job read from the database.
ReviveReady ==
    /\ ~ready[First]
    /\ ready' = [ready EXCEPT ![First] = TRUE]
    /\ Listen(First)
    /\ UNCHANGED <<table, coll, spawned, signals, mu, worker, wstate, winst,
                   pc, op, tgt, nj, wl, detached>>

-----------------------------------------------------------------------------
(* RPC handlers (service_job.go, service_event.go), triggers and workers   *)

\* A Caller takes an RPC call.  Start, Stop, Restart, Kill, Delete and
\* StopAll act on the job ForEachJob reads from s.Jobs now; Update and
\* Launch install a job recipe.Spawn() makes; event.Signal starts one
\* startOrJoin goroutine per subscription (asyncEventSubscription.Signal).
Begin(c) ==
    /\ pc[c] = "idle"
    /\ \E o \in Ops :
        /\ op' = [op EXCEPT ![c] = o]
        /\ CASE o \in {"update", "launch"} ->
                 \E j \in Insts \ spawned :
                    /\ spawned' = spawned \cup {j}
                    /\ nj' = [nj EXCEPT ![c] = j]
                    /\ After(c, "swap")
                    /\ UNCHANGED <<tgt, cbs, signals>>
             [] o = "signal" ->
                 /\ signals < MaxSignals
                 /\ signals' = signals + 1
                 /\ cbs' = [j \in Insts |-> IF j \in subs THEN cbs[j] + 1 ELSE cbs[j]]
                 /\ After(c, "done")
                 /\ UNCHANGED <<spawned, nj, tgt>>
             [] table = Nil -> After(c, "done") /\ UNCHANGED <<spawned, nj, tgt, cbs, signals>>
             [] OTHER ->
                 /\ tgt' = [tgt EXCEPT ![c] = table]
                 /\ After(c, CASE o = "start" -> "start"
                                [] o = "kill" -> "kill"
                                [] o = "delete" -> "del1"
                                [] OTHER -> "stop1")
                 /\ UNCHANGED <<spawned, nj, cbs, signals>>
    /\ UNCHANGED <<table, coll, ready, subs, mu, worker, wstate, winst, wl, detached, loop, lw>>

\* Mutant: a startOrJoin goroutine runs without a signal having started it.
CallbackUnguarded(j) ==
    /\ mu[j] = Nil
    /\ cbs' = [cbs EXCEPT ![j] = @ - 1]
    /\ StartLocked(j)
    /\ UNCHANGED <<table, coll, spawned, ready, subs, signals, mu, pc, op, tgt,
                   nj, wl, detached, loop, lw>>

\* A startOrJoin goroutine of an "on" or "boot" trigger runs: j.Start(),
\* then it only waits.
Callback(j) ==
    /\ cbs[j] > 0 /\ mu[j] = Nil
    /\ cbs' = [cbs EXCEPT ![j] = @ - 1]
    /\ StartLocked(j)
    /\ UNCHANGED <<table, coll, spawned, ready, subs, signals, mu, pc, op, tgt,
                   nj, wl, detached, loop, lw>>

\* The "always" or "every" goroutine's startOrJoin: w, _ := j.Start(), which returns
\* the job's worker when it has one, whether or not that worker has ended.
AlwaysStart(j) ==
    /\ loop[j] = "start" /\ mu[j] = Nil
    /\ StartLocked(j)
    /\ loop' = [loop EXCEPT ![j] = "wait"]
    /\ lw' = [lw EXCEPT ![j] = worker'[j]]
    /\ UNCHANGED <<table, coll, spawned, ready, subs, cbs, signals, mu, pc, op,
                   tgt, nj, wl, detached>>

\* startOrJoin's select: w.Done() (j.Context is never done); the loop then
\* checks its done flag, never set, and calls startOrJoin again ("every"
\* first sleeps its duration, which the model leaves abstract).
AlwaysWait(j) ==
    /\ loop[j] = "wait" /\ wstate[lw[j]] = "done"
    /\ loop' = [loop EXCEPT ![j] = "start"]
    /\ lw' = [lw EXCEPT ![j] = NoWorker]
    /\ UNCHANGED <<table, coll, spawned, ready, subs, cbs, signals, mu, worker,
                   wstate, winst, pc, op, tgt, nj, wl, detached>>

\* The worker's Run goroutine begins: a retryWorker stores its first
\* attempt (must.Store(work)); a mustWorker has nothing to store.
WorkerStore(w) ==
    /\ wstate[w] = "starting"
    /\ wstate' = [wstate EXCEPT ![w] = "running"]
    /\ UNCHANGED <<table, coll, spawned, ready, subs, cbs, signals, mu, worker,
                   winst, pc, op, tgt, nj, wl, detached, loop, lw>>

\* A worker's Done() closes: its task ended, or the Stop or Kill it was
\* sent took effect.
WorkerEnd(w) ==
    /\ wstate[w] \in Live \ {"starting"}
    /\ wstate' = [wstate EXCEPT ![w] = "done"]
    /\ UNCHANGED <<table, coll, spawned, ready, subs, cbs, signals, mu, worker,
                   winst, pc, op, tgt, nj, wl, detached, loop, lw>>

\* Every call has returned and every worker has ended: the daemon idles.
Quiescent ==
    /\ \A c \in Callers : pc[c] \in Returned
    /\ \A j \in Insts : cbs[j] = 0
    /\ \A w \in Workers : wstate[w] \notin Live
    /\ UNCHANGED vars

Init ==
    /\ table = First /\ coll = First
    /\ spawned = {First}
    /\ ready = [j \in Insts |-> FALSE]
    /\ subs = {}
    /\ cbs = [j \in Insts |-> 0]
    /\ signals = 0
    /\ mu = [j \in Insts |-> Nil]
    /\ worker = [j \in Insts |-> NoWorker]
    /\ wstate = [w \in Workers |-> "none"]
    /\ winst = [w \in Workers |-> Nil]
    /\ pc = [c \in Callers |-> "idle"]
    /\ op = [c \in Callers |-> Nil]
    /\ tgt = [c \in Callers |-> Nil]
    /\ nj = [c \in Callers |-> Nil]
    /\ wl = [c \in Callers |-> NoWorker]
    /\ detached = {}
    /\ loop = [j \in Insts |-> "none"]
    /\ lw = [j \in Insts |-> NoWorker]

CallerStep(c) ==
    \/ Start(c) \/ Stop1(c) \/ Stop2(c) \/ Kill(c)
    \/ Join1(c) \/ Join2(c) \/ Join3(c)
    \/ Swap(c) \/ ReadyJob(c) \/ Del1(c) \/ Del2(c)

Next ==
    \/ \E c \in Callers : Begin(c) \/ CallerStep(c)
    \/ \E j \in Insts : Callback(j) \/ AlwaysStart(j) \/ AlwaysWait(j)
    \/ \E w \in Workers : WorkerStore(w) \/ WorkerEnd(w)
    \/ ReviveReady
    \/ Quiescent

\* Goroutines inside a call run; trigger goroutines run; the revival's
\* Ready goroutine runs; a worker's Run goroutine runs; a worker whose
\* attempt was sent Stop or Kill ends (its StopTimeout enforces a cancel,
\* MustWorker.StopTerminates).  Calls are not forced to arrive, and a
\* running task, or one whose Stop was lost, need not end by itself.
Fairness ==
    /\ \A c \in Callers : WF_vars(CallerStep(c))
    /\ \A j \in Insts : WF_vars(Callback(j))
    /\ \A j \in Insts : WF_vars(AlwaysStart(j)) /\ WF_vars(AlwaysWait(j))
    /\ \A w \in Workers : WF_vars(WorkerStore(w))
    /\ \A w \in Workers : WF_vars(wstate[w] = "stopping" /\ WorkerEnd(w))
    /\ WF_vars(ReviveReady)

Spec == Init /\ [][Next]_vars /\ Fairness

-----------------------------------------------------------------------------
(* Properties                                                              *)

LiveOf(j) == {w \in Workers : winst[w] = j /\ wstate[w] \in Live}

\* Spec 4.7: exactly one live worker per Job at a time.  Job.mu is held
\* from stopLocked's w.Stop() until w is done, so neither Start, Restart
\* nor a trigger's startOrJoin can put a second worker beside one that is
\* still stopping.  Kill forgets the worker when it has cancelled it: a
\* mustWorker is then done, a retryWorker may still be live.
OneLiveWorker == \A j \in Insts : Cardinality(LiveOf(j)) <= 1

\* Every call that has begun returns (or crashes the daemon): no call waits
\* forever on Job.mu or on a worker's Done().
CallsReturn ==
    \A c \in Callers :
        (pc[c] \notin {"idle"} \cup Returned) ~> (pc[c] \in Returned)

\* Spec 4.7 and 7: UpdateJob and DeleteJob stop the job they remove, and
\* the removed job does not run again: once the removal's Stop has
\* returned, no worker of that job is live.
DetachedJobIdle == \A j \in detached : LiveOf(j) = {}

\* Join never dereferences a nil worker: StopAll's Join of a job whose
\* worker another call stops or kills while Join is between s.Worker() and
\* its unlocked read of s.worker.
JoinNoNilWorker == \A c \in Callers : pc[c] # "nilWorker"

\* No call starts a revived job before its Ready goroutine has assigned
\* j.Context (task.NewWorker would use a nil context).
StartAfterReady == \A c \in Callers : pc[c] # "nilContext"

\* Spec 4.7: every job in s.Jobs has its manifest in the jobs collection
\* under the same key, and a deleted one is in neither, once the calls
\* that change them have returned.
CollectionMatches ==
    (\A c \in Callers : pc[c] \in {"idle", "done"}) => coll = table

\* Spec 4.6: "always" loops startOrJoin while registered, for tight restart
\* semantics, and "every d" fires it every d: a job of the session whose
\* launch triggers include either and whose worker is not live runs again
\* (or stops being the session's job).  startLocked returns the finished worker s.worker still holds, so
\* the loop only spins on its closed Done().
AlwaysRestarts ==
    \A j \in Insts : LoopKinds \cap LaunchKinds[j] # {} =>
        ((loop[j] # "none" /\ table = j /\ LiveOf(j) = {})
            ~> (LiveOf(j) # {} \/ table # j))

=============================================================================
