------------------------------- MODULE Cluster -------------------------------
(***************************************************************************)
(* A clustered run task behind the reverse proxy: TaskRun.Launch of        *)
(* src/pkg/task/task_run.go with Proxy set and N > 1.                      *)
(*                                                                         *)
(* The task's own mustWorker (the controller) starts a load balancer whose *)
(* Listen goroutine kills the controller when Listen returns while the     *)
(* controller is live.  A pipe-like loop starts one goroutine per instance *)
(* k; each launches a child worker (mustWorker.Launch: NewWorker, a retry  *)
(* worker) whose attempts each run processRunner.Launch: start the         *)
(* process, probe it with lifecheck until it serves or exits or the        *)
(* context ends, add it as an upstream, and remove it once the attempt's   *)
(* Stopping() closes.  An attempt's Stopping closes on Stop and, through   *)
(* the AfterFunc of newMustWorker, whenever its context ends.              *)
(*                                                                         *)
(* The timers of the attempts and the retry rate limit are MustWorker's    *)
(* and RetryWorker's; here an attempt may be retried while MaxAttempts    *)
(* allows, or given up.                                                    *)
(***************************************************************************)
EXTENDS Naturals, FiniteSets

CONSTANTS
    N,            \* TaskRun.N, at least 2
    MaxAttempts   \* MaxAttempts[k]: attempts of instance k's retry worker explored

ASSUME N \in Nat /\ N >= 2 /\ MaxAttempts \in [1..N -> Nat \ {0}]

Live == "live"
Inst == 1..N
Ids == UNION {{k} \X (1..MaxAttempts[k]) : k \in Inst}   \* <<instance, attempt>>
Alive == {"running", "serving"}

VARIABLES
    ctrl,       \* cause of the controller's context
    cstop,      \* the controller's Stopping() is closed
    outside,    \* the controller was stopped or killed from outside
    lbOpen,     \* the proxy server is not closed
    listening,  \* the Listen goroutine is still in ListenAndServe
    runRet,     \* what the controller's Run returned, "none" before
    pcause,     \* cause of the cluster scope (newPipeController)
    left,       \* pipe.left
    i,          \* the loop's index
    lpc,        \* the cluster goroutine: "loop", "await", "returned"
    ret,        \* the error it returned
    sub,        \* sub[k]: instance goroutine "idle", "spawned", "running", "ended"
    child,      \* child[k]: its worker "none", "running", "done"
    cres,       \* cres[k]: the child's result
    att,        \* att[k]: the child's current attempt
    stopped,    \* attempts whose Stopping() is closed
    rpc,        \* rpc[k]: processRunner.Launch of the current attempt
    procs,      \* procs[id]: "none", "running", "serving", "exited"
    pres,       \* pres[id]: the exit of the process, "none", "ok", "err"
    ups         \* lb.Upstreams, as attempt ids; each has a goroutine
                \* waiting on its attempt's Stopping() to remove it

vars == <<ctrl, cstop, outside, lbOpen, listening, runRet, pcause, left, i,
          lpc, ret, sub, child, cres, att, stopped, rpc, procs, pres, ups>>

Results == {"ok", "err", "cancelled"}

TypeOK ==
    /\ ctrl \in {Live, "cancelled", "timeout", "ok", "nonRetriable"}
    /\ cstop \in BOOLEAN /\ outside \in BOOLEAN
    /\ lbOpen \in BOOLEAN /\ listening \in BOOLEAN
    /\ runRet \in {"none", "cancelled", "timeout", "ok", "nonRetriable"}
    /\ pcause \in {Live} \cup Results
    /\ left \in 0..N /\ i \in 1..N + 1
    /\ lpc \in {"loop", "await", "returned"}
    /\ ret \in {"none", "ok", "nonRetriable"}
    /\ sub \in [Inst -> {"idle", "spawned", "running", "ended"}]
    /\ child \in [Inst -> {"none", "running", "done"}]
    /\ cres \in [Inst -> {"none"} \cup Results]
    /\ stopped \subseteq Ids
    /\ att \in [Inst -> Nat]
    /\ \A k \in Inst : att[k] <= MaxAttempts[k]
    /\ rpc \in [Inst -> {"none", "start", "probe", "wait", "failed", "cancelled"}]
    /\ procs \in [Ids -> {"none"} \cup Alive \cup {"exited"}]
    /\ pres \in [Ids -> {"none", "ok", "err"}]
    /\ ups \subseteq Ids

Cur(k) == <<k, att[k]>>

\* cancel(cause) of the cluster scope.  The first cancel wins; the
\* attempts' contexts derive from it, and their AfterFuncs close their
\* Stopping() channels.
CancelScope(c) ==
    /\ pcause' = IF pcause = Live THEN c ELSE pcause
    /\ stopped' = IF pcause = Live
                  THEN stopped \cup {Cur(k) : k \in {m \in Inst : child[m] = "running"}}
                  ELSE stopped

\* cancel(cause) of the controller: its Stopping() closes (AfterFunc) and
\* the cluster scope, derived from it, is cancelled.
CancelCtrl(c) ==
    /\ ctrl' = IF ctrl = Live THEN c ELSE ctrl
    /\ cstop' = TRUE
    /\ CancelScope("cancelled")

-----------------------------------------------------------------------------
(* The controller: calls from outside, the proxy's Listen goroutine, Run   *)

\* Stop(): signalStop closes Stopping(); StopTimeout is then armed.
CtrlStop ==
    /\ ctrl = Live /\ ~cstop
    /\ cstop' = TRUE /\ outside' = TRUE
    /\ UNCHANGED <<ctrl, lbOpen, listening, runRet, pcause, left, i, lpc, ret,
                   sub, child, cres, att, stopped, rpc, procs, pres, ups>>

\* enforceOrCancel: StopTimeout passes before the controller ends.
CtrlTimeout ==
    /\ ctrl = Live /\ cstop
    /\ CancelCtrl("timeout")
    /\ UNCHANGED <<outside, lbOpen, listening, runRet, left, i, lpc, ret, sub,
                   child, cres, att, rpc, procs, pres, ups>>

\* lb.Listen() returns an error: http.ErrServerClosed once lb.Close() ran,
\* or a failure to listen.  If ctx.Err() == nil the goroutine calls
\* ctx.Kill().
ListenEnd ==
    /\ listening
    /\ listening' = FALSE
    /\ outside' = (outside \/ lbOpen)
    /\ IF ctrl = Live THEN CancelCtrl("cancelled")
       ELSE UNCHANGED <<ctrl, cstop, pcause, stopped>>
    /\ UNCHANGED <<lbOpen, runRet, left, i, lpc, ret, sub, child, cres,
                   att, rpc, procs, pres, ups>>

\* Run's select after Launch: the Done() arm returns the cause; the
\* exitReason arm cancels with the result and returns it.
RunDone ==
    /\ runRet = "none" /\ ctrl # Live
    /\ runRet' = ctrl
    /\ UNCHANGED <<ctrl, cstop, outside, lbOpen, listening, pcause, left, i, lpc,
                   ret, sub, child, cres, att, stopped, rpc, procs, pres,
                   ups>>

RunResult ==
    /\ runRet = "none" /\ lpc = "returned"
    /\ runRet' = ret
    /\ CancelCtrl(ret)
    /\ UNCHANGED <<outside, lbOpen, listening, left, i, lpc, ret, sub, child,
                   cres, att, rpc, procs, pres, ups>>

-----------------------------------------------------------------------------
(* The cluster goroutine (TaskRun.Launch, h.N > 1)                         *)

\* Mutant: the loop runs one index past h.N (i <= h.N).
LoopSpawnPastEnd ==
    /\ lpc = "loop" /\ i <= N + 1 /\ pcause = Live
    /\ sub' = [sub EXCEPT ![i] = "spawned"]
    /\ i' = i + 1
    /\ UNCHANGED <<ctrl, cstop, outside, lbOpen, listening, runRet, pcause, left,
                   lpc, ret, child, cres, att, stopped, rpc, procs, pres, ups>>

\* for i := 0; i < h.N && pipe.Err() == nil; i++ { go ... }
LoopSpawn ==
    /\ lpc = "loop" /\ i <= N /\ pcause = Live
    /\ sub' = [sub EXCEPT ![i] = "spawned"]
    /\ i' = i + 1
    /\ UNCHANGED <<ctrl, cstop, outside, lbOpen, listening, runRet, pcause, left,
                   lpc, ret, child, cres, att, stopped, rpc, procs, pres,
                   ups>>

LoopEnd ==
    /\ lpc = "loop" /\ (i > N \/ pcause # Live)
    /\ lpc' = "await"
    /\ UNCHANGED <<ctrl, cstop, outside, lbOpen, listening, runRet, pcause, left,
                   i, ret, sub, child, cres, att, stopped, rpc, procs,
                   pres, ups>>

\* <-pipe.Done(); NonRetriable(cause) or nil; the deferred lb.Close().
Await ==
    /\ lpc = "await" /\ pcause # Live
    /\ ret' = IF pcause = "ok" THEN "ok" ELSE "nonRetriable"
    /\ lbOpen' = FALSE
    /\ lpc' = "returned"
    /\ UNCHANGED <<ctrl, cstop, outside, listening, runRet, pcause, left, i, sub,
                   child, cres, att, stopped, rpc, procs, pres, ups>>

-----------------------------------------------------------------------------
(* Instance goroutines and their child workers                             *)

\* The select is entered: pipe.launch starts the child worker, whose first
\* attempt starts processRunner.Launch.  A context already cancelled
\* closes the attempt's Stopping() at once.
SubLaunch(k) ==
    /\ sub[k] = "spawned"
    /\ sub' = [sub EXCEPT ![k] = "running"]
    /\ child' = [child EXCEPT ![k] = "running"]
    /\ att' = [att EXCEPT ![k] = 1]
    /\ rpc' = [rpc EXCEPT ![k] = "start"]
    /\ stopped' = IF pcause # Live THEN stopped \cup {<<k, 1>>} ELSE stopped
    /\ UNCHANGED <<ctrl, cstop, outside, lbOpen, listening, runRet, pcause, left,
                   i, lpc, ret, cres, procs, pres, ups>>

\* mustWorker.Launch's goroutine: <-work.Stopping(); w.Stop().  The retry
\* worker disables retries and stops its current attempt.  While the
\* cluster scope is live, only this Stop closes the Stopping() of a running
\* attempt, so a stopped current attempt also records disableRetries.
ChildStop(k) ==
    /\ cstop /\ child[k] = "running" /\ Cur(k) \notin stopped
    /\ stopped' = stopped \cup {Cur(k)}
    /\ UNCHANGED <<ctrl, cstop, outside, lbOpen, listening, runRet, pcause, left,
                   i, lpc, ret, sub, child, cres, att, rpc, procs, pres, ups>>
\* The attempt's context has ended: the cluster scope was cancelled, or
\* its Stopping() closed and enforceOrCancel may have cancelled it.
AttemptDone(k) == pcause # Live \/ Cur(k) \in stopped

\* processRunner.Launch up to cmd.Start(): exec.CommandContext refuses a
\* cancelled context, and Start may fail on its own.  A started process
\* either comes to answer lifecheck ("serving") or never does: when it
\* begins to answer only changes how many rounds the wait loop takes.
Start(k) ==
    /\ rpc[k] = "start"
    /\ \/ /\ pcause = Live
          /\ \E p \in Alive : procs' = [procs EXCEPT ![Cur(k)] = p]
          /\ rpc' = [rpc EXCEPT ![k] = "probe"]
       \/ /\ rpc' = [rpc EXCEPT ![k] = "failed"]
          /\ UNCHANGED procs
    /\ UNCHANGED <<ctrl, cstop, outside, lbOpen, listening, runRet, pcause, left,
                   i, lpc, ret, sub, child, cres, att, stopped, pres, ups>>

\* One round of the wait loop: ctx.Done() returns ctx.Err(); a lifecheck
\* that answers adds the upstream and starts the goroutine that removes it
\* on Stopping(); !done ends the loop without an upstream.  done is written
\* by the cmd.Wait goroutine and read here without synchronisation; it only
\* goes from false to true, so the racy read can only be late, and a late
\* false is one more round of the loop: a step this action does not take
\* yet, while its other disjuncts stay enabled.  The fairness of the
\* instance goroutine assumes the exit is eventually seen, which the Go
\* memory model does not promise; no property is checked about it.
Probe(k) ==
    /\ rpc[k] = "probe"
    /\ \/ /\ AttemptDone(k)
          /\ rpc' = [rpc EXCEPT ![k] = "cancelled"]
          /\ UNCHANGED ups
       \/ /\ procs[Cur(k)] = "serving"
          /\ ups' = ups \cup {Cur(k)}
          /\ rpc' = [rpc EXCEPT ![k] = "wait"]
       \/ /\ procs[Cur(k)] = "exited"
          /\ rpc' = [rpc EXCEPT ![k] = "wait"]
          /\ UNCHANGED ups
    /\ UNCHANGED <<ctrl, cstop, outside, lbOpen, listening, runRet, pcause, left,
                   i, lpc, ret, sub, child, cres, att, stopped, procs, pres>>

\* The process exits by itself, successfully or not.
ProcExit(id, r) ==
    /\ procs[id] \in Alive
    /\ procs' = [procs EXCEPT ![id] = "exited"] /\ pres' = [pres EXCEPT ![id] = r]
    /\ UNCHANGED <<ctrl, cstop, outside, lbOpen, listening, runRet, pcause, left,
                   i, lpc, ret, sub, child, cres, att, stopped, rpc, ups>>

\* The goroutine on ctx.Stopping() sends os.Interrupt; CommandContext
\* kills the process once the context ends.
ProcStopped(id) ==
    /\ procs[id] \in Alive /\ (id \in stopped \/ pcause # Live)
    /\ procs' = [procs EXCEPT ![id] = "exited"] /\ pres' = [pres EXCEPT ![id] = "err"]
    /\ UNCHANGED <<ctrl, cstop, outside, lbOpen, listening, runRet, pcause, left,
                   i, lpc, ret, sub, child, cres, att, stopped, rpc, ups>>

\* What the attempt's mustWorker.Run may return once Launch returned:
\* util.Cause(work) on Done(), or the error of exitReason (a failed Start,
\* or the process's exit).  Both arms may be ready.
Outcomes(k) ==
    (IF AttemptDone(k) THEN {"cancelled"} ELSE {})
    \cup (IF rpc[k] = "failed" THEN {"err"} ELSE {})
    \cup (IF rpc[k] = "wait" /\ procs[Cur(k)] = "exited" THEN {pres[Cur(k)]} ELSE {})

\* Mutant: the attempt's end does not close its Stopping() (no AfterFunc).
AttemptEndNoAfterFunc(k) ==
    /\ child[k] = "running" /\ rpc[k] # "none"
    /\ \E r \in Outcomes(k) :
         /\ UNCHANGED stopped
         /\ \/ /\ r # "ok" /\ Cur(k) \notin stopped /\ pcause = Live /\ att[k] < MaxAttempts[k]
               /\ att' = [att EXCEPT ![k] = att[k] + 1]
               /\ rpc' = [rpc EXCEPT ![k] = "start"]
               /\ UNCHANGED <<child, cres>>
            \/ /\ child' = [child EXCEPT ![k] = "done"]
               /\ cres' = [cres EXCEPT ![k] = r]
               /\ rpc' = [rpc EXCEPT ![k] = "none"]
               /\ UNCHANGED att
    /\ UNCHANGED <<ctrl, cstop, outside, lbOpen, listening, runRet, pcause, left,
                   i, lpc, ret, sub, procs, pres, ups>>

\* The attempt returns r and cancels its context (work.cancel), whose
\* AfterFunc closes its Stopping().  retryWorker.Run then asks tryRetry:
\* no retry once its context ended, for a nil error (RetrySuccess unset) or
\* after disableRetries; the rate limit may also refuse.  The retry
\* worker's early return on retry.Done() is merged into this step: the
\* cluster ignores the child's result once its scope is cancelled.
AttemptEnd(k) ==
    /\ child[k] = "running" /\ rpc[k] # "none"
    /\ \E r \in Outcomes(k) :
         /\ stopped' = stopped \cup {Cur(k)}
         /\ \/ /\ r # "ok" /\ Cur(k) \notin stopped /\ pcause = Live /\ att[k] < MaxAttempts[k]
               /\ att' = [att EXCEPT ![k] = att[k] + 1]
               /\ rpc' = [rpc EXCEPT ![k] = "start"]
               /\ UNCHANGED <<child, cres>>
            \/ /\ child' = [child EXCEPT ![k] = "done"]
               /\ cres' = [cres EXCEPT ![k] = r]
               /\ rpc' = [rpc EXCEPT ![k] = "none"]
               /\ UNCHANGED att
    /\ UNCHANGED <<ctrl, cstop, outside, lbOpen, listening, runRet, pcause, left,
                   i, lpc, ret, sub, procs, pres, ups>>

\* The goroutine started after AddUpstream: <-ctx.Stopping();
\* lb.RemoveUpstream(upstream).
RemoveUp(id) ==
    /\ id \in ups \cap stopped
    /\ ups' = ups \ {id}
    /\ UNCHANGED <<ctrl, cstop, outside, lbOpen, listening, runRet, pcause, left,
                   i, lpc, ret, sub, child, cres, att, stopped, rpc, procs,
                   pres>>

\* Mutant: the count is tested before Add(-1) (left == 0).
SubResultOffByOne(k) ==
    /\ sub[k] = "running" /\ child[k] = "done"
    /\ LET err == cres[k] # "ok" IN
       /\ left' = IF err THEN left ELSE left - 1
       /\ IF err \/ left = 0
          THEN CancelScope(IF err THEN cres[k] ELSE "ok")
          ELSE UNCHANGED <<pcause, stopped>>
    /\ sub' = [sub EXCEPT ![k] = "ended"]
    /\ UNCHANGED <<ctrl, cstop, outside, lbOpen, listening, runRet, i, lpc, ret,
                   child, cres, att, rpc, procs, pres, ups>>

\* The instance goroutine's launch arm: if err != nil ||
\* pipe.left.Add(-1) == 0 { pipe.cancel(err) }.
SubResult(k) ==
    /\ sub[k] = "running" /\ child[k] = "done"
    /\ LET err == cres[k] # "ok" IN
       /\ left' = IF err THEN left ELSE left - 1
       /\ IF err \/ left = 1
          THEN CancelScope(IF err THEN cres[k] ELSE "ok")
          ELSE UNCHANGED <<pcause, stopped>>
    /\ sub' = [sub EXCEPT ![k] = "ended"]
    /\ UNCHANGED <<ctrl, cstop, outside, lbOpen, listening, runRet, i, lpc, ret,
                   child, cres, att, rpc, procs, pres, ups>>

\* The instance goroutine's pipe.Done() arm.
SubAbort(k) ==
    /\ sub[k] = "running" /\ pcause # Live
    /\ sub' = [sub EXCEPT ![k] = "ended"]
    /\ UNCHANGED <<ctrl, cstop, outside, lbOpen, listening, runRet, pcause, left,
                   i, lpc, ret, child, cres, att, stopped, rpc, procs, pres,
                   ups>>

-----------------------------------------------------------------------------

Init ==
    /\ ctrl = Live /\ cstop = FALSE /\ outside = FALSE
    /\ lbOpen = TRUE /\ listening = TRUE /\ runRet = "none"
    /\ pcause = Live /\ left = N /\ i = 1 /\ lpc = "loop" /\ ret = "none"
    /\ sub = [k \in Inst |-> "idle"] /\ child = [k \in Inst |-> "none"]
    /\ cres = [k \in Inst |-> "none"]
    /\ att = [k \in Inst |-> 0] /\ stopped = {}
    /\ rpc = [k \in Inst |-> "none"]
    /\ procs = [id \in Ids |-> "none"] /\ pres = [id \in Ids |-> "none"]
    /\ ups = {}

\* Everything has ended: the controller's Run returned, the proxy's
\* goroutine is gone and no goroutine or process is left.
Quiescent ==
    /\ runRet # "none" /\ ~listening /\ ups = {}
    /\ \A k \in Inst : sub[k] # "running" /\ child[k] # "running"
    /\ \A id \in Ids : procs[id] \notin Alive
    /\ UNCHANGED vars

InstanceStep(k) ==
    SubLaunch(k) \/ ChildStop(k) \/ Start(k) \/ Probe(k) \/ AttemptEnd(k)
    \/ SubResult(k) \/ SubAbort(k)

Next ==
    \/ CtrlStop \/ CtrlTimeout \/ ListenEnd \/ RunDone \/ RunResult
    \/ LoopSpawn \/ LoopEnd \/ Await
    \/ \E k \in Inst : InstanceStep(k)
    \/ \E id \in Ids : ProcStopped(id) \/ RemoveUp(id)
                       \/ \E r \in {"ok", "err"} : ProcExit(id, r)
    \/ Quiescent

\* Goroutines that can run do run; the stop timeout fires; Listen returns
\* once the server is closed; a signalled or killed process exits.  A
\* process's own exit, its serving, and outside calls are not assumed.
\* Steps of one goroutine are never enabled together, or each is taken
\* once, so one weak fairness condition covers each group.
Fairness ==
    /\ WF_vars(LoopSpawn \/ LoopEnd \/ Await) /\ WF_vars(RunDone \/ RunResult)
    /\ WF_vars(CtrlTimeout) /\ WF_vars(ListenEnd /\ ~lbOpen)
    /\ \A k \in Inst : WF_vars(InstanceStep(k))
    /\ \A id \in Ids : WF_vars(ProcStopped(id) \/ RemoveUp(id))

Spec == Init /\ [][Next]_vars /\ Fairness

-----------------------------------------------------------------------------
(* Properties                                                              *)

\* An upstream whose process has exited does not stay in the load
\* balancer: each attempt's end closes its Stopping() through the AfterFunc
\* of newMustWorker, which the remove goroutine waits on, so the proxy is
\* eventually free of dead upstreams.
DeadUpstream == \E id \in ups : procs[id] = "exited"

UpstreamsRemoved == DeadUpstream ~> ~DeadUpstream

\* Every upstream in the load balancer belongs to the current attempt of a
\* running child worker, or its attempt's Stopping() has closed and the
\* remove goroutine will take it out: an attempt never ends, nor is
\* retried, leaving its upstream behind with nothing to remove it.
UpstreamTracked ==
    \A id \in ups : id \in stopped \/ (child[id[1]] = "running" /\ id = Cur(id[1]))

\* Once every instance's child worker has returned, the cluster goroutine
\* returns: each result either cancels the scope or counts pipe.left down
\* to zero.
ClusterReturns ==
    (\A k \in Inst : child[k] = "done") ~> lpc = "returned"

\* The controller reports what the cluster returned (NonRetriable or nil)
\* unless it was stopped or killed from outside: the proxy's Listen
\* goroutine must not turn the task's own end into Cancelled.
StatusKept ==
    runRet # "none" /\ ~outside => runRet = ret

=============================================================================
