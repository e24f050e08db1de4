---------------------------- MODULE RetryWorker ----------------------------
(***************************************************************************)
(* The retry supervisor: retryWorker of src/pkg/task/work_retry.go.       *)
(*                                                                         *)
(* Run() loops: create a mustWorker (module MustWorker) and store it, wait *)
(* for it, then tryRetry(err) decides whether to loop.  retryState is one  *)
(* 64-bit word (tick, counter) updated by CAS; disableRetries() writes the *)
(* dead tick and closes retryCancel.  A controller calls Stop() or Kill(): *)
(* disableRetries(), then must.Load() and Stop()/Kill() on what it loaded. *)
(* Time is a counter of sub-period steps: the rate tick of time t is       *)
(* t \div Period, so a window of one period can straddle two ticks.        *)
(***************************************************************************)
EXTENDS Naturals, Functions

CONSTANTS
    StartTimeoutSet, ExecTimeoutSet, MaxMemorySet, TaskResults, ParentCauses,
    RetrySuccess,   \* options.RetrySuccess
    RetryCount,     \* options.RetryLimit.Count
    Period,         \* options.RetryLimit.Period, in time steps
    MaxTime,        \* last time step explored
    RetryTickDead   \* retryTickDead (0xffffffff): a tick no clock reaches

ASSUME RetrySuccess \in BOOLEAN
ASSUME RetryCount \in Nat /\ Period \in Nat \ {0} /\ MaxTime \in Nat
ASSUME RetryTickDead \in Nat /\ RetryTickDead > MaxTime \div Period

VARIABLES
    \* the current mustWorker (see MustWorker)
    parent, cause, status, stopUsed, afterRan, pc, startTimer, memWatch, exit, ret,
    created,      \* must.Load() != nil
    rcause,       \* context.Cause of the retry worker's context
    rstatus,      \* retry.status
    rstate,       \* retryState: [tick, counter]
    retryCancel,  \* retryCancel is closed
    rpc,          \* where Run() is: "init", "create", "wait", "try", "cas",
                  \* "backoff", "exit", "done"
    rerr,         \* the err Run() holds
    ctl,          \* the controller: "idle", "stopping", "waiting", "killing", "returned"
    now,          \* current time step
    starts        \* starts[t]: attempts created at time step t (history)

M == INSTANCE MustWorker WITH stopper <- ctl

mustVars == <<cause, status, stopUsed, afterRan, pc, startTimer, memWatch, exit, ret>>
vars == <<parent, mustVars, created, rcause, rstatus, rstate, retryCancel,
          rpc, rerr, ctl, now, starts>>

Live == M!Live


\* rate.Ticks() at time step t
Ticks(t) == t \div Period

TypeOK ==
    /\ parent \in {Live} \cup ParentCauses
    /\ cause \in {Live} \cup M!Errors
    /\ status \in {"Idle", "Starting", "Running", "Stopping"}
    /\ {stopUsed, afterRan, startTimer, memWatch} \subseteq BOOLEAN
    /\ pc \in {"init", "launch", "starting", "running", "done"}
    /\ exit \in {M!NoExit} \cup TaskResults
    /\ ret \in {M!NoRet} \cup M!Errors
    /\ created \in BOOLEAN
    /\ rcause \in {Live} \cup M!Errors
    /\ rstatus \in {"Idle", "Starting", "Running", "Stopping", "Retrying"}
    /\ rstate \in [tick : (0..Ticks(MaxTime)) \cup {RetryTickDead},
                   counter : 0..RetryCount + 1]
    /\ retryCancel \in BOOLEAN
    /\ rpc \in {"init", "create", "wait", "try", "cas", "backoff", "exit", "done"}
    /\ rerr \in {"none"} \cup M!Errors
    /\ ctl \in {"idle", "stopping", "waiting", "killing", "returned"}
    /\ now \in 0..MaxTime
    /\ starts \in [0..MaxTime -> Nat]

-----------------------------------------------------------------------------
(* Status()                                                                *)

\* The retry context's cause once done; the current attempt's Status() while
\* retry.status is alive; else retry.status.
RStatusView ==
    IF rcause # Live THEN M!StatusFromErr(rcause)
    ELSE IF created /\ rstatus \in M!AliveStatuses THEN M!StatusView
    ELSE rstatus

-----------------------------------------------------------------------------
(* Run() and tryRetry()                                                    *)

\* Top of the loop: status = Starting, newMustWorker, must.Store, status =
\* Running, and the select that starts work.Run() with lo.Async.
Create ==
    /\ rpc \in {"init", "create"}
    /\ M!NewMust
    /\ created' = TRUE
    /\ rstatus' = "Running"
    /\ rpc' = "wait"
    /\ starts' = [starts EXCEPT ![now] = @ + 1]
    /\ UNCHANGED <<parent, rcause, rstate, retryCancel, rerr, ctl, now>>

\* select arm retry.Done(): return Cause(retry); the deferred cancel is a no-op.
WaitRetryDone ==
    /\ rpc = "wait"
    /\ rcause # Live
    /\ rerr' = rcause
    /\ rpc' = "done"
    /\ UNCHANGED <<parent, mustVars, created, rcause, rstatus, rstate, retryCancel, ctl, now, starts>>

\* select arm work.Done(): err = Cause(work); retry.status = work.status.
WaitMustDone ==
    /\ rpc = "wait"
    /\ cause # Live
    /\ rerr' = cause
    /\ rstatus' = status
    /\ rpc' = "try"
    /\ UNCHANGED <<parent, mustVars, created, rcause, rstate, retryCancel, ctl, now, starts>>

\* select arm err = <-lo.Async(work.Run); retry.status = work.status.
WaitMustRet ==
    /\ rpc = "wait"
    /\ ret # M!NoRet
    /\ rerr' = ret
    /\ rstatus' = status
    /\ rpc' = "try"
    /\ UNCHANGED <<parent, mustVars, created, rcause, rstate, retryCancel, ctl, now, starts>>

\* retriable(err): not ErrNonRetriable, nil only with RetrySuccess, and the
\* loaded tick is not dead.
Retriable(e) ==
    /\ IF e = "ok" THEN RetrySuccess ELSE e # "nonRetriable"
    /\ rstate.tick # RetryTickDead

\* tryRetry: the checks of the context and retriable() before the CAS loop.
TryCheck ==
    /\ rpc = "try"
    /\ rpc' = IF rcause = Live /\ Retriable(rerr) THEN "cas" ELSE "exit"
    /\ UNCHANGED <<parent, mustVars, created, rcause, rstatus, rstate, retryCancel, rerr, ctl, now, starts>>

\* Mutant: the budget test off by one (counter > Count + 1).
TryCASOffByOne ==
    /\ rpc = "cas"
    /\ IF rstate.tick = RetryTickDead
       THEN rpc' = "exit" /\ UNCHANGED <<rstate, rstatus>>
       ELSE LET cur == Ticks(now)
                c   == (IF rstate.tick # cur THEN 0 ELSE rstate.counter) + 1
            IN  /\ rstate' = [tick |-> cur, counter |-> c]
                /\ IF c > RetryCount + 1
                   THEN rpc' = "exit" /\ UNCHANGED rstatus
                   ELSE rpc' = "backoff" /\ rstatus' = "Retrying"
    /\ UNCHANGED <<parent, mustVars, created, rcause, retryCancel, rerr, ctl, now, starts>>

\* One successful iteration of the CAS loop (a failed CAS only repeats it):
\* a dead tick gives up; a new tick resets the counter; the counter is
\* incremented and stored; over Count the retry is refused; else the worker
\* computes the backoff, sets Retrying and waits.
TryCAS ==
    /\ rpc = "cas"
    /\ IF rstate.tick = RetryTickDead
       THEN rpc' = "exit" /\ UNCHANGED <<rstate, rstatus>>
       ELSE LET cur == Ticks(now)
                c   == (IF rstate.tick # cur THEN 0 ELSE rstate.counter) + 1
            IN  /\ rstate' = [tick |-> cur, counter |-> c]
                /\ IF c > RetryCount
                   THEN rpc' = "exit" /\ UNCHANGED rstatus
                   ELSE rpc' = "backoff" /\ rstatus' = "Retrying"
    /\ UNCHANGED <<parent, mustVars, created, rcause, retryCancel, rerr, ctl, now, starts>>

\* Backoff select, arms retry.Done() and retryCancel: status = Idle, false.
BackoffCancelled ==
    /\ rpc = "backoff"
    /\ rcause # Live \/ retryCancel
    /\ rstatus' = "Idle"
    /\ rpc' = "exit"
    /\ UNCHANGED <<parent, mustVars, created, rcause, rstate, retryCancel, rerr, ctl, now, starts>>

\* Backoff select, arm time.After(wait): true, loop again.
BackoffExpired ==
    /\ rpc = "backoff"
    /\ rpc' = "create"
    /\ UNCHANGED <<parent, mustVars, created, rcause, rstatus, rstate, retryCancel, rerr, ctl, now, starts>>

\* break: status = Idle, return err; the deferred retry.cancel(err).
Exit ==
    /\ rpc = "exit"
    /\ rstatus' = "Idle"
    /\ rpc' = "done"
    /\ rcause' = IF rcause = Live THEN rerr ELSE rcause
    /\ UNCHANGED <<parent, mustVars, created, rstate, retryCancel, rerr, ctl, now, starts>>

RetryStep ==
    \/ Create \/ WaitRetryDone \/ WaitMustDone \/ WaitMustRet
    \/ TryCheck \/ TryCAS \/ BackoffCancelled \/ BackoffExpired \/ Exit

\* The goroutines of the current attempt (its Run(), timers, process).
MustStep ==
    /\ created
    /\ M!WorkerStep
    /\ UNCHANGED <<parent, created, rcause, rstatus, rstate, retryCancel, rpc, rerr, ctl, now, starts>>

-----------------------------------------------------------------------------
(* Stop(), Kill() and the parent context                                   *)

\* disableRetries: CAS the dead tick in (keeping the counter) and close
\* retryCancel, unless the tick is already dead.
DisableRetries ==
    IF rstate.tick = RetryTickDead
    THEN UNCHANGED <<rstate, retryCancel>>
    ELSE rstate' = [rstate EXCEPT !.tick = RetryTickDead] /\ retryCancel' = TRUE

Stop ==
    /\ ctl = "idle"
    /\ DisableRetries
    /\ ctl' = "stopping"
    /\ UNCHANGED <<parent, mustVars, created, rcause, rstatus, rpc, rerr, now, starts>>

Kill ==
    /\ ctl = "idle"
    /\ DisableRetries
    /\ ctl' = "killing"
    /\ UNCHANGED <<parent, mustVars, created, rcause, rstatus, rpc, rerr, now, starts>>

\* Stop(), second half: m := must.Load(); m.Stop() (waits inline if it
\* closed the Stopping() channel).
StopMust ==
    /\ ctl = "stopping"
    /\ IF created
       THEN /\ M!StopSignal
            /\ ctl' = IF M!StopBlocks THEN "waiting" ELSE "returned"
       ELSE /\ UNCHANGED <<status, stopUsed>>
            /\ ctl' = "returned"
    /\ UNCHANGED <<parent, cause, afterRan, pc, startTimer, memWatch, exit, ret,
                   created, rcause, rstatus, rstate, retryCancel, rpc, rerr, now, starts>>

\* The inline enforceOrCancel of m.Stop(): timeout or m.Done().
StopWait ==
    /\ ctl = "waiting"
    /\ M!Cancel("timeoutStop")
    /\ ctl' = "returned"
    /\ UNCHANGED <<parent, status, stopUsed, afterRan, pc, startTimer, memWatch, exit, ret,
                   created, rcause, rstatus, rstate, retryCancel, rpc, rerr, now, starts>>

\* Kill(), second half: m := must.Load(); m.Kill().
KillMust ==
    /\ ctl = "killing"
    /\ IF created THEN M!Cancel("cancelled") ELSE UNCHANGED cause
    /\ ctl' = "returned"
    /\ UNCHANGED <<parent, status, stopUsed, afterRan, pc, startTimer, memWatch, exit, ret,
                   created, rcause, rstatus, rstate, retryCancel, rpc, rerr, now, starts>>

\* The parent (job) context is cancelled: both the retry context and the
\* attempt's context derive from it.
ParentCancel ==
    /\ parent = Live
    /\ \E c \in ParentCauses :
         /\ parent' = c
         /\ rcause' = IF rcause = Live THEN c ELSE rcause
         /\ M!Cancel(c)
    /\ UNCHANGED <<status, stopUsed, afterRan, pc, startTimer, memWatch, exit, ret,
                   created, rstatus, rstate, retryCancel, rpc, rerr, ctl, now, starts>>

\* Time passes.
Tick ==
    /\ now < MaxTime
    /\ now' = now + 1
    /\ UNCHANGED <<parent, mustVars, created, rcause, rstatus, rstate, retryCancel, rpc, rerr, ctl, starts>>

\* Run() has returned.
Finished ==
    /\ rpc = "done"
    /\ UNCHANGED vars

-----------------------------------------------------------------------------

Init ==
    /\ parent = Live
    /\ cause = Live
    /\ status = "Idle"
    /\ stopUsed = FALSE
    /\ afterRan = FALSE
    /\ pc = "init"
    /\ startTimer = FALSE
    /\ memWatch = FALSE
    /\ exit = M!NoExit
    /\ ret = M!NoRet
    /\ created = FALSE
    /\ rcause = Live
    /\ rstatus = "Idle"
    /\ rstate = [tick |-> 0, counter |-> 0]
    /\ retryCancel = FALSE
    /\ rpc = "init"
    /\ rerr = "none"
    /\ ctl = "idle"
    /\ now = 0
    /\ starts = [t \in 0..MaxTime |-> 0]

Next ==
    \/ RetryStep
    \/ MustStep
    \/ Stop \/ Kill \/ StopMust \/ StopWait \/ KillMust
    \/ ParentCancel
    \/ Tick
    \/ Finished

\* As in MustWorker, plus: the retry goroutine runs, the backoff timer
\* fires, and a Stop()/Kill() caller finishes its call.  Calls of Stop(),
\* Kill(), parent cancellation and the passing of time are not forced.
Fairness ==
    /\ WF_vars(RetryStep)
    /\ WF_vars(created /\ M!RunStep /\ UNCHANGED <<parent, created, rcause, rstatus, rstate, retryCancel, rpc, rerr, ctl, now, starts>>)
    /\ WF_vars(created /\ M!StartTimeout /\ UNCHANGED <<parent, created, rcause, rstatus, rstate, retryCancel, rpc, rerr, ctl, now, starts>>)
    /\ WF_vars(created /\ M!AfterCancel /\ UNCHANGED <<parent, created, rcause, rstatus, rstate, retryCancel, rpc, rerr, ctl, now, starts>>)
    /\ WF_vars(created /\ M!TaskKilled /\ UNCHANGED <<parent, created, rcause, rstatus, rstate, retryCancel, rpc, rerr, ctl, now, starts>>)
    /\ WF_vars(StopMust \/ StopWait \/ KillMust)

Spec == Init /\ [][Next]_vars /\ Fairness

-----------------------------------------------------------------------------
(* Properties                                                              *)

\* Attempts created at the time steps in set T.
StartsIn(T) == SumFunctionOnSet(starts, T)

\* Spec 8.2 per rate tick: the attempts created within one tick of
\* retry_limit.period are at most Count + 1 (Count retries authorised by the
\* counter of that tick, plus one authorised before it began).
RetryBudget ==
    \A k \in 0..Ticks(MaxTime) :
        StartsIn({t \in 0..MaxTime : Ticks(t) = k}) <= RetryCount + 1

\* Spec 8.2 as written: within ANY window of length retry_limit.period
\* the attempts are at most Count + 1.
SlidingWindowBudget ==
    \A t \in 0..MaxTime :
        StartsIn({u \in 0..t : u + Period > t}) <= RetryCount + 1

\* Stop() ends the retry worker: once Stop() is called, Done() closes
\* (Job.Stop blocks on it while holding the job's mutex).
StopTerminates == (ctl = "stopping") ~> (rcause # Live)

\* Spec 8.1 / 4.3 for the retry worker: once Status() reports a terminal
\* status, it never reports another (during the backoff the worker should
\* report Retrying).
RetryStatusStable ==
    [][(RStatusView \in M!TerminalStatuses) => RStatusView' = RStatusView]_vars

=============================================================================
