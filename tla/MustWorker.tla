----------------------------- MODULE MustWorker -----------------------------
(***************************************************************************)
(* One attempt of a task: mustWorker of src/pkg/task/work_must.go.        *)
(*                                                                         *)
(* Run() is one goroutine; the start-timeout and memory-limit goroutines,  *)
(* the context.AfterFunc callback, the task's process, a Stop() caller and *)
(* a Kill() caller run concurrently with it.  Every select of Run() is a   *)
(* set of actions, one per arm: when several arms are ready Go picks one   *)
(* at random, so the model lets any ready arm fire.  Durations are not     *)
(* modelled: a timer may fire at any time after it is armed.               *)
(*                                                                         *)
(* Errors are strings: "ok" is the nil error (ErrOk inside a context),     *)
(* "err" a plain error, "nonRetriable" an error wrapping ErrNonRetriable,  *)
(* the other names the Status values used as errors.                       *)
(***************************************************************************)
EXTENDS Naturals

CONSTANTS
    StartTimeoutSet,  \* options.StartTimeout.IsPositive()
    ExecTimeoutSet,   \* options.ExecTimeout.IsPositive()
    MaxMemorySet,     \* options.MaxMemory.IsPositive()
    TaskResults,      \* errors the task may send on its exitReason channel
    ParentCauses      \* causes the parent context may be cancelled with

ASSUME TaskResults \subseteq {"ok", "err", "nonRetriable", "cancelled"}
ASSUME ParentCauses \subseteq {"ok", "cancelled"}

Live   == "live"    \* context.Cause of a context that is not cancelled
NoExit == "none"    \* nothing sent on exitReason yet
NoRet  == "none"    \* Run() has not returned

\* Status values (status.go) that are errors other than Errored.
StatusErrors == {"cancelled", "timeoutStop", "timeoutStart", "timeoutExec"}

\* Every error a worker context can be cancelled with.
Errors == TaskResults \cup ParentCauses \cup StatusErrors
            \cup {"ok", "err", "quitEarly", "memLimit"}

\* Statuses with FlagAlive (status.go).
AliveStatuses == {"Starting", "Stopping", "Running", "Retrying"}

\* StatusFromErr: the Status an error is identical to, else Errored.
StatusFromErr(e) ==
    CASE e = "ok"           -> "Complete"
      [] e = "cancelled"    -> "Cancelled"
      [] e = "timeoutStop"  -> "TimeoutStop"
      [] e = "timeoutStart" -> "TimeoutStart"
      [] e = "timeoutExec"  -> "TimeoutExec"
      [] OTHER              -> "Errored"

TerminalStatuses == {"Complete", "Cancelled", "Errored", "TimeoutStop",
                     "TimeoutStart", "TimeoutExec"}

VARIABLES
    parent,      \* cause of the parent context (Live while not cancelled)
    cause,       \* context.Cause of the worker context
    status,      \* the status field
    stopUsed,    \* stopChannelUsed: the Stopping() channel is closed
    afterRan,    \* the AfterFunc callback signalStop(false) has run
    pc,          \* where Run() is: "init", "launch", "starting", "running", "done"
    startTimer,  \* the start-timeout goroutine is waiting
    memWatch,    \* the memory-limit goroutine is polling
    exit,        \* the error sent on exitReason, NoExit if none yet
    ret,         \* the error Run() returned, NoRet until it returns
    stopper      \* a Stop() caller: "idle", "waiting" (inline timer), "returned"

vars == <<parent, cause, status, stopUsed, afterRan, pc, startTimer,
          memWatch, exit, ret, stopper>>

\* The variables of the worker itself; the Stop() caller and the parent
\* context belong to whoever holds the worker.
workerVars == <<cause, status, stopUsed, afterRan, pc, startTimer,
                memWatch, exit, ret>>

TypeOK ==
    /\ parent \in {Live} \cup ParentCauses
    /\ cause \in {Live} \cup Errors
    /\ status \in {"Idle", "Starting", "Running", "Stopping"}
    /\ stopUsed \in BOOLEAN
    /\ afterRan \in BOOLEAN
    /\ pc \in {"init", "launch", "starting", "running", "done"}
    /\ startTimer \in BOOLEAN
    /\ memWatch \in BOOLEAN
    /\ exit \in {NoExit} \cup TaskResults
    /\ ret \in {NoRet} \cup Errors
    /\ stopper \in {"idle", "waiting", "returned"}

\* cancel(cause) of a context.WithCancelCause: the first cancel wins.
Cancel(e) == cause' = IF cause = Live THEN e ELSE cause

-----------------------------------------------------------------------------
(* Construction and the Status() accessor.                                 *)

\* newMustWorker: a context derived from the parent, so born cancelled if
\* the parent already is; status zero (Idle); Stopping() open.
NewMust ==
    /\ cause' = parent
    /\ status' = "Idle"
    /\ stopUsed' = FALSE
    /\ afterRan' = FALSE
    /\ pc' = "init"
    /\ startTimer' = FALSE
    /\ memWatch' = FALSE
    /\ exit' = NoExit
    /\ ret' = NoRet

\* Status(): the cause once the context is done, else the status if alive.
StatusView ==
    IF cause # Live THEN StatusFromErr(cause)
    ELSE IF status \in AliveStatuses THEN status ELSE "Idle"

-----------------------------------------------------------------------------
(* Run()                                                                   *)

\* Arm the start-timeout and memory goroutines, set Starting, launch the task.
RunBegin ==
    /\ pc = "init"
    /\ pc' = "launch"
    /\ startTimer' = StartTimeoutSet
    /\ memWatch' = MaxMemorySet
    /\ status' = "Starting"
    /\ UNCHANGED <<cause, stopUsed, afterRan, exit, ret>>

\* task.Launch returned: close(launchTimeout) ends the start-timeout goroutine.
LaunchReturn ==
    /\ pc = "launch"
    /\ pc' = "starting"
    /\ startTimer' = FALSE
    /\ UNCHANGED <<cause, status, stopUsed, afterRan, memWatch, exit, ret>>

\* The start-timeout goroutine: StartTimeout elapsed before Launch returned.
StartTimeout ==
    /\ startTimer
    /\ startTimer' = FALSE
    /\ Cancel("timeoutStart")
    /\ UNCHANGED <<status, stopUsed, afterRan, pc, memWatch, exit, ret>>

\* The memory goroutine: a 30 s sample exceeded MaxMemory.
MemoryLimit ==
    /\ memWatch
    /\ memWatch' = FALSE
    /\ Cancel("memLimit")
    /\ UNCHANGED <<status, stopUsed, afterRan, pc, startTimer, exit, ret>>

\* The error the task's exit is turned into before MinUptime elapsed.
EarlyExitErr(e) ==
    IF e = "ok" THEN "quitEarly"
    ELSE IF StatusFromErr(e) # "Errored" THEN "err" ELSE e

\* The error the task's exit is turned into once Running.
ExitErr(e) ==
    IF e # "ok" /\ StatusFromErr(e) # "Errored" THEN "err" ELSE e

\* Run() returns err (Cause(work) maps ErrOk back to nil, written "ok").
Return(e) == pc' = "done" /\ ret' = e

\* Mutant: the work.Done() arm taken without the context being done (as a
\* select with a default arm would), returning Cause(work) of a live context.
StartDoneUnguarded ==
    /\ pc = "starting"
    /\ Return(cause)
    /\ UNCHANGED <<cause, status, stopUsed, afterRan, startTimer, memWatch, exit>>

\* First select: work.Done().
StartDone ==
    /\ pc = "starting"
    /\ cause # Live
    /\ Return(cause)
    /\ UNCHANGED <<cause, status, stopUsed, afterRan, startTimer, memWatch, exit>>

\* First select: MinUptime.After() (a closed channel when MinUptime is 0).
MinUptime ==
    /\ pc = "starting"
    /\ pc' = "running"
    /\ status' = "Running"
    /\ UNCHANGED <<cause, stopUsed, afterRan, startTimer, memWatch, exit, ret>>

\* First select: the task exited before MinUptime.
StartExit ==
    /\ pc = "starting"
    /\ exit # NoExit
    /\ Cancel(EarlyExitErr(exit))
    /\ Return(EarlyExitErr(exit))
    /\ UNCHANGED <<status, stopUsed, afterRan, startTimer, memWatch, exit>>

\* Second select: work.Done().
RunDone ==
    /\ pc = "running"
    /\ cause # Live
    /\ Return(cause)
    /\ UNCHANGED <<cause, status, stopUsed, afterRan, startTimer, memWatch, exit>>

\* Second select: ExecTimeout.AfterIf() (nil channel when not positive).
ExecTimeout ==
    /\ pc = "running"
    /\ ExecTimeoutSet
    /\ Cancel("timeoutExec")
    /\ Return("timeoutExec")
    /\ UNCHANGED <<status, stopUsed, afterRan, startTimer, memWatch, exit>>

\* Mutant: the second select's exit arm returns without work.cancel(err).
RunExitNoCancel ==
    /\ pc = "running"
    /\ exit # NoExit
    /\ Return(ExitErr(exit))
    /\ UNCHANGED <<cause, status, stopUsed, afterRan, startTimer, memWatch, exit>>

\* Second select: the task exited.
RunExit ==
    /\ pc = "running"
    /\ exit # NoExit
    /\ Cancel(ExitErr(exit))
    /\ Return(ExitErr(exit))
    /\ UNCHANGED <<status, stopUsed, afterRan, startTimer, memWatch, exit>>

RunStep ==
    \/ RunBegin \/ LaunchReturn
    \/ StartDone \/ MinUptime \/ StartExit
    \/ RunDone \/ ExecTimeout \/ RunExit

-----------------------------------------------------------------------------
(* The task's process and the callbacks of the worker context.             *)

\* The task sends its result on exitReason (the process exited by itself,
\* on SIGINT after Stopping(), or killed by exec.CommandContext).
TaskExit(r) ==
    /\ pc \in {"launch", "starting", "running"}
    /\ exit = NoExit
    /\ exit' = r
    /\ UNCHANGED <<cause, status, stopUsed, afterRan, pc, startTimer, memWatch, ret>>

\* exec.CommandContext kills the process once the context is done.
TaskKilled == cause # Live /\ \E r \in TaskResults : TaskExit(r)

\* context.AfterFunc(w.Context, signalStop(false)): Stopping status, close
\* Stopping(); the detached enforceOrCancel finds the context done.
AfterCancel ==
    /\ cause # Live
    /\ ~afterRan
    /\ afterRan' = TRUE
    /\ status' = "Stopping"
    /\ stopUsed' = TRUE
    /\ UNCHANGED <<cause, pc, startTimer, memWatch, exit, ret>>

-----------------------------------------------------------------------------
(* Stop() and Kill().  StopTimeout is always positive: Options.WithDefaults *)
(* clamps it to [250ms, 30s] or sets 5s, so signalStop never cancels at     *)
(* once and Stop() (wait = true) runs enforceOrCancel inline.               *)

\* The effect of Stop() on the worker: nothing once the context is done,
\* else status = Stopping and the Stopping() channel closed.
StopSignal ==
    IF cause = Live
    THEN status' = "Stopping" /\ stopUsed' = TRUE
    ELSE UNCHANGED <<status, stopUsed>>

\* Whether Stop() won the stopChannelUsed swap and waits inline.
StopBlocks == cause = Live /\ ~stopUsed

Stop ==
    /\ stopper = "idle"
    /\ StopSignal
    /\ stopper' = IF StopBlocks THEN "waiting" ELSE "returned"
    /\ UNCHANGED <<parent, cause, afterRan, pc, startTimer, memWatch, exit, ret>>

\* Mutant: the timeout arm of enforceOrCancel forgets cancel(TimeoutStop).
StopEnforceNoCancel ==
    /\ stopper = "waiting"
    /\ stopper' = "returned"
    /\ UNCHANGED <<parent, cause, status, stopUsed, afterRan, pc, startTimer, memWatch, exit, ret>>

\* enforceOrCancel: StopTimeout elapsed (cancel(TimeoutStop)) or work.Done();
\* a cancel after Done is a no-op, so both arms are this one step.
StopEnforce ==
    /\ stopper = "waiting"
    /\ Cancel("timeoutStop")
    /\ stopper' = "returned"
    /\ UNCHANGED <<parent, status, stopUsed, afterRan, pc, startTimer, memWatch, exit, ret>>

Kill ==
    /\ cause = Live
    /\ Cancel("cancelled")
    /\ UNCHANGED <<parent, status, stopUsed, afterRan, pc, startTimer, memWatch, exit, ret, stopper>>

\* The parent context is cancelled; the cancellation reaches the worker
\* context synchronously.
ParentCancel ==
    /\ parent = Live
    /\ \E c \in ParentCauses : parent' = c /\ Cancel(c)
    /\ UNCHANGED <<status, stopUsed, afterRan, pc, startTimer, memWatch, exit, ret, stopper>>

\* Run() has returned and nothing is left to do.
Finished ==
    /\ pc = "done"
    /\ UNCHANGED vars

-----------------------------------------------------------------------------

Init ==
    /\ parent = Live
    /\ cause = Live
    /\ status = "Idle"
    /\ stopUsed = FALSE
    /\ afterRan = FALSE
    /\ pc = "init"
    /\ startTimer = FALSE
    /\ memWatch = FALSE
    /\ exit = NoExit
    /\ ret = NoRet
    /\ stopper = "idle"

WorkerStep ==
    \/ RunStep
    \/ StartTimeout \/ MemoryLimit
    \/ \E r \in TaskResults : TaskExit(r)
    \/ AfterCancel

Next ==
    \/ WorkerStep /\ UNCHANGED <<parent, stopper>>
    \/ Stop \/ StopEnforce \/ Kill \/ ParentCancel
    \/ Finished

\* Goroutines that are runnable eventually run, armed timers eventually
\* fire, and a process whose context is done is eventually killed.  A task
\* is never assumed to exit by itself, nor memory to exceed its limit.
Fairness ==
    /\ WF_vars(RunStep /\ UNCHANGED <<parent, stopper>>)
    /\ WF_vars(StartTimeout /\ UNCHANGED <<parent, stopper>>)
    /\ WF_vars(AfterCancel /\ UNCHANGED <<parent, stopper>>)
    /\ WF_vars(TaskKilled /\ UNCHANGED <<parent, stopper>>)
    /\ WF_vars(StopEnforce)

Spec == Init /\ [][Next]_vars /\ Fairness

-----------------------------------------------------------------------------
(* Properties                                                              *)

\* The abstract Worker seen through Status() and Run(): the phase of the
\* status Status() reports, its terminal value, and whether Run() returned.
AbstractPhase ==
    IF StatusView \in TerminalStatuses THEN "dead"
    ELSE IF StatusView = "Idle" THEN "idle" ELSE "alive"

W == INSTANCE Worker WITH
        Terminal <- TerminalStatuses,
        phase    <- AbstractPhase,
        final    <- IF AbstractPhase = "dead" THEN StatusView ELSE "none",
        returned <- ret # NoRet

\* mustWorker implements the Worker contract: Status() goes from Idle to
\* alive to a terminal status that then never changes (Status() reads the
\* context cause first, although the AfterFunc callback rewrites the status
\* field after cancellation), Run() returns only after it cancelled the
\* context or found it done, and once the context is done Run() returns.
WorkerRefined == W!Spec

\* A Stop() call eventually ends the worker: its inline enforceOrCancel
\* cancels with TimeoutStop unless the context is done first, whether
\* Stop() came before Run(), during launch, or while running.
StopTerminates == (stopper # "idle") ~> (cause # Live)

\* Spec 8.1: once Stop() has made Status() report Stopping, Status() never
\* reports Running afterwards (Run() sets status = Running when MinUptime
\* elapses without checking whether Stop() was called).
NoRunningAfterStopping ==
    [][StatusView = "Stopping" => StatusView' # "Running"]_vars

=============================================================================
