------------------------------ MODULE Pipeline ------------------------------
(***************************************************************************)
(* Pipe.Launch of src/pkg/task/task_pipe.go with the four modes of         *)
(* task_pipe_mode.go.  One goroutine (the loop) walks the subtasks and     *)
(* starts one goroutine per subtask; each of those evaluates               *)
(* pipe.launch(task) -- which starts the child worker -- as it enters its  *)
(* select, then takes either pipe.Done() or the child's result.  The      *)
(* result goes through mode.end (which may cancel the scope) and           *)
(* left.Add(-1), which cancels with nil at zero.  The loop finally waits   *)
(* for pipe.Done() and returns the cause.                                  *)
(*                                                                         *)
(* A child worker's context derives from the pipe's, so once the scope is *)
(* cancelled the child ends, with that cause or its own result.            *)
(***************************************************************************)
EXTENDS Naturals, FiniteSets

CONSTANTS
    N,            \* len(p.Subtasks), at least 1
    Modes,        \* the modes explored
    SubResults,   \* results a child worker may end with by itself
    ParentCauses  \* causes the controller's context may be cancelled with

ASSUME N \in Nat \ {0}
ASSUME Modes \subseteq {"ordered", "parallel", "race", "any"}
ASSUME SubResults \subseteq {"ok", "err"} /\ ParentCauses \subseteq {"ok", "cancelled"}

Live == "live"
Subs == 1..N

VARIABLES
    mode,     \* p.Mode
    parent,   \* cause of the controller's context
    pcause,   \* cause of the pipe scope (pipeController)
    i,        \* the loop's index
    lpc,      \* the loop: "check", "wait", "spawn", "await", "returned"
    wg,       \* pipe.wg
    left,     \* pipe.left
    sub,      \* sub[k]: "idle", "spawned", "running", "ended"
    res,      \* res[k]: what the child's result was, "none" if not taken
    ret       \* the error Launch's goroutine returned, "none" before

vars == <<mode, parent, pcause, i, lpc, wg, left, sub, res, ret>>

Errors == {"ok", "err", "nonRetriable"} \cup ParentCauses

TypeOK ==
    /\ mode \in Modes
    /\ parent \in {Live} \cup ParentCauses
    /\ pcause \in {Live} \cup Errors
    /\ i \in 1..N + 1
    /\ lpc \in {"check", "wait", "spawn", "await", "returned"}
    /\ wg \in 0..N
    /\ left \in 0..N
    /\ sub \in [Subs -> {"idle", "spawned", "running", "ended"}]
    /\ res \in [Subs -> {"none"} \cup Errors]
    /\ ret \in {"none"} \cup Errors

\* cancel(cause) of the scope: the first cancel wins.
Cancel(e) == pcause' = IF pcause = Live THEN e ELSE pcause

\* mode.serialize(i, n)
Serialize == mode = "ordered"

\* mode.end(err, cancel): the cause it cancels with, "none" if it does not.
EndCause(e) ==
    CASE mode \in {"parallel", "ordered"} -> IF e # "ok" THEN e ELSE "none"
      [] mode = "race"                    -> e
      [] mode = "any"                     -> IF e = "ok" THEN "ok" ELSE "none"

-----------------------------------------------------------------------------
(* The loop goroutine                                                      *)

\* Mutant: the loop runs one index past the last subtask.
LoopCheckOffByOne ==
    /\ lpc = "check"
    /\ lpc' = IF i > N + 1 \/ pcause # Live THEN "await"
              ELSE IF Serialize THEN "wait" ELSE "spawn"
    /\ UNCHANGED <<mode, parent, pcause, i, wg, left, sub, res, ret>>

\* Mutant: the mode's serialize() ignored, no wg.Wait().
LoopCheckNoSerialize ==
    /\ lpc = "check"
    /\ lpc' = IF i > N \/ pcause # Live THEN "await" ELSE "spawn"
    /\ UNCHANGED <<mode, parent, pcause, i, wg, left, sub, res, ret>>

\* Top of the loop body: break once the scope is done; wait for the
\* running subtasks when the mode serializes.
LoopCheck ==
    /\ lpc = "check"
    /\ lpc' = IF i > N \/ pcause # Live THEN "await"
              ELSE IF Serialize THEN "wait" ELSE "spawn"
    /\ UNCHANGED <<mode, parent, pcause, i, wg, left, sub, res, ret>>

\* pipe.wg.Wait()
LoopWait ==
    /\ lpc = "wait"
    /\ wg = 0
    /\ lpc' = "spawn"
    /\ UNCHANGED <<mode, parent, pcause, i, wg, left, sub, res, ret>>

\* Mutant: the second pipe.Err() check, after the wait, left out.
SpawnUnchecked ==
    /\ lpc = "spawn"
    /\ wg' = wg + 1
    /\ sub' = [sub EXCEPT ![i] = "spawned"]
    /\ i' = i + 1
    /\ lpc' = "check"
    /\ UNCHANGED <<mode, parent, pcause, left, res, ret>>

\* If the scope is still live: wg.Add(1) and start the subtask goroutine.
Spawn ==
    /\ lpc = "spawn"
    /\ IF pcause = Live
       THEN wg' = wg + 1 /\ sub' = [sub EXCEPT ![i] = "spawned"]
       ELSE UNCHANGED <<wg, sub>>
    /\ i' = i + 1
    /\ lpc' = "check"
    /\ UNCHANGED <<mode, parent, pcause, left, res, ret>>

\* Cause(pipe), wrapped NonRetriable in parallel mode.
Result(e) ==
    IF e # "ok" /\ mode = "parallel" THEN "nonRetriable" ELSE e

\* <-pipe.Done(), then return.
Await ==
    /\ lpc = "await"
    /\ pcause # Live
    /\ ret' = Result(pcause)
    /\ lpc' = "returned"
    /\ UNCHANGED <<mode, parent, pcause, i, wg, left, sub, res>>

-----------------------------------------------------------------------------
(* Subtask goroutines and their child workers                              *)

\* The select statement is entered: pipe.launch(task) starts the child.
SubLaunch(k) ==
    /\ sub[k] = "spawned"
    /\ sub' = [sub EXCEPT ![k] = "running"]
    /\ UNCHANGED <<mode, parent, pcause, i, lpc, wg, left, res, ret>>

\* Mutant: the pipe.Done() arm returns without wg.Done() (no defer).
SubAbortNoDone(k) ==
    /\ sub[k] = "running"
    /\ pcause # Live
    /\ sub' = [sub EXCEPT ![k] = "ended"]
    /\ UNCHANGED <<mode, parent, pcause, i, lpc, wg, left, res, ret>>

\* Arm pipe.Done(): return; the deferred wg.Done().
SubAbort(k) ==
    /\ sub[k] = "running"
    /\ pcause # Live
    /\ sub' = [sub EXCEPT ![k] = "ended"]
    /\ wg' = wg - 1
    /\ UNCHANGED <<mode, parent, pcause, i, lpc, left, res, ret>>

\* The child's result arrives: mode.end, left.Add(-1) (cancel(nil) at
\* zero), the deferred wg.Done().  A child ends by itself with one of
\* SubResults, or with the scope's cause once the scope is cancelled.
SubEnd(k, e) ==
    /\ sub[k] = "running"
    /\ e \in SubResults \cup (IF pcause # Live THEN {pcause} ELSE {})
    /\ LET c == EndCause(e) IN
       pcause' = IF pcause # Live THEN pcause
                 ELSE IF c # "none" THEN c
                 ELSE IF left = 1 THEN "ok" ELSE pcause
    /\ left' = left - 1
    /\ sub' = [sub EXCEPT ![k] = "ended"]
    /\ res' = [res EXCEPT ![k] = e]
    /\ wg' = wg - 1
    /\ UNCHANGED <<mode, parent, i, lpc, ret>>

\* The controller's context is cancelled; the pipe scope derives from it.
ParentCancel ==
    /\ parent = Live
    /\ \E c \in ParentCauses : parent' = c /\ Cancel(c)
    /\ UNCHANGED <<mode, i, lpc, wg, left, sub, res, ret>>

\* Launch's goroutine has returned and every subtask goroutine has ended.
Finished ==
    /\ lpc = "returned"
    /\ \A k \in Subs : sub[k] \in {"idle", "ended"}
    /\ UNCHANGED vars

-----------------------------------------------------------------------------

Init ==
    /\ mode \in Modes
    /\ parent = Live
    /\ pcause = Live
    /\ i = 1
    /\ lpc = "check"
    /\ wg = 0
    /\ left = N
    /\ sub = [k \in Subs |-> "idle"]
    /\ res = [k \in Subs |-> "none"]
    /\ ret = "none"

LoopStep == LoopCheck \/ LoopWait \/ Spawn \/ Await

Next ==
    \/ LoopStep
    \/ \E k \in Subs : SubLaunch(k) \/ SubAbort(k) \/ \E e \in Errors : SubEnd(k, e)
    \/ ParentCancel
    \/ Finished

\* Goroutines that can run do.  A child worker need not end by itself (a
\* service runs until stopped), but once the scope is cancelled its context
\* is, and it ends (MustWorker.StopTerminates, the cancel arm of Run).
Fairness ==
    /\ WF_vars(LoopStep)
    /\ \A k \in Subs :
         /\ WF_vars(SubLaunch(k))
         /\ WF_vars(pcause # Live /\ \E e \in Errors : SubEnd(k, e))

Spec == Init /\ [][Next]_vars /\ Fairness

-----------------------------------------------------------------------------
(* Properties                                                              *)

\* The child worker of subtask k has been launched.
Started(k) == sub[k] \in {"running", "ended"}

\* Spec 4.4, ordered: sub[i] starts only once every earlier subtask has
\* completed (the loop's wg.Wait against the subtask goroutines).
OrderedSequential ==
    mode = "ordered" =>
        \A j, k \in Subs : j < k /\ Started(k) => sub[j] = "ended"

\* Spec S3: in ordered mode a failed subtask stops the pipeline; no later
\* subtask starts, although the failure cancels the scope while the loop is
\* already past its check at the top of the loop body.
OrderedNoStartAfterFailure ==
    mode = "ordered" =>
        \A j, k \in Subs : j < k /\ res[j] = "err" => ~Started(k)

\* Once the scope is cancelled (by a subtask, by reaching zero left, or by
\* the controller) Launch's goroutine returns, wherever the loop was.
PipeReturns == (pcause # Live) ~> (lpc = "returned")

\* Spec 4.4: errors of parallel, race and any pipelines (those of their
\* subtasks, the controller's context being live) are wrapped NonRetriable
\* so that the enclosing retry worker does not retry them.
ErrorsNonRetriable ==
    (/\ ret \notin {"none", "ok"} /\ parent = Live
     /\ mode \in {"parallel", "race", "any"})
        => ret = "nonRetriable"

=============================================================================
