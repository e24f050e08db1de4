------------------------------- MODULE Worker -------------------------------
(***************************************************************************)
(* What a task.Worker (src/pkg/task/work.go) promises the code that holds  *)
(* it, seen through Status() and Run():                                    *)
(*                                                                         *)
(*   - Status() starts Idle, may become alive (a status with FlagAlive,    *)
(*     status.go) and ends dead with a terminal status that never changes; *)
(*     it never goes back to Idle or to alive;                             *)
(*   - Run() returns only once the worker is dead, and a dead worker's     *)
(*     Run() eventually returns.                                           *)
(*                                                                         *)
(* Which alive status (Starting, Running, Stopping, Retrying) is reported  *)
(* is left open here.                                                      *)
(***************************************************************************)
CONSTANTS
    Terminal    \* the terminal statuses

VARIABLES
    phase,      \* "idle", "alive" or "dead", as Status() reports it
    final,      \* the terminal status once dead
    returned    \* Run() has returned

avars == <<phase, final, returned>>

NoStatus == "none"

TypeOK ==
    /\ phase \in {"idle", "alive", "dead"}
    /\ final \in Terminal \cup {NoStatus}
    /\ returned \in BOOLEAN

Init ==
    /\ phase = "idle"
    /\ final = NoStatus
    /\ returned = FALSE

\* Status() reports a status with FlagAlive for the first time.
Begin ==
    /\ phase = "idle"
    /\ phase' = "alive"
    /\ UNCHANGED <<final, returned>>

\* The worker ends with terminal status t, whether it ever was alive or not.
End(t) ==
    /\ phase \in {"idle", "alive"}
    /\ phase' = "dead"
    /\ final' = t
    /\ UNCHANGED returned

\* Run() itself ends the alive worker with status t and returns.
RunEnds(t) ==
    /\ phase = "alive"
    /\ ~returned
    /\ phase' = "dead"
    /\ final' = t
    /\ returned' = TRUE

\* Run() returns from a worker that already ended.
RunReturns ==
    /\ phase = "dead"
    /\ ~returned
    /\ returned' = TRUE
    /\ UNCHANGED <<phase, final>>

Next ==
    \/ Begin
    \/ \E t \in Terminal : End(t) \/ RunEnds(t)
    \/ RunReturns

Spec == Init /\ [][Next]_avars /\ WF_avars(RunReturns)

=============================================================================
