---------------------------- MODULE LoggingFork ----------------------------
(***************************************************************************)
(* The Writer of Logging as the Writer of a subtask's forked logger        *)
(* (clog.go Fork; work_base.go newWorkerBase calls WithContext for every   *)
(* label but the namespace).  WithContext registers AfterFunc(ctx,         *)
(* logger.Close) on the parent's context, so when that context ends Close  *)
(* runs on its own goroutine while the subtask's copier still writes what  *)
(* the killed process left in its pipe.  Close holds logger.mu, not the    *)
(* Writer's f.mu, and calls Writer.Flush: String, Reset, the hooks, the    *)
(* file, each a step of its own.  The fork opened no handle (its Opened    *)
(* mask is 0), so Close closes nothing.                                    *)
(***************************************************************************)
EXTENDS Logging

VARIABLES
    closing,   \* Close's position: "live", "string", "reset", "hooks",
               \* "file", "closed"
    cres       \* the string Close's Flush took from the buffer

forkVars == <<closing, cres>>
allVars == <<vars, forkVars>>

ForkTypeOK ==
    /\ TypeOK
    /\ closing \in {"live", "string", "reset", "hooks", "file", "closed"}
    /\ cres \in Seq(Token)

ForkInit == Init /\ closing = "live" /\ cres = <<>>

\* The parent's context ends: the AfterFunc goroutine starts Close.
ParentDone ==
    /\ closing = "live"
    /\ closing' = "string"
    /\ UNCHANGED <<vars, cres>>

\* Close, Flush: result := f.buffer.String(), without f.mu.
CloseString ==
    /\ closing = "string"
    /\ cres' = buffer
    /\ closing' = "reset"
    /\ UNCHANGED vars

\* Flush: f.buffer.Reset(); a segment appended since String is lost.
CloseReset ==
    /\ closing = "reset"
    /\ buffer' = <<>>
    /\ closing' = "hooks"
    /\ UNCHANGED <<wpos, wseg, flushing, result, file, open, cres>>
    /\ UNCHANGED clientVars

\* Flush: hooks.Range with the taken string, as FlushHooks does.
CloseHooks ==
    /\ closing = "hooks"
    /\ chan' = [c \in Clients |->
                  IF c \in hooks /\ Len(chan[c]) < ChanCap /\ cres # <<>>
                  THEN Append(chan[c], cres) ELSE chan[c]]
    /\ closing' = "file"
    /\ UNCHANGED <<writerVars, file, open, cres>>
    /\ UNCHANGED <<hooks, cpc, tailN, ctxDone, delivered, snap>>

\* Flush: the write to the underlying file (an empty string writes
\* nothing); Close then returns.
CloseFile ==
    /\ closing = "file"
    /\ file' = IF open /\ cres # <<>> THEN Append(file, cres) ELSE file
    /\ closing' = "closed"
    /\ UNCHANGED <<writerVars, open, cres>> /\ UNCHANGED clientVars

ForkNext ==
    \/ Next /\ UNCHANGED forkVars
    \/ ParentDone \/ CloseString \/ CloseReset \/ CloseHooks \/ CloseFile

ForkSpec == ForkInit /\ [][ForkNext]_allVars /\ Fairness

=============================================================================
