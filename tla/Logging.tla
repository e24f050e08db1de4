------------------------------ MODULE Logging ------------------------------
(***************************************************************************)
(* One job's log stream (src/pkg/clog) and the /logs handler that tails    *)
(* and follows it (src/pkg/session/stream_log.go).                         *)
(*                                                                         *)
(* The job's main task writes through one clog.Writer: the exec copier of  *)
(* the process's stdout and the task's own Logger().Printf calls are its   *)
(* Sources.  Each Write is split into segments by forEachLine; each        *)
(* segment is appended under the Writer's mutex, after the prefix when the *)
(* buffer is empty, and a segment that ends a line flushes the buffer,     *)
(* still under the mutex: first to every registered hook, then to the      *)
(* file.  A line is the sequence of its tokens (the prefix and the         *)
(* segments), so lines are distinct values.  The stderr stream has its own *)
(* Writer and file and behaves the same; one stream is modelled.           *)
(*                                                                         *)
(* A log client's handler tails the file, registers its hook, and then     *)
(* forwards what the hook receives over a buffered channel whose send      *)
(* never blocks.                                                           *)
(***************************************************************************)
EXTENDS Integers, Sequences

CONSTANTS
    Sources,     \* goroutines writing to the Writer
    Output,      \* Output[s]: the Write calls of s, each a sequence of segments
    Clients,     \* concurrent /logs requests
    TailCounts,  \* values the "t" query parameter parses to
    ChanCap,     \* capacity of the handler's channel (128)
    Prefix       \* the token WritePrefix writes (prefixComputed)

Segment == [id : STRING, end : BOOLEAN]

ASSUME /\ \A s \in Sources : Output[s] \in Seq(Seq(Segment))
       /\ ChanCap \in Nat \ {0}
       /\ TailCounts \subseteq Int

VARIABLES
    buffer,     \* the Writer's strings.Builder
    wpos,       \* wpos[s]: the Write call s is in (past the end when done)
    wseg,       \* wseg[s]: the next segment of that Write
    flushing,   \* flushing[s]: "none", or the step of the Flush s is in
    result,     \* result[s]: the line s's Flush took from the buffer
    file,       \* the lines in the log file
    open,       \* the file handle is open
    hooks,      \* clients whose hook is registered
    chan,       \* chan[c]: the handler's channel
    cpc,        \* cpc[c]: where the handler is
    tailN,      \* tailN[c]: the parsed "t" parameter
    ctxDone,    \* ctxDone[c]: the request's context is done
    delivered,  \* delivered[c]: the lines the handler wrote to the client
    snap        \* snap[c]: the file's length when the handler tailed it

vars == <<buffer, wpos, wseg, flushing, result, file, open, hooks, chan,
          cpc, tailN, ctxDone, delivered, snap>>
writerVars == <<buffer, wpos, wseg, flushing, result>>
clientVars == <<hooks, chan, cpc, tailN, ctxDone, delivered, snap>>

\* WritePrefix's output as a token of the buffer.
PrefixToken == [id |-> Prefix, end |-> FALSE]
Token == Segment

TypeOK ==
    /\ buffer \in Seq(Token)
    /\ wpos \in [Sources -> Nat \ {0}] /\ wseg \in [Sources -> Nat \ {0}]
    /\ flushing \in [Sources -> {"none", "hooks", "file"}]
    /\ result \in [Sources -> Seq(Token)]
    /\ file \in Seq(Seq(Token)) /\ open \in BOOLEAN
    /\ hooks \subseteq Clients
    /\ chan \in [Clients -> Seq(Seq(Token))]
    /\ \A c \in Clients : Len(chan[c]) <= ChanCap
    /\ cpc \in [Clients -> {"idle", "tail", "register", "loop", "done"}]
    /\ tailN \in [Clients -> TailCounts \cup {0}]
    /\ ctxDone \in [Clients -> BOOLEAN]
    /\ delivered \in [Clients -> Seq(Seq(Token))]
    /\ snap \in [Clients -> Nat]

-----------------------------------------------------------------------------
(* The Writer (writer.go)                                                  *)

\* A source has segments left to write.
Writing(s) == wpos[s] <= Len(Output[s])

\* The Writer's mutex is held by a source inside Flush.
Locked == \E s \in Sources : flushing[s] # "none"

\* forEachLine: the position after the current segment.
Advance(s) ==
    IF wseg[s] < Len(Output[s][wpos[s]])
    THEN /\ wseg' = [wseg EXCEPT ![s] = @ + 1] /\ UNCHANGED wpos
    ELSE /\ wpos' = [wpos EXCEPT ![s] = @ + 1] /\ wseg' = [wseg EXCEPT ![s] = 1]

\* A Writer.Write that appends its segment without f.mu.
WriteSegUnlocked(s) ==
    /\ Writing(s)
    /\ LET seg  == Output[s][wpos[s]][wseg[s]]
           line == Append(IF buffer = <<>> THEN <<PrefixToken>> ELSE buffer, seg)
       IN IF seg.end
          THEN /\ result' = [result EXCEPT ![s] = line]
               /\ buffer' = <<>>
               /\ flushing' = [flushing EXCEPT ![s] = "hooks"]
          ELSE /\ buffer' = line
               /\ UNCHANGED <<result, flushing>>
    /\ Advance(s)
    /\ UNCHANGED <<file, open>> /\ UNCHANGED clientVars

\* One forEachLine callback of Writer.Write, under f.mu: WritePrefix when
\* the buffer is empty, then the segment; a segment that ends a line
\* starts Flush, which takes the buffer's string and resets it.
WriteSeg(s) ==
    /\ Writing(s) /\ ~Locked
    /\ LET seg  == Output[s][wpos[s]][wseg[s]]
           line == Append(IF buffer = <<>> THEN <<PrefixToken>> ELSE buffer, seg)
       IN IF seg.end
          THEN /\ result' = [result EXCEPT ![s] = line]
               /\ buffer' = <<>>
               /\ flushing' = [flushing EXCEPT ![s] = "hooks"]
          ELSE /\ buffer' = line
               /\ UNCHANGED <<result, flushing>>
    /\ Advance(s)
    /\ UNCHANGED <<file, open>> /\ UNCHANGED clientVars

\* A hook that appends to its queue without checking for room.
FlushHooksNoDrop(s) ==
    /\ flushing[s] = "hooks"
    /\ chan' = [c \in Clients |->
                  IF c \in hooks THEN Append(chan[c], result[s]) ELSE chan[c]]
    /\ flushing' = [flushing EXCEPT ![s] = "file"]
    /\ UNCHANGED <<buffer, wpos, wseg, result, file, open>>
    /\ UNCHANGED <<hooks, cpc, tailN, ctxDone, delivered, snap>>

\* A hook whose send blocks until the channel has room.
FlushHooksBlocking(s) ==
    /\ flushing[s] = "hooks"
    /\ \A c \in hooks : Len(chan[c]) < ChanCap
    /\ chan' = [c \in Clients |->
                  IF c \in hooks THEN Append(chan[c], result[s]) ELSE chan[c]]
    /\ flushing' = [flushing EXCEPT ![s] = "file"]
    /\ UNCHANGED <<buffer, wpos, wseg, result, file, open>>
    /\ UNCHANGED <<hooks, cpc, tailN, ctxDone, delivered, snap>>

\* Flush, hooks.Range: every registered logStreamHook gets the line; its
\* select sends when the channel has room and drops the line otherwise.
FlushHooks(s) ==
    /\ flushing[s] = "hooks"
    /\ chan' = [c \in Clients |->
                  IF c \in hooks /\ Len(chan[c]) < ChanCap
                  THEN Append(chan[c], result[s]) ELSE chan[c]]
    /\ flushing' = [flushing EXCEPT ![s] = "file"]
    /\ UNCHANGED <<buffer, wpos, wseg, result, file, open>>
    /\ UNCHANGED <<hooks, cpc, tailN, ctxDone, delivered, snap>>

\* Flush, then the write to the underlying file, which fails once Close
\* closed it; the callback returns and f.mu is unlocked.
FlushFile(s) ==
    /\ flushing[s] = "file"
    /\ file' = IF open THEN Append(file, result[s]) ELSE file
    /\ flushing' = [flushing EXCEPT ![s] = "none"]
    /\ UNCHANGED <<buffer, wpos, wseg, result, open>> /\ UNCHANGED clientVars

\* Logger.Close, run by the AfterFunc that WithContext registers on the
\* job's context when the session's context ends: the job logger has no
\* Writer of its own (the task writes through a fork), and it closes the
\* handle it opened.
Close ==
    /\ open
    /\ open' = FALSE
    /\ UNCHANGED writerVars /\ UNCHANGED file /\ UNCHANGED clientVars

-----------------------------------------------------------------------------
(* The /logs handler (stream_log.go)                                       *)

\* tailFileN: the last n lines of the file, in file order.
Newest(lines, n) ==
    IF n >= Len(lines) THEN lines ELSE SubSeq(lines, Len(lines) - n + 1, Len(lines))

\* A handler that registers its hook before it tails the file.
RequestRegisterFirst(c, t) ==
    /\ cpc[c] = "idle"
    /\ cpc' = [cpc EXCEPT ![c] = "tail"]
    /\ tailN' = [tailN EXCEPT ![c] = t]
    /\ hooks' = hooks \cup {c}
    /\ UNCHANGED <<chan, ctxDone, delivered, snap>>
    /\ UNCHANGED writerVars /\ UNCHANGED <<file, open>>

\* LogsHandler up to the tail: authorized, a GET, a pattern that compiles,
\* and "t" parsed.
Request(c, t) ==
    /\ cpc[c] = "idle"
    /\ cpc' = [cpc EXCEPT ![c] = "tail"]
    /\ tailN' = [tailN EXCEPT ![c] = t]
    /\ UNCHANGED <<hooks, chan, ctxDone, delivered, snap>>
    /\ UNCHANGED writerVars /\ UNCHANGED <<file, open>>

\* LogsHandler returns early: Authorize refuses the request or the
\* pattern does not compile.
Reject(c) ==
    /\ cpc[c] = "idle"
    /\ cpc' = [cpc EXCEPT ![c] = "done"]
    /\ UNCHANGED <<hooks, chan, tailN, ctxDone, delivered, snap>>
    /\ UNCHANGED writerVars /\ UNCHANGED <<file, open>>

\* ForEachJobRgx over the matching job: logger.Tail reads the file up to
\* its size at Seek and writes the lines.  A negative count panics in
\* make([]string, numLines); net/http recovers, before any hook exists.
TailStep(c) ==
    /\ cpc[c] = "tail"
    /\ IF tailN[c] < 0
       THEN /\ cpc' = [cpc EXCEPT ![c] = "done"]
            /\ UNCHANGED <<delivered, snap>>
       ELSE /\ delivered' = [delivered EXCEPT ![c] = @ \o Newest(file, tailN[c])]
            /\ snap' = [snap EXCEPT ![c] = Len(file)]
            /\ cpc' = [cpc EXCEPT ![c] = "register"]
    /\ UNCHANGED <<hooks, chan, tailN, ctxDone>>
    /\ UNCHANGED writerVars /\ UNCHANGED <<file, open>>

\* clog.RegisterHook.
Register(c) ==
    /\ cpc[c] = "register"
    /\ hooks' = hooks \cup {c}
    /\ cpc' = [cpc EXCEPT ![c] = "loop"]
    /\ UNCHANGED <<chan, tailN, ctxDone, delivered, snap>>
    /\ UNCHANGED writerVars /\ UNCHANGED <<file, open>>

\* The loop's select takes a line from the channel and writes it.
Receive(c) ==
    /\ cpc[c] = "loop" /\ chan[c] # <<>>
    /\ delivered' = [delivered EXCEPT ![c] = Append(@, Head(chan[c]))]
    /\ chan' = [chan EXCEPT ![c] = Tail(@)]
    /\ UNCHANGED <<hooks, cpc, tailN, ctxDone, snap>>
    /\ UNCHANGED writerVars /\ UNCHANGED <<file, open>>

\* The client goes away: r.Context() is done.
Disconnect(c) ==
    /\ cpc[c] \in {"tail", "register", "loop"} /\ ~ctxDone[c]
    /\ ctxDone' = [ctxDone EXCEPT ![c] = TRUE]
    /\ UNCHANGED <<hooks, chan, cpc, tailN, delivered, snap>>
    /\ UNCHANGED writerVars /\ UNCHANGED <<file, open>>

\* The select takes the Done arm; the deferred RemoveHook runs.
Return(c) ==
    /\ cpc[c] = "loop" /\ ctxDone[c]
    /\ hooks' = hooks \ {c}
    /\ cpc' = [cpc EXCEPT ![c] = "done"]
    /\ UNCHANGED <<chan, tailN, ctxDone, delivered, snap>>
    /\ UNCHANGED writerVars /\ UNCHANGED <<file, open>>

-----------------------------------------------------------------------------

Init ==
    /\ buffer = <<>>
    /\ wpos = [s \in Sources |-> 1] /\ wseg = [s \in Sources |-> 1]
    /\ flushing = [s \in Sources |-> "none"]
    /\ result = [s \in Sources |-> <<>>]
    /\ file = <<>> /\ open = TRUE
    /\ hooks = {}
    /\ chan = [c \in Clients |-> <<>>]
    /\ cpc = [c \in Clients |-> "idle"]
    /\ tailN = [c \in Clients |-> 0]
    /\ ctxDone = [c \in Clients |-> FALSE]
    /\ delivered = [c \in Clients |-> <<>>]
    /\ snap = [c \in Clients |-> 0]

\* Every source has written everything and no handler can step.
Finished ==
    /\ \A s \in Sources : ~Writing(s) /\ flushing[s] = "none"
    /\ \A c \in Clients : cpc[c] = "done"
    /\ UNCHANGED vars

SourceStep(s) == WriteSeg(s) \/ FlushHooks(s) \/ FlushFile(s)

Next ==
    \/ \E s \in Sources : SourceStep(s)
    \/ Close
    \/ \E c \in Clients, t \in TailCounts : Request(c, t)
    \/ \E c \in Clients :
          Reject(c) \/ TailStep(c) \/ Register(c) \/ Receive(c)
          \/ Disconnect(c) \/ Return(c)
    \/ Finished

\* The copier and the task run while they have output.  The handler's
\* Register and Return are local steps; its writes to the client (the
\* tail and Receive) may block on the network, and the client may never
\* go away, so they get no fairness.
Fairness ==
    /\ \A s \in Sources : WF_vars(SourceStep(s))
    /\ \A c \in Clients : WF_vars(Register(c)) /\ WF_vars(Return(c))

Spec == Init /\ [][Next]_vars /\ Fairness

-----------------------------------------------------------------------------
(* Properties                                                              *)

\* The position of a line in the file; lines are distinct.
InFile(line) == \E i \in 1..Len(file) : file[i] = line
FilePos(line) == CHOOSE i \in 1..Len(file) : file[i] = line

\* A /logs client is never sent the same line twice, by the tail and by
\* its hook: LogsHandler tails before RegisterHook, and Writer.Flush calls
\* the hooks before it writes the file, so a line the hook sees was not in
\* the file when the handler tailed it.
NoDuplicate ==
    \A c \in Clients : \A i, j \in 1..Len(delivered[c]) :
        i # j => delivered[c][i] # delivered[c][j]

\* The lines a client is sent are in the order of the file: the tail comes
\* first, and each Flush runs its hooks and its file write under the
\* Writer's mutex, so two lines cannot reach hooks and file in opposite
\* orders.
InOrder ==
    \A c \in Clients : \A i, j \in 1..Len(delivered[c]) :
        (i < j /\ InFile(delivered[c][i]) /\ InFile(delivered[c][j]))
            => FilePos(delivered[c][i]) < FilePos(delivered[c][j])

\* Every source eventually writes all its output, even when a log client
\* stops reading: the hook drops a line rather than block the Writer
\* (logStreamHook.Write's select with a default arm).
OutputDrains ==
    <>(\A s \in Sources : ~Writing(s) /\ flushing[s] = "none")

\* A client following the log is sent every line written to the file
\* after it tailed the file, once its channel is drained.
FollowsAll ==
    \A c \in Clients :
        (cpc[c] = "loop" /\ chan[c] = <<>>) =>
            \A i \in snap[c] + 1 .. Len(file) :
                \E k \in 1..Len(delivered[c]) : delivered[c][k] = file[i]

=============================================================================
