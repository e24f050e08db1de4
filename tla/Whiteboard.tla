----------------------------- MODULE Whiteboard -----------------------------
(***************************************************************************)
(* The whiteboard of one job (src/pkg/task/whiteboard.go) as its workers   *)
(* and the whiteboard RPC service use it.                                  *)
(*                                                                         *)
(* A Whiteboard is a *sync.Map and a prefix.  Keys are dot-joined paths;   *)
(* here a path is the sequence of its components, so that prefix + key is  *)
(* sequence concatenation.  Maps are numbered as NewWhiteboard allocates   *)
(* them; map 0 is the nil map of a zero Whiteboard.                        *)
(*                                                                         *)
(* The job's main task is a pipe labelled RootLabel whose subtasks,        *)
(* labelled by Children, are fetch tasks: each Sets its results on the     *)
(* whiteboard of its own worker.  newWorkerBase takes the whiteboard from  *)
(* its context (WhiteboardFromContext) and forks it by the task's label.   *)
(***************************************************************************)
EXTENDS Naturals, Sequences

CONSTANTS
    Keys,        \* keys a task or an RPC sets
    Values,      \* JSON values
    Children,    \* labels of the pipe's subtasks
    RootLabel,   \* label of the job's main task
    JobId,       \* the job's logger namespace
    MaxMaps,     \* NewWhiteboard calls explored
    NoValue      \* a field not found

ASSUME RootLabel \notin Children /\ NoValue \notin Values

Labels == Children \cup {RootLabel}
Maps == 0..MaxMaps
Paths == {<<k>> : k \in Keys} \cup {<<l, k>> : l \in Labels, k \in Keys}
         \cup {<<l, m, k>> : l \in Labels, m \in Labels, k \in Keys}

Board(m, p) == [data |-> m, prefix |-> p]
NilBoard == Board(0, <<>>)

\* Whiteboard.Get: the value at prefix + key, NoValue when not found or
\* for a nil map.
Get(store, w, key) ==
    IF w.data = 0 \/ w.prefix \o key \notin Paths THEN NoValue
    ELSE store[w.data][w.prefix \o key]

\* Whiteboard.Set: json.Marshal and Store at prefix + key; nothing for a
\* nil map.
Set(store, w, key, v) ==
    IF w.data = 0 THEN store
    ELSE [store EXCEPT ![w.data][w.prefix \o key] = v]

\* Whiteboard.Fork: the same map under prefix + key + "."; the board
\* itself for an empty key or a nil map.
Fork(w, label) ==
    IF label = "" \/ w.data = 0 THEN w ELSE Board(w.data, w.prefix \o <<label>>)

\* WhiteboardFromContext: the context's whiteboard, else a new one.  No
\* code calls Whiteboard.WithContext, so a context never holds one.
FromContext(next) == Board(next, <<>>)

\* newWorkerBase: the whiteboard of the context, forked by the task's
\* label unless the label is the logger's namespace.
WorkerBoard(next, label, namespace) ==
    Fork(FromContext(next), IF label = namespace THEN "" ELSE label)

VARIABLES
    store,      \* store[m][path]: the contents of map m
    nmaps,      \* maps allocated so far
    running,    \* the job has a worker
    rootWb,     \* the main worker's whiteboard
    childWb,    \* childWb[c]: the whiteboard of subtask c's worker
    jobWb,      \* Job.Whiteboard, what the RPC service loads
    childSet,   \* childSet[c][k]: the last value subtask c set at k
    lastPut     \* lastPut[k]: the last value whiteboard.Put set at k
                \* since the current worker started

vars == <<store, nmaps, running, rootWb, childWb, jobWb, childSet, lastPut>>

BoardSet == [data : Maps, prefix : UNION {[1..n -> Labels] : n \in 0..1}]

TypeOK ==
    /\ store \in [1..MaxMaps -> [Paths -> Values \cup {NoValue}]]
    /\ nmaps \in Maps /\ running \in BOOLEAN
    /\ rootWb \in BoardSet /\ jobWb \in BoardSet
    /\ childWb \in [Children -> BoardSet]
    /\ childSet \in [Children -> [Keys -> Values \cup {NoValue}]]
    /\ lastPut \in [Keys -> Values \cup {NoValue}]

-----------------------------------------------------------------------------

\* Job.startLocked: NewWorker(s.Context, s.Main) makes the main worker;
\* its whiteboard is stored in Job.Whiteboard.  The subtasks of the new
\* run have not started.
StartWorker ==
    /\ ~running /\ nmaps < MaxMaps
    /\ nmaps' = nmaps + 1
    /\ rootWb' = WorkerBoard(nmaps + 1, RootLabel, JobId)
    /\ jobWb' = rootWb'
    /\ running' = TRUE
    /\ childWb' = [c \in Children |-> NilBoard]
    /\ childSet' = [c \in Children |-> [k \in Keys |-> NoValue]]
    /\ lastPut' = [k \in Keys |-> NoValue]
    /\ UNCHANGED store

\* Job.stopLocked: the worker is dropped; Job.Whiteboard keeps the old
\* whiteboard.
StopWorker ==
    /\ running
    /\ running' = FALSE
    /\ UNCHANGED <<store, nmaps, rootWb, childWb, jobWb, childSet, lastPut>>

\* The pipe launches subtask c: mustWorker.Launch calls NewWorker with the
\* pipe's context.
LaunchChild(c) ==
    /\ running /\ childWb[c] = NilBoard /\ nmaps < MaxMaps
    /\ nmaps' = nmaps + 1
    /\ childWb' = [childWb EXCEPT ![c] = WorkerBoard(nmaps + 1, c, JobId)]
    /\ UNCHANGED <<store, running, rootWb, jobWb, childSet, lastPut>>

\* A fetch subtask sets its result: ctx.Whiteboard().Set(key, value).
ChildSet(c, k, v) ==
    /\ running /\ childWb[c] # NilBoard
    /\ store' = Set(store, childWb[c], <<k>>, v)
    /\ childSet' = [childSet EXCEPT ![c][k] = v]
    /\ UNCHANGED <<nmaps, running, rootWb, childWb, jobWb, lastPut>>

\* WhiteboardService.Put: j.Whiteboard.Load(); a job that never ran
\* (nil) is skipped, else wb.Set(key, value).
RpcPut(k, v) ==
    /\ jobWb # NilBoard
    /\ store' = Set(store, jobWb, <<k>>, v)
    /\ lastPut' = [lastPut EXCEPT ![k] = v]
    /\ UNCHANGED <<nmaps, running, rootWb, childWb, jobWb, childSet>>

Init ==
    /\ store = [m \in 1..MaxMaps |-> [p \in Paths |-> NoValue]]
    /\ nmaps = 0 /\ running = FALSE
    /\ rootWb = NilBoard /\ jobWb = NilBoard
    /\ childWb = [c \in Children |-> NilBoard]
    /\ childSet = [c \in Children |-> [k \in Keys |-> NoValue]]
    /\ lastPut = [k \in Keys |-> NoValue]

Next ==
    \/ StartWorker \/ StopWorker
    \/ \E c \in Children : LaunchChild(c)
    \/ \E c \in Children, k \in Keys, v \in Values : ChildSet(c, k, v)
    \/ \E k \in Keys, v \in Values : RpcPut(k, v)

Spec == Init /\ [][Next]_vars

-----------------------------------------------------------------------------
(* Properties                                                              *)

\* What whiteboard.Put wrote while a worker ran is what whiteboard.Get
\* returns for the key, and what the main task reads through its own
\* ctx.Whiteboard(): the RPC and the worker share one map and prefix.
PutVisible ==
    \A k \in Keys : lastPut[k] # NoValue =>
        /\ Get(store, jobWb, <<k>>) = lastPut[k]
        /\ running => Get(store, rootWb, <<k>>) = lastPut[k]

\* Spec: the whiteboard is rooted per job and forked per child by
\* dot-prefix, so what subtask c sets at k is visible through the job's
\* whiteboard at "c.k".
SubtaskVisible ==
    \A c \in Children, k \in Keys : childSet[c][k] # NoValue =>
        Get(store, jobWb, <<c, k>>) = childSet[c][k]

=============================================================================
