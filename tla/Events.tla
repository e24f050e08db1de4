------------------------------- MODULE Events -------------------------------
(***************************************************************************)
(* One named event of src/pkg/job/trigger_event.go and its subscriptions.  *)
(* An async subscription (Listen, TriggerOn, TriggerOnce) runs its         *)
(* callback in a new goroutine per signal.  A buffered one (ListenBuffered)*)
(* counts signals in an atomic int32 queue: the 0 -> 1 increment starts a  *)
(* drain goroutine that calls the callback and decrements until the queue  *)
(* is back to 0; Remove swaps in the sentinel -0x80000000.                 *)
(*                                                                         *)
(* namedEvent.Listen stores the subscription but never calls its Add, the *)
(* only place that sets sub.event, so sub.event is nil in every Remove: a  *)
(* Remove never deletes the subscription from the event.  That is why no   *)
(* action below takes a subscription out of `subscribed`.                  *)
(***************************************************************************)
EXTENDS Integers

CONSTANTS
    Subs,        \* subscriptions to the event
    Buffered,    \* those made by ListenBuffered; the others by Listen
    Once,        \* those made by TriggerOnce (async)
    MaxSignals,  \* bound on Signal(name) calls
    QueueBits    \* width of bufferedEventSubscription.queue (32 in the code)

ASSUME Buffered \subseteq Subs /\ Once \subseteq Subs \ Buffered
ASSUME MaxSignals \in Nat /\ QueueBits \in Nat \ {0}

Async == Subs \ Buffered

\* atomic.Int32 arithmetic: two's complement, wrapping at the width.
Half == 2^(QueueBits - 1)
Wrap(x) == ((x + Half) % (2 * Half)) - Half
Sentinel == -Half    \* -0x80000000

VARIABLES
    subscribed,  \* namedEvent.subscribers
    listened,    \* subscriptions whose Listen has returned its remove func
    removed,     \* subscriptions whose remove func has been called
    signals,     \* Signal(name) calls so far
    pend,        \* pend[s]: `go sub.Signal()` goroutines not yet run
    fns,         \* fns[s]: `go sub.fn()` goroutines of an async s not yet run
    queue,       \* queue[s]: bufferedEventSubscription.queue
    drainFn,     \* drainFn[s]: drain goroutines about to call fn
    drainDec,    \* drainDec[s]: drain goroutines about to decrement
    calls,       \* calls[s]: callbacks of s run so far
    unserved,    \* unserved[s]: a signal of s counted since s's last callback
    nilCall      \* a TriggerOnce callback called `remove` while still nil

vars == <<subscribed, listened, removed, signals, pend, fns, queue, drainFn,
          drainDec, calls, unserved, nilCall>>

TypeOK ==
    /\ subscribed \subseteq Subs /\ listened \subseteq Subs /\ removed \subseteq Subs
    /\ signals \in 0..MaxSignals
    /\ pend \in [Subs -> 0..MaxSignals] /\ fns \in [Subs -> 0..MaxSignals]
    /\ queue \in [Subs -> -Half..(Half - 1)]
    /\ drainFn \in [Subs -> Nat] /\ drainDec \in [Subs -> Nat]
    /\ calls \in [Subs -> Nat] /\ unserved \in [Subs -> BOOLEAN]
    /\ nilCall \in BOOLEAN

\* Listen / ListenBuffered: getNamedEvent and subscribers.Store(sub).  From
\* here on a Signal reaches the subscription.
ListenStore(s) ==
    /\ s \notin subscribed
    /\ subscribed' = subscribed \cup {s}
    /\ UNCHANGED <<listened, removed, signals, pend, fns, queue, drainFn,
                   drainDec, calls, unserved, nilCall>>

\* namedEvent.Listen returns sub.Remove, and TriggerOnce.Listen's return
\* assigns it to the named result `remove` its closure calls.
ListenReturn(s) ==
    /\ s \in subscribed \ listened
    /\ listened' = listened \cup {s}
    /\ UNCHANGED <<subscribed, removed, signals, pend, fns, queue, drainFn,
                   drainDec, calls, unserved, nilCall>>

\* Signal(name): namedEvent.Signal ranges over the subscribers and starts
\* `go sub.Signal()` for each.
Emit ==
    /\ signals < MaxSignals
    /\ signals' = signals + 1
    /\ pend' = [s \in Subs |-> IF s \in subscribed THEN pend[s] + 1 ELSE pend[s]]
    /\ UNCHANGED nilCall
    /\ UNCHANGED <<subscribed, listened, removed, fns, queue, drainFn, drainDec,
                   calls, unserved>>

\* asyncEventSubscription.Signal: go sub.fn().
AsyncSignal(s) ==
    /\ s \in Async /\ pend[s] > 0
    /\ pend' = [pend EXCEPT ![s] = @ - 1]
    /\ fns' = [fns EXCEPT ![s] = @ + 1]
    /\ UNCHANGED nilCall
    /\ UNCHANGED <<subscribed, listened, removed, signals, queue, drainFn,
                   drainDec, calls, unserved>>

\* The callback goroutine of an async subscription.  TriggerOnce's callback
\* first calls its remove func -- a no-op, sub.event being nil -- and then
\* the job's callback.  Before TriggerOnce.Listen has returned, `remove` is
\* still nil: the call panics, and the goroutine's panic ends the daemon.
AsyncFn(s) ==
    /\ fns[s] > 0
    /\ fns' = [fns EXCEPT ![s] = @ - 1]
    /\ IF s \in Once /\ s \notin listened
       THEN nilCall' = TRUE /\ UNCHANGED <<calls, removed>>
       ELSE /\ calls' = [calls EXCEPT ![s] = @ + 1]
            /\ removed' = IF s \in Once THEN removed \cup {s} ELSE removed
            /\ UNCHANGED nilCall
    /\ UNCHANGED <<subscribed, listened, signals, pend, queue, drainFn, drainDec,
                   unserved>>

\* Mutant: any positive count starts a drain, not only the 0 -> 1 step.
BufferedSignalAnyPositive(s) ==
    /\ s \in Buffered /\ pend[s] > 0
    /\ pend' = [pend EXCEPT ![s] = @ - 1]
    /\ queue' = [queue EXCEPT ![s] = Wrap(@ + 1)]
    /\ drainFn' = [drainFn EXCEPT ![s] = IF queue'[s] >= 1 THEN @ + 1 ELSE @]
    /\ unserved' = [unserved EXCEPT ![s] = TRUE]
    /\ UNCHANGED nilCall
    /\ UNCHANGED <<subscribed, listened, removed, signals, fns, drainDec, calls>>

\* bufferedEventSubscription.Signal: queue.Add(1); the goroutine whose add
\* made it 1 starts the drain loop.
BufferedSignal(s) ==
    /\ s \in Buffered /\ pend[s] > 0
    /\ pend' = [pend EXCEPT ![s] = @ - 1]
    /\ queue' = [queue EXCEPT ![s] = Wrap(@ + 1)]
    /\ drainFn' = [drainFn EXCEPT ![s] = IF queue'[s] = 1 THEN @ + 1 ELSE @]
    /\ unserved' = [unserved EXCEPT ![s] = TRUE]
    /\ UNCHANGED nilCall
    /\ UNCHANGED <<subscribed, listened, removed, signals, fns, drainDec, calls>>

\* The drain loop calls sub.fn().
DrainFn(s) ==
    /\ drainFn[s] > 0
    /\ drainFn' = [drainFn EXCEPT ![s] = @ - 1]
    /\ drainDec' = [drainDec EXCEPT ![s] = @ + 1]
    /\ calls' = [calls EXCEPT ![s] = @ + 1]
    /\ unserved' = [unserved EXCEPT ![s] = FALSE]
    /\ UNCHANGED nilCall
    /\ UNCHANGED <<subscribed, listened, removed, signals, pend, fns, queue>>

\* Mutant: the loop resets the queue instead of counting one signal off.
DrainDecReset(s) ==
    /\ drainDec[s] > 0
    /\ queue' = [queue EXCEPT ![s] = 0]
    /\ drainDec' = [drainDec EXCEPT ![s] = @ - 1]
    /\ UNCHANGED nilCall
    /\ UNCHANGED <<drainFn, subscribed, listened, removed, signals, pend, fns,
                   calls, unserved>>

\* Mutant: the loop breaks only once the queue is negative.
DrainDecBelowZero(s) ==
    /\ drainDec[s] > 0
    /\ queue' = [queue EXCEPT ![s] = Wrap(@ - 1)]
    /\ drainDec' = [drainDec EXCEPT ![s] = @ - 1]
    /\ drainFn' = [drainFn EXCEPT ![s] = IF queue'[s] < 0 THEN @ ELSE @ + 1]
    /\ UNCHANGED nilCall
    /\ UNCHANGED <<subscribed, listened, removed, signals, pend, fns, calls,
                   unserved>>

\* queue.Add(-1) <= 0 ends the loop; otherwise it calls fn again.
DrainDec(s) ==
    /\ drainDec[s] > 0
    /\ queue' = [queue EXCEPT ![s] = Wrap(@ - 1)]
    /\ drainDec' = [drainDec EXCEPT ![s] = @ - 1]
    /\ drainFn' = [drainFn EXCEPT ![s] = IF queue'[s] <= 0 THEN @ ELSE @ + 1]
    /\ UNCHANGED nilCall
    /\ UNCHANGED <<subscribed, listened, removed, signals, pend, fns, calls,
                   unserved>>

\* The remove func Listen returned is called (the job's context teardown).
\* A buffered subscription swaps the sentinel into its queue; the delete
\* that should follow is skipped because sub.event is nil.
Remove(s) ==
    /\ s \in listened /\ s \notin removed
    /\ removed' = removed \cup {s}
    /\ queue' = IF s \in Buffered THEN [queue EXCEPT ![s] = Sentinel] ELSE queue
    /\ UNCHANGED nilCall
    /\ UNCHANGED <<subscribed, listened, signals, pend, fns, drainFn, drainDec,
                   calls, unserved>>

\* Every goroutine has run and the signals are used up.
Quiescent ==
    /\ signals = MaxSignals
    /\ \A s \in Subs : pend[s] = 0 /\ fns[s] = 0 /\ drainFn[s] = 0 /\ drainDec[s] = 0
    /\ UNCHANGED vars

Init ==
    /\ subscribed = {} /\ listened = {} /\ removed = {}
    /\ signals = 0
    /\ pend = [s \in Subs |-> 0] /\ fns = [s \in Subs |-> 0]
    /\ queue = [s \in Subs |-> 0]
    /\ drainFn = [s \in Subs |-> 0] /\ drainDec = [s \in Subs |-> 0]
    /\ calls = [s \in Subs |-> 0]
    /\ unserved = [s \in Subs |-> FALSE]
    /\ nilCall = FALSE

Goroutine(s) ==
    AsyncSignal(s) \/ AsyncFn(s) \/ BufferedSignal(s) \/ DrainFn(s) \/ DrainDec(s)

Next ==
    \/ \E s \in Subs : ListenStore(s) \/ ListenReturn(s) \/ Remove(s) \/ Goroutine(s)
    \/ Emit
    \/ Quiescent

\* Started goroutines run.  Signals, subscriptions and removals are calls
\* from outside and are not forced.
Spec == Init /\ [][Next]_vars /\ \A s \in Subs : WF_vars(Goroutine(s))

-----------------------------------------------------------------------------
(* Properties                                                              *)

\* Spec section 5: the 0 -> 1 transition makes exactly one goroutine the
\* drainer: the callback of a buffered subscription never runs in two
\* drain goroutines at once.
SingleDrainer == \A s \in Buffered : drainFn[s] + drainDec[s] <= 1

\* Spec S6: coalescing never loses a signal: a signal counted by a
\* buffered subscription that is not removed is followed by a callback.
SignalsServed ==
    \A s \in Buffered :
        (unserved[s] /\ s \notin removed) ~> (~unserved[s] \/ s \in removed)

\* Spec S6: the queue of a live buffered subscription returns to 0.
QueueReturnsToZero ==
    \A s \in Buffered :
        (queue[s] # 0 /\ s \notin removed) ~> (queue[s] = 0 \/ s \in removed)

\* Spec invariant 8: a subscription installed by `once name` delivers one
\* callback and then detaches.
OnceDeliversOnce == \A s \in Once : calls[s] <= 1

\* A `once` subscription's callback never runs before TriggerOnce.Listen
\* has assigned the remove func it calls: a signal that reaches the
\* subscription right after subscribers.Store must not call a nil func.
RemoveAssignedBeforeCall == ~nilCall

=============================================================================
