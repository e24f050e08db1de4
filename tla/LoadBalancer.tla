---------------------------- MODULE LoadBalancer ----------------------------
(***************************************************************************)
(* The reverse-proxy load balancer of src/pkg/revproxy (lb.go,             *)
(* upstream.go).  Process runners add an upstream when their process       *)
(* answers the lifecheck and remove it when the worker is Stopping()        *)
(* (task_run.go); each attempt builds a new Upstream, so an upstream is     *)
(* added at most once and removed at most once.  Concurrent requests run   *)
(* ServeHTTP -> Next -> Upstream.ServeHTTP; on a proxy error the error      *)
(* handler re-enters ServeHTTP from inside Upstream.ServeHTTP, so the      *)
(* connection counts of the failed upstreams stay held until the whole     *)
(* chain unwinds.  Next's steps are split where other requests and         *)
(* Add/RemoveUpstream can interleave: the sticky load, the selection under *)
(* the read lock, and the deferred install of the sticky session after     *)
(* the read lock is released.                                              *)
(***************************************************************************)
EXTENDS Naturals, SequencesExt

CONSTANTS
    Upstreams,   \* the Upstream values the runners may create
    Reqs,        \* the client requests
    ReqIp,       \* ReqIp[r]: the client IP of request r (getClientIp)
    IpHash,      \* IpHash[ip]: fastHash(ip)
    Methods,     \* the LbMethod values explored ("conn", "random", "hash")
    RetryMax     \* options.RetryMax

Nil == "nil"
Ips == {ReqIp[r] : r \in Reqs}

ASSUME Nil \notin Upstreams /\ RetryMax \in Nat
ASSUME Methods \subseteq {"conn", "random", "hash"}

VARIABLES
    sticky,    \* options.Sticky
    method,    \* options.Method
    ups,       \* lb.Upstreams (a slice, in insertion order)
    life,      \* life[u]: "new" (not yet added), "in", "gone" (removed)
    sessions,  \* sessions[ip].upstream, Nil if none
    conns,     \* conns[u]: u.numConnections
    req        \* req[r]: the goroutine serving request r

vars == <<sticky, method, ups, life, sessions, conns, req>>

\* The goroutine of one request: pc, requestContext.RetryCount and
\* .Previous, Next's result us, the upstreams whose ServeHTTP is on its stack
\* (each holding one connection count), the response, and whether the
\* selection saw at most one upstream.
ReqState == [pc : {"entry", "reentry", "sticky", "select", "install",
                   "dispatch", "proxy", "unwind", "done"},
             retryCount : Nat, previous : Upstreams \cup {Nil},
             us : Upstreams \cup {Nil}, held : Seq(Upstreams),
             result : {"none", "ok", "502"}, sole : BOOLEAN]

TypeOK ==
    /\ sticky \in BOOLEAN
    /\ method \in Methods
    /\ ups \in Seq(Upstreams)
    /\ life \in [Upstreams -> {"new", "in", "gone"}]
    /\ sessions \in [Ips -> Upstreams \cup {Nil}]
    /\ conns \in [Upstreams -> Nat]
    /\ req \in [Reqs -> ReqState]

-----------------------------------------------------------------------------
(* Upstream set (lb.go AddUpstream / RemoveUpstream)                       *)

AddUpstream(u) ==
    /\ life[u] = "new"
    /\ life' = [life EXCEPT ![u] = "in"]
    /\ ups' = Append(ups, u)
    /\ UNCHANGED <<sticky, method, sessions, conns, req>>

\* lo.Without under the lock; then the Range over sessions deletes the
\* entries whose value == u.  The values are *ClientSession and u is an
\* *Upstream, so no entry is ever equal and sessions are left unchanged.
RemoveUpstream(u) ==
    /\ life[u] = "in"
    /\ life' = [life EXCEPT ![u] = "gone"]
    /\ ups' = Remove(ups, u)
    /\ UNCHANGED <<sticky, method, sessions, conns, req>>

-----------------------------------------------------------------------------
(* Selection helpers (lb.go Next)                                          *)

\* lo.MinBy's comparison: retry is never less, anything is less than retry,
\* else fewer connections.
ConnLess(a, b, retry) ==
    IF a = retry THEN FALSE
    ELSE IF b = retry THEN TRUE
    ELSE conns[a] < conns[b]

\* lo.MinBy: keep the first element unless a later one compares less.
MinByConn(s, retry) ==
    FoldLeft(LAMBDA m, x : IF ConnLess(x, m, retry) THEN x ELSE m, Head(s), Tail(s))

\* Start at index n (0-based); if that is retry, probe n+1, n+2, ...
\* cyclically and stop at the first that is not retry.
Probe(s, n, retry) ==
    LET k  == Len(s)
        At(i) == s[((n + i) % k) + 1]
        ok == {i \in 0..k-1 : At(i) # retry}
    IN  IF ok = {} THEN At(k - 1) ELSE At(Min(ok))

-----------------------------------------------------------------------------
(* Requests                                                                *)

\* Set the fields of request r's record; the other variables of the
\* request step are given by the caller.
Upd(r, f) == req' = [req EXCEPT ![r] = f]

Ip(r) == ReqIp[r]

\* After ServeHTTP's entry: Next starts with the sticky session if Sticky.
IntoNext(r) == IF sticky THEN "sticky" ELSE "select"

\* ServeHTTP without a requestContext: create it (RetryCount 0, no Previous).
Entry(r) ==
    /\ req[r].pc = "entry"
    /\ Upd(r, [req[r] EXCEPT !.pc = IntoNext(r)])
    /\ UNCHANGED <<sticky, method, ups, life, sessions, conns>>

\* ServeHTTP re-entered by the error handler: 502 once RetryCount >= RetryMax.
Reentry(r) ==
    /\ req[r].pc = "reentry"
    /\ IF req[r].retryCount >= RetryMax
       THEN Upd(r, [req[r] EXCEPT !.pc = "unwind", !.result = "502"])
       ELSE Upd(r, [req[r] EXCEPT !.pc = IntoNext(r)])
    /\ UNCHANGED <<sticky, method, ups, life, sessions, conns>>

\* Next, sticky part: load (or store an empty) session; a sticky upstream
\* other than retry is returned; one equal to retry is CASed to nil.
Sticky(r) ==
    /\ req[r].pc = "sticky"
    /\ LET u == sessions[Ip(r)]
           retry == req[r].previous
       IN  IF u # Nil /\ u # retry
           THEN /\ Upd(r, [req[r] EXCEPT !.pc = "install", !.us = u, !.sole = FALSE])
                /\ UNCHANGED sessions
           ELSE /\ sessions' = IF u # Nil THEN [sessions EXCEPT ![Ip(r)] = Nil] ELSE sessions
                /\ Upd(r, [req[r] EXCEPT !.pc = "select"])
    /\ UNCHANGED <<sticky, method, ups, life, conns>>

\* The selection under lb.mu.RLock, as a function of the upstream slice.
Choose(r, n) ==
    LET retry == req[r].previous IN
    IF Len(ups) = 0 THEN Nil
    ELSE IF Len(ups) = 1 THEN ups[1]
    ELSE IF method = "conn"
         THEN LET m == MinByConn(ups, retry) IN IF m = retry THEN Nil ELSE m
         ELSE Probe(ups, n, retry)

\* The index the random and hash methods start from.
StartIndexes(r) ==
    IF Len(ups) < 2 \/ method = "conn" THEN {0}
    ELSE IF method = "hash" THEN {IpHash[Ip(r)] % Len(ups)}
    ELSE 0..Len(ups) - 1

\* Next, under the read lock; the deferred install runs after RUnlock.
Select(r) ==
    /\ req[r].pc = "select"
    /\ \E n \in StartIndexes(r) :
         LET us == Choose(r, n) IN
         Upd(r, [req[r] EXCEPT !.us = us, !.sole = Len(ups) <= 1,
                               !.pc = IF sticky /\ us # Nil THEN "install" ELSE "dispatch"])
    /\ UNCHANGED <<sticky, method, ups, life, sessions, conns>>

\* Mutant: the install loop compares-and-swaps from nil instead of from the
\* value it loaded, so it spins while the session holds retry.
InstallFromNil(r) ==
    /\ req[r].pc = "install"
    /\ LET v == sessions[Ip(r)] IN
       IF v # Nil /\ v # req[r].previous
       THEN /\ Upd(r, [req[r] EXCEPT !.us = v, !.pc = "dispatch"])
            /\ UNCHANGED sessions
       ELSE IF v = Nil
       THEN /\ sessions' = [sessions EXCEPT ![Ip(r)] = req[r].us]
            /\ Upd(r, [req[r] EXCEPT !.pc = "dispatch"])
       ELSE UNCHANGED <<sessions, req>>
    /\ UNCHANGED <<sticky, method, ups, life, conns>>

\* Mutant: the install loop keeps any loaded session value, retry included.
InstallIgnoreRetry(r) ==
    /\ req[r].pc = "install"
    /\ LET v == sessions[Ip(r)] IN
       IF v # Nil
       THEN /\ Upd(r, [req[r] EXCEPT !.us = v, !.pc = "dispatch"])
            /\ UNCHANGED sessions
       ELSE /\ sessions' = [sessions EXCEPT ![Ip(r)] = req[r].us]
            /\ Upd(r, [req[r] EXCEPT !.pc = "dispatch"])
    /\ UNCHANGED <<sticky, method, ups, life, conns>>

\* The deferred sticky install: a session value other than retry wins over
\* us; else us is CASed in (a failed CAS reloads, so this is one step).
Install(r) ==
    /\ req[r].pc = "install"
    /\ LET v == sessions[Ip(r)] IN
       IF v # Nil /\ v # req[r].previous
       THEN /\ Upd(r, [req[r] EXCEPT !.us = v, !.pc = "dispatch"])
            /\ UNCHANGED sessions
       ELSE /\ sessions' = [sessions EXCEPT ![Ip(r)] = req[r].us]
            /\ Upd(r, [req[r] EXCEPT !.pc = "dispatch"])
    /\ UNCHANGED <<sticky, method, ups, life, conns>>

\* Mutant: Upstream.ServeHTTP without its numConnections.Add(1).
DispatchNoCount(r) ==
    /\ req[r].pc = "dispatch"
    /\ LET us == req[r].us IN
       IF us = Nil
       THEN Upd(r, [req[r] EXCEPT !.pc = "unwind", !.result = "502"])
       ELSE Upd(r, [req[r] EXCEPT !.previous = us, !.held = Append(@, us),
                                  !.pc = "proxy"])
    /\ UNCHANGED <<sticky, method, ups, life, sessions, conns>>

\* ServeHTTP after Next: 502 on nil; else Previous = us and us.ServeHTTP,
\* which increments us.numConnections before proxying.
Dispatch(r) ==
    /\ req[r].pc = "dispatch"
    /\ LET us == req[r].us IN
       IF us = Nil
       THEN /\ Upd(r, [req[r] EXCEPT !.pc = "unwind", !.result = "502"])
            /\ UNCHANGED conns
       ELSE /\ conns' = [conns EXCEPT ![us] = @ + 1]
            /\ Upd(r, [req[r] EXCEPT !.previous = us, !.held = Append(@, us),
                                     !.pc = "proxy"])
    /\ UNCHANGED <<sticky, method, ups, life, sessions>>

\* The reverse proxy answers.
ProxyOk(r) ==
    /\ req[r].pc = "proxy"
    /\ Upd(r, [req[r] EXCEPT !.pc = "unwind", !.result = "ok"])
    /\ UNCHANGED <<sticky, method, ups, life, sessions, conns>>

\* The reverse proxy fails (dial or transport error): the error handler
\* waits RetryBackoff, increments RetryCount and re-enters ServeHTTP.
ProxyFail(r) ==
    /\ req[r].pc = "proxy"
    /\ Upd(r, [req[r] EXCEPT !.pc = "reentry", !.retryCount = @ + 1])
    /\ UNCHANGED <<sticky, method, ups, life, sessions, conns>>

\* The nested Upstream.ServeHTTP calls return one by one, each running its
\* deferred numConnections.Add(-1).
Unwind(r) ==
    /\ req[r].pc = "unwind"
    /\ IF req[r].held = <<>>
       THEN /\ Upd(r, [req[r] EXCEPT !.pc = "done"])
            /\ UNCHANGED conns
       ELSE /\ conns' = [conns EXCEPT ![Last(req[r].held)] = @ - 1]
            /\ Upd(r, [req[r] EXCEPT !.held = Front(@)])
    /\ UNCHANGED <<sticky, method, ups, life, sessions>>

ReqStep(r) ==
    \/ Entry(r) \/ Reentry(r) \/ Sticky(r) \/ Select(r) \/ Install(r)
    \/ Dispatch(r) \/ ProxyOk(r) \/ ProxyFail(r) \/ Unwind(r)

-----------------------------------------------------------------------------

Init ==
    /\ sticky \in BOOLEAN
    /\ method \in Methods
    /\ ups = <<>>
    /\ life = [u \in Upstreams |-> "new"]
    /\ sessions = [ip \in Ips |-> Nil]
    /\ conns = [u \in Upstreams |-> 0]
    /\ req = [r \in Reqs |-> [pc |-> "entry", retryCount |-> 0, previous |-> Nil,
                              us |-> Nil, held |-> <<>>, result |-> "none",
                              sole |-> FALSE]]

\* Every request has been answered.
Quiescent ==
    /\ \A r \in Reqs : req[r].pc = "done"
    /\ UNCHANGED vars

Next ==
    \/ \E u \in Upstreams : AddUpstream(u) \/ RemoveUpstream(u)
    \/ \E r \in Reqs : ReqStep(r)
    \/ Quiescent

\* Request goroutines that can run eventually do; the proxy call returns
\* (success or error).  Runners add and remove upstreams at will.
Fairness == \A r \in Reqs : WF_vars(ReqStep(r))

Spec == Init /\ [][Next]_vars /\ Fairness

-----------------------------------------------------------------------------
(* Properties                                                              *)

\* Spec 3 (LoadBalancer): a sticky session's upstream, if any, is a member
\* of the upstreams; removal purges it from every sticky reference.
StickyMember ==
    \A ip \in Ips : sessions[ip] # Nil => sessions[ip] \in ToSet(ups)

\* Spec 8.6: a retry dispatched by the error handler never goes to the
\* upstream that just failed (Previous), unless the selection saw a single
\* upstream; other requests of the same IP may rewrite the sticky session
\* between the sticky check and the deferred install.
RetryAvoidsFailed ==
    \A r \in Reqs :
        (/\ req[r].pc = "dispatch" /\ req[r].retryCount > 0
         /\ req[r].us # Nil /\ ~req[r].sole)
        => req[r].us # req[r].previous

\* Every request is eventually answered (by an upstream or with 502): the
\* retry chain is bounded by RetryMax and the sticky install loop ends.
RequestsComplete == \A r \in Reqs : <>(req[r].pc = "done")

====
