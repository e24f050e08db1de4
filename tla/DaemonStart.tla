---------------------------- MODULE DaemonStart ----------------------------
(***************************************************************************)
(* How a CLI process finds or starts the daemon: client.getClient          *)
(* (src/pkg/client/main.go), session.Running and session.TryAcquire        *)
(* (src/pkg/session/lock.go) and main (src/cmd/gosu/app.go).               *)
(*                                                                         *)
(* Every CLI process c runs getClient once.  Running() takes the lockfile  *)
(* <home>/.lock and gives it back at once; if it got it, no daemon is      *)
(* running, so c starts `gosu daemon` and pings it up to 50 times.  If it  *)
(* did not, c calls straight away.  The daemon c starts runs TryAcquire:   *)
(* on success it opens the session and serves RPC; on failure main falls   *)
(* through to client.Run, where "daemon" is an unknown command, and exits. *)
(*                                                                         *)
(* The lockfile (github.com/nightlyone/lockfile) holds the PID of its      *)
(* owner.  TryLock succeeds when there is no file or its PID is dead (a    *)
(* stale lock); it is modelled as one atomic step.  The daemon never       *)
(* unlocks: its lock goes stale when it exits.                             *)
(***************************************************************************)
EXTENDS Naturals, FiniteSets

CONSTANTS
    Cli,        \* CLI processes started by the user
    MaxPings,   \* the 50 of getClient's ping loop
    NoHolder    \* no lockfile on disk

Holders == [kind : {"cli", "daemon"}, id : Cli]   \* daemon id: who spawned it

VARIABLES
    lock,    \* the PID in <home>/.lock, or NoHolder
    cli,     \* cli[c]: where CLI process c is in getClient and Call
    pings,   \* pings[c]: failed daemon.Ping calls of c
    dmn,     \* dmn[c]: the daemon process c started
    res      \* res[c]: the outcome of c's RPC call

vars == <<lock, cli, pings, dmn, res>>

TypeOK ==
    /\ lock \in Holders \cup {NoHolder}
    /\ cli \in [Cli -> {"get", "unlock", "spawn", "ping", "call", "done"}]
    /\ pings \in [Cli -> 0..MaxPings]
    /\ dmn \in [Cli -> {"none", "acquire", "open", "serving", "exited"}]
    /\ res \in [Cli -> {"none", "ok", "refused"}]

\* A process whose PID is in the lockfile is still running.
Alive(h) ==
    IF h.kind = "cli" THEN cli[h.id] # "done"
    ELSE dmn[h.id] \in {"acquire", "open", "serving"}

\* lockfile.TryLock succeeds: no file, or its owner is dead.
LockFree == lock = NoHolder \/ ~Alive(lock)

\* Some daemon has its RPC server listening.
Serving == \E d \in Cli : dmn[d] = "serving"

Init ==
    /\ lock = NoHolder
    /\ cli = [c \in Cli |-> "get"]
    /\ pings = [c \in Cli |-> 0]
    /\ dmn = [c \in Cli |-> "none"]
    /\ res = [c \in Cli |-> "none"]

\* getClient calls Running(): TryLock.  Busy means "running": call at once.
Probe(c) ==
    /\ cli[c] = "get"
    /\ IF LockFree
       THEN /\ lock' = [kind |-> "cli", id |-> c]
            /\ cli' = [cli EXCEPT ![c] = "unlock"]
       ELSE /\ cli' = [cli EXCEPT ![c] = "call"]
            /\ UNCHANGED lock
    /\ UNCHANGED <<pings, dmn, res>>

\* Mutant: Running() forgets to Unlock; the lock stays with the CLI.
UnlockKept(c) ==
    /\ cli[c] = "unlock"
    /\ cli' = [cli EXCEPT ![c] = "spawn"]
    /\ UNCHANGED <<lock, pings, dmn, res>>

\* Running() unlocks what it took and returns false.
Unlock(c) ==
    /\ cli[c] = "unlock"
    /\ lock' = NoHolder
    /\ cli' = [cli EXCEPT ![c] = "spawn"]
    /\ UNCHANGED <<pings, dmn, res>>

\* exec.Command(self, "daemon").Start().
Spawn(c) ==
    /\ cli[c] = "spawn"
    /\ dmn' = [dmn EXCEPT ![c] = "acquire"]
    /\ cli' = [cli EXCEPT ![c] = "ping"]
    /\ UNCHANGED <<lock, pings, res>>

\* One round of the ping loop: break on success, give up after MaxPings.
Ping(c) ==
    /\ cli[c] = "ping"
    /\ pings' = IF Serving THEN pings ELSE [pings EXCEPT ![c] = @ + 1]
    /\ cli' = IF Serving \/ pings[c] + 1 = MaxPings
              THEN [cli EXCEPT ![c] = "call"] ELSE cli
    /\ UNCHANGED <<lock, dmn, res>>

\* Call: the client dials the daemon's address; refused if none listens.
Call(c) ==
    /\ cli[c] = "call"
    /\ res' = [res EXCEPT ![c] = IF Serving THEN "ok" ELSE "refused"]
    /\ cli' = [cli EXCEPT ![c] = "done"]
    /\ UNCHANGED <<lock, pings, dmn>>

\* Mutant: TryAcquire ignores TryLock's error.
AcquireIgnored(d) ==
    /\ dmn[d] = "acquire"
    /\ lock' = [kind |-> "daemon", id |-> d]
    /\ dmn' = [dmn EXCEPT ![d] = "open"]
    /\ UNCHANGED <<cli, pings, res>>

\* main: TryAcquire, then server(); on failure client.Run exits.
Acquire(d) ==
    /\ dmn[d] = "acquire"
    /\ IF LockFree
       THEN /\ lock' = [kind |-> "daemon", id |-> d]
            /\ dmn' = [dmn EXCEPT ![d] = "open"]
       ELSE /\ dmn' = [dmn EXCEPT ![d] = "exited"]
            /\ UNCHANGED lock
    /\ UNCHANGED <<cli, pings, res>>

\* session.Open: database, orphan kill, job revival, then ListenAll.
Listen(d) ==
    /\ dmn[d] = "open"
    /\ dmn' = [dmn EXCEPT ![d] = "serving"]
    /\ UNCHANGED <<lock, cli, pings, res>>

Next ==
    \E c \in Cli :
        \/ Probe(c) \/ Unlock(c) \/ Spawn(c) \/ Ping(c) \/ Call(c)
        \/ Acquire(c) \/ Listen(c)

\* Every process runs: the CLIs and the daemons are separate OS processes.
Fairness ==
    \A c \in Cli : WF_vars(Probe(c) \/ Unlock(c) \/ Spawn(c) \/ Ping(c)
                           \/ Call(c) \/ Acquire(c) \/ Listen(c))

Spec == Init /\ [][Next]_vars /\ Fairness

-----------------------------------------------------------------------------
(* Properties *)

\* At most one daemon opens the session: the lockfile admits one of the
\* daemons that CLIs racing through getClient start, although each CLI
\* takes and releases the same lock while probing.
SingleDaemon ==
    Cardinality({d \in Cli : dmn[d] \in {"open", "serving"}}) <= 1

\* Once any CLI has started, a daemon eventually serves: a daemon whose
\* TryAcquire loses to a CLI's probe is replaced by the daemon that CLI
\* starts, and one that loses to a daemon leaves that daemon running.
DaemonEventuallyServes ==
    (\E c \in Cli : cli[c] # "get") ~> Serving

\* Spec (CLI): "connection errors auto-spawn the daemon binary and
\* retry-ping up to 50 x 100 ms".  A call refused for want of a daemon
\* comes only after the CLI has pinged MaxPings times.
RefusedOnlyAfterRetry ==
    \A c \in Cli : res[c] = "refused" => pings[c] = MaxPings

=============================================================================
