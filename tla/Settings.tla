------------------------------ MODULE Settings ------------------------------
(***************************************************************************)
(* A settings domain (src/pkg/settings/settings.go): the file              *)
(* <home>/<name>.config.json shared by every gosu process of the user, and *)
(* in each process a storage[T] with its mutex and its cached pointer      *)
(* c.last.                                                                 *)
(*                                                                         *)
(* A value of the file is the token of the process incarnation whose       *)
(* defaults it holds: the rpc domain's defaults draw a fresh Secret and    *)
(* Seed (fastRandom) at package init, so every process start has its own. *)
(* The file is written by atomicfile.WriteFile (temp file and rename), a   *)
(* single step that may fail and then leaves the file alone.  c.mu is per  *)
(* process: nothing orders two processes' read and write of the file.      *)
(***************************************************************************)
EXTENDS Integers, FiniteSets

CONSTANTS
    Procs,         \* processes sharing the home directory (daemon, CLI)
    Gos,           \* goroutines of a process calling the storage
    Faults,        \* I/O errors explored: "read" (ReadFile fails on a
                   \* present file), "write" (WriteFile fails)
    MaxStarts      \* bound on process (re)starts

None == 0
Tokens == 1..MaxStarts
Absent == -1     \* no file yet
Corrupt == -2    \* a file json.Unmarshal rejects

VARIABLES
    file,      \* the file: Absent, Corrupt, or a token
    starts,    \* process incarnations so far; the last one is a token
    def,       \* def[p]: the defaults of p's current incarnation
    last,      \* last[p]: *c.last, None for nil
    mu,        \* mu[p]: the goroutine holding c.mu, None when free
    pc,        \* pc[p][g]: position of goroutine g of p
    got        \* got[p][g]: the value its last call returned

vars == <<file, starts, def, last, mu, pc, got>>

Pcs == {"idle", "get", "lock", "read", "write"}

TypeOK ==
    /\ file \in Tokens \cup {Absent, Corrupt}
    /\ starts \in 0..MaxStarts
    /\ def \in [Procs -> Tokens]
    /\ last \in [Procs -> Tokens \cup {None}]
    /\ mu \in [Procs -> Gos \cup {None}]
    /\ pc \in [Procs -> [Gos -> Pcs]]
    /\ got \in [Procs -> [Gos -> Tokens \cup {None}]]

\* Each process starts with defaults of its own; the file may be absent,
\* or left corrupt by an edit.
Init ==
    /\ file \in {Absent, Corrupt}
    /\ \E order \in [Procs -> 1..Cardinality(Procs)] :
          /\ \A p, q \in Procs : p # q => order[p] # order[q]
          /\ def = order
    /\ starts = Cardinality(Procs)
    /\ last = [p \in Procs |-> None]
    /\ mu = [p \in Procs |-> None]
    /\ pc = [p \in Procs |-> [g \in Gos |-> "idle"]]
    /\ got = [p \in Procs |-> [g \in Gos |-> None]]

Go(p, g, to) == pc' = [pc EXCEPT ![p][g] = to]

\* Returning from a call: unlock (deferred) and hand back v.
Return(p, g, v) ==
    /\ Go(p, g, "idle")
    /\ got' = [got EXCEPT ![p][g] = v]

\* A goroutine calls Get (settings.Rpc.Get() and the like; Save and Reload
\* have no caller in the repository).
Call(p, g) ==
    /\ pc[p][g] = "idle"
    /\ Go(p, g, "get")
    /\ UNCHANGED <<file, starts, def, last, mu, got>>

\* Get's fast path: the atomic load of c.last, returned when non-nil.
GetLoad(p, g) ==
    /\ pc[p][g] = "get"
    /\ IF last[p] # None THEN Return(p, g, last[p]) ELSE Go(p, g, "lock") /\ UNCHANGED got
    /\ UNCHANGED <<file, starts, def, last, mu>>

\* Mutant: the slow path does not look at c.last again under the lock.
GetLockNoRecheck(p, g) ==
    /\ pc[p][g] = "lock" /\ mu[p] = None
    /\ mu' = [mu EXCEPT ![p] = g]
    /\ Go(p, g, "read")
    /\ UNCHANGED <<file, starts, def, last, got>>

\* The slow path: c.mu.Lock(); c.last, set meanwhile by another goroutine,
\* is returned; otherwise reloadLocked.
GetLock(p, g) ==
    /\ pc[p][g] = "lock" /\ mu[p] = None
    /\ IF last[p] # None
       THEN Return(p, g, last[p]) /\ UNCHANGED mu
       ELSE mu' = [mu EXCEPT ![p] = g] /\ Go(p, g, "read") /\ UNCHANGED got
    /\ UNCHANGED <<file, starts, def, last>>

\* reloadLocked: os.ReadFile and json.Unmarshal.  A decoded file becomes
\* c.last and is returned; an absent or corrupt file, or a failed read,
\* falls through to saving the defaults.
Read(p, g) ==
    /\ pc[p][g] = "read"
    /\ \/ /\ file \in Tokens
          /\ last' = [last EXCEPT ![p] = file]
          /\ mu' = [mu EXCEPT ![p] = None]
          /\ Return(p, g, file)
       \/ /\ file \notin Tokens \/ "read" \in Faults
          /\ Go(p, g, "write")
          /\ UNCHANGED <<last, mu, got>>
    /\ UNCHANGED <<file, starts, def>>

\* reloadLocked's c.saveLocked(c.defaults): atomicfile.WriteFile, and
\* c.last = &value when it succeeded; &c.defaults is returned either way.
Write(p, g) ==
    /\ pc[p][g] = "write"
    /\ \/ /\ file' = def[p]
          /\ last' = [last EXCEPT ![p] = def[p]]
       \/ /\ "write" \in Faults
          /\ UNCHANGED <<file, last>>
    /\ mu' = [mu EXCEPT ![p] = None]
    /\ Return(p, g, def[p])
    /\ UNCHANGED <<starts, def>>

\* The process exits, at any point, and is started again: its storage is
\* new and package init draws new defaults.  The file keeps what the last
\* rename installed.
Restart(p) ==
    /\ starts < MaxStarts
    /\ starts' = starts + 1
    /\ def' = [def EXCEPT ![p] = starts + 1]
    /\ last' = [last EXCEPT ![p] = None]
    /\ mu' = [mu EXCEPT ![p] = None]
    /\ pc' = [pc EXCEPT ![p] = [g \in Gos |-> "idle"]]
    /\ got' = [got EXCEPT ![p] = [g \in Gos |-> None]]
    /\ UNCHANGED file

Next ==
    \/ \E p \in Procs :
          \/ Restart(p)
          \/ \E g \in Gos : \/ Call(p, g) \/ GetLoad(p, g) \/ GetLock(p, g)
                            \/ Read(p, g) \/ Write(p, g)

\* A goroutine that can run does run.  Restarts and calls are not assumed.
Spec == Init /\ [][Next]_vars
           /\ \A p \in Procs, g \in Gos :
                WF_vars(GetLoad(p, g) \/ GetLock(p, g) \/ Read(p, g) \/ Write(p, g))

-----------------------------------------------------------------------------
(* Properties                                                              *)

\* Within one run of a process, every Get returns the same settings: the
\* first reload caches its result in c.last, and a goroutine that waited
\* on c.mu takes that cached value instead of reading the file again.
Returned(f, p) == {f[p][g] : g \in Gos} \ {None}

StableGet ==
    [][\A p \in Procs :
         def'[p] = def[p] => Cardinality(Returned(got, p) \cup Returned(got', p)) <= 1]_vars

\* Every Get eventually returns.
GetReturns == \A p \in Procs, g \in Gos : pc[p][g] = "get" ~> pc[p][g] = "idle"

\* The settings a running process has loaded are the ones in the file, so
\* two processes agree and the daemon checks remote clients against the
\* secret the file gives them.
LastMatchesFile ==
    \A p \in Procs : last[p] # None => last[p] = file

=============================================================================
