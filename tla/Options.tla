------------------------------- MODULE Options -------------------------------
(***************************************************************************)
(* The task options of a job manifest (src/pkg/task/options.go) and the    *)
(* value types they are made of (src/pkg/util/rate.go, size.go,            *)
(* duration.go), followed through the session database: the Launch RPC    *)
(* stores the manifest as JSON (UpdateJob, session/db.go), a restart       *)
(* revives it with Collection.Range, and NewWorker applies                 *)
(* Options.WithDefaults to the revived options.                            *)
(*                                                                         *)
(* Durations are integers of milliseconds, sizes integers of bytes.  A     *)
(* JSON value is a tuple whose head says how it is written: "null", a      *)
(* quoted string, or the text of an encoding.TextMarshaler.               *)
(***************************************************************************)
EXTENDS Integers, Sequences

CONSTANTS
    Counts,     \* TimerRate.Count values submitted
    Periods,    \* TimerRate.Period values submitted (ms)
    Sizes,      \* ParsableSize values submitted (bytes, >= 0)
    Durations   \* ParsableDuration values submitted (ms)

ASSUME Counts \subseteq Nat /\ Periods \subseteq Nat /\ Sizes \subseteq Nat
ASSUME Durations \subseteq Int

Second == 1000
Hour == 3600 * Second

Lesser(a, b) == IF a < b THEN a ELSE b
Greater(a, b) == IF a > b THEN a ELSE b

-----------------------------------------------------------------------------
(* util.TimerRate                                                          *)

Rate(c, p) == [count |-> c, period |-> p]

IsZeroRate(r) == r.period = 0

\* Rescale(period): count * d.Period.Milliseconds() / period.Milliseconds(),
\* truncated by uint32().
Rescale(r, p) == Rate((r.count * r.period) \div p, p)

ClampPeriod(r, pmin, pmax) == Rate(r.count, Greater(Lesser(r.period, pmax), pmin))

Clamp(r, rmin, rmax) ==
    Rate(Greater(Lesser(r.count, Rescale(rmax, r.period).count),
                 Rescale(rmin, r.period).count),
         r.period)

\* MarshalText: nothing for a zero rate (JSON ""), else "%d/%s".
EncodeRate(r) == IF IsZeroRate(r) THEN <<"text">> ELSE <<"text", r.count, r.period>>

\* UnmarshalText: "" is the zero rate; Sscanf("%d/%s") and
\* time.ParseDuration read back what MarshalText wrote.
DecodeRate(t) == IF Len(t) = 1 THEN Rate(0, 0) ELSE Rate(t[2], t[3])

-----------------------------------------------------------------------------
(* util.ParsableSize                                                       *)

\* String(): a count of b, kb, mb or gb, shifting by 10 bits while the
\* value is above 1024.
SizeString(v) ==
    CASE v = 0                      -> <<0, "">>
      [] v <= 1024                  -> <<v, "b">>
      [] v \div 1024 <= 1024        -> <<v \div 1024, "kb">>
      [] v \div (1024^2) <= 1024    -> <<v \div (1024^2), "mb">>
      [] OTHER                      -> <<v \div (1024^3), "gb">>

\* MarshalJSON: null for 0, else json.Marshal(d.String()), a quoted string.
EncodeSize(v) == IF v = 0 THEN <<"null">> ELSE <<"quoted">> \o SizeString(v)

\* UnmarshalJSON: null leaves the zero value.  A quoted string is handed
\* to UnmarshalText with its quotes (text, not the unmarshalled str), and
\* Sscanf("%f%s") fails on the leading '"': an error.
DecodeSize(t) == IF t[1] = "null" THEN [err |-> FALSE, v |-> 0] ELSE [err |-> TRUE, v |-> 0]

-----------------------------------------------------------------------------
(* util.ParsableDuration                                                   *)

\* MarshalJSON: null for 0, else the quoted Duration.String().
EncodeDur(d) == IF d = 0 THEN <<"null">> ELSE <<"quoted", d>>

\* UnmarshalJSON: json.Unmarshal into a string, then time.ParseDuration,
\* which reads back what Duration.String() wrote.
DecodeDur(t) == IF t[1] = "null" THEN 0 ELSE t[2]

-----------------------------------------------------------------------------
(* task.Options                                                            *)

OptionSet ==
    [retryLimit : {Rate(c, p) : c \in Counts, p \in Periods},
     maxMemory : Sizes, stopTimeout : Durations, retryBackoff : Durations,
     minUptime : Durations]

DefaultRetryLimit == Rate(10, 30 * Second)

\* Options.WithDefaults.
WithDefaults(o) ==
    [retryLimit |->
        IF IsZeroRate(o.retryLimit) THEN DefaultRetryLimit
        ELSE Clamp(ClampPeriod(o.retryLimit, 30 * Second, Hour),
                   Rate(0, Second), DefaultRetryLimit),
     maxMemory |-> o.maxMemory,
     stopTimeout |-> IF o.stopTimeout > 0
                     THEN Greater(Lesser(o.stopTimeout, 30 * Second), 250)
                     ELSE 5 * Second,
     retryBackoff |-> Greater(o.retryBackoff, 500),
     minUptime |-> IF o.minUptime > 0 THEN o.minUptime ELSE 0]

\* json.Encoder.Encode of the manifest's options (Collection.MarshalValue).
Encode(o) ==
    [retryLimit |-> EncodeRate(o.retryLimit), maxMemory |-> EncodeSize(o.maxMemory),
     stopTimeout |-> EncodeDur(o.stopTimeout), retryBackoff |-> EncodeDur(o.retryBackoff),
     minUptime |-> EncodeDur(o.minUptime)]

\* json.Unmarshal of the stored value: any field's error fails the whole
\* manifest.
Decode(e) ==
    LET m == DecodeSize(e.maxMemory) IN
    [err |-> m.err,
     opts |-> [retryLimit |-> DecodeRate(e.retryLimit), maxMemory |-> m.v,
               stopTimeout |-> DecodeDur(e.stopTimeout),
               retryBackoff |-> DecodeDur(e.retryBackoff),
               minUptime |-> DecodeDur(e.minUptime)]]

-----------------------------------------------------------------------------

VARIABLES
    submitted,  \* the options of the manifest a client launched
    stored,     \* its JSON in the jobs collection, "none" before Launch
    revived,    \* options of the job reviveJobs spawned, "none" before
    effective,  \* the options NewWorker runs the revived job's task with
    phase

vars == <<submitted, stored, revived, effective, phase>>

\* JobService.Launch: recipe.Spawn, then UpdateJob's
\* JobCollection.Replace(id, manifest) encodes it (the job's own Start and
\* Ready are JobSession's).
Launch ==
    /\ phase = "launched"
    /\ stored' = Encode(submitted)
    /\ phase' = "stored"
    /\ UNCHANGED <<submitted, revived, effective>>

\* The daemon restarts; reviveJobs ranges over the collection: a value
\* whose UnmarshalValue fails is skipped, the others are spawned.
ReviveJobs ==
    /\ phase = "stored"
    /\ LET d == Decode(stored) IN
       /\ revived' = IF d.err THEN revived ELSE d.opts
       /\ phase' = IF d.err THEN "lost" ELSE "revived"
    /\ UNCHANGED <<submitted, stored, effective>>

\* The revived job starts: task.NewWorker copies and defaults the options.
NewWorker ==
    /\ phase = "revived"
    /\ effective' = WithDefaults(revived)
    /\ phase' = "idle"
    /\ UNCHANGED <<submitted, stored, revived>>

\* Any options the Launch request decodes to: the client may write a size
\* as a JSON number, which UnmarshalJSON's float path accepts.
Init ==
    /\ submitted \in OptionSet
    /\ stored = "none" /\ revived = "none" /\ effective = "none"
    /\ phase = "launched"

\* The job runs on, or was never revived.
Settled == phase \in {"idle", "lost"} /\ UNCHANGED vars

Next == Launch \/ ReviveJobs \/ NewWorker \/ Settled

Spec == Init /\ [][Next]_vars

-----------------------------------------------------------------------------
(* Properties                                                              *)

\* Spec invariant 7: Insert, Close and Open recover an equivalent manifest:
\* the job reviveJobs brings back after a restart has the options it was
\* launched with (no manifest is dropped by Collection.Range).
RevivalRoundTrip ==
    /\ phase # "lost"
    /\ phase \in {"revived", "idle"} => revived = submitted

\* Spec 3: retry_limit is clamped to [0, 10/30s] with its period in
\* [30s, 1h]: a rate that, with its period clamped, is already no faster
\* than 10/30s is kept as it is by Options.WithDefaults.
RetryLimitKept ==
    phase = "idle" /\ ~IsZeroRate(revived.retryLimit) =>
        LET r == ClampPeriod(revived.retryLimit, 30 * Second, Hour) IN
        r.count * 30 * Second <= 10 * r.period => effective.retryLimit = r

=============================================================================
