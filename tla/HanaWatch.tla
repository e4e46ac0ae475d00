----------------------------- MODULE HanaWatch -----------------------------
(***************************************************************************)
(* A polling watcher (watch.rs): a thread that, once per interval, reads   *)
(* one scalar over a pool of its own and emits an event when it differs    *)
(* from the one before, until it is cancelled.                             *)
(*                                                                         *)
(* The thread, the diff and the stop flag are the SDK's helper, modelled   *)
(* from what watch.rs says of it.  The watcher's runtime has one thread    *)
(* and runs only inside a tick's block_on: between two ticks nothing of    *)
(* the pool moves, a connection attempt included.                          *)
(***************************************************************************)
EXTENDS HanaSpec

CONSTANTS
    Values,      \* scalars the tracking query may read
    WatchSpecs,  \* specs a watcher may be started with
    MaxVersions  \* bound: different scalars the table takes, one after another

WatchSpec == [host: Text, port: Nat, user: Text, tracking_query: Statement,
              pool_max_size: Nat]

ASSUME WatchSpecsTyped == WatchSpecs \subseteq WatchSpec
ASSUME ScalarsReal     == Values \cap {"no_rows", "null", "none"} = {}
ASSUME VersionsTyped   == MaxVersions \in Nat

VARIABLES
    spec,
    pc,        \* "new", "refused", "asleep", "gone", or where the tick is
    stop,      \* the flag `cancel` sets
    \* the pool
    idle, pending, sessions,
    \* the tick's statement
    wire,      \* "none", "sent", "answered" or "failed"
    answer,    \* what the server read, and the version it read
    \* the helper
    baseline,  \* the scalar seen last, "none" before the first
    \* the table
    value,     \* the scalar of the tracking query: no row, NULL, or a value
    last,      \* the last of its values that was one
    version,   \* how many values it has taken, each different from the one before
    \* history
    seen,      \* version of the baseline
    emitted, late,  \* events, and those emitted after `cancel`
    orphan     \* a statement whose tick is over is still running on the server

pool    == <<idle, pending, sessions>>
reading == <<wire, answer>>
told    == <<baseline, seen, emitted, late>>
table   == <<value, last, version>>
vars    == <<spec, pc, stop, pool, reading, told, table, orphan>>

Raw    == Values \cup {"no_rows", "null"}
Scalar == Values \cup {"none"}

\* Where block_on drives the runtime, and where the tick holds a session.
InTick  == {"get", "prepare", "execute"}
Holding == {"prepare", "execute"}

TypeOK ==
    /\ spec \in WatchSpecs
    /\ pc \in {"new", "refused", "asleep", "gone"} \cup InTick
    /\ stop \in BOOLEAN
    /\ idle \in Nat /\ pending \in Nat /\ sessions \in Nat
    /\ wire \in {"none", "sent", "answered", "failed"}
    /\ answer \in [raw: Raw, version: Nat]
    /\ baseline \in Scalar
    /\ value \in Raw /\ last \in Scalar /\ version \in Nat
    /\ seen \in Nat /\ emitted \in Nat /\ late \in Nat
    /\ orphan \in BOOLEAN

\* Nothing read yet.
NoAnswer == [raw |-> "no_rows", version |-> 0]

Init ==
    /\ spec \in WatchSpecs
    /\ pc = "new"
    /\ stop = FALSE
    /\ idle = 0 /\ pending = 0 /\ sessions = 0
    /\ wire = "none" /\ answer = NoAnswer
    /\ baseline = "none"
    /\ value \in Raw
    /\ IF value \in Values THEN last = value  /\ version = 1
                           ELSE last = "none" /\ version = 0
    /\ seen = 0 /\ emitted = 0 /\ late = 0
    /\ orphan = FALSE

-----------------------------------------------------------------------------
(* Starting and cancelling.                                                *)

Watchable(w) ==
    /\ ~ empty(w.host)
    /\ w.port # 0
    /\ ~ empty(w.user)
    /\ ~ empty(w.tracking_query)
    /\ enforce_read_only(w.tracking_query)

max_size(w) == IF w.pool_max_size = 0 THEN 1 ELSE w.pool_max_size

watch ==
    /\ pc = "new"
    /\ pc' = IF Watchable(spec) THEN "asleep" ELSE "refused"
    /\ UNCHANGED <<spec, stop, pool, reading, told, table, orphan>>

cancel ==
    /\ pc \in {"asleep"} \cup InTick
    /\ ~ stop
    /\ stop' = TRUE
    /\ UNCHANGED <<spec, pc, pool, reading, told, table, orphan>>

\* The thread ends and drops the closure: its runtime, with every attempt under
\* way, and its pool.
Stop ==
    /\ pc = "asleep"
    /\ stop
    /\ pc' = "gone"
    /\ idle' = 0 /\ pending' = 0 /\ sessions' = 0
    /\ UNCHANGED <<spec, stop, reading, told, table, orphan>>

-----------------------------------------------------------------------------
(* A tick: run_query under the tick's timeout.                             *)

\* Mutant: the flag is looked at only by a thread that has nothing to do.
TickAnyway ==
    /\ pc = "asleep"
    /\ pc' = "get"
    /\ UNCHANGED <<spec, stop, pool, reading, told, table, orphan>>

Tick ==
    /\ pc = "asleep"
    /\ ~ stop
    /\ pc' = "get"
    /\ UNCHANGED <<spec, stop, pool, reading, told, table, orphan>>

Replenish ==
    /\ pc = "get"
    /\ idle = 0
    /\ sessions + pending < max_size(spec)
    /\ pending' = pending + 1
    /\ UNCHANGED <<spec, pc, stop, idle, sessions, reading, told, table, orphan>>

Connected ==
    /\ pc \in InTick
    /\ pending > 0
    /\ pending' = pending - 1
    /\ idle' = idle + 1 /\ sessions' = sessions + 1
    /\ UNCHANGED <<spec, pc, stop, reading, told, table, orphan>>

ConnectFailed ==
    /\ pc \in InTick
    /\ pending > 0
    /\ pending' = pending - 1
    /\ UNCHANGED <<spec, pc, stop, idle, sessions, reading, told, table, orphan>>

SessionClosed ==
    /\ pc \in InTick
    /\ idle > 0
    /\ idle' = idle - 1 /\ sessions' = sessions - 1
    /\ UNCHANGED <<spec, pc, stop, pending, reading, told, table, orphan>>

Acquire ==
    /\ pc = "get"
    /\ idle > 0
    /\ idle' = idle - 1
    /\ pc' = "prepare"
    /\ UNCHANGED <<spec, stop, pending, sessions, reading, told, table, orphan>>

Prepared ==
    /\ pc = "prepare"
    /\ pc' = "execute"
    /\ wire' = "sent"
    /\ UNCHANGED <<spec, stop, pool, answer, told, table, orphan>>

\* The future is done or dropped; its session goes back, or is closed as broken.
\* Mutant: a broken session is closed but still counted.
GiveUpUncounted(kept) ==
    /\ idle' = IF pc \in Holding /\ kept THEN idle + 1 ELSE idle
    /\ sessions' = sessions

GiveUp(kept) ==
    /\ idle' = IF pc \in Holding /\ kept THEN idle + 1 ELSE idle
    /\ sessions' = IF pc \in Holding /\ ~ kept THEN sessions - 1 ELSE sessions

EndTick ==
    /\ pc' = "asleep"
    /\ wire' = "none" /\ answer' = NoAnswer
    /\ orphan' = (orphan \/ wire = "sent")
    /\ \E kept \in BOOLEAN : GiveUp(kept)
    /\ UNCHANGED <<spec, stop, pending, table>>

\* Mutant: the thread ends with the first tick that fails.
EndThread ==
    /\ pc' = "gone"
    /\ wire' = "none" /\ answer' = NoAnswer
    /\ orphan' = (orphan \/ wire = "sent")
    /\ idle' = 0 /\ sessions' = 0 /\ pending' = 0
    /\ UNCHANGED <<spec, stop, table, told>>

\* The closure returns Err, which the helper logs; the next tick tries again.
Err == EndTick /\ UNCHANGED told

\* No session within connection_timeout, prepare or execute failed.
Failed ==
    /\ \/ pc \in {"get", "prepare"}
       \/ pc = "execute" /\ wire \in {"answered", "failed"}
    /\ Err

\* Mutant: the timeout does not cover the statement.
Unexecuted == {"get", "prepare"}

\* Where the tick's timeout strikes.
Timed == InTick

Expired ==
    /\ pc \in Timed
    /\ Err

\* Mutant: NULL is a scalar like any other.
cursor_or_null(raw) == IF raw = "no_rows" THEN "none" ELSE raw

\* The scalar of an answer: none for no rows and for NULL.
cursor_from_outcome(raw) == IF raw \in Values THEN raw ELSE "none"

\* Mutant: the first scalar is reported, too.
news_from_start(scalar) == scalar # "none" /\ scalar # baseline

\* The helper reports what differs from the baseline, once there is one.
news(scalar) == scalar # "none" /\ baseline # "none" /\ scalar # baseline

Answered ==
    LET scalar == cursor_from_outcome(answer.raw) IN
    /\ pc = "execute"
    /\ wire = "answered"
    /\ baseline' = IF scalar = "none" THEN baseline ELSE scalar
    /\ seen' = IF scalar = "none" THEN seen ELSE answer.version
    /\ emitted' = IF news(scalar) THEN emitted + 1 ELSE emitted
    /\ late' = IF news(scalar) /\ stop THEN late + 1 ELSE late
    /\ EndTick

-----------------------------------------------------------------------------
(* The server and the table, external.                                     *)

ServerReads ==
    /\ wire = "sent"
    /\ wire' = "answered"
    /\ answer' = [raw |-> value, version |-> version]
    /\ UNCHANGED <<spec, pc, stop, pool, told, table, orphan>>

ServerFails ==
    /\ wire = "sent"
    /\ wire' = "failed"
    /\ UNCHANGED <<spec, pc, stop, pool, answer, told, table, orphan>>

OrphanEnds ==
    /\ orphan
    /\ orphan' = FALSE
    /\ UNCHANGED <<spec, pc, stop, pool, reading, told, table>>

Change(raw) ==
    /\ pc # "gone"
    /\ raw # value
    /\ value' = raw
    /\ IF raw \in Values \ {last}
       THEN version < MaxVersions /\ version' = version + 1 /\ last' = raw
       ELSE UNCHANGED <<version, last>>
    /\ UNCHANGED <<spec, pc, stop, pool, reading, told, orphan>>

Ended == pc \in {"refused", "gone"} /\ UNCHANGED vars

Server == ServerReads \/ ServerFails \/ OrphanEnds

Next ==
    \/ watch \/ cancel \/ Stop \/ Tick
    \/ Replenish \/ Connected \/ ConnectFailed \/ SessionClosed \/ Acquire
    \/ Prepared \/ Failed \/ Expired \/ Answered
    \/ Server
    \/ \E raw \in Raw : Change(raw)
    \/ Ended

Spec == Init /\ [][Next]_vars

\* The thread runs, and its timers fire.
ThreadFairness == WF_vars(watch) /\ WF_vars(Stop) /\ WF_vars(Tick) /\ WF_vars(Expired)

\* Of the server: what tick after tick tries again succeeds in the end.
ServerFairness ==
    /\ SF_vars(Replenish) /\ SF_vars(Connected) /\ SF_vars(Acquire)
    /\ SF_vars(Prepared) /\ SF_vars(ServerReads) /\ SF_vars(Answered)

FairSpec == Spec /\ ThreadFairness

-----------------------------------------------------------------------------

\* README, Change-watching: never an event without a change.  The scalar took at
\* least one more value than there were events, the first of them the baseline,
\* however ticks, failures and changes fall; an interlude of NULL is no change.
NoSpuriousEvent == emitted > 0 => emitted < version

\* The tick under way when the watcher is cancelled may still emit, none after it.
OneLateEvent == late <= 1

\* Each session of the pool is idle or the tick's, and there are never more of
\* them, attempts that outlive their tick included, than pool_max_size.
PoolAccounted ==
    /\ sessions = IF pc \in Holding THEN idle + 1 ELSE idle
    /\ sessions + pending <= max_size(spec)

\* A watcher sends no statement that changes data.
WatchNeverWrites == (wire # "none" \/ orphan) => spec.tracking_query \notin Mutating

\* What keeps NoSpuriousEvent: a scalar read after the baseline and unlike it is of
\* a later version, and every event went with such a step.
Dated ==
    /\ version = 0 <=> last = "none"
    /\ baseline = "none" => seen = 0 /\ emitted = 0
    /\ baseline # "none" => /\ emitted < seen /\ seen <= version
                            /\ seen = version => baseline = last
    /\ value \in Values => value = last
    /\ answer.version <= version
    /\ wire = "answered" /\ answer.raw \in Values =>
          /\ answer.version >= 1 /\ seen <= answer.version
          /\ answer.version = version => answer.raw = last
          /\ baseline # "none" /\ seen = answer.version => baseline = answer.raw

\* What keeps OneLateEvent and WatchNeverWrites.
Guarded ==
    /\ ~ stop => late = 0
    /\ pc \in InTick => late = 0
    /\ (pc \in {"asleep"} \cup InTick \/ wire # "none" \/ orphan) => Watchable(spec)
    /\ wire # "none" => pc = "execute"

IInv == TypeOK /\ PoolAccounted /\ Dated /\ Guarded /\ OneLateEvent

\* A watcher that is cancelled ends, and takes its sessions with it, though the
\* server may never answer.
CancelDrains == stop ~> [](pc = "gone" /\ sessions = 0 /\ pending = 0)

\* A scalar that differs from the baseline and stays is reported, if what is tried
\* again and again succeeds; through ticks that fail and attempts that are frozen
\* from one tick to the next.
Reported ==
    ServerFairness =>
        \A n \in 0 .. MaxVersions :
            (baseline # "none" /\ value \in Values \ {baseline} /\ emitted = n)
                ~> (emitted > n \/ value \notin Values \ {baseline} \/ stop)
=============================================================================
