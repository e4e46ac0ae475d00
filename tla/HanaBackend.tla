---------------------------- MODULE HanaBackend ----------------------------
(***************************************************************************)
(* The backend plugin at run time: the profile registry, one bb8 pool per  *)
(* registration, and concurrent calls of execute, list_resources and       *)
(* complete_template_variable (lib.rs, engine.rs).                         *)
(*                                                                         *)
(* A step of a call runs from one .await to the next; everything the code  *)
(* does in between touches no shared state.  The runtime has two workers   *)
(* and every entry point is a block_on of its own, so calls and            *)
(* registrations interleave at each await.                                 *)
(*                                                                         *)
(* A registration is known by its generation, its index in `binding`.      *)
(***************************************************************************)
EXTENDS HanaSpec, HanaEnvelope, FiniteSets, Sequences

CONSTANTS
    Names,         \* backend names of the host's configuration
    Calls,         \* calls, each made once
    Specs,         \* specs the host may try to register
    Texts,         \* what a message from the server or from CEL may contain
    MaxGens,       \* bound: accepted registrations in one behaviour
    HostInstalled  \* set_host_handle was called (the cdylib always does)

ASSUME CallsFinite == IsFiniteSet(Calls)
ASSUME SpecsTyped  == Specs \subseteq HanaBackendSpec
ASSUME TextsTyped  == Texts \subseteq Message
ASSUME BoundsTyped == MaxGens \in Nat /\ HostInstalled \in BOOLEAN

Gens == 1 .. MaxGens

VARIABLES
    \* the registry
    profiles,  \* name -> generation, 0 when the name has no profile
    binding,   \* generation -> spec
    \* each generation's pool
    idle,      \* sessions waiting in the pool
    pending,   \* connection attempts under way
    sessions,  \* sessions open on the server
    \* each call
    pc, op, target,
    snap,      \* generation of the cloned profile
    conn,      \* generation whose session the call holds, 0 for none
    wire,      \* how far the server and the network are with its statement
    reply,
    \* observability
    label, metrics, audits,
    \* history
    since,     \* generation registered for the target when the call began
    ran        \* times the server ran the call's statement

registry == <<profiles, binding>>
pools    == <<idle, pending, sessions>>
observed == <<label, metrics, audits>>
request  == <<op, target, since>>
vars     == <<registry, pools, pc, request, snap, conn, wire, ran, reply, observed>>

-----------------------------------------------------------------------------
(* Types.                                                                  *)

Pc   == {"idle", "clone", "waiting", "prepare", "execute", "fetch", "audit", "done"}
Wire == {"none", "sent", "answered", "refused", "lost"}
Form == {"none", "rows", "empty", "downstream", "not_found", "invalid", "transport"}

RegistryType ==
    /\ binding \in Seq({s \in Specs : Registrable(s)})
    /\ Len(binding) <= MaxGens
    /\ profiles \in [Names -> 0 .. Len(binding)]

PoolType ==
    /\ idle \in [Gens -> Nat]
    /\ pending \in [Gens -> Nat]
    /\ sessions \in [Gens -> Nat]

CallType ==
    /\ pc \in [Calls -> Pc]
    /\ op \in [Calls -> Op]
    /\ target \in [Calls -> Names]
    /\ since \in [Calls -> 0 .. Len(binding)]
    /\ snap \in [Calls -> 0 .. Len(binding)]
    /\ conn \in [Calls -> 0 .. Len(binding)]
    /\ wire \in [Calls -> Wire]
    /\ ran \in [Calls -> Nat]
    /\ reply \in [Calls -> [form: Form, retryable: BOOLEAN]]
    /\ label \in [Calls -> Label \cup {"none"}]
    /\ metrics \in [Calls -> Nat]
    /\ audits \in [Calls -> Nat]

TypeOK == RegistryType /\ PoolType /\ CallType

Init ==
    /\ profiles = [n \in Names |-> 0]
    /\ binding = << >>
    /\ idle = [g \in Gens |-> 0]
    /\ pending = [g \in Gens |-> 0]
    /\ sessions = [g \in Gens |-> 0]
    /\ pc = [c \in Calls |-> "idle"]
    /\ op \in [Calls -> Op]
    /\ target \in [Calls -> Names]
    /\ since = [c \in Calls |-> 0]
    /\ snap = [c \in Calls |-> 0]
    /\ conn = [c \in Calls |-> 0]
    /\ wire = [c \in Calls |-> "none"]
    /\ ran = [c \in Calls |-> 0]
    /\ reply = [c \in Calls |-> [form |-> "none", retryable |-> FALSE]]
    /\ label = [c \in Calls |-> "none"]
    /\ metrics = [c \in Calls |-> 0]
    /\ audits = [c \in Calls |-> 0]

-----------------------------------------------------------------------------
(* What a call works with: its clone of the profile, whatever has been     *)
(* registered since.                                                       *)

SpecOf(c)    == binding[snap[c]]
SqlOf(c)     == StatementOf(SpecOf(c), op[c])

\* Mutant: the pool is looked up in the registry when the call needs it.
RegisteredPool(c) == profiles[target[c]]

PoolOf(c) == snap[c]

-----------------------------------------------------------------------------
(* The life of a pool.  A pool is shared by the registry entry, by the     *)
(* clone of every call that has not returned and by the connection         *)
(* attempts; the last of them to go closes its sessions.                   *)

\* Mutant: a returned call leaks its clone of the profile.
LeakedClone(c, g) == snap[c] = g

HoldsClone(c, g) == snap[c] = g /\ pc[c] # "done"

Live(g) == \/ \E n \in Names : profiles[n] = g
           \/ \E c \in Calls : HoldsClone(c, g)
           \/ pending[g] > 0

\* The pools after a step that leaves them as `i` and `s`, dropped ones closed.
Settle(i, s) ==
    /\ idle'     = [g \in Gens |-> IF Live(g)' THEN i[g] ELSE 0]
    /\ sessions' = [g \in Gens |-> IF Live(g)' THEN s[g] ELSE 0]

\* The end of run_query, normal or dropped by the timeout: the session goes
\* back to the pool if it is still usable (`kept`), and is closed otherwise.
idle_after(c, kept) ==
    IF conn[c] # 0 /\ kept THEN [idle EXCEPT ![conn[c]] = @ + 1] ELSE idle

\* Mutant: a call that never got a session gives one up all the same.
sessions_unheld(c, kept) ==
    IF ~ kept THEN [sessions EXCEPT ![snap[c]] = @ - 1] ELSE sessions

\* Mutant: a broken session is closed but still counted against the pool.
sessions_uncounted(c, kept) == sessions

sessions_after(c, kept) ==
    IF conn[c] # 0 /\ ~ kept THEN [sessions EXCEPT ![conn[c]] = @ - 1] ELSE sessions

Holders(g) == {c \in Calls : conn[c] = g}

-----------------------------------------------------------------------------
(* Answering.                                                              *)

\* emit_host_observability, up to the await of the audit sink.  Only execute
\* observes its calls.
Observe(c, outcome) ==
    IF op[c] = "execute"
    THEN /\ label' = [label EXCEPT ![c] = outcome]
         /\ metrics' = IF HostInstalled THEN [metrics EXCEPT ![c] = @ + 1] ELSE metrics
         /\ pc' = [pc EXCEPT ![c] =
                      IF HostInstalled /\ audit_action_for_outcome(outcome) # "none"
                      THEN "audit" ELSE "done"]
         /\ UNCHANGED audits
    ELSE pc' = [pc EXCEPT ![c] = "done"] /\ UNCHANGED observed

\* What the call gives back: its reply, its session and its clone.  Each exit of
\* execute observes the call by itself, before it replies.
Reply(c, form, again) ==
    /\ reply' = [reply EXCEPT ![c] = [form |-> form, retryable |-> again]]
    /\ conn' = [conn EXCEPT ![c] = 0]
    /\ UNCHANGED <<profiles, binding, pending, request, ran>>
    /\ \E kept \in BOOLEAN : Settle(idle_after(c, kept), sessions_after(c, kept))

\* Mutant: a listing that failed is answered with an empty page.
error_hidden(c) == IF op[c] = "execute" THEN "downstream" ELSE "empty"

\* The reply to a failed statement: execute wraps it in an envelope, the other
\* two raise BackendError::Transport whatever the failure was.
error_form(c) == IF op[c] = "execute" THEN "downstream" ELSE "transport"

Fail(c, message) ==
    /\ Observe(c, failure_label(message))
    /\ Reply(c, error_form(c), op[c] = "execute" /\ retryable(message))

\* A statement that ran to completion; a resource read with no URI fails now.
Succeed(c) ==
    \/ Observe(c, "ok") /\ Reply(c, "rows", FALSE)
    \/ /\ op[c] = "execute" /\ SpecOf(c).surface = "resource" /\ SpecOf(c).uri = "absent"
       /\ Observe(c, kind(UriMissing))
       /\ Reply(c, "downstream", retryable(UriMissing))

-----------------------------------------------------------------------------
(* Registration.                                                           *)

Register(n, s) ==
    /\ Len(binding) < MaxGens
    /\ Registrable(s)
    /\ binding' = Append(binding, s)
    /\ profiles' = [profiles EXCEPT ![n] = Len(binding) + 1]
    /\ UNCHANGED <<pending, pc, request, snap, conn, wire, ran, reply, observed>>
    /\ Settle(idle, sessions)

-----------------------------------------------------------------------------
(* A call up to its first await inside run_query.                          *)

Start(c) ==
    /\ pc[c] = "idle"
    /\ pc' = [pc EXCEPT ![c] = "clone"]
    /\ since' = [since EXCEPT ![c] = profiles[target[c]]]
    /\ UNCHANGED <<registry, pools, op, target, snap, conn, wire, ran, reply, observed>>

ProfileMissing(c) ==
    /\ pc[c] = "clone"
    /\ profiles[target[c]] = 0
    /\ UNCHANGED <<snap, wire>>
    /\ Observe(c, "profile_not_found")
    /\ Reply(c, "not_found", FALSE)

\* The entry read under the lock.
Found(c) == binding[profiles[target[c]]]

\* profiles.read().await, and the clone of the entry.
CloneProfile(c) ==
    /\ pc[c] = "clone"
    /\ profiles[target[c]] # 0
    /\ snap' = [snap EXCEPT ![c] = profiles[target[c]]]
    /\ UNCHANGED wire

\* Mutant: the early return for a payload that is not JSON forgets the host.
BadPayloadUnobserved(c) ==
    /\ op[c] = "execute"
    /\ CloneProfile(c)
    /\ pc' = [pc EXCEPT ![c] = "done"] /\ UNCHANGED observed
    /\ Reply(c, "invalid", FALSE)

\* The payload is not JSON.
BadPayload(c) ==
    /\ op[c] = "execute"
    /\ CloneProfile(c)
    /\ Observe(c, "invalid_spec")
    /\ Reply(c, "invalid", FALSE)

\* finish_error: a CEL expression failed, its source in the message, or a value
\* is no scalar.
ParamFailure(c, message) ==
    /\ op[c] = "execute"
    /\ CloneProfile(c)
    /\ ~ is_catalog(Found(c).operation)
    /\ Observe(c, "invalid_spec")
    /\ Reply(c, "downstream", retryable(message))

\* No list_query, or no entry for the variable.
Unconfigured(c) ==
    /\ op[c] # "execute"
    /\ CloneProfile(c)
    /\ ~ Configured(Found(c), op[c])
    /\ Observe(c, "ok")
    /\ Reply(c, "empty", FALSE)

\* An offset-mode cursor that is no number.
BadCursor(c) ==
    /\ op[c] = "list_resources"
    /\ CloneProfile(c)
    /\ Configured(Found(c), op[c])
    /\ Found(c).list_query.mode = "offset"
    /\ Observe(c, "invalid_spec")
    /\ Reply(c, "invalid", FALSE)

\* The arguments are good; run_query re-asserts the guard, then waits for a session.
Submit(c) ==
    /\ CloneProfile(c)
    /\ Configured(Found(c), op[c])
    /\ IF Found(c).read_only => enforce_read_only(StatementOf(Found(c), op[c]))
       THEN /\ pc' = [pc EXCEPT ![c] = "waiting"]
            /\ UNCHANGED <<registry, pools, request, conn, ran, reply, observed>>
       ELSE Fail(c, {"reject"})

-----------------------------------------------------------------------------
(* bb8: max_size sessions, opened on demand, handed to one call at a time. *)

Acquire(c) ==
    LET g == PoolOf(c) IN
    /\ pc[c] = "waiting"
    /\ idle[g] > 0
    /\ idle' = [idle EXCEPT ![g] = @ - 1]
    /\ conn' = [conn EXCEPT ![c] = g]
    /\ pc' = [pc EXCEPT ![c] = "prepare"]
    /\ UNCHANGED <<registry, pending, sessions, request, snap, wire, ran, reply, observed>>

Replenish(c) ==
    LET g == PoolOf(c) IN
    /\ pc[c] = "waiting"
    /\ idle[g] = 0
    /\ sessions[g] + pending[g] < binding[g].pool_max_size
    /\ pending' = [pending EXCEPT ![g] = @ + 1]
    /\ UNCHANGED <<registry, idle, sessions, pc, request, snap, conn, wire, ran, reply, observed>>

Connected(g) ==
    /\ pending[g] > 0
    /\ pending' = [pending EXCEPT ![g] = @ - 1]
    /\ UNCHANGED <<registry, pc, request, snap, conn, wire, ran, reply, observed>>
    /\ Settle([idle EXCEPT ![g] = @ + 1], [sessions EXCEPT ![g] = @ + 1])

ConnectFailed(g) ==
    /\ pending[g] > 0
    /\ pending' = [pending EXCEPT ![g] = @ - 1]
    /\ UNCHANGED <<registry, pc, request, snap, conn, wire, ran, reply, observed>>
    /\ Settle(idle, sessions)

\* Found broken at checkout, or reaped for its age.
SessionClosed(g) ==
    /\ idle[g] > 0
    /\ idle' = [idle EXCEPT ![g] = @ - 1]
    /\ sessions' = [sessions EXCEPT ![g] = @ - 1]
    /\ UNCHANGED <<registry, pending, pc, request, snap, conn, wire, ran, reply, observed>>

-----------------------------------------------------------------------------
(* engine::run_query, and the server and network it talks to.  A dropped   *)
(* future does not recall a statement that was sent.                       *)

PoolTimeout(c) ==
    /\ pc[c] = "waiting"
    /\ UNCHANGED <<snap, wire>>
    /\ Fail(c, PoolTimedOut)

\* prepare succeeds and execute_row sends the statement.
Prepared(c) ==
    /\ pc[c] = "prepare"
    /\ pc' = [pc EXCEPT ![c] = "execute"]
    /\ wire' = [wire EXCEPT ![c] = "sent"]
    /\ UNCHANGED <<registry, pools, request, snap, conn, ran, reply, observed>>

PrepareFailed(c, message) ==
    /\ pc[c] = "prepare"
    /\ UNCHANGED <<snap, wire>>
    /\ Fail(c, message)

ServerRuns(c) ==
    /\ wire[c] = "sent"
    /\ wire' = [wire EXCEPT ![c] = "answered"]
    /\ ran' = [ran EXCEPT ![c] = @ + 1]
    /\ UNCHANGED <<registry, pools, pc, request, snap, conn, reply, observed>>

ServerRefuses(c) ==
    /\ wire[c] = "sent"
    /\ wire' = [wire EXCEPT ![c] = "refused"]
    /\ UNCHANGED <<registry, pools, pc, request, snap, conn, ran, reply, observed>>

\* The statement or its answer is lost with the connection.
ConnectionLost(c) ==
    /\ wire[c] \in {"sent", "answered"}
    /\ wire' = [wire EXCEPT ![c] = "lost"]
    /\ UNCHANGED <<registry, pools, pc, request, snap, conn, ran, reply, observed>>

\* There is a result set to fetch.
Executed(c) ==
    /\ pc[c] = "execute"
    /\ wire[c] = "answered"
    /\ pc' = [pc EXCEPT ![c] = "fetch"]
    /\ UNCHANGED <<registry, pools, request, snap, conn, wire, ran, reply, observed>>

\* A statement with no result set yields zero rows.
NoResultSet(c) ==
    /\ pc[c] = "execute"
    /\ wire[c] = "answered"
    /\ UNCHANGED <<snap, wire>>
    /\ Succeed(c)

ExecuteFailed(c, message) ==
    /\ pc[c] = "execute"
    /\ wire[c] \in {"refused", "lost"}
    /\ UNCHANGED <<snap, wire>>
    /\ Fail(c, message)

\* marshal_result_set; module HanaMarshal has its loop.
Fetched(c) ==
    /\ pc[c] = "fetch"
    /\ UNCHANGED <<snap, wire>>
    /\ Succeed(c)

FetchFailed(c, message) ==
    /\ pc[c] = "fetch"
    /\ UNCHANGED <<snap, wire>>
    /\ Fail(c, message)

\* With a session in hand.  (Mutant of InRunQuery: the timeout does not cover
\* the wait for one.)
Holding == {"prepare", "execute", "fetch"}

\* Where the outer timeout covers a call.
InRunQuery == {"waiting", "prepare", "execute", "fetch"}

Timeout(c) ==
    /\ pc[c] \in InRunQuery
    /\ UNCHANGED <<snap, wire>>
    /\ Fail(c, CallTimedOut)

\* The audit sink has returned, with an error or not, and so does the call.
AuditDone(c) ==
    /\ pc[c] = "audit"
    /\ audits' = [audits EXCEPT ![c] = @ + 1]
    /\ pc' = [pc EXCEPT ![c] = "done"]
    /\ UNCHANGED <<registry, pending, request, snap, conn, wire, ran, reply, label, metrics>>
    /\ Settle(idle, sessions)

-----------------------------------------------------------------------------

\* The plugin's own steps, up to the outer timeout.
Prologue(c) ==
    \/ ProfileMissing(c)
    \/ BadPayload(c)
    \/ \E message \in Texts \cup {BindRejected} : ParamFailure(c, message)
    \/ Unconfigured(c)
    \/ BadCursor(c)
    \/ Submit(c)

\* Steps that wait for the pool or for the server.
Progress(c) ==
    \/ Acquire(c)
    \/ PoolTimeout(c)
    \/ Prepared(c)
    \/ Executed(c)
    \/ NoResultSet(c)
    \/ Fetched(c)
    \/ \E message \in Texts :
           PrepareFailed(c, message) \/ ExecuteFailed(c, message) \/ FetchFailed(c, message)

Server(c) == ServerRuns(c) \/ ServerRefuses(c) \/ ConnectionLost(c)

ConnectEnds(g) == Connected(g) \/ ConnectFailed(g)

Terminated == (\A c \in Calls : pc[c] = "done") /\ UNCHANGED vars

Next ==
    \/ \E n \in Names, s \in Specs : Register(n, s)
    \/ \E c \in Calls : Start(c) \/ Prologue(c) \/ Replenish(c) \/ Progress(c)
                        \/ Server(c) \/ Timeout(c) \/ AuditDone(c)
    \/ \E g \in Gens : ConnectEnds(g) \/ SessionClosed(g)
    \/ Terminated

Spec == Init /\ [][Next]_vars

\* The runtime runs a ready task, timers fire and a connection attempt ends (bb8
\* gives it connection_timeout).  Nothing is assumed of the server, of free
\* sessions, of the callers or of the audit sink.
Fairness ==
    /\ \A c \in Calls : WF_vars(Prologue(c)) /\ WF_vars(Timeout(c))
    /\ \A g \in Gens : WF_vars(ConnectEnds(g))

FairSpec == Spec /\ Fairness

-----------------------------------------------------------------------------
(* Safety.                                                                 *)

\* Under read_only no statement that changes data ever reaches the server, not
\* through any operation and not after the call has timed out.
ReadOnlyBindingNeverWrites ==
    \A c \in Calls :
        ran[c] > 0 /\ SpecOf(c).read_only => SqlOf(c) \notin Mutating

\* Every statement a registered profile can run is there, holds no bare cred://
\* URI and, under read_only, passes the guard run_query repeats: the checks of
\* register_profile cover whatever effective_statement, list_resources and
\* complete_template_variable pick.
RegisteredIsRunnable ==
    \A g \in 1 .. Len(binding), o \in Op :
        Configured(binding[g], o) =>
            /\ ~ empty(StatementOf(binding[g], o))
            /\ fenced(binding[g], StatementOf(binding[g], o))

\* A call uses one registration throughout: the session it holds comes from the
\* pool of the profile it cloned, and that profile is no older than the one
\* registered when the call began.
OneProfilePerCall ==
    \A c \in Calls :
        /\ conn[c] # 0 => conn[c] = snap[c]
        /\ snap[c] # 0 => snap[c] >= since[c]

\* Each open session is idle in its pool or held by exactly one call, and a
\* generation never has more of them than its pool_max_size: no timeout, failed
\* statement or re-registration leaks a session or loses count of one.
SessionsAccounted ==
    \A g \in 1 .. Len(binding) :
        /\ sessions[g] = idle[g] + Cardinality(Holders(g))
        /\ sessions[g] + pending[g] <= binding[g].pool_max_size

\* An execute of a plugin with a host.
Observable(c) == HostInstalled /\ op[c] = "execute"

\* ... whose reply is not the rows and whose profile exists.
Audited(c) == Observable(c) /\ reply[c].form \in {"downstream", "invalid"}

\* An execute that has returned was counted once; it was audited once if its
\* reply is not the rows and its profile exists, and not at all otherwise.  The
\* other operations and a plugin with no host emit nothing.
ObservedOnce ==
    \A c \in Calls :
        pc[c] = "done" =>
            /\ metrics[c] = IF Observable(c) THEN 1 ELSE 0
            /\ audits[c] = IF Audited(c) THEN 1 ELSE 0

-----------------------------------------------------------------------------
(* The inductive invariant behind the safety properties.                   *)

\* Where a call is decides what it holds, and whether its statement was sent.
CallShape(c) ==
    /\ pc[c] \in {"idle", "clone"} => snap[c] = 0
    /\ pc[c] \in InRunQuery => snap[c] # 0
    /\ conn[c] = IF pc[c] \in Holding THEN snap[c] ELSE 0
    /\ pc[c] \in {"idle", "clone", "waiting", "prepare"} => wire[c] = "none"
    /\ wire[c] \in {"none", "sent"} => ran[c] = 0

\* A clone is no older than the call, and only a statement the profile has is sent.
CallBinding(c) ==
    /\ pc[c] = "clone" => since[c] <= profiles[target[c]]
    /\ snap[c] # 0 => since[c] <= snap[c]
    /\ wire[c] # "none" => snap[c] # 0
    /\ pc[c] \in InRunQuery \/ wire[c] # "none" => Configured(SpecOf(c), op[c])

\* Emission happens when the call is answered, the audit when it leaves "audit".
CallObserved(c) ==
    /\ metrics[c] = IF Observable(c) /\ pc[c] \in {"audit", "done"} THEN 1 ELSE 0
    /\ audits[c] = IF Audited(c) /\ pc[c] = "done" THEN 1 ELSE 0
    /\ pc[c] = "audit" => Audited(c)

\* SessionsAccounted, and nothing open for a generation not yet registered.
PoolInv ==
    \A g \in Gens :
        /\ sessions[g] = idle[g] + Cardinality(Holders(g))
        /\ g <= Len(binding) => sessions[g] + pending[g] <= binding[g].pool_max_size
        /\ g > Len(binding) => sessions[g] = 0 /\ pending[g] = 0

CallInv == \A c \in Calls : CallShape(c) /\ CallBinding(c) /\ CallObserved(c)

IInv == TypeOK /\ CallInv /\ PoolInv

-----------------------------------------------------------------------------
(* What a comment says and the code does not do; a run shows it.           *)

\* envelope.rs, classify_error; README, Response envelope: transient failures are retryable,
\* rejections, caller and config problems are not, whatever words their text mentions.
\* So the verdict the caller gets is that of the label the host gets.
VerdictFitsLabel ==
    \A c \in Calls : reply[c].retryable <=> label[c] \in {"timeout", "transport_error"}

-----------------------------------------------------------------------------
(* Progress and refinement.                                                *)

\* The sink comes back to the call it audits: no timeout covers it.
SinkReturns(c) == WF_vars(AuditDone(c))

\* Every call returns, whatever the server does and however many calls wait for
\* the pool, and though the audit sink keeps the other calls for ever.
EveryCallReturns ==
    \A c \in Calls : SinkReturns(c) => ((pc[c] # "idle") ~> (pc[c] = "done"))

\* The pool of a registration that has been replaced closes every session and
\* gives up every attempt, for good, if no audit sink holds a clone of it.
SupersededPoolDrains ==
    (\A c \in Calls : SinkReturns(c)) => \A g \in Gens :
        (g <= Len(binding) /\ \A n \in Names : profiles[n] # g)
            ~> [](sessions[g] = 0 /\ pending[g] = 0)

\* What a caller is promised.
Call == INSTANCE HanaCall WITH
    status  <- [c \in Calls |-> IF pc[c] = "idle" THEN "idle"
                                ELSE IF pc[c] = "done" THEN "returned" ELSE "pending"],
    outcome <- [c \in Calls |-> IF pc[c] # "done" THEN "none"
                                ELSE IF reply[c].form = "rows" THEN "ok"
                                ELSE IF \/ reply[c].form \in {"empty", "not_found", "invalid"}
                                        \/ label[c] = "invalid_spec" THEN "unserved"
                                ELSE "failed"]

CallPromise == Call!Spec
=============================================================================
