----------------------------- MODULE HanaRegistry -----------------------------
(***************************************************************************)
(* The lock of the profile registry: registrations that write, calls that  *)
(* read and clone, and the host's questions for a binding's schemas, which *)
(* try the lock and make do without (lib.rs).  HanaBackend takes each      *)
(* access for one step; here is why it may.                                *)
(*                                                                         *)
(* tokio's RwLock is fair: who comes while the lock is taken waits in line,*)
(* and a writer in line keeps new readers out.                             *)
(***************************************************************************)
EXTENDS HanaEnvelope, Naturals, Sequences

CONSTANTS
    Names, ArgNames,
    Registrations,  \* accepted specs, each about to be stored once
    Calls,          \* callers of execute, each calling again and again
    Profiles        \* what a registration may store

Profile == [operation: {"query", "list_tables", "list_columns"},
            filter_args: SUBSET ArgNames, param_args: SUBSET ArgNames]

ASSUME ProfilesTyped == Profiles \subseteq Profile
ASSUME TasksApart    == Registrations \cap Calls = {} /\ "nobody" \notin Registrations

Unregistered == [operation |-> "none", filter_args |-> {}, param_args |-> {}]

VARIABLES
    profiles,       \* name -> what is registered
    queue, readers, writer,
    pc, target,     \* of each task: where it is, and the name it is for
    stores,         \* registration -> its profile
    asked           \* a question: the name, what was answered so far, and whether no
                    \* registration was under way since it was asked (history)

lock  == <<queue, readers, writer>>
vars  == <<profiles, lock, pc, target, stores, asked>>
Tasks == Registrations \cup Calls

NoQuestion == [pc |-> "none", name |-> "none", out |-> "none", input |-> {}, of |-> Unregistered,
               quiet |-> FALSE]

Question == [pc: {"none", "half", "answered"}, name: Names \cup {"none"},
             out: {"none", "query", "list_tables", "list_columns"}, input: SUBSET ArgNames,
             of: Profiles \cup {Unregistered}, quiet: BOOLEAN]

TypeOK ==
    /\ profiles \in [Names -> Profiles \cup {Unregistered}]
    /\ queue \in Seq(Tasks)
    /\ readers \subseteq Calls
    /\ writer \in Registrations \cup {"nobody"}
    /\ writer # "nobody" => readers = {}
    /\ pc \in [Tasks -> {"idle", "queued", "holding", "audit", "running", "done"}]
    /\ target \in [Tasks -> Names]
    /\ stores \in [Registrations -> Profiles]
    /\ asked \in Question

Init ==
    /\ profiles = [n \in Names |-> Unregistered]
    /\ queue = << >> /\ readers = {} /\ writer = "nobody"
    /\ pc = [t \in Tasks |-> "idle"]
    /\ target \in [Tasks -> Names]
    /\ stores \in [Registrations -> Profiles]
    /\ asked = NoQuestion

-----------------------------------------------------------------------------
(* The lock, external.                                                     *)

\* Mutant: a writer does not wait for the readers.
free_of_writers(t) == writer = "nobody"

Free(t) == writer = "nobody" /\ (t \in Registrations => readers = {})

Hold(t) ==
    IF t \in Registrations THEN writer' = t /\ UNCHANGED readers
                           ELSE readers' = readers \cup {t} /\ UNCHANGED writer

Lock(t) ==
    IF queue = << >> /\ Free(t)
    THEN /\ Hold(t)
         /\ pc' = [pc EXCEPT ![t] = "holding"]
         /\ UNCHANGED queue
    ELSE /\ queue' = Append(queue, t)
         /\ pc' = [pc EXCEPT ![t] = "queued"]
         /\ UNCHANGED <<readers, writer>>

Grant ==
    /\ queue # << >>
    /\ Free(Head(queue))
    /\ Hold(Head(queue))
    /\ queue' = Tail(queue)
    /\ pc' = [pc EXCEPT ![Head(queue)] = "holding"]
    /\ UNCHANGED <<profiles, target, stores, asked>>

\* Mutant: the question takes the lock as a writer would.
locked_by_anyone == writer # "nobody" \/ readers # {} \/ queue # << >>

\* No permit is left for try_read.
Locked == writer # "nobody" \/ \E i \in 1 .. Len(queue) : queue[i] \in Registrations

-----------------------------------------------------------------------------
(* Registrations and calls.                                                *)

Register(r) ==
    /\ pc[r] = "idle"
    /\ Lock(r)
    /\ asked' = IF asked.pc = "half" THEN [asked EXCEPT !.quiet = FALSE] ELSE asked
    /\ UNCHANGED <<profiles, target, stores>>

Insert(r) ==
    /\ pc[r] = "holding"
    /\ profiles' = [profiles EXCEPT ![target[r]] = stores[r]]
    /\ writer' = "nobody"
    /\ pc' = [pc EXCEPT ![r] = "done"]
    /\ UNCHANGED <<queue, readers, target, stores, asked>>

Call(c) ==
    /\ pc[c] = "idle"
    /\ Lock(c)
    /\ UNCHANGED <<profiles, target, stores, asked>>

\* Mutant: the guard lives as long as the call.
CloneUnderGuard(c) ==
    /\ pc[c] = "holding"
    /\ profiles[target[c]] # Unregistered
    /\ pc' = [pc EXCEPT ![c] = "running"]
    /\ UNCHANGED <<profiles, lock, target, stores, asked>>

\* The guard goes with the block that clones the profile.
Clone(c) ==
    /\ pc[c] = "holding"
    /\ profiles[target[c]] # Unregistered
    /\ readers' = readers \ {c}
    /\ pc' = [pc EXCEPT ![c] = "running"]
    /\ UNCHANGED <<profiles, queue, writer, target, stores, asked>>

\* No profile: the call is observed inside that block, under the guard.
NotFound(c) ==
    /\ pc[c] = "holding"
    /\ profiles[target[c]] = Unregistered
    /\ IF audit_action_for_outcome("profile_not_found") = "none"
       THEN readers' = readers \ {c} /\ pc' = [pc EXCEPT ![c] = "idle"]
       ELSE pc' = [pc EXCEPT ![c] = "audit"] /\ UNCHANGED readers
    /\ UNCHANGED <<profiles, queue, writer, target, stores, asked>>

\* The call returns; the database, or the audit sink, may never let it.
Return(c) ==
    /\ pc[c] \in {"running", "audit"}
    /\ readers' = readers \ {c}
    /\ pc' = [pc EXCEPT ![c] = "idle"]
    /\ UNCHANGED <<profiles, queue, writer, target, stores, asked>>

-----------------------------------------------------------------------------
(* The host's two questions about a name.                                  *)

\* An unknown operation's rows are untyped.
schema_of(operation) == IF operation = "none" THEN "query" ELSE operation

\* Mutant: the params of a catalog binding are listed, which it never evaluates.
params_of(p) == p.param_args

arguments_of(p) == IF p.operation = "query" THEN p.param_args ELSE p.filter_args

Quiet == \A r \in Registrations : pc[r] \in {"idle", "done"}

output_schema(n) ==
    /\ asked.pc # "half"
    /\ asked' = [pc |-> "half", name |-> n, of |-> profiles[n], input |-> {}, quiet |-> Quiet,
                 out |-> IF Locked THEN schema_of("none") ELSE schema_of(profiles[n].operation)]
    /\ UNCHANGED <<profiles, lock, pc, target, stores>>

input_schema ==
    /\ asked.pc = "half"
    /\ asked' = [asked EXCEPT !.pc = "answered",
                              !.input = IF Locked THEN {} ELSE arguments_of(profiles[asked.name])]
    /\ UNCHANGED <<profiles, lock, pc, target, stores>>

Next ==
    \/ Grant
    \/ \E r \in Registrations : Register(r) \/ Insert(r)
    \/ \E c \in Calls : Call(c) \/ Clone(c) \/ NotFound(c) \/ Return(c)
    \/ \E n \in Names : output_schema(n)
    \/ input_schema

Spec == Init /\ [][Next]_vars

\* The workers run what is runnable; nothing is assumed of the database.
Fairness ==
    /\ WF_vars(Grant)
    /\ \A r \in Registrations : WF_vars(Insert(r))
    /\ \A c \in Calls : WF_vars(Clone(c)) /\ WF_vars(NotFound(c))

FairSpec == Spec /\ Fairness

-----------------------------------------------------------------------------

\* A registration under way is over soon, whatever the calls do: calls that never
\* return, calls that never stop coming, and calls for a name nobody registered.
RegistrationEnds == \A r \in Registrations : pc[r] = "queued" ~> pc[r] = "done"

\* The arguments that change what a binding does.
Takes(p) ==
    {a \in ArgNames : \/ p.operation = "query" /\ a \in p.param_args
                      \/ p.operation \in {"list_tables", "list_columns"} /\ a \in p.filter_args}

\* If no registration is under way when a name's first schema is asked for, and none
\* comes before the second is, the two are those of one profile, the one registered:
\* its rows, and the arguments it takes.  Calls that come and go do not matter.
SchemasOfProfile ==
    asked.pc = "answered" /\ asked.quiet =>
        /\ asked.out = IF asked.of \in Profiles THEN asked.of.operation ELSE "query"
        /\ asked.input = Takes(asked.of)

\* Asked at any time, registrations under way or not, the rows are typed as the name's
\* own or not at all, and an argument is listed only if a profile stored for the name
\* takes it.
SchemaNeverAnothers ==
    /\ asked.pc # "none" => asked.out \in {"query", asked.of.operation}
    /\ \A a \in asked.input : \E r \in Registrations :
           pc[r] = "done" /\ target[r] = asked.name /\ a \in Takes(stores[r])

-----------------------------------------------------------------------------
(* The inductive invariant behind the safety properties.                   *)

\* The lock holds what the tasks say: who waits is in the queue, once; the writer and
\* the readers are those between taking the guard and letting it go.
LockKept ==
    /\ \A i \in 1 .. Len(queue) : pc[queue[i]] = "queued"
    /\ \A i, j \in 1 .. Len(queue) : queue[i] = queue[j] => i = j
    /\ \A r \in Registrations : pc[r] # "audit" /\ (pc[r] = "holding" <=> writer = r)
    /\ \A c \in Calls : pc[c] \in {"holding", "audit"} <=> c \in readers

\* What is registered was stored by a registration that is done.
Stored(n, p) == \E r \in Registrations : pc[r] = "done" /\ target[r] = n /\ stores[r] = p

ProfilesStored ==
    \A n \in Names : profiles[n] # Unregistered => Stored(n, profiles[n])

\* Half of a question answered in quiet is the half of what is registered still.
HalfKept ==
    asked.pc = "half" =>
        /\ asked.name \in Names
        /\ asked.input = {}
        /\ asked.quiet => /\ Quiet
                          /\ asked.of = profiles[asked.name]
                          /\ asked.out = schema_of(asked.of.operation)

IInv ==
    /\ TypeOK /\ LockKept /\ ProfilesStored /\ HalfKept
    /\ SchemasOfProfile /\ SchemaNeverAnothers

\* While a registration has the guard, nobody else does: no call reads the registry
\* before the insertion is over.
WriterAlone ==
    \A r \in Registrations : pc[r] = "holding" =>
        \A t \in Tasks \ {r} : pc[t] \notin {"holding", "audit"}
=============================================================================
