------------------------- MODULE HanaRegistryProofs -------------------------
(***************************************************************************)
(* The registry's lock lets a registration write alone, and the schemas    *)
(* answered beside it are those of the name they were asked for, for any   *)
(* names, profiles, registrations and calls.                               *)
(***************************************************************************)
EXTENDS HanaRegistry, SequenceTheorems, TLAPS

LEMMA InitInv == Init => IInv
<1> SUFFICES ASSUME Init PROVE IInv
  OBVIOUS
<1>1. Unregistered.operation = "none" /\ NoQuestion \in Question
  BY DEF Unregistered, NoQuestion, Question
<1>2. TypeOK
  BY <1>1, EmptySeq DEF Init, TypeOK, Tasks
<1>3. LockKept
  BY TasksApart DEF Init, LockKept, Tasks
<1>4. ProfilesStored /\ HalfKept /\ SchemasOfProfile /\ SchemaNeverAnothers
  BY DEF Init, ProfilesStored, HalfKept, SchemasOfProfile, SchemaNeverAnothers, NoQuestion
<1> QED BY <1>2, <1>3, <1>4 DEF IInv

-----------------------------------------------------------------------------
(* The lock.                                                               *)

\* A task that is handed a free guard holds it.
LEMMA HoldKeeps ==
    ASSUME TypeOK, LockKept, NEW t \in Tasks, pc[t] \in {"idle", "queued"}, Free(t), Hold(t),
           pc' = [pc EXCEPT ![t] = "holding"]
    PROVE  /\ readers' \subseteq Calls
           /\ writer' \in Registrations \cup {"nobody"}
           /\ writer' # "nobody" => readers' = {}
           /\ \A r \in Registrations : pc'[r] # "audit" /\ (pc'[r] = "holding" <=> writer' = r)
           /\ \A c \in Calls : pc'[c] \in {"holding", "audit"} <=> c \in readers'
<1>1. CASE t \in Registrations
  BY <1>1, TasksApart DEF TypeOK, LockKept, Free, Hold, Tasks
<1>2. CASE t \notin Registrations
  BY <1>2, TasksApart DEF TypeOK, LockKept, Free, Hold, Tasks
<1> QED BY <1>1, <1>2

\* Who asks for the lock is given it, or waits at the end of the queue.
LEMMA LockStep ==
    ASSUME TypeOK, LockKept, NEW t \in Tasks, pc[t] = "idle", Lock(t),
           UNCHANGED <<profiles, target, stores>>, asked' \in Question
    PROVE  TypeOK' /\ LockKept'
<1>1. CASE queue = << >> /\ Free(t)
  <2>1. /\ Hold(t) /\ pc' = [pc EXCEPT ![t] = "holding"] /\ queue' = << >>
    BY <1>1 DEF Lock
  <2>2. TypeOK'
    BY <2>1, <1>1, HoldKeeps DEF TypeOK
  <2>3. Len(queue') = 0
    BY <2>1, EmptySeq
  <2>4. /\ \A r \in Registrations : pc'[r] # "audit" /\ (pc'[r] = "holding" <=> writer' = r)
        /\ \A c \in Calls : pc'[c] \in {"holding", "audit"} <=> c \in readers'
    BY <2>1, <1>1, HoldKeeps
  <2>5. LockKept'
    BY <2>3, <2>4 DEF LockKept
  <2> QED BY <2>2, <2>5
<1>2. CASE ~ (queue = << >> /\ Free(t))
  <2>1. /\ queue' = Append(queue, t) /\ pc' = [pc EXCEPT ![t] = "queued"]
        /\ UNCHANGED <<readers, writer>>
    BY <1>2 DEF Lock
  <2>2. /\ queue \in Seq(Tasks) /\ queue' \in Seq(Tasks) /\ Len(queue) \in Nat
        /\ Len(queue') = Len(queue) + 1
        /\ \A i \in 1 .. Len(queue) : queue'[i] = queue[i] /\ queue[i] \in Tasks
        /\ queue'[Len(queue) + 1] = t
    BY <2>1, AppendProperties, ElementOfSeq, LenProperties DEF TypeOK
  <2>3. TypeOK'
    BY <2>1, <2>2 DEF TypeOK
  <2>4. \A i \in 1 .. Len(queue) : queue[i] # t
    BY DEF LockKept
  <2>5. \A i \in 1 .. Len(queue') : pc'[queue'[i]] = "queued"
    BY <2>1, <2>2 DEF LockKept, TypeOK
  <2>6. \A i, j \in 1 .. Len(queue') : queue'[i] = queue'[j] => i = j
    BY <2>2, <2>4 DEF LockKept
  <2>7. /\ \A r \in Registrations : pc'[r] # "audit" /\ (pc'[r] = "holding" <=> writer' = r)
        /\ \A c \in Calls : pc'[c] \in {"holding", "audit"} <=> c \in readers'
    BY <2>1 DEF LockKept, TypeOK, Tasks
  <2> QED BY <2>3, <2>5, <2>6, <2>7 DEF LockKept
<1> QED BY <1>1, <1>2

\* The head of the queue takes the guard.
LEMMA GrantStep == TypeOK /\ LockKept /\ Grant => TypeOK' /\ LockKept'
<1> SUFFICES ASSUME TypeOK, LockKept, Grant PROVE TypeOK' /\ LockKept'
  OBVIOUS
<1> DEFINE t == Head(queue)
<1>1. /\ queue \in Seq(Tasks) /\ queue # << >> /\ Len(queue) \in Nat \ {0}
      /\ t = queue[1] /\ t \in Tasks
      /\ queue' \in Seq(Tasks) /\ Len(queue') = Len(queue) - 1
      /\ \A i \in 1 .. Len(queue') : queue'[i] = queue[i + 1]
  BY HeadTailProperties, EmptySeq DEF TypeOK, Grant
<1>2. /\ pc[t] = "queued" /\ Free(t) /\ Hold(t) /\ pc' = [pc EXCEPT ![t] = "holding"]
      /\ UNCHANGED <<profiles, target, stores, asked>>
  BY <1>1 DEF LockKept, Grant
<1> HIDE DEF t
<1>3. /\ readers' \subseteq Calls
      /\ writer' \in Registrations \cup {"nobody"}
      /\ writer' # "nobody" => readers' = {}
      /\ \A r \in Registrations : pc'[r] # "audit" /\ (pc'[r] = "holding" <=> writer' = r)
      /\ \A c \in Calls : pc'[c] \in {"holding", "audit"} <=> c \in readers'
  BY <1>1, <1>2, HoldKeeps
<1>4. TypeOK'
  BY <1>1, <1>2, <1>3 DEF TypeOK
<1>5. \A i \in 1 .. Len(queue') : queue'[i] # t /\ queue'[i] \in Tasks /\ pc[queue'[i]] = "queued"
  BY <1>1, ElementOfSeq DEF LockKept
<1>6. \A i \in 1 .. Len(queue') : pc'[queue'[i]] = "queued"
  BY <1>2, <1>5 DEF TypeOK
<1>7. \A i, j \in 1 .. Len(queue') : queue'[i] = queue'[j] => i = j
  BY <1>1 DEF LockKept
<1> QED BY <1>3, <1>4, <1>6, <1>7 DEF LockKept

\* Who holds the guard lets it go, or goes on with it.
LEMMA InsertStep ==
    ASSUME TypeOK, LockKept, NEW r \in Registrations, Insert(r)
    PROVE  TypeOK' /\ LockKept'
<1>1. /\ pc[r] = "holding" /\ writer = r /\ readers = {} /\ writer' = "nobody"
      /\ pc' = [pc EXCEPT ![r] = "done"]
      /\ profiles' = [profiles EXCEPT ![target[r]] = stores[r]]
      /\ UNCHANGED <<queue, readers, target, stores, asked>>
  BY TasksApart DEF Insert, LockKept, TypeOK
<1>2. TypeOK'
  BY <1>1 DEF TypeOK, Tasks
<1>3. \A i \in 1 .. Len(queue) : queue[i] \in Tasks /\ queue[i] # r
  BY <1>1, ElementOfSeq DEF TypeOK, LockKept
<1>4. \A i \in 1 .. Len(queue') : pc'[queue'[i]] = "queued"
  BY <1>1, <1>3 DEF TypeOK, LockKept
<1>5. /\ \A q \in Registrations : pc'[q] # "audit" /\ (pc'[q] = "holding" <=> writer' = q)
      /\ \A c \in Calls : pc'[c] \in {"holding", "audit"} <=> c \in readers'
  BY <1>1, TasksApart DEF TypeOK, LockKept, Tasks
<1> QED BY <1>1, <1>2, <1>4, <1>5 DEF LockKept

LEMMA CallerStep ==
    ASSUME TypeOK, LockKept, NEW c \in Calls, Clone(c) \/ NotFound(c) \/ Return(c)
    PROVE  TypeOK' /\ LockKept'
<1>1. /\ pc[c] \in {"holding", "running", "audit"}
      /\ \/ /\ readers' = readers \ {c}
            /\ pc' = [pc EXCEPT ![c] = "running"] \/ pc' = [pc EXCEPT ![c] = "idle"]
         \/ /\ pc[c] = "holding" /\ readers' = readers /\ pc' = [pc EXCEPT ![c] = "audit"]
      /\ UNCHANGED <<profiles, queue, writer, target, stores, asked>>
  BY DEF Clone, NotFound, Return
<1>2. TypeOK'
  BY <1>1 DEF TypeOK, Tasks
<1>3. \A i \in 1 .. Len(queue) : queue[i] \in Tasks /\ queue[i] # c
  BY <1>1, ElementOfSeq DEF TypeOK, LockKept
<1>4. \A i \in 1 .. Len(queue') : pc'[queue'[i]] = "queued"
  BY <1>1, <1>3 DEF TypeOK, LockKept
<1>5. \A q \in Registrations : pc'[q] = pc[q]
  BY <1>1, TasksApart DEF TypeOK, Tasks
<1>6. \A d \in Calls : pc'[d] \in {"holding", "audit"} <=> d \in readers'
  BY <1>1 DEF TypeOK, LockKept, Tasks
<1> QED BY <1>1, <1>2, <1>4, <1>5, <1>6 DEF LockKept

-----------------------------------------------------------------------------
(* What is registered, and what is answered.                               *)

\* A step that registers nothing and asks nothing, and starts or ends no registration.
Aside ==
    /\ UNCHANGED <<profiles, target, stores, asked>>
    /\ \A r \in Registrations : pc'[r] = pc[r] \/ (pc[r] = "queued" /\ pc'[r] = "holding")

LEMMA AsideKeeps ==
    ASSUME IInv, TypeOK', LockKept', Aside
    PROVE  IInv'
<1>1. \A n, p : Stored(n, p) => Stored(n, p)'
  BY DEF Stored, Aside
<1>2. ProfilesStored'
  BY <1>1 DEF IInv, ProfilesStored, Aside
<1>3. Quiet => Quiet'
  BY DEF Quiet, Aside
<1>4. HalfKept'
  BY <1>3 DEF IInv, HalfKept, Aside
<1>5. SchemasOfProfile' /\ SchemaNeverAnothers'
  BY DEF IInv, SchemasOfProfile, SchemaNeverAnothers, Aside
<1> QED BY <1>2, <1>4, <1>5 DEF IInv

LEMMA AsideSteps ==
    ASSUME IInv, \/ Grant
                 \/ \E c \in Calls : Call(c) \/ Clone(c) \/ NotFound(c) \/ Return(c)
                 \/ UNCHANGED vars
    PROVE  IInv'
<1>1. TypeOK /\ LockKept
  BY DEF IInv
<1>2. CASE Grant
  <2>1. TypeOK' /\ LockKept'
    BY <1>1, <1>2, GrantStep
  <2>2. Head(queue) \in Tasks /\ pc[Head(queue)] = "queued"
    BY <1>1, <1>2, HeadTailProperties, EmptySeq DEF TypeOK, LockKept, Grant
  <2>3. Aside
    BY <1>1, <1>2, <2>2 DEF Grant, Aside, TypeOK
  <2> QED BY <2>1, <2>3, AsideKeeps
<1>3. ASSUME NEW c \in Calls, Call(c) PROVE IInv'
  <2>1. /\ pc[c] = "idle" /\ Lock(c) /\ UNCHANGED <<profiles, target, stores, asked>>
        /\ asked' \in Question /\ c \in Tasks
    BY <1>1, <1>3 DEF Call, TypeOK, Tasks
  <2>2. TypeOK' /\ LockKept'
    BY <1>1, <2>1, LockStep
  <2>3. \E how \in {"holding", "queued"} : pc' = [pc EXCEPT ![c] = how]
    BY <2>1 DEF Lock
  <2>4. Aside
    BY <1>1, <2>1, <2>3, TasksApart DEF Aside, TypeOK, Tasks
  <2> QED BY <2>2, <2>4, AsideKeeps
<1>4. ASSUME NEW c \in Calls, Clone(c) \/ NotFound(c) \/ Return(c) PROVE IInv'
  <2>1. TypeOK' /\ LockKept'
    BY <1>1, <1>4, CallerStep
  <2>2. /\ \E how \in {"running", "idle", "audit"} : pc' = [pc EXCEPT ![c] = how]
        /\ UNCHANGED <<profiles, target, stores, asked>>
    BY <1>4 DEF Clone, NotFound, Return
  <2>3. Aside
    BY <1>1, <2>2, TasksApart DEF Aside, TypeOK, Tasks
  <2> QED BY <2>1, <2>3, AsideKeeps
<1>5. CASE UNCHANGED vars
  <2>1. TypeOK' /\ LockKept' /\ Aside
    BY <1>1, <1>5 DEF vars, lock, TypeOK, LockKept, Aside
  <2> QED BY <2>1, AsideKeeps
<1> QED BY <1>2, <1>3, <1>4, <1>5

\* A registration that comes puts an end to the quiet of a question half answered.
LEMMA RegisterStep ==
    ASSUME IInv, NEW r \in Registrations, Register(r)
    PROVE  IInv'
<1>1. /\ TypeOK /\ LockKept /\ r \in Tasks /\ pc[r] = "idle" /\ Lock(r)
      /\ UNCHANGED <<profiles, target, stores>>
      /\ asked' = IF asked.pc = "half" THEN [asked EXCEPT !.quiet = FALSE] ELSE asked
  BY DEF IInv, Register, Tasks
<1>2. /\ asked' \in Question
      /\ asked'.pc = asked.pc /\ asked'.name = asked.name /\ asked'.out = asked.out
      /\ asked'.input = asked.input /\ asked'.of = asked.of
      /\ asked'.quiet => asked.quiet /\ asked.pc # "half"
  BY <1>1 DEF TypeOK, Question
<1>3. TypeOK' /\ LockKept'
  BY <1>1, <1>2, LockStep
<1>4. \E how \in {"holding", "queued"} : pc' = [pc EXCEPT ![r] = how]
  BY <1>1 DEF Lock
<1>5. \A q \in Registrations : pc[q] = "done" => pc'[q] = "done"
  BY <1>1, <1>4 DEF TypeOK, Tasks
<1>6. \A n, p : Stored(n, p) => Stored(n, p)'
  BY <1>1, <1>5 DEF Stored
<1>7. ProfilesStored'
  BY <1>1, <1>6 DEF IInv, ProfilesStored
<1>8. HalfKept'
  BY <1>2 DEF IInv, HalfKept
<1>9. SchemasOfProfile' /\ SchemaNeverAnothers'
  BY <1>1, <1>2, <1>5 DEF IInv, SchemasOfProfile, SchemaNeverAnothers
<1> QED BY <1>3, <1>7, <1>8, <1>9 DEF IInv

\* An insertion never falls into a quiet question.
LEMMA InsertInv ==
    ASSUME IInv, NEW r \in Registrations, Insert(r)
    PROVE  IInv'
<1>1. /\ TypeOK /\ LockKept /\ r \in Tasks /\ pc[r] = "holding"
      /\ profiles' = [profiles EXCEPT ![target[r]] = stores[r]]
      /\ pc' = [pc EXCEPT ![r] = "done"]
      /\ UNCHANGED <<target, stores, asked>>
  BY DEF IInv, Insert, Tasks
<1>2. TypeOK' /\ LockKept'
  BY <1>1, InsertStep
<1>3. pc'[r] = "done" /\ \A q \in Registrations : pc[q] = "done" => pc'[q] = "done"
  BY <1>1 DEF TypeOK, Tasks
<1>4. ASSUME NEW n \in Names, profiles'[n] # Unregistered PROVE Stored(n, profiles[n])'
  <2>1. CASE n = target[r]
    BY <1>1, <1>3, <2>1 DEF Stored, TypeOK
  <2>2. CASE n # target[r]
    <3>1. profiles'[n] = profiles[n]
      BY <1>1, <2>2 DEF TypeOK
    <3>2. Stored(n, profiles[n])
      BY <1>4, <3>1 DEF IInv, ProfilesStored
    <3> QED BY <1>1, <1>3, <3>1, <3>2 DEF Stored
  <2> QED BY <2>1, <2>2
<1>5. HalfKept'
  BY <1>1 DEF IInv, HalfKept, Quiet
<1>6. SchemasOfProfile' /\ SchemaNeverAnothers'
  BY <1>1, <1>3 DEF IInv, SchemasOfProfile, SchemaNeverAnothers
<1> QED BY <1>2, <1>4, <1>5, <1>6 DEF IInv, ProfilesStored

-----------------------------------------------------------------------------
(* The questions.                                                          *)

\* try_read fails for a registration under way only, never for a call.
LEMMA QuietUnlocked == TypeOK /\ LockKept /\ Quiet => ~ Locked
<1> SUFFICES ASSUME TypeOK, LockKept, Quiet, Locked PROVE FALSE
  OBVIOUS
<1>1. CASE writer # "nobody"
  BY <1>1 DEF TypeOK, LockKept, Quiet
<1>2. ASSUME NEW i \in 1 .. Len(queue), queue[i] \in Registrations PROVE FALSE
  BY <1>2 DEF LockKept, Quiet
<1> QED BY <1>1, <1>2 DEF Locked

\* What a profile's schemas say.
LEMMA SchemaFacts ==
    ASSUME NEW p \in Profiles \cup {Unregistered}
    PROVE  /\ schema_of(p.operation) \in {"query", "list_tables", "list_columns"}
           /\ schema_of(p.operation) \in {"query", p.operation}
           /\ schema_of(p.operation) = IF p \in Profiles THEN p.operation ELSE "query"
           /\ arguments_of(p) = Takes(p)
           /\ arguments_of(p) \subseteq ArgNames
<1>1. CASE p \in Profiles
  <2>1. /\ p.operation \in {"query", "list_tables", "list_columns"}
        /\ p.filter_args \subseteq ArgNames /\ p.param_args \subseteq ArgNames
    BY <1>1, ProfilesTyped DEF Profile
  <2> QED BY <1>1, <2>1 DEF schema_of, arguments_of, Takes
<1>2. CASE p = Unregistered
  <2>1. p.operation = "none" /\ p.filter_args = {} /\ p.param_args = {}
    BY <1>2 DEF Unregistered
  <2>2. p \notin Profiles
    BY <2>1, ProfilesTyped DEF Profile
  <2> QED BY <2>1, <2>2 DEF schema_of, arguments_of, Takes
<1> QED BY <1>1, <1>2

LEMMA OutputStep ==
    ASSUME IInv, NEW n \in Names, output_schema(n)
    PROVE  IInv'
<1> DEFINE o == IF Locked THEN schema_of("none") ELSE schema_of(profiles[n].operation)
<1>1. /\ TypeOK /\ LockKept /\ profiles[n] \in Profiles \cup {Unregistered}
      /\ UNCHANGED <<profiles, lock, pc, target, stores>>
      /\ asked' = [pc |-> "half", name |-> n, of |-> profiles[n], input |-> {},
                   quiet |-> Quiet, out |-> o]
  BY DEF IInv, output_schema, TypeOK
<1>2. o \in {"query", "list_tables", "list_columns"} /\ o \in {"query", profiles[n].operation}
  BY <1>1, SchemaFacts DEF schema_of
<1>3. Quiet => o = schema_of(profiles[n].operation)
  BY <1>1, QuietUnlocked
<1> HIDE DEF o
<1>4. Quiet \in BOOLEAN
  BY DEF Quiet
<1>5. asked' \in Question
  BY <1>1, <1>2, <1>4 DEF Question
<1>6. TypeOK' /\ LockKept' /\ ProfilesStored'
  BY <1>1, <1>5 DEF IInv, TypeOK, LockKept, ProfilesStored, Stored, lock
<1>7. Quiet' = Quiet
  BY <1>1 DEF Quiet
<1>8. HalfKept'
  BY <1>1, <1>3, <1>7 DEF HalfKept
<1>9. SchemasOfProfile' /\ SchemaNeverAnothers'
  BY <1>1, <1>2 DEF SchemasOfProfile, SchemaNeverAnothers
<1> QED BY <1>6, <1>8, <1>9 DEF IInv

LEMMA InputStep == IInv /\ input_schema => IInv'
<1> SUFFICES ASSUME IInv, input_schema PROVE IInv'
  OBVIOUS
<1> DEFINE p == profiles[asked.name]
           i == IF Locked THEN {} ELSE arguments_of(p)
<1>1. /\ TypeOK /\ LockKept /\ asked.pc = "half" /\ asked.name \in Names
      /\ p \in Profiles \cup {Unregistered}
      /\ UNCHANGED <<profiles, lock, pc, target, stores>>
      /\ asked' = [asked EXCEPT !.pc = "answered", !.input = i]
  BY DEF IInv, input_schema, TypeOK, HalfKept
<1>2. i \subseteq Takes(p) /\ i \subseteq ArgNames
  BY <1>1, SchemaFacts
<1>3. /\ asked' \in Question /\ asked'.pc = "answered" /\ asked'.input = i
      /\ asked'.name = asked.name /\ asked'.out = asked.out
      /\ asked'.of = asked.of /\ asked'.quiet = asked.quiet
  BY <1>1, <1>2 DEF TypeOK, Question
<1>4. TypeOK' /\ LockKept' /\ ProfilesStored' /\ HalfKept'
  BY <1>1, <1>3 DEF IInv, TypeOK, LockKept, ProfilesStored, Stored, HalfKept, lock
<1>5. asked.quiet => /\ asked.of = p /\ i = Takes(p)
                     /\ asked.out = IF p \in Profiles THEN p.operation ELSE "query"
  BY <1>1, QuietUnlocked, SchemaFacts DEF IInv, HalfKept
<1>6. \A a \in i : Stored(asked.name, p)
  <2>1. p = Unregistered => i = {}
    BY <1>1, <1>2 DEF Takes, Unregistered
  <2> QED BY <1>1, <2>1 DEF IInv, ProfilesStored
<1> HIDE DEF i, p
<1>7. SchemasOfProfile'
  BY <1>1, <1>3, <1>5 DEF SchemasOfProfile, Takes
<1>8. \A a \in i : \E r \in Registrations :
          pc'[r] = "done" /\ target'[r] = asked'.name /\ a \in Takes(stores'[r])
  BY <1>1, <1>2, <1>3, <1>6 DEF Stored
<1>9. SchemaNeverAnothers'
  BY <1>1, <1>3, <1>8 DEF IInv, SchemaNeverAnothers
<1> QED BY <1>4, <1>7, <1>9 DEF IInv

-----------------------------------------------------------------------------

LEMMA StepInv == IInv /\ [Next]_vars => IInv'
BY AsideSteps, RegisterStep, InsertInv, OutputStep, InputStep DEF Next

\* The inductive invariant of the lock and of the questions asked beside it.
THEOREM RegistryInvariant == Spec => []IInv
BY InitInv, StepInv, PTL DEF Spec

\* While a registration inserts, no call reads the registry and no other registration
\* inserts: an access is one step for everyone else.
THEOREM RegistryWriterAlone == Spec => []WriterAlone
<1>1. IInv => WriterAlone
  <2> SUFFICES ASSUME IInv, NEW r \in Registrations, pc[r] = "holding",
                      NEW t \in Tasks \ {r}, pc[t] \in {"holding", "audit"}
               PROVE  FALSE
    BY DEF WriterAlone
  <2>1. /\ LockKept /\ writer = r /\ readers = {}
    BY TasksApart DEF IInv, TypeOK, LockKept
  <2>2. CASE t \in Registrations
    BY <2>1, <2>2 DEF LockKept
  <2>3. CASE t \in Calls
    BY <2>1, <2>3 DEF LockKept
  <2> QED BY <2>2, <2>3 DEF Tasks
<1> QED BY <1>1, RegistryInvariant, PTL

\* Two schemas asked for in quiet are those of the one profile that is registered.
THEOREM RegistrySchemasOfProfile == Spec => []SchemasOfProfile
<1>1. IInv => SchemasOfProfile
  BY DEF IInv
<1> QED BY <1>1, RegistryInvariant, PTL

\* A schema never tells of another name's profile, whatever is registered meanwhile.
THEOREM RegistrySchemaNeverAnothers == Spec => []SchemaNeverAnothers
<1>1. IInv => SchemaNeverAnothers
  BY DEF IInv
<1> QED BY <1>1, RegistryInvariant, PTL
=============================================================================
