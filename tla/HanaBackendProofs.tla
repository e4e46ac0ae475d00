------------------------- MODULE HanaBackendProofs -------------------------
(***************************************************************************)
(* The safety properties of HanaBackend, for every set of names, calls and *)
(* specs and every bound, and, after them, that it implements HanaCall.    *)
(*                                                                         *)
(* IInv is shown inductive in two halves: what a step does to the calls    *)
(* (CallType, CallInv), then what it does to the pools (PoolType, PoolInv),*)
(* which needs the first half in the NEXT state: a pool may be dropped     *)
(* only because no call that has not returned holds one of its sessions.   *)
(***************************************************************************)
EXTENDS HanaBackend, FiniteSetTheorems, TLAPS

-----------------------------------------------------------------------------
(* Registration.                                                           *)

\* The checks of register_profile cover every statement an operation can pick.
LEMMA RegistrableRuns ==
    ASSUME NEW s \in HanaBackendSpec, Registrable(s), NEW o \in Op, Configured(s, o)
    PROVE  /\ ~ empty(StatementOf(s, o))
           /\ fenced(s, StatementOf(s, o))
<1>f. s.operation \in Operation /\ s.surface \in Surface /\ s.query \in Statement
  BY DEF HanaBackendSpec
<1>1. CASE o = "list_resources"
  BY <1>1 DEF Configured, StatementOf, Registrable, ListQueryOk, validate_list_query
<1>2. CASE o = "complete"
  BY <1>2 DEF Configured, StatementOf, Registrable, CompletionOk, validate_completion
<1>3. CASE o = "execute" /\ is_catalog(s.operation)
  BY <1>3 DEF StatementOf, fenced, has_cred, enforce_read_only, empty
<1>4. CASE o = "execute" /\ ~ is_catalog(s.operation)
  <2>1. s.operation = "query" /\ StatementOf(s, o) = effective_statement(s)
    BY <1>4, <1>f DEF StatementOf, is_catalog, Operation
  <2>2. CASE s.surface = "resource" /\ s.read_query # "absent"
    BY <2>1, <2>2 DEF effective_statement, Registrable, ReadQueryOk, empty, fenced, has_cred
  <2>3. CASE s.read_query = "absent"
    BY <2>1, <2>3 DEF effective_statement, Registrable, OperationOk, QueryOk, empty,
                      fenced, has_cred
  <2> QED BY <2>2, <2>3 DEF Registrable, ReadQueryOk
<1> QED BY <1>1, <1>2, <1>3, <1>4 DEF Op

\* What the registry holds under one of its generations.
LEMMA BindingTyped ==
    ASSUME RegistryType, NEW g \in 1 .. Len(binding)
    PROVE  binding[g] \in HanaBackendSpec /\ Registrable(binding[g])
BY SpecsTyped DEF RegistryType

\* The numbers everything else counts with.
LEMMA Numbers ==
    ASSUME RegistryType
    PROVE  MaxGens \in Nat /\ Len(binding) \in Nat /\ Len(binding) <= MaxGens
BY BoundsTyped DEF RegistryType

-----------------------------------------------------------------------------
(* The calls.                                                              *)

\* Every exit of a call observes its outcome and gives its reply.
Answer(c, form, again, outcome) == Observe(c, outcome) /\ Reply(c, form, again)

\* Nothing of call d moves, nor the registry.
Still(d) ==
    /\ pc'[d] = pc[d] /\ since'[d] = since[d] /\ snap'[d] = snap[d]
    /\ conn'[d] = conn[d] /\ wire'[d] = wire[d] /\ ran'[d] = ran[d]
    /\ reply'[d] = reply[d] /\ metrics'[d] = metrics[d] /\ audits'[d] = audits[d]

LEMMA StillCall ==
    ASSUME CallInv, NEW d \in Calls, Still(d), UNCHANGED <<registry, op, target>>
    PROVE  CallShape(d)' /\ CallBinding(d)' /\ CallObserved(d)'
<1>1. CallShape(d) /\ CallBinding(d) /\ CallObserved(d)
  BY DEF CallInv
<1>2. CallShape(d)'
  BY <1>1 DEF CallShape, Still
<1>3. CallBinding(d)'
  BY <1>1 DEF CallBinding, SpecOf, Still, registry
<1>4. CallObserved(d)'
  BY <1>1 DEF CallObserved, Audited, Observable, Still
<1> QED BY <1>2, <1>3, <1>4

\* An outcome label calls for an audit exactly when the reply is an error of a
\* call whose profile exists.
Fits(c, form, outcome) ==
    op[c] = "execute" =>
        (form \in {"downstream", "invalid"} <=> audit_action_for_outcome(outcome) # "none")

\* Answering a call keeps the calls' invariant.
LEMMA AnswerCalls ==
    ASSUME TypeOK, CallInv, NEW c \in Calls,
           NEW form \in Form, NEW again \in BOOLEAN, NEW outcome \in Label,
           Fits(c, form, outcome), Answer(c, form, again, outcome), UNCHANGED wire,
           pc[c] \in {"clone"} \cup InRunQuery,
           UNCHANGED snap \/ CloneProfile(c)
    PROVE  CallType' /\ CallInv'
<1>u. UNCHANGED <<registry, pending, request, ran>>
  BY DEF Answer, Reply, registry
<1>r. RegistryType' /\ Len(binding)' = Len(binding)
  BY <1>u DEF TypeOK, RegistryType, registry
<1>n. Len(binding) \in Nat
  BY Numbers DEF TypeOK
<1>1. /\ pc' \in [Calls -> Pc]
      /\ pc'[c] \in {"audit", "done"}
      /\ pc'[c] = "audit" <=> Observable(c) /\ form \in {"downstream", "invalid"}
      /\ \A d \in Calls \ {c} : pc'[d] = pc[d]
  BY DEF Answer, Reply, Observe, Fits, Observable, TypeOK, CallType, Pc
<1>2. /\ label' \in [Calls -> Label \cup {"none"}]
      /\ metrics' \in [Calls -> Nat]
      /\ metrics'[c] = IF Observable(c) THEN metrics[c] + 1 ELSE metrics[c]
      /\ \A d \in Calls \ {c} : metrics'[d] = metrics[d]
      /\ UNCHANGED audits
  <2>1. Observe(c, outcome)
    BY DEF Answer, Reply
  <2>2. /\ label \in [Calls -> Label \cup {"none"}]
        /\ metrics \in [Calls -> Nat]
    BY DEF TypeOK, CallType
  <2>3. CASE op[c] = "execute" /\ HostInstalled
    BY <2>1, <2>2, <2>3 DEF Observe, Observable
  <2>4. CASE op[c] = "execute" /\ ~ HostInstalled
    BY <2>1, <2>2, <2>4 DEF Observe, Observable
  <2>5. CASE op[c] # "execute"
    BY <2>1, <2>2, <2>5 DEF Observe, Observable, observed
  <2> QED BY <2>3, <2>4, <2>5
<1>3. /\ reply' \in [Calls -> [form: Form, retryable: BOOLEAN]]
      /\ reply'[c].form = form
      /\ \A d \in Calls \ {c} : reply'[d] = reply[d]
  BY DEF Answer, Reply, TypeOK, CallType
<1>4. /\ conn' \in [Calls -> 0 .. Len(binding)]
      /\ conn'[c] = 0
      /\ \A d \in Calls \ {c} : conn'[d] = conn[d]
  BY <1>n DEF Answer, Reply, TypeOK, CallType
<1>5. /\ snap' \in [Calls -> 0 .. Len(binding)]
      /\ \A d \in Calls \ {c} : snap'[d] = snap[d]
      /\ \/ snap'[c] = snap[c]
         \/ pc[c] = "clone" /\ snap'[c] = profiles[target[c]]
  BY <1>n DEF CloneProfile, TypeOK, CallType, RegistryType
<1>6. CallType'
  BY <1>1, <1>2, <1>3, <1>4, <1>5, <1>u, <1>r DEF TypeOK, CallType, request
<1>7. CallShape(c) /\ CallBinding(c) /\ CallObserved(c)
  BY DEF CallInv
<1>8. CallShape(c)'
  BY <1>1, <1>4, <1>7, <1>u DEF CallShape, InRunQuery, Holding
<1>9. CallBinding(c)'
  <2>1. pc'[c] \notin InRunQuery /\ pc'[c] # "clone"
    BY <1>1 DEF InRunQuery
  <2>2. snap'[c] # 0 => since[c] <= snap'[c]
    BY <1>5, <1>7 DEF CallBinding
  <2>3. pc[c] = "clone" => wire[c] = "none"
    BY <1>7 DEF CallShape
  <2>4. wire[c] # "none" => snap'[c] = snap[c]
    BY <1>5, <2>3
  <2> QED BY <2>1, <2>2, <2>4, <1>7, <1>u DEF CallBinding, SpecOf, registry, request
<1>10. CallObserved(c)'
  <2>1. metrics[c] = 0 /\ audits[c] = 0
    BY <1>7 DEF CallObserved, InRunQuery
  <2>2. /\ Observable(c)' = Observable(c)
        /\ Audited(c)' = (Observable(c) /\ form \in {"downstream", "invalid"})
    BY <1>u, <1>3 DEF Observable, Audited, request
  <2>3. metrics'[c] = (IF Observable(c) THEN 1 ELSE 0) /\ audits'[c] = 0
    BY <2>1, <1>2
  <2>4. pc'[c] = "done" => ~ Audited(c)'
    BY <1>1, <2>2
  <2> QED BY <1>1, <2>2, <2>3, <2>4 DEF CallObserved
<1>11. ASSUME NEW d \in Calls, d # c
       PROVE  CallShape(d)' /\ CallBinding(d)' /\ CallObserved(d)'
  <2>1. Still(d)
    BY <1>11, <1>1, <1>2, <1>3, <1>4, <1>5, <1>u DEF Still, request
  <2> QED BY <2>1, <1>11, <1>u, StillCall DEF request
<1> QED BY <1>6, <1>8, <1>9, <1>10, <1>11 DEF CallInv

\* Some answer that AnswerCalls speaks of is given.
Answered(c) ==
    \E form \in Form, again \in BOOLEAN, outcome \in Label :
        Fits(c, form, outcome) /\ Answer(c, form, again, outcome)

LEMMA FailAnswers ==
    ASSUME NEW c \in Calls, NEW message, Fail(c, message)
    PROVE  Answered(c)
<1> DEFINE again == op[c] = "execute" /\ retryable(message)
<1>1. again \in BOOLEAN
  BY DEF retryable
<1>2. failure_label(message) \in {"timeout", "transport_error", "hana_error"}
  BY DEF failure_label, kind
<1>3. failure_label(message) \in Label
  BY <1>2 DEF Label
<1>4. error_form(c) \in Form
  BY DEF error_form, Form
<1>5. Fits(c, error_form(c), failure_label(message))
  BY <1>2 DEF Fits, error_form, audit_action_for_outcome
<1>6. Answer(c, error_form(c), again, failure_label(message))
  BY DEF Fail, Answer
<1> HIDE DEF again
<1> QED BY <1>1, <1>3, <1>4, <1>5, <1>6 DEF Answered

LEMMA SucceedAnswers ==
    ASSUME NEW c \in Calls, Succeed(c)
    PROVE  Answered(c)
<1>1. CASE Answer(c, "rows", FALSE, "ok")
  <2>1. Fits(c, "rows", "ok")
    BY DEF Fits, audit_action_for_outcome
  <2> QED BY <1>1, <2>1 DEF Answered, Form, Label
<1>2. CASE Answer(c, "downstream", retryable(UriMissing), kind(UriMissing))
  <2>1. retryable(UriMissing) = FALSE /\ kind(UriMissing) = "hana_error"
    BY DEF retryable, UriMissing, kind
  <2>2. Fits(c, "downstream", "hana_error")
    BY DEF Fits, audit_action_for_outcome
  <2>3. Answer(c, "downstream", FALSE, "hana_error")
    BY <1>2, <2>1
  <2> QED BY <2>2, <2>3 DEF Answered, Form, Label
<1> QED BY <1>1, <1>2 DEF Succeed, Answer

\* How a call is answered, whichever action answers it.
AnswerStep(c) ==
    /\ Answered(c)
    /\ UNCHANGED wire
    /\ pc[c] \in {"clone"} \cup InRunQuery
    /\ UNCHANGED snap \/ CloneProfile(c)

\* Submit when the guard passes.
Submitted(c) ==
    /\ CloneProfile(c)
    /\ Configured(Found(c), op[c])
    /\ pc' = [pc EXCEPT ![c] = "waiting"]
    /\ UNCHANGED <<registry, pools, request, conn, ran, reply, observed>>

LEMMA PrologueAnswers ==
    ASSUME NEW c \in Calls, Prologue(c)
    PROVE  AnswerStep(c) \/ Submitted(c)
<1> DEFINE answer(form, again, outcome) ==
        Answer(c, form, again, outcome) /\ Fits(c, form, outcome)
           /\ form \in Form /\ again \in BOOLEAN /\ outcome \in Label
<1>a. ASSUME NEW form, NEW again, NEW outcome, answer(form, again, outcome)
      PROVE  Answered(c)
  BY <1>a DEF Answered
<1>1. CASE ProfileMissing(c)
  <2>1. answer("not_found", FALSE, "profile_not_found")
    BY <1>1 DEF ProfileMissing, Answer, Fits, audit_action_for_outcome, Form, Label
  <2> QED BY <1>1, <2>1, <1>a DEF ProfileMissing, Answer, AnswerStep
<1>2. CASE BadPayload(c)
  <2>1. answer("invalid", FALSE, "invalid_spec")
    BY <1>2 DEF BadPayload, Answer, Fits, audit_action_for_outcome, Form, Label
  <2> QED BY <1>2, <2>1, <1>a DEF BadPayload, Answer, CloneProfile, AnswerStep
<1>3. ASSUME NEW message \in Texts \cup {BindRejected}, ParamFailure(c, message)
      PROVE  AnswerStep(c)
  <2>1. retryable(message) \in BOOLEAN
    BY DEF retryable
  <2>2. answer("downstream", retryable(message), "invalid_spec")
    BY <1>3, <2>1 DEF ParamFailure, Answer, Fits, audit_action_for_outcome, Form, Label
  <2> QED BY <1>3, <2>2, <1>a DEF ParamFailure, Answer, CloneProfile, AnswerStep
<1>4. CASE Unconfigured(c)
  <2>1. answer("empty", FALSE, "ok")
    BY <1>4 DEF Unconfigured, Answer, Fits, audit_action_for_outcome, Form, Label
  <2> QED BY <1>4, <2>1, <1>a DEF Unconfigured, Answer, CloneProfile, AnswerStep
<1>5. CASE BadCursor(c)
  <2>1. answer("invalid", FALSE, "invalid_spec")
    BY <1>5 DEF BadCursor, Answer, Fits, audit_action_for_outcome, Form, Label
  <2> QED BY <1>5, <2>1, <1>a DEF BadCursor, Answer, CloneProfile, AnswerStep
<1>6. CASE Submit(c)
  <2>1. CASE Found(c).read_only => enforce_read_only(StatementOf(Found(c), op[c]))
    BY <1>6, <2>1 DEF Submit, Submitted
  <2>2. CASE ~ (Found(c).read_only => enforce_read_only(StatementOf(Found(c), op[c])))
    <3>1. Fail(c, {"reject"})
      BY <1>6, <2>2 DEF Submit
    <3> QED BY <1>6, <3>1, FailAnswers DEF Submit, CloneProfile, AnswerStep
  <2> QED BY <2>1, <2>2
<1> QED BY <1>1, <1>2, <1>3, <1>4, <1>5, <1>6 DEF Prologue

LEMMA ProgressAnswers ==
    ASSUME NEW c \in Calls, Progress(c) \/ Timeout(c)
    PROVE  AnswerStep(c) \/ Acquire(c) \/ Prepared(c) \/ Executed(c)
<1>1. ASSUME NEW message, Fail(c, message), UNCHANGED <<snap, wire>>, pc[c] \in InRunQuery
      PROVE  AnswerStep(c)
  BY <1>1, FailAnswers DEF AnswerStep
<1>2. ASSUME Succeed(c), UNCHANGED <<snap, wire>>, pc[c] \in InRunQuery
      PROVE  AnswerStep(c)
  BY <1>2, SucceedAnswers DEF AnswerStep
<1>3. CASE PoolTimeout(c)
  BY <1>3, <1>1 DEF PoolTimeout, InRunQuery
<1>4. CASE NoResultSet(c) \/ Fetched(c)
  BY <1>4, <1>2 DEF NoResultSet, Fetched, InRunQuery
<1>5. ASSUME NEW message,
             PrepareFailed(c, message) \/ ExecuteFailed(c, message) \/ FetchFailed(c, message)
      PROVE  AnswerStep(c)
  BY <1>5, <1>1 DEF PrepareFailed, ExecuteFailed, FetchFailed, InRunQuery
<1>6. CASE Timeout(c)
  BY <1>6, <1>1 DEF Timeout
<1> QED BY <1>3, <1>4, <1>5, <1>6 DEF Progress

\* The steps of a call that do not answer it.
QuietStep(c) ==
    \/ Start(c) \/ Submitted(c) \/ Acquire(c) \/ Prepared(c) \/ Executed(c)
    \/ Server(c) \/ AuditDone(c)

LEMMA QuietCalls ==
    ASSUME TypeOK, CallInv, NEW c \in Calls, QuietStep(c)
    PROVE  CallType' /\ CallInv'
<1>t. CallType /\ RegistryType /\ Len(binding) \in Nat
  BY Numbers DEF TypeOK
<1>i. CallShape(c) /\ CallBinding(c) /\ CallObserved(c)
  BY DEF CallInv
<1>u. UNCHANGED <<registry, op, target, reply>>
  BY DEF QuietStep, Start, Submitted, Acquire, Prepared, Executed, Server, ServerRuns,
         ServerRefuses, ConnectionLost, AuditDone, request
<1>o. \A d \in Calls \ {c} : Still(d)
  BY <1>t DEF QuietStep, Start, Submitted, CloneProfile, Acquire, Prepared, Executed, Server,
              ServerRuns, ServerRefuses, ConnectionLost, AuditDone, request, observed, Still,
              CallType
<1>c. SpecOf(c) = SpecOf(c)' \/ snap'[c] # snap[c]
  BY <1>u DEF SpecOf, registry
<1>1. CASE Start(c)
  <2>1. CallType'
    BY <1>1, <1>t, <1>u DEF Start, CallType, RegistryType, Pc, pools, observed, registry
  <2>2. CallShape(c)'
    BY <1>1, <1>t, <1>i DEF Start, CallShape, CallType, InRunQuery, Holding
  <2>3. CallBinding(c)'
    BY <1>1, <1>t, <1>i, <1>u DEF Start, CallBinding, CallShape, CallType, RegistryType,
                            InRunQuery, registry
  <2>4. CallObserved(c)'
    BY <1>1, <1>t, <1>i DEF Start, CallObserved, CallType, Audited, Observable, observed
  <2> QED BY <2>1, <2>2, <2>3, <2>4, <1>o, <1>u, StillCall DEF CallInv
<1>2. CASE Submitted(c)
  <2>1. CallType'
    BY <1>2, <1>t, <1>u DEF Submitted, CloneProfile, CallType, RegistryType, Pc, request,
                            observed, registry
  <2>2. CallShape(c)'
    BY <1>2, <1>t, <1>i DEF Submitted, CloneProfile, CallShape, CallType, RegistryType,
                            InRunQuery, Holding
  <2>3. CallBinding(c)'
    BY <1>2, <1>t, <1>i, <1>u DEF Submitted, CloneProfile, CallBinding, CallShape, CallType,
                            RegistryType, InRunQuery, SpecOf, Found, registry, request
  <2>4. CallObserved(c)'
    BY <1>2, <1>t, <1>i, <1>u DEF Submitted, CloneProfile, CallObserved, CallType, Audited,
                            Observable, observed
  <2> QED BY <2>1, <2>2, <2>3, <2>4, <1>o, <1>u, StillCall DEF CallInv
<1>3. CASE Acquire(c)
  <2>1. snap[c] # 0
    BY <1>3, <1>i DEF Acquire, CallShape, InRunQuery
  <2>2. CallType'
    BY <1>3, <1>t, <1>u DEF Acquire, PoolOf, CallType, Pc, request, observed, registry
  <2>3. CallShape(c)'
    BY <1>3, <2>1, <1>t, <1>i DEF Acquire, PoolOf, CallShape, CallType, InRunQuery, Holding
  <2>4. CallBinding(c)'
    BY <1>3, <1>t, <1>i, <1>u DEF Acquire, CallBinding, CallType, InRunQuery, SpecOf, registry,
                            request
  <2>5. CallObserved(c)'
    BY <1>3, <1>t, <1>i, <1>u DEF Acquire, CallObserved, CallType, Audited, Observable, observed
  <2> QED BY <2>2, <2>3, <2>4, <2>5, <1>o, <1>u, StillCall DEF CallInv
<1>4. CASE Prepared(c)
  <2>1. CallType'
    BY <1>4, <1>t, <1>u DEF Prepared, CallType, Pc, Wire, request, observed, registry
  <2>2. CallShape(c)'
    BY <1>4, <1>t, <1>i DEF Prepared, CallShape, CallType, InRunQuery, Holding
  <2>3. CallBinding(c)'
    BY <1>4, <1>t, <1>i, <1>u DEF Prepared, CallBinding, CallShape, CallType, InRunQuery, SpecOf,
                            registry, request
  <2>4. CallObserved(c)'
    BY <1>4, <1>t, <1>i, <1>u DEF Prepared, CallObserved, CallType, Audited, Observable, observed
  <2> QED BY <2>1, <2>2, <2>3, <2>4, <1>o, <1>u, StillCall DEF CallInv
<1>5. CASE Executed(c)
  <2>1. CallType'
    BY <1>5, <1>t, <1>u DEF Executed, CallType, Pc, request, observed, registry
  <2>2. CallShape(c)'
    BY <1>5, <1>t, <1>i DEF Executed, CallShape, CallType, InRunQuery, Holding
  <2>3. CallBinding(c)'
    BY <1>5, <1>t, <1>i, <1>u DEF Executed, CallBinding, CallShape, CallType, InRunQuery, SpecOf,
                            registry, request
  <2>4. CallObserved(c)'
    BY <1>5, <1>t, <1>i, <1>u DEF Executed, CallObserved, CallType, Audited, Observable, observed
  <2> QED BY <2>1, <2>2, <2>3, <2>4, <1>o, <1>u, StillCall DEF CallInv
<1>6. CASE Server(c)
  <2>0. /\ UNCHANGED <<pc, since, snap, conn, label, metrics, audits>>
        /\ wire[c] # "none"
        /\ wire' = [wire EXCEPT ![c] = wire'[c]]
        /\ wire'[c] \in {"answered", "refused", "lost"}
        /\ ran' \in [Calls -> Nat]
    <3>1. wire \in [Calls -> Wire] /\ ran \in [Calls -> Nat]
      BY <1>t DEF CallType
    <3>2. CASE ServerRuns(c)
      BY <3>1, <3>2 DEF ServerRuns, request, observed
    <3>3. CASE ServerRefuses(c)
      BY <3>1, <3>3 DEF ServerRefuses, request, observed
    <3>4. CASE ConnectionLost(c)
      BY <3>1, <3>4 DEF ConnectionLost, request, observed
    <3> QED BY <1>6, <3>2, <3>3, <3>4 DEF Server
  <2>1. CallType'
    <3>1. wire' \in [Calls -> Wire]
      BY <2>0, <1>t DEF CallType, Wire
    <3>2. binding' = binding /\ UNCHANGED <<op, target, reply>>
      BY <1>6, <1>u DEF Server, ServerRuns, ServerRefuses, ConnectionLost, registry, request
    <3> QED BY <2>0, <3>1, <3>2, <1>t DEF CallType
  <2>2. CallShape(c)'
    <3>1. CallShape(c) /\ pc'[c] = pc[c] /\ snap'[c] = snap[c] /\ conn'[c] = conn[c]
      BY <2>0, <1>i
    <3>2. pc[c] \notin {"idle", "clone", "waiting", "prepare"}
      BY <3>1, <2>0 DEF CallShape
    <3>3. wire'[c] \notin {"none", "sent"}
      BY <2>0
    <3> QED BY <3>1, <3>2, <3>3 DEF CallShape, InRunQuery, Holding
  <2>3. CallBinding(c)'
    BY <2>0, <1>t, <1>i, <1>u DEF CallBinding, SpecOf, registry
  <2>4. CallObserved(c)'
    BY <2>0, <1>t, <1>i, <1>u DEF CallObserved, Audited, Observable
  <2> QED BY <2>1, <2>2, <2>3, <2>4, <1>o, <1>u, StillCall DEF CallInv
<1>7. CASE AuditDone(c)
  <2>1. CallType'
    BY <1>7, <1>t, <1>u DEF AuditDone, CallType, Pc, request, registry
  <2>2. CallShape(c)'
    BY <1>7, <1>t, <1>i DEF AuditDone, CallShape, CallType, InRunQuery, Holding
  <2>3. CallBinding(c)'
    BY <1>7, <1>t, <1>i, <1>u DEF AuditDone, CallBinding, CallShape, CallType, InRunQuery, SpecOf,
                            registry, request
  <2>4. CallObserved(c)'
    BY <1>7, <1>t, <1>i, <1>u DEF AuditDone, CallObserved, CallType, Audited, Observable, request
  <2> QED BY <2>1, <2>2, <2>3, <2>4, <1>o, <1>u, StillCall DEF CallInv
<1> QED BY <1>1, <1>2, <1>3, <1>4, <1>5, <1>6, <1>7 DEF QuietStep

LEMMA RegisterCalls ==
    ASSUME TypeOK, CallInv, NEW n \in Names, NEW s \in Specs, Register(n, s)
    PROVE  RegistryType' /\ CallType' /\ CallInv'
<1>1. /\ binding \in Seq({x \in Specs : Registrable(x)})
      /\ profiles \in [Names -> 0 .. Len(binding)]
      /\ Len(binding) \in Nat /\ MaxGens \in Nat
      /\ CallType
  BY Numbers DEF TypeOK, RegistryType
<1>2. /\ binding' = Append(binding, s) /\ Registrable(s)
      /\ profiles' = [profiles EXCEPT ![n] = Len(binding) + 1]
      /\ Len(binding) < MaxGens
      /\ UNCHANGED <<pc, op, target, since, snap, conn, wire, ran, reply, label, metrics, audits>>
  BY DEF Register, request, observed
<1>3. /\ binding' \in Seq({x \in Specs : Registrable(x)})
      /\ Len(binding') = Len(binding) + 1
      /\ \A g \in 1 .. Len(binding) : binding'[g] = binding[g]
  BY <1>1, <1>2
<1>4. profiles' \in [Names -> 0 .. Len(binding')]
  BY <1>1, <1>2, <1>3
<1>5. RegistryType'
  BY <1>1, <1>2, <1>3, <1>4 DEF RegistryType
<1>6. \A x : x \in 0 .. Len(binding) => x \in 0 .. Len(binding')
  BY <1>1, <1>3
<1>7. CallType'
  <2>1. \A f : f \in [Calls -> 0 .. Len(binding)] => f \in [Calls -> 0 .. Len(binding')]
    BY <1>6
  <2> QED BY <1>1, <1>2, <2>1 DEF CallType
<1>8. ASSUME NEW d \in Calls PROVE CallShape(d)' /\ CallBinding(d)' /\ CallObserved(d)'
  <2>1. CallShape(d) /\ CallBinding(d) /\ CallObserved(d)
    BY DEF CallInv
  <2>2. snap[d] \in 0 .. Len(binding) /\ since[d] \in 0 .. Len(binding) /\ target[d] \in Names
    BY <1>1 DEF CallType
  <2>3. snap[d] # 0 => SpecOf(d)' = SpecOf(d)
    BY <1>2, <1>3, <2>2 DEF SpecOf
  <2>4. since[d] <= profiles[target[d]] => since[d] <= profiles'[target[d]]
    BY <1>1, <1>2, <2>2
  <2>5. CallBinding(d)'
    BY <1>2, <2>1, <2>3, <2>4 DEF CallBinding, CallShape
  <2> QED BY <1>2, <2>1, <2>5 DEF CallShape, CallObserved, Audited, Observable
<1> QED BY <1>5, <1>7, <1>8 DEF CallInv

\* The steps of the pools, which no call sees.
PoolStep ==
    \/ \E c \in Calls : Replenish(c)
    \/ \E g \in Gens : ConnectEnds(g) \/ SessionClosed(g)
    \/ UNCHANGED vars

\* The steps of Next, by what they do to the calls.
LEMMA StepKinds ==
    ASSUME [Next]_vars
    PROVE  \/ \E n \in Names, s \in Specs : Register(n, s)
           \/ \E c \in Calls : AnswerStep(c) \/ QuietStep(c)
           \/ PoolStep
<1>1. ASSUME NEW c \in Calls, Prologue(c) PROVE AnswerStep(c) \/ QuietStep(c)
  BY <1>1, PrologueAnswers DEF QuietStep
<1>2. ASSUME NEW c \in Calls, Progress(c) \/ Timeout(c) PROVE AnswerStep(c) \/ QuietStep(c)
  BY <1>2, ProgressAnswers DEF QuietStep
<1>3. ASSUME NEW c \in Calls, Start(c) \/ Server(c) \/ AuditDone(c) PROVE QuietStep(c)
  BY <1>3 DEF QuietStep
<1> QED BY <1>1, <1>2, <1>3 DEF Next, PoolStep, Terminated

\* Every step keeps the calls' half of the invariant.
LEMMA StepCalls ==
    ASSUME TypeOK, CallInv, [Next]_vars
    PROVE  RegistryType' /\ CallType' /\ CallInv'
<1>r. ASSUME UNCHANGED registry PROVE RegistryType'
  BY <1>r DEF TypeOK, RegistryType, registry
<1>1. ASSUME NEW n \in Names, NEW s \in Specs, Register(n, s)
      PROVE  RegistryType' /\ CallType' /\ CallInv'
  BY <1>1, RegisterCalls
<1>2. ASSUME NEW c \in Calls, AnswerStep(c)
      PROVE  RegistryType' /\ CallType' /\ CallInv'
  <2>1. PICK form \in Form, again \in BOOLEAN, outcome \in Label :
            Fits(c, form, outcome) /\ Answer(c, form, again, outcome)
    BY <1>2 DEF AnswerStep, Answered
  <2>2. CallType' /\ CallInv'
    BY <1>2, <2>1, AnswerCalls DEF AnswerStep
  <2>3. UNCHANGED registry
    BY <2>1 DEF Answer, Reply, registry
  <2> QED BY <2>2, <2>3, <1>r
<1>3. ASSUME NEW c \in Calls, QuietStep(c)
      PROVE  RegistryType' /\ CallType' /\ CallInv'
  <2>1. UNCHANGED registry
    BY <1>3 DEF QuietStep, Start, Submitted, Acquire, Prepared, Executed, Server, ServerRuns,
                ServerRefuses, ConnectionLost, AuditDone
  <2> QED BY <1>3, <2>1, <1>r, QuietCalls
<1>4. CASE PoolStep
  <2>1. UNCHANGED <<registry, pc, request, snap, conn, wire, ran, reply, observed>>
    BY <1>4 DEF PoolStep, Replenish, ConnectEnds, Connected, ConnectFailed, SessionClosed, vars
  <2>2. UNCHANGED <<op, target, since, label, metrics, audits>>
    BY <2>1 DEF request, observed
  <2>3. CallType'
    BY <2>1, <2>2 DEF TypeOK, CallType, registry
  <2>4. \A d \in Calls : Still(d)
    BY <2>1, <2>2 DEF Still
  <2> QED BY <2>1, <2>2, <2>3, <2>4, <1>r, StillCall DEF CallInv
<1> QED BY <1>1, <1>2, <1>3, <1>4, StepKinds

-----------------------------------------------------------------------------
(* The pools.                                                              *)

\* A dropped pool has no session in use.
DroppedUnused == \A g \in Gens : ~ Live(g) => Holders(g) = {}

LEMMA DroppedIsUnused == CallInv => DroppedUnused
<1> SUFFICES ASSUME CallInv, NEW g \in Gens, ~ Live(g)
             PROVE  Holders(g) = {}
  BY DEF DroppedUnused
<1>1. ASSUME NEW c \in Holders(g) PROVE FALSE
  <2>1. c \in Calls /\ conn[c] = g /\ g # 0 /\ CallShape(c)
    BY <1>1, BoundsTyped DEF Holders, Gens, CallInv
  <2>2. pc[c] \in Holding /\ snap[c] = g
    BY <2>1 DEF CallShape
  <2> QED BY <2>1, <2>2 DEF Live, HoldsClone, Holding
<1> QED BY <1>1

\* The pools after a step that gives back, opens or drops sessions: if the books
\* balance before dropped pools are closed, they balance afterwards.
LEMMA SettleBalances ==
    ASSUME RegistryType', CallType', CallInv', pending' \in [Gens -> Nat],
           NEW i \in [Gens -> Nat], NEW s \in [Gens -> Nat], Settle(i, s),
           \A g \in Gens :
               /\ s[g] = i[g] + Cardinality(Holders(g)')
               /\ g <= Len(binding') => s[g] + pending'[g] <= binding'[g].pool_max_size
               /\ g > Len(binding') => s[g] = 0 /\ pending'[g] = 0
    PROVE  PoolType' /\ PoolInv'
<1>1. PoolType'
  BY DEF Settle, PoolType
<1>2. ASSUME NEW g \in Gens
      PROVE  /\ sessions'[g] = idle'[g] + Cardinality(Holders(g)')
             /\ g <= Len(binding') => sessions'[g] + pending'[g] <= binding'[g].pool_max_size
             /\ g > Len(binding') => sessions'[g] = 0 /\ pending'[g] = 0
  <2>1. CASE Live(g)'
    BY <2>1 DEF Settle
  <2>2. CASE ~ Live(g)'
    <3>1. sessions'[g] = 0 /\ idle'[g] = 0
      BY <2>2 DEF Settle
    <3>2. Holders(g)' = {}
      <4>1. DroppedUnused'
        BY DroppedIsUnused, PTL
      <4> QED BY <2>2, <4>1 DEF DroppedUnused
    <3>3. Cardinality(Holders(g)') = 0
      BY <3>2, FS_EmptySet
    <3>4. g <= Len(binding') => binding'[g] \in HanaBackendSpec
      <4>1. Len(binding') \in Nat /\ g \in Nat /\ g # 0
        BY BoundsTyped DEF RegistryType, Gens
      <4> QED BY <4>1, SpecsTyped DEF RegistryType
    <3>5. g <= Len(binding') => binding'[g].pool_max_size \in Nat
      BY <3>4 DEF HanaBackendSpec
    <3>6. s[g] \in Nat /\ pending'[g] \in Nat
      OBVIOUS
    <3> QED BY <3>1, <3>3, <3>5, <3>6
  <2> QED BY <2>1, <2>2
<1> QED BY <1>1, <1>2 DEF PoolInv

LEMMA HoldersFinite ==
    ASSUME NEW g
    PROVE  IsFiniteSet(Holders(g)) /\ Cardinality(Holders(g)) \in Nat
<1>1. Holders(g) \in SUBSET Calls
  BY DEF Holders
<1>2. IsFiniteSet(Holders(g))
  BY <1>1, CallsFinite, FS_Subset
<1> QED BY <1>2, FS_CardinalityType

\* Giving back, or closing, the session a call holds balances the books.
LEMMA ReleaseBalances ==
    ASSUME IInv, NEW c \in Calls, NEW kept \in BOOLEAN, conn' = [conn EXCEPT ![c] = 0]
    PROVE  /\ idle_after(c, kept) \in [Gens -> Nat]
           /\ sessions_after(c, kept) \in [Gens -> Nat]
           /\ \A g \in Gens :
                /\ sessions_after(c, kept)[g]
                       = idle_after(c, kept)[g] + Cardinality(Holders(g)')
                /\ sessions_after(c, kept)[g] <= sessions[g]
<1> DEFINE i == idle_after(c, kept)
           s == sessions_after(c, kept)
<1>1. /\ idle \in [Gens -> Nat] /\ sessions \in [Gens -> Nat]
      /\ conn \in [Calls -> 0 .. Len(binding)]
      /\ Len(binding) \in Nat /\ MaxGens \in Nat /\ Len(binding) <= MaxGens
  BY Numbers DEF IInv, TypeOK, PoolType, CallType
<1>2. \A g \in Gens : sessions[g] = idle[g] + Cardinality(Holders(g)) /\ g # 0
  BY BoundsTyped DEF IInv, PoolInv, Gens
<1>3. CASE conn[c] = 0
  <2>1. i = idle /\ s = sessions
    BY <1>3 DEF idle_after, sessions_after
  <2>2. conn' = conn
    BY <1>1, <1>3
  <2>3. \A g \in Gens : Holders(g)' = Holders(g)
    BY <2>2 DEF Holders
  <2>4. \A g \in Gens : sessions[g] <= sessions[g]
    BY <1>1
  <2> QED BY <1>1, <1>2, <2>1, <2>3, <2>4
<1>4. CASE conn[c] # 0
  <2>1. PICK h \in Gens : h = conn[c]
    BY <1>1, <1>4 DEF Gens
  <2>2. c \in Holders(h)
    BY <2>1 DEF Holders
  <2>3. Holders(h)' = Holders(h) \ {c}
    BY <1>1, <1>2, <2>1 DEF Holders
  <2>4. /\ Cardinality(Holders(h)') = Cardinality(Holders(h)) - 1
        /\ Cardinality(Holders(h)) \in Nat /\ Cardinality(Holders(h)') \in Nat
    <3>1. IsFiniteSet(Holders(h)) /\ Cardinality(Holders(h)) \in Nat
      BY HoldersFinite
    <3>2. /\ Cardinality(Holders(h) \ {c}) = Cardinality(Holders(h)) - 1
          /\ IsFiniteSet(Holders(h) \ {c})
      BY <2>2, <3>1, FS_RemoveElement
    <3>3. Cardinality(Holders(h) \ {c}) \in Nat
      BY <3>2, FS_CardinalityType
    <3> QED BY <2>3, <3>1, <3>2, <3>3
  <2>5. \A g \in Gens : g # h => Holders(g)' = Holders(g)
    BY <1>1, <1>2, <2>1 DEF Holders
  <2>6. CASE kept
    <3>1. i = [idle EXCEPT ![h] = @ + 1] /\ s = sessions
      BY <1>4, <2>1, <2>6 DEF idle_after, sessions_after
    <3>2. i \in [Gens -> Nat] /\ i[h] = idle[h] + 1
          /\ \A g \in Gens : g # h => i[g] = idle[g]
      BY <3>1, <1>1, <2>1
    <3>3. s[h] = i[h] + Cardinality(Holders(h)')
      BY <3>1, <3>2, <2>4, <2>1, <1>1, <1>2
    <3>4. ASSUME NEW g \in Gens, g # h PROVE s[g] = i[g] + Cardinality(Holders(g)')
      BY <3>1, <3>2, <3>4, <2>5, <1>2
    <3>5. \A g \in Gens : sessions[g] <= sessions[g]
      BY <1>1
    <3>6. \A g \in Gens : s[g] = i[g] + Cardinality(Holders(g)') /\ s[g] <= sessions[g]
      BY <3>1, <3>3, <3>4, <3>5
    <3> QED BY <1>1, <3>1, <3>2, <3>6
  <2>7. CASE ~ kept
    <3>1. i = idle /\ s = [sessions EXCEPT ![h] = @ - 1]
      BY <1>4, <2>1, <2>7 DEF idle_after, sessions_after
    <3>2. sessions[h] - 1 = idle[h] + Cardinality(Holders(h)') /\ sessions[h] - 1 \in Nat
      BY <2>1, <2>4, <1>1, <1>2
    <3>3. s \in [Gens -> Nat] /\ s[h] = sessions[h] - 1
          /\ \A g \in Gens : g # h => s[g] = sessions[g]
      BY <3>1, <3>2, <1>1, <2>1
    <3>4. s[h] = i[h] + Cardinality(Holders(h)') /\ s[h] <= sessions[h]
      BY <3>1, <3>2, <3>3, <2>1, <1>1
    <3>5. ASSUME NEW g \in Gens, g # h
          PROVE  s[g] = i[g] + Cardinality(Holders(g)') /\ s[g] <= sessions[g]
      <4>1. s[g] = sessions[g] /\ sessions[g] \in Nat
        BY <3>3, <3>5, <1>1
      <4> QED BY <4>1, <3>1, <3>5, <2>5, <1>2
    <3>6. \A g \in Gens : s[g] = i[g] + Cardinality(Holders(g)') /\ s[g] <= sessions[g]
      BY <3>4, <3>5
    <3> QED BY <1>1, <3>1, <3>3, <3>6
  <2> QED BY <2>6, <2>7
<1> QED BY <1>3, <1>4

\* The steps that touch a pool without closing it, with the sessions in use unchanged.
LEMMA PoolStepBalances ==
    ASSUME IInv, PoolStep, RegistryType', CallType', CallInv'
    PROVE  PoolType' /\ PoolInv'
<1>1. /\ idle \in [Gens -> Nat] /\ sessions \in [Gens -> Nat] /\ pending \in [Gens -> Nat]
      /\ snap \in [Calls -> 0 .. Len(binding)]
      /\ Len(binding) \in Nat /\ MaxGens \in Nat /\ Len(binding) <= MaxGens
  BY Numbers DEF IInv, TypeOK, PoolType, CallType
<1>2. /\ UNCHANGED <<binding, conn>>
      /\ \A g \in Gens : Holders(g)' = Holders(g)
  BY DEF PoolStep, Replenish, ConnectEnds, Connected, ConnectFailed, SessionClosed, vars,
         registry, Holders
<1>3. \A g \in Gens :
          /\ sessions[g] = idle[g] + Cardinality(Holders(g))
          /\ g <= Len(binding) => sessions[g] + pending[g] <= binding[g].pool_max_size
          /\ g > Len(binding) => sessions[g] = 0 /\ pending[g] = 0
          /\ Cardinality(Holders(g)) \in Nat
          /\ g \in Nat /\ g # 0
  BY HoldersFinite, BoundsTyped DEF IInv, PoolInv, Gens
<1>p. \A g \in Gens : g <= Len(binding) => binding[g].pool_max_size \in Nat
  <2>1. \A g \in Gens : g <= Len(binding) => g \in 1 .. Len(binding)
    BY <1>1, <1>3
  <2>2. \A g \in 1 .. Len(binding) : binding[g] \in HanaBackendSpec
    BY BindingTyped DEF IInv, TypeOK
  <2> QED BY <2>1, <2>2 DEF HanaBackendSpec
<1>q. ASSUME NEW g \in Gens, pending[g] # 0 PROVE g <= Len(binding)
  <2>1. ~ (g > Len(binding))
    BY <1>q, <1>3
  <2> QED BY <2>1, <1>1, <1>3
<1>4. ASSUME NEW c \in Calls, Replenish(c) PROVE PoolType' /\ PoolInv'
  <2>1. pc[c] = "waiting" /\ CallShape(c)
    BY <1>4 DEF Replenish, IInv, CallInv
  <2>2. PICK g \in Gens : g = snap[c] /\ g <= Len(binding)
    BY <2>1, <1>1 DEF CallShape, InRunQuery, Gens
  <2>3. /\ sessions[g] + pending[g] < binding[g].pool_max_size
        /\ pending' = [pending EXCEPT ![g] = @ + 1]
        /\ UNCHANGED <<idle, sessions>>
    BY <1>4, <2>2 DEF Replenish, PoolOf
  <2>4. PoolType'
    BY <1>1, <2>3 DEF PoolType
  <2>5. ASSUME NEW k \in Gens
        PROVE  /\ sessions'[k] = idle'[k] + Cardinality(Holders(k)')
               /\ k <= Len(binding') => sessions'[k] + pending'[k] <= binding'[k].pool_max_size
               /\ k > Len(binding') => sessions'[k] = 0 /\ pending'[k] = 0
    <3>1. CASE k = g
      <4>1. pending'[k] = pending[k] + 1 /\ sessions[k] \in Nat /\ pending[k] \in Nat
        BY <3>1, <2>3, <1>1
      <4> QED BY <4>1, <3>1, <1>1, <1>2, <1>3, <1>p, <2>2, <2>3
    <3>2. CASE k # g
      BY <3>2, <1>1, <1>2, <1>3, <2>3
    <3> QED BY <3>1, <3>2
  <2> QED BY <2>4, <2>5 DEF PoolInv
<1>5. ASSUME NEW g \in Gens, Connected(g) PROVE PoolType' /\ PoolInv'
  <2> DEFINE i == [idle EXCEPT ![g] = @ + 1]
             s == [sessions EXCEPT ![g] = @ + 1]
  <2>1. /\ pending[g] > 0
        /\ pending' = [pending EXCEPT ![g] = @ - 1]
        /\ Settle(i, s)
    BY <1>5 DEF Connected
  <2>2. pending' \in [Gens -> Nat] /\ i \in [Gens -> Nat] /\ s \in [Gens -> Nat]
    BY <1>1, <2>1
  <2>3. ASSUME NEW k \in Gens
        PROVE  /\ s[k] = i[k] + Cardinality(Holders(k)')
               /\ k <= Len(binding') => s[k] + pending'[k] <= binding'[k].pool_max_size
               /\ k > Len(binding') => s[k] = 0 /\ pending'[k] = 0
    <3>1. CASE k = g
      <4>1. /\ s[k] = sessions[k] + 1 /\ i[k] = idle[k] + 1 /\ pending'[k] = pending[k] - 1
            /\ sessions[k] \in Nat /\ idle[k] \in Nat /\ pending[k] \in Nat
        BY <3>1, <2>1, <1>1
      <4>2. pending[k] # 0
        BY <4>1, <3>1, <2>1
      <4>3. k <= Len(binding)
        BY <4>2, <1>q
      <4>4. /\ sessions[k] = idle[k] + Cardinality(Holders(k))
            /\ sessions[k] + pending[k] <= binding[k].pool_max_size
            /\ binding[k].pool_max_size \in Nat /\ Cardinality(Holders(k)) \in Nat
        BY <4>3, <1>3, <1>p
      <4>5. binding' = binding /\ Cardinality(Holders(k)') = Cardinality(Holders(k))
        BY <1>2
      <4>6. ~ (k > Len(binding))
        BY <4>3, <1>1, <1>3
      <4> HIDE DEF i, s
      <4>7. s[k] = i[k] + Cardinality(Holders(k)')
        BY <4>1, <4>4, <4>5
      <4>8. s[k] + pending'[k] <= binding'[k].pool_max_size
        <5>1. s[k] + pending'[k] = sessions[k] + pending[k]
          BY <4>1
        <5> QED BY <5>1, <4>4, <4>5
      <4>9. ~ (k > Len(binding'))
        BY <4>5, <4>6
      <4> QED BY <4>7, <4>8, <4>9
    <3>2. CASE k # g
      <4>1. s[k] = sessions[k] /\ i[k] = idle[k] /\ pending'[k] = pending[k]
        BY <3>2, <2>1, <1>1
      <4> QED BY <4>1, <1>2, <1>3
    <3> QED BY <3>1, <3>2
  <2> HIDE DEF i, s
  <2> QED BY <2>1, <2>2, <2>3, SettleBalances
<1>6. ASSUME NEW g \in Gens, ConnectFailed(g) PROVE PoolType' /\ PoolInv'
  <2>1. /\ pending[g] > 0
        /\ pending' = [pending EXCEPT ![g] = @ - 1]
        /\ Settle(idle, sessions)
    BY <1>6 DEF ConnectFailed
  <2>2. pending' \in [Gens -> Nat]
    BY <1>1, <2>1
  <2>3. ASSUME NEW k \in Gens
        PROVE  /\ sessions[k] = idle[k] + Cardinality(Holders(k)')
               /\ k <= Len(binding') => sessions[k] + pending'[k] <= binding'[k].pool_max_size
               /\ k > Len(binding') => sessions[k] = 0 /\ pending'[k] = 0
    <3>1. CASE k = g
      <4>1. /\ pending'[k] = pending[k] - 1
            /\ sessions[k] \in Nat /\ pending[k] \in Nat
        BY <3>1, <2>1, <1>1
      <4> QED BY <4>1, <3>1, <2>1, <1>1, <1>2, <1>3, <1>p
    <3>2. CASE k # g
      <4>1. pending'[k] = pending[k]
        BY <3>2, <2>1, <1>1
      <4> QED BY <4>1, <1>2, <1>3
    <3> QED BY <3>1, <3>2
  <2> QED BY <1>1, <2>1, <2>2, <2>3, SettleBalances
<1>7. ASSUME NEW g \in Gens, SessionClosed(g) PROVE PoolType' /\ PoolInv'
  <2>1. /\ idle[g] > 0
        /\ idle' = [idle EXCEPT ![g] = @ - 1]
        /\ sessions' = [sessions EXCEPT ![g] = @ - 1]
        /\ pending' = pending
    BY <1>7 DEF SessionClosed
  <2>2. sessions[g] > 0
    BY <2>1, <1>1, <1>3
  <2>3. PoolType'
    BY <1>1, <2>1, <2>2 DEF PoolType
  <2>4. ASSUME NEW k \in Gens
        PROVE  /\ sessions'[k] = idle'[k] + Cardinality(Holders(k)')
               /\ k <= Len(binding') => sessions'[k] + pending'[k] <= binding'[k].pool_max_size
               /\ k > Len(binding') => sessions'[k] = 0 /\ pending'[k] = 0
    <3>1. CASE k = g
      <4>1. /\ sessions'[k] = sessions[k] - 1 /\ idle'[k] = idle[k] - 1
            /\ sessions[k] \in Nat /\ idle[k] \in Nat /\ pending[k] \in Nat
        BY <3>1, <2>1, <1>1
      <4>2. sessions[k] > 0
        BY <3>1, <2>2
      <4>3. ~ (k > Len(binding)) /\ k <= Len(binding)
        <5>1. ~ (k > Len(binding))
          BY <4>2, <1>3
        <5>2. k \in Nat /\ Len(binding) \in Nat
          BY <1>1, <1>3
        <5> QED BY <5>1, <5>2
      <4>4. sessions'[k] = idle'[k] + Cardinality(Holders(k)')
        BY <4>1, <1>2, <1>3
      <4>5. sessions[k] + pending[k] <= binding[k].pool_max_size
            /\ binding[k].pool_max_size \in Nat
        BY <4>3, <1>3, <1>p
      <4>6. sessions'[k] + pending'[k] <= binding[k].pool_max_size
        BY <4>1, <4>5, <2>1
      <4> QED BY <4>3, <4>4, <4>6, <1>2
    <3>2. CASE k # g
      <4>1. sessions'[k] = sessions[k] /\ idle'[k] = idle[k]
        BY <3>2, <2>1, <1>1
      <4> QED BY <4>1, <2>1, <1>2, <1>3
    <3> QED BY <3>1, <3>2
  <2> QED BY <2>3, <2>4 DEF PoolInv
<1>8. CASE UNCHANGED vars
  <2>1. UNCHANGED <<idle, pending, sessions>>
    BY <1>8 DEF vars, pools
  <2>2. PoolType'
    BY <1>1, <2>1 DEF PoolType
  <2> QED BY <1>2, <1>3, <2>1, <2>2 DEF PoolInv
<1> QED BY <1>4, <1>5, <1>6, <1>7, <1>8 DEF PoolStep, ConnectEnds

LEMMA QuietBalances ==
    ASSUME IInv, NEW c \in Calls, QuietStep(c), RegistryType', CallType', CallInv'
    PROVE  PoolType' /\ PoolInv'
<1>1. /\ idle \in [Gens -> Nat] /\ sessions \in [Gens -> Nat] /\ pending \in [Gens -> Nat]
      /\ snap \in [Calls -> 0 .. Len(binding)] /\ conn \in [Calls -> 0 .. Len(binding)]
      /\ Len(binding) \in Nat /\ MaxGens \in Nat /\ Len(binding) <= MaxGens
  BY Numbers DEF IInv, TypeOK, PoolType, CallType
<1>2. \A g \in Gens :
          /\ sessions[g] = idle[g] + Cardinality(Holders(g))
          /\ g <= Len(binding) => sessions[g] + pending[g] <= binding[g].pool_max_size
          /\ g > Len(binding) => sessions[g] = 0 /\ pending[g] = 0
  BY DEF IInv, PoolInv
<1>3. CASE Acquire(c)
  <2>1. CallShape(c) /\ pc[c] = "waiting"
    BY <1>3 DEF Acquire, IInv, CallInv
  <2>2. PICK h \in Gens : h = snap[c] /\ conn[c] = 0
    BY <2>1, <1>1 DEF CallShape, InRunQuery, Holding, Gens
  <2>3. /\ idle[h] > 0
        /\ idle' = [idle EXCEPT ![h] = @ - 1]
        /\ conn' = [conn EXCEPT ![c] = h]
        /\ UNCHANGED <<binding, pending, sessions>>
    BY <1>3, <2>2 DEF Acquire, PoolOf, registry
  <2>4. PoolType'
    BY <1>1, <2>3 DEF PoolType
  <2>5. \A g \in Gens : g \in Nat /\ g # 0
    BY BoundsTyped DEF Gens
  <2>6. Holders(h)' = Holders(h) \cup {c} /\ c \notin Holders(h)
    BY <1>1, <2>2, <2>3, <2>5 DEF Holders
  <2>7. Cardinality(Holders(h)') = Cardinality(Holders(h)) + 1
        /\ Cardinality(Holders(h)) \in Nat
    BY <2>6, HoldersFinite, FS_AddElement
  <2>8. \A g \in Gens : g # h => Holders(g)' = Holders(g)
    BY <1>1, <2>2, <2>3, <2>5 DEF Holders
  <2>9. ASSUME NEW g \in Gens PROVE sessions'[g] = idle'[g] + Cardinality(Holders(g)')
    <3>1. CASE g = h
      <4>1. idle'[g] = idle[g] - 1 /\ idle[g] \in Nat
        BY <3>1, <2>3, <1>1
      <4> QED BY <4>1, <3>1, <2>3, <2>7, <1>2
    <3>2. CASE g # h
      BY <3>2, <2>3, <2>8, <1>1, <1>2
    <3> QED BY <3>1, <3>2
  <2> QED BY <2>3, <2>4, <2>9, <1>2 DEF PoolInv
<1>4. CASE AuditDone(c)
  <2>1. Settle(idle, sessions) /\ UNCHANGED <<binding, conn, pending>>
    BY <1>4 DEF AuditDone, registry
  <2>2. \A g \in Gens : Holders(g)' = Holders(g)
    BY <2>1 DEF Holders
  <2>3. \A g \in Gens :
            /\ sessions[g] = idle[g] + Cardinality(Holders(g)')
            /\ g <= Len(binding') => sessions[g] + pending'[g] <= binding'[g].pool_max_size
            /\ g > Len(binding') => sessions[g] = 0 /\ pending'[g] = 0
    BY <1>2, <2>1, <2>2
  <2>4. pending' \in [Gens -> Nat]
    BY <1>1, <2>1
  <2> QED BY <1>1, <2>1, <2>3, <2>4, SettleBalances
<1>5. CASE UNCHANGED <<binding, idle, pending, sessions, conn>>
  <2>1. \A g \in Gens : Holders(g)' = Holders(g)
    BY <1>5 DEF Holders
  <2>2. PoolType'
    BY <1>1, <1>5 DEF PoolType
  <2> QED BY <1>2, <1>5, <2>1, <2>2 DEF PoolInv
<1>6. UNCHANGED <<binding, idle, pending, sessions, conn>> \/ Acquire(c) \/ AuditDone(c)
  BY DEF QuietStep, Start, Submitted, Prepared, Executed, Server, ServerRuns, ServerRefuses,
         ConnectionLost, registry, pools
<1> QED BY <1>3, <1>4, <1>5, <1>6

LEMMA AnswerBalances ==
    ASSUME IInv, NEW c \in Calls, AnswerStep(c), RegistryType', CallType', CallInv'
    PROVE  PoolType' /\ PoolInv'
<1>1. /\ sessions \in [Gens -> Nat] /\ pending \in [Gens -> Nat]
      /\ Len(binding) \in Nat /\ MaxGens \in Nat
  BY Numbers DEF IInv, TypeOK, PoolType
<1>2. PICK form \in Form, again \in BOOLEAN, outcome \in Label : Answer(c, form, again, outcome)
  BY DEF AnswerStep, Answered
<1>3. PICK kept \in BOOLEAN : Settle(idle_after(c, kept), sessions_after(c, kept))
  BY <1>2 DEF Answer, Reply
<1>4. conn' = [conn EXCEPT ![c] = 0] /\ UNCHANGED <<binding, pending>>
  BY <1>2 DEF Answer, Reply
<1>5. /\ idle_after(c, kept) \in [Gens -> Nat]
      /\ sessions_after(c, kept) \in [Gens -> Nat]
      /\ \A g \in Gens :
           /\ sessions_after(c, kept)[g] = idle_after(c, kept)[g] + Cardinality(Holders(g)')
           /\ sessions_after(c, kept)[g] <= sessions[g]
  BY <1>4, ReleaseBalances
<1>6. PICK s \in [Gens -> Nat] : s = sessions_after(c, kept)
  BY <1>5
<1>7. ASSUME NEW g \in Gens
      PROVE  /\ g <= Len(binding') => s[g] + pending'[g] <= binding'[g].pool_max_size
             /\ g > Len(binding') => s[g] = 0 /\ pending'[g] = 0
  <2>1. s[g] <= sessions[g] /\ s[g] \in Nat /\ sessions[g] \in Nat /\ pending[g] \in Nat
    BY <1>1, <1>5, <1>6
  <2>2. g > Len(binding) => s[g] = 0 /\ pending[g] = 0
    BY <2>1 DEF IInv, PoolInv
  <2>3. g <= Len(binding) => s[g] + pending[g] <= binding[g].pool_max_size
    <3> SUFFICES ASSUME g <= Len(binding) PROVE s[g] + pending[g] <= binding[g].pool_max_size
      OBVIOUS
    <3>1. sessions[g] + pending[g] <= binding[g].pool_max_size
      BY DEF IInv, PoolInv
    <3>2. binding[g].pool_max_size \in Nat
      <4>1. g \in 1 .. Len(binding)
        BY <1>1 DEF Gens
      <4> QED BY <4>1, BindingTyped DEF IInv, TypeOK, HanaBackendSpec
    <3> QED BY <2>1, <3>1, <3>2
  <2> QED BY <2>2, <2>3, <1>4
<1>8. PICK i \in [Gens -> Nat] : i = idle_after(c, kept)
  BY <1>5
<1>9. Settle(i, s) /\ pending' \in [Gens -> Nat]
  BY <1>1, <1>3, <1>4, <1>6, <1>8
<1>10. \A g \in Gens : s[g] = i[g] + Cardinality(Holders(g)')
  BY <1>5, <1>6, <1>8
<1>11. \A g \in Gens :
           /\ s[g] = i[g] + Cardinality(Holders(g)')
           /\ g <= Len(binding') => s[g] + pending'[g] <= binding'[g].pool_max_size
           /\ g > Len(binding') => s[g] = 0 /\ pending'[g] = 0
  BY <1>7, <1>10
<1> QED BY <1>9, <1>11, SettleBalances

LEMMA RegisterBalances ==
    ASSUME IInv, NEW n \in Names, NEW s \in Specs, Register(n, s),
           RegistryType', CallType', CallInv'
    PROVE  PoolType' /\ PoolInv'
<1>1. /\ idle \in [Gens -> Nat] /\ sessions \in [Gens -> Nat] /\ pending \in [Gens -> Nat]
      /\ Len(binding) \in Nat /\ MaxGens \in Nat
      /\ binding \in Seq({x \in Specs : Registrable(x)})
  BY Numbers DEF IInv, TypeOK, PoolType, RegistryType
<1>2. /\ binding' = Append(binding, s)
      /\ Settle(idle, sessions)
      /\ UNCHANGED <<conn, pending>>
      /\ s.pool_max_size \in Nat
  BY SpecsTyped DEF Register, HanaBackendSpec
<1>3. /\ Len(binding') = Len(binding) + 1
      /\ binding'[Len(binding) + 1] = s
      /\ \A g \in 1 .. Len(binding) : binding'[g] = binding[g]
  BY <1>1, <1>2
<1>4. \A g \in Gens : Holders(g)' = Holders(g)
  BY <1>2 DEF Holders
<1>5. ASSUME NEW g \in Gens
      PROVE  /\ sessions[g] = idle[g] + Cardinality(Holders(g)')
             /\ g <= Len(binding') => sessions[g] + pending'[g] <= binding'[g].pool_max_size
             /\ g > Len(binding') => sessions[g] = 0 /\ pending'[g] = 0
  <2>1. g \in Nat /\ g # 0
    BY <1>1 DEF Gens
  <2>2. /\ sessions[g] = idle[g] + Cardinality(Holders(g))
        /\ g <= Len(binding) => sessions[g] + pending[g] <= binding[g].pool_max_size
        /\ g > Len(binding) => sessions[g] = 0 /\ pending[g] = 0
    BY DEF IInv, PoolInv
  <2>3. CASE g <= Len(binding)
    <3>1. binding'[g] = binding[g]
      BY <2>1, <2>3, <1>1, <1>3
    <3> QED BY <3>1, <2>1, <2>2, <2>3, <1>1, <1>2, <1>3, <1>4
  <2>4. CASE g > Len(binding)
    <3>1. g <= Len(binding') => binding'[g] = s
      BY <2>1, <2>4, <1>1, <1>3
    <3>2. sessions[g] = 0 /\ pending[g] = 0 /\ pending'[g] = 0
      BY <2>2, <2>4, <1>2
    <3>3. sessions[g] = idle[g] + Cardinality(Holders(g)')
      BY <2>2, <1>4
    <3>4. s.pool_max_size \in Nat
      BY <1>2
    <3> QED BY <3>1, <3>2, <3>3, <3>4
  <2> QED BY <2>1, <2>3, <2>4, <1>1
<1> QED BY <1>1, <1>2, <1>5, SettleBalances

-----------------------------------------------------------------------------
(* The invariant, and what follows from it.                                *)

LEMMA InitIInv == Init => IInv
<1> SUFFICES ASSUME Init PROVE IInv
  OBVIOUS
<1>1. RegistryType /\ Len(binding) = 0
  BY BoundsTyped DEF Init, RegistryType
<1>2. PoolType
  BY DEF Init, PoolType
<1>3. CallType
  BY <1>1 DEF Init, CallType, Pc, Wire, Form
<1>4. CallInv
  BY DEF Init, CallInv, CallShape, CallBinding, CallObserved, Audited, Observable, InRunQuery,
         Holding
<1>5. PoolInv
  <2>1. ASSUME NEW g \in Gens PROVE Holders(g) = {} /\ g \in Nat /\ g # 0
    BY BoundsTyped DEF Init, Holders, Gens
  <2>2. \A g \in Gens : Cardinality(Holders(g)) = 0
    BY <2>1, FS_EmptySet
  <2> QED BY <1>1, <2>1, <2>2 DEF Init, PoolInv
<1> QED BY <1>1, <1>2, <1>3, <1>4, <1>5 DEF IInv, TypeOK

LEMMA StepIInv == IInv /\ [Next]_vars => IInv'
<1> SUFFICES ASSUME IInv, [Next]_vars PROVE IInv'
  OBVIOUS
<1>1. RegistryType' /\ CallType' /\ CallInv'
  BY StepCalls DEF IInv
<1>2. PoolType' /\ PoolInv'
  BY <1>1, StepKinds, RegisterBalances, AnswerBalances, QuietBalances, PoolStepBalances
<1> QED BY <1>1, <1>2 DEF IInv, TypeOK

\* IInv holds in every state of the backend.
THEOREM BackendInvariant == Spec => []IInv
BY InitIInv, StepIInv, PTL DEF Spec

\* The variables keep their types; in particular no pool's count goes negative.
THEOREM BackendTypes == Spec => []TypeOK
<1>1. IInv => TypeOK
  BY DEF IInv
<1> QED BY <1>1, BackendInvariant, PTL

\* No pool leaks a session, loses count of one or grows past pool_max_size.
THEOREM BackendSessions == Spec => []SessionsAccounted
<1>1. IInv => SessionsAccounted
  <2> SUFFICES ASSUME IInv, NEW g \in 1 .. Len(binding)
               PROVE  /\ sessions[g] = idle[g] + Cardinality(Holders(g))
                      /\ sessions[g] + pending[g] <= binding[g].pool_max_size
    BY DEF SessionsAccounted
  <2>1. g \in Gens /\ g <= Len(binding)
    BY Numbers DEF IInv, TypeOK, Gens
  <2> QED BY <2>1 DEF IInv, PoolInv
<1> QED BY <1>1, BackendInvariant, PTL

\* A call holds sessions of the profile it cloned only, and that profile is no
\* older than the call.
THEOREM BackendOneProfile == Spec => []OneProfilePerCall
<1>1. IInv => OneProfilePerCall
  BY DEF IInv, CallInv, CallShape, CallBinding, TypeOK, CallType, OneProfilePerCall
<1> QED BY <1>1, BackendInvariant, PTL

\* A registered profile runs no statement that is missing or would not pass the
\* guards.
THEOREM BackendRunnable == Spec => []RegisteredIsRunnable
<1>1. IInv => RegisteredIsRunnable
  BY BindingTyped, RegistrableRuns DEF IInv, TypeOK, RegisteredIsRunnable
<1> QED BY <1>1, BackendInvariant, PTL

\* Under read_only the server never runs a statement that changes data.
THEOREM BackendNeverWrites == Spec => []ReadOnlyBindingNeverWrites
<1>1. IInv => ReadOnlyBindingNeverWrites
  <2> SUFFICES ASSUME IInv, NEW c \in Calls, ran[c] > 0, SpecOf(c).read_only
               PROVE  SqlOf(c) \notin Mutating
    BY DEF ReadOnlyBindingNeverWrites
  <2>1. /\ CallShape(c) /\ CallBinding(c)
        /\ snap[c] \in 0 .. Len(binding) /\ op[c] \in Op /\ Len(binding) \in Nat
        /\ RegistryType
    BY Numbers DEF IInv, CallInv, TypeOK, CallType
  <2>2. wire[c] # "none"
    BY <2>1 DEF CallShape
  <2>3. snap[c] \in 1 .. Len(binding) /\ Configured(SpecOf(c), op[c])
    BY <2>1, <2>2 DEF CallBinding
  <2>4. fenced(SpecOf(c), SqlOf(c))
    BY <2>1, <2>3, BindingTyped, RegistrableRuns DEF SpecOf, SqlOf
  <2> QED BY <2>4 DEF fenced, enforce_read_only, Mutating
<1> QED BY <1>1, BackendInvariant, PTL

\* Each returned execute was counted once, and audited once if it failed.
THEOREM BackendObserved == Spec => []ObservedOnce
<1>1. IInv => ObservedOnce
  BY DEF IInv, CallInv, CallObserved, ObservedOnce
<1> QED BY <1>1, BackendInvariant, PTL

-----------------------------------------------------------------------------
(***************************************************************************)
(* HanaBackend implements HanaCall: initial states map to initial states,  *)
(* and each step is, for the caller, an invocation, a run of the           *)
(* statement, a return, or nothing.                                        *)
(*                                                                         *)
(* A return needs to know whether the statement ran (rows: yes; unserved:  *)
(* it never will), and a run that comes after the return that the call had *)
(* failed and the statement had not run before.  PInv says so.             *)
(***************************************************************************)

Unserved(c) ==
    reply[c].form \in {"empty", "not_found", "invalid"} \/ label[c] = "invalid_spec"

PCall(c) ==
    /\ pc[c] \notin {"audit", "done"} => label[c] = "none"
    /\ ran[c] <= 1
    /\ wire[c] = "answered" \/ pc[c] = "fetch" => ran[c] = 1
    /\ pc[c] \in {"audit", "done"} =>
          /\ reply[c].form = "rows" => ran[c] = 1 /\ label[c] # "invalid_spec"
          /\ Unserved(c) => wire[c] = "none"

PInv == \A c \in Calls : PCall(c)

-----------------------------------------------------------------------------
(* The caller's view.                                                      *)

Status(c) == IF pc[c] = "idle" THEN "idle" ELSE IF pc[c] = "done" THEN "returned" ELSE "pending"

Outcome(c) ==
    IF pc[c] # "done" THEN "none"
    ELSE IF reply[c].form = "rows" THEN "ok"
    ELSE IF \/ reply[c].form \in {"empty", "not_found", "invalid"}
            \/ label[c] = "invalid_spec" THEN "unserved"
    ELSE "failed"

\* What a call shows of itself.
Unseen(d) == /\ pc'[d] = pc[d] /\ reply'[d] = reply[d] /\ label'[d] = label[d]
             /\ ran'[d] = ran[d]

LEMMA UnseenView ==
    ASSUME NEW d \in Calls, Unseen(d)
    PROVE  Status(d)' = Status(d) /\ Outcome(d)' = Outcome(d)
BY DEF Unseen, Status, Outcome

-----------------------------------------------------------------------------
(* The steps, by what the caller sees.                                     *)

\* An answer is justified: only a call that has not come to the pool is unserved, and
\* rows come from a statement that was answered.
Justified(c, form, outcome) ==
    /\ form \in {"empty", "not_found", "invalid"} \/ outcome = "invalid_spec" => pc[c] = "clone"
    /\ form = "rows" => outcome = "ok" /\ (pc[c] = "fetch" \/ wire[c] = "answered")

JustAnswer(c) ==
    /\ \E form \in Form, again \in BOOLEAN, outcome \in Label :
           Justified(c, form, outcome) /\ Answer(c, form, again, outcome)
    /\ UNCHANGED wire
    /\ pc[c] \in {"clone"} \cup InRunQuery

LEMMA FailJust ==
    ASSUME NEW c \in Calls, NEW message, Fail(c, message), UNCHANGED wire,
           pc[c] \in {"clone"} \cup InRunQuery
    PROVE  JustAnswer(c)
<1> DEFINE again == op[c] = "execute" /\ retryable(message)
<1>1. again \in BOOLEAN
  BY DEF retryable
<1>2. failure_label(message) \in {"timeout", "transport_error", "hana_error"}
  BY DEF failure_label, kind
<1>3. failure_label(message) \in Label /\ failure_label(message) # "invalid_spec"
  BY <1>2 DEF Label
<1>4. error_form(c) \in {"downstream", "transport"}
  BY DEF error_form
<1>5. Justified(c, error_form(c), failure_label(message))
  BY <1>3, <1>4 DEF Justified
<1>6. Answer(c, error_form(c), again, failure_label(message))
  BY DEF Fail, Answer
<1>7. error_form(c) \in Form
  BY <1>4 DEF Form
<1> HIDE DEF again
<1> QED BY <1>1, <1>3, <1>5, <1>6, <1>7 DEF JustAnswer

LEMMA SucceedJust ==
    ASSUME NEW c \in Calls, Succeed(c), UNCHANGED wire, pc[c] \in InRunQuery,
           pc[c] = "fetch" \/ wire[c] = "answered"
    PROVE  JustAnswer(c)
<1>1. CASE Answer(c, "rows", FALSE, "ok")
  BY <1>1 DEF JustAnswer, Justified, Form, Label
<1>2. CASE Answer(c, "downstream", retryable(UriMissing), kind(UriMissing))
  <2>1. retryable(UriMissing) = FALSE /\ kind(UriMissing) = "hana_error"
    BY DEF retryable, UriMissing, kind
  <2>2. Answer(c, "downstream", FALSE, "hana_error")
    BY <1>2, <2>1
  <2> QED BY <2>2 DEF JustAnswer, Justified, Form, Label
<1> QED BY <1>1, <1>2 DEF Succeed, Answer

LEMMA PrologueJust ==
    ASSUME NEW c \in Calls, Prologue(c)
    PROVE  JustAnswer(c) \/ Submitted(c)
<1>1. CASE ProfileMissing(c)
  BY <1>1 DEF ProfileMissing, Answer, JustAnswer, Justified, Form, Label
<1>2. CASE BadPayload(c)
  BY <1>2 DEF BadPayload, Answer, CloneProfile, JustAnswer, Justified, Form, Label
<1>3. ASSUME NEW message \in Texts \cup {BindRejected}, ParamFailure(c, message)
      PROVE  JustAnswer(c)
  <2>1. retryable(message) \in BOOLEAN
    BY DEF retryable
  <2> QED BY <1>3, <2>1 DEF ParamFailure, Answer, CloneProfile, JustAnswer, Justified, Form, Label
<1>4. CASE Unconfigured(c)
  BY <1>4 DEF Unconfigured, Answer, CloneProfile, JustAnswer, Justified, Form, Label
<1>5. CASE BadCursor(c)
  BY <1>5 DEF BadCursor, Answer, CloneProfile, JustAnswer, Justified, Form, Label
<1>6. CASE Submit(c)
  <2>1. CASE Found(c).read_only => enforce_read_only(StatementOf(Found(c), op[c]))
    BY <1>6, <2>1 DEF Submit, Submitted
  <2>2. CASE ~ (Found(c).read_only => enforce_read_only(StatementOf(Found(c), op[c])))
    <3>1. Fail(c, {"reject"}) /\ UNCHANGED wire /\ pc[c] = "clone"
      BY <1>6, <2>2 DEF Submit, CloneProfile
    <3> QED BY <3>1, FailJust
  <2> QED BY <2>1, <2>2
<1> QED BY <1>1, <1>2, <1>3, <1>4, <1>5, <1>6 DEF Prologue

LEMMA ProgressJust ==
    ASSUME NEW c \in Calls, Progress(c) \/ Timeout(c)
    PROVE  JustAnswer(c) \/ Acquire(c) \/ Prepared(c) \/ Executed(c)
<1>1. CASE PoolTimeout(c)
  BY <1>1, FailJust DEF PoolTimeout, InRunQuery
<1>2. CASE NoResultSet(c) \/ Fetched(c)
  BY <1>2, SucceedJust DEF NoResultSet, Fetched, InRunQuery
<1>3. ASSUME NEW message,
             PrepareFailed(c, message) \/ ExecuteFailed(c, message) \/ FetchFailed(c, message)
      PROVE  JustAnswer(c)
  BY <1>3, FailJust DEF PrepareFailed, ExecuteFailed, FetchFailed, InRunQuery
<1>4. CASE Timeout(c)
  BY <1>4, FailJust DEF Timeout
<1> QED BY <1>1, <1>2, <1>3, <1>4 DEF Progress

\* Steps of a call between its invocation and its return, other than a run.
HiddenStep(c) ==
    \/ Submitted(c) \/ Acquire(c) \/ Prepared(c) \/ Executed(c)
    \/ ServerRefuses(c) \/ ConnectionLost(c)

\* Steps that no call has a part in.
Elsewhere == UNCHANGED <<pc, wire, ran, reply, label>>

LEMMA CallerKinds ==
    ASSUME [Next]_vars
    PROVE  \/ \E c \in Calls : \/ Start(c) \/ ServerRuns(c) \/ AuditDone(c)
                               \/ JustAnswer(c) \/ HiddenStep(c)
           \/ Elsewhere
<1>1. ASSUME NEW c \in Calls, Prologue(c) PROVE JustAnswer(c) \/ HiddenStep(c)
  BY <1>1, PrologueJust DEF HiddenStep
<1>2. ASSUME NEW c \in Calls, Progress(c) \/ Timeout(c) PROVE JustAnswer(c) \/ HiddenStep(c)
  BY <1>2, ProgressJust DEF HiddenStep
<1>3. ASSUME NEW c \in Calls, Server(c) PROVE ServerRuns(c) \/ HiddenStep(c)
  BY <1>3 DEF Server, HiddenStep
<1>4. ASSUME NEW n \in Names, NEW s \in Specs, Register(n, s) PROVE Elsewhere
  BY <1>4 DEF Register, Elsewhere, observed
<1>5. ASSUME NEW c \in Calls, Replenish(c) PROVE Elsewhere
  BY <1>5 DEF Replenish, Elsewhere, observed
<1>6. ASSUME NEW g \in Gens, ConnectEnds(g) \/ SessionClosed(g) PROVE Elsewhere
  BY <1>6 DEF ConnectEnds, Connected, ConnectFailed, SessionClosed, Elsewhere, observed
<1>7. CASE UNCHANGED vars
  BY <1>7 DEF vars, Elsewhere, observed
<1> QED BY <1>1, <1>2, <1>3, <1>4, <1>5, <1>6, <1>7 DEF Next, Terminated

-----------------------------------------------------------------------------
(* PInv.                                                                   *)

LEMMA InitPInv == Init => PInv
BY DEF Init, PInv, PCall

\* What a step leaves of the calls it is not about.
Others(c) == \A d \in Calls \ {c} : Unseen(d) /\ wire'[d] = wire[d]

LEMMA UnseenP ==
    ASSUME NEW d \in Calls, PCall(d), Unseen(d), wire'[d] = wire[d]
    PROVE  PCall(d)'
BY DEF PCall, Unserved, Unseen

LEMMA AnswerView ==
    ASSUME CallType, NEW c \in Calls,
           NEW form \in Form, NEW again \in BOOLEAN, NEW outcome \in Label,
           Answer(c, form, again, outcome), UNCHANGED wire
    PROVE  /\ reply'[c].form = form /\ ran'[c] = ran[c] /\ pc'[c] \in {"audit", "done"}
           /\ label'[c] = IF op[c] = "execute" THEN outcome ELSE label[c]
           /\ UNCHANGED ran /\ Others(c)
<1>1. /\ reply' = [reply EXCEPT ![c] = [form |-> form, retryable |-> again]]
      /\ UNCHANGED ran /\ Observe(c, outcome)
  BY DEF Answer, Reply
<1>2. /\ reply'[c].form = form
      /\ \A d \in Calls \ {c} : reply'[d] = reply[d]
  BY <1>1 DEF CallType
<1>3. /\ pc'[c] \in {"audit", "done"}
      /\ \A d \in Calls \ {c} : pc'[d] = pc[d]
  BY <1>1 DEF Observe, CallType
<1>4. /\ label'[c] = IF op[c] = "execute" THEN outcome ELSE label[c]
      /\ \A d \in Calls \ {c} : label'[d] = label[d]
  BY <1>1 DEF Observe, CallType, observed
<1> QED BY <1>1, <1>2, <1>3, <1>4 DEF Others, Unseen

LEMMA AnswerP ==
    ASSUME IInv, PInv, NEW c \in Calls, JustAnswer(c)
    PROVE  PInv'
<1>1. PICK form \in Form, again \in BOOLEAN, outcome \in Label :
          Justified(c, form, outcome) /\ Answer(c, form, again, outcome)
  BY DEF JustAnswer
<1>2. UNCHANGED wire /\ pc[c] \in {"clone"} \cup InRunQuery /\ CallType
  BY DEF JustAnswer, IInv, TypeOK
<1>3. /\ reply'[c].form = form /\ ran'[c] = ran[c] /\ pc'[c] \in {"audit", "done"}
      /\ label'[c] = IF op[c] = "execute" THEN outcome ELSE label[c]
      /\ Others(c)
  BY <1>1, <1>2, AnswerView
<1>4. PCall(c) /\ CallShape(c)
  BY DEF PInv, IInv, CallInv
<1>5. label[c] = "none"
  BY <1>2, <1>4 DEF PCall, InRunQuery
<1>6. PCall(c)'
  <2>1. form = "rows" => ran'[c] = 1 /\ label'[c] # "invalid_spec"
    BY <1>1, <1>3, <1>4, <1>5 DEF Justified, PCall
  <2>2. Unserved(c)' => pc[c] = "clone"
    BY <1>1, <1>3, <1>5 DEF Unserved, Justified
  <2>3. Unserved(c)' => wire'[c] = "none"
    BY <2>2, <1>2, <1>4 DEF CallShape
  <2> QED BY <2>1, <2>3, <1>2, <1>3, <1>4 DEF PCall
<1>7. ASSUME NEW d \in Calls, d # c PROVE PCall(d)'
  <2>1. PCall(d) /\ Unseen(d) /\ wire'[d] = wire[d]
    BY <1>2, <1>3, <1>7 DEF PInv, Others
  <2> QED BY <2>1, UnseenP
<1> QED BY <1>6, <1>7 DEF PInv

LEMMA StepPInv == IInv /\ PInv /\ [Next]_vars => PInv'
<1> SUFFICES ASSUME IInv, PInv, [Next]_vars PROVE PInv'
  OBVIOUS
<1>t. CallType
  BY DEF IInv, TypeOK
<1>s. ASSUME NEW c \in Calls, Others(c), PCall(c)' PROVE PInv'
  BY <1>s, UnseenP DEF PInv, Others
<1>1. ASSUME NEW c \in Calls, Start(c) PROVE PInv'
  <2>1. Others(c)
    BY <1>1, <1>t DEF Start, Others, Unseen, CallType, observed
  <2>2. PCall(c)'
    BY <1>1, <1>t DEF Start, PInv, PCall, CallType, observed
  <2> QED BY <2>1, <2>2, <1>s
<1>2. ASSUME NEW c \in Calls, ServerRuns(c) PROVE PInv'
  <2>1. Others(c)
    BY <1>2, <1>t DEF ServerRuns, Others, Unseen, CallType, observed
  <2>2. ran[c] = 0 /\ wire[c] = "sent" /\ PCall(c) /\ CallShape(c)
    BY <1>2 DEF ServerRuns, PInv, IInv, CallInv, CallShape
  <2>3. /\ ran'[c] = 1 /\ wire'[c] = "answered" /\ pc'[c] = pc[c]
        /\ reply'[c] = reply[c] /\ label'[c] = label[c]
    BY <1>2, <2>2, <1>t DEF ServerRuns, CallType, observed
  <2>4. PCall(c)'
    BY <2>2, <2>3 DEF PCall, Unserved
  <2> QED BY <2>1, <2>4, <1>s
<1>3. ASSUME NEW c \in Calls, AuditDone(c) PROVE PInv'
  <2>1. Others(c)
    BY <1>3, <1>t DEF AuditDone, Others, Unseen, CallType
  <2>2. PCall(c)'
    BY <1>3, <1>t DEF AuditDone, PInv, PCall, Unserved, CallType
  <2> QED BY <2>1, <2>2, <1>s
<1>4. ASSUME NEW c \in Calls, JustAnswer(c) PROVE PInv'
  BY <1>4, AnswerP
<1>5. ASSUME NEW c \in Calls, HiddenStep(c) PROVE PInv'
  <2>1. Others(c)
    BY <1>5, <1>t DEF HiddenStep, Submitted, CloneProfile, Acquire, Prepared, Executed,
                      ServerRefuses, ConnectionLost, Others, Unseen, CallType, observed
  <2>2. /\ pc'[c] \in {pc[c], "waiting", "prepare", "execute", "fetch"}
        /\ pc'[c] = "fetch" => pc[c] = "fetch" \/ wire[c] = "answered"
        /\ wire'[c] = "answered" => wire[c] = "answered"
        /\ wire'[c] # "none" => wire[c] # "none" \/ pc'[c] = "execute"
        /\ pc[c] \notin {"audit", "done"} \/ pc'[c] = pc[c]
    BY <1>5, <1>t DEF HiddenStep, Submitted, CloneProfile, Acquire, Prepared, Executed,
                      ServerRefuses, ConnectionLost, CallType
  <2>3. ran'[c] = ran[c] /\ reply'[c] = reply[c] /\ label'[c] = label[c]
    BY <1>5 DEF HiddenStep, Submitted, Acquire, Prepared, Executed,
                ServerRefuses, ConnectionLost, observed
  <2>4. PCall(c)
    BY DEF PInv
  <2>5. PCall(c)'
    BY <2>2, <2>3, <2>4 DEF PCall, Unserved
  <2> QED BY <2>1, <2>5, <1>s
<1>6. CASE Elsewhere
  BY <1>6 DEF Elsewhere, PInv, PCall, Unserved
<1> QED BY <1>1, <1>2, <1>3, <1>4, <1>5, <1>6, CallerKinds

-----------------------------------------------------------------------------
(* The refinement.                                                         *)

StatusMap  == [c \in Calls |-> Status(c)]
OutcomeMap == [c \in Calls |-> Outcome(c)]

\* Others of whose view a step changes nothing.
LEMMA OneViewChanges ==
    ASSUME NEW c \in Calls, Others(c)
    PROVE  /\ StatusMap' = [StatusMap EXCEPT ![c] = Status(c)']
           /\ OutcomeMap' = [OutcomeMap EXCEPT ![c] = Outcome(c)']
<1>1. \A d \in Calls \ {c} : Status(d)' = Status(d) /\ Outcome(d)' = Outcome(d)
  BY UnseenView DEF Others
<1>2. /\ StatusMap' = [d \in Calls |-> Status(d)']
      /\ OutcomeMap' = [d \in Calls |-> Outcome(d)']
  BY DEF StatusMap, OutcomeMap
<1> QED BY <1>1, <1>2 DEF StatusMap, OutcomeMap

\* A step that leaves the outcomes alone.
LEMMA OutcomesStay ==
    ASSUME NEW c \in Calls, Others(c), Outcome(c)' = Outcome(c)
    PROVE  OutcomeMap' = OutcomeMap
<1>1. \A d \in Calls : Outcome(d)' = Outcome(d)
  BY UnseenView DEF Others
<1> QED BY <1>1 DEF OutcomeMap

LEMMA StatusesStay ==
    ASSUME NEW c \in Calls, Others(c), Status(c)' = Status(c)
    PROVE  StatusMap' = StatusMap
<1>1. \A d \in Calls : Status(d)' = Status(d)
  BY UnseenView DEF Others
<1> QED BY <1>1 DEF StatusMap

\* The abstract steps, over the view.
LEMMA ViewInvokes ==
    ASSUME NEW c \in Calls, Status(c) = "idle", UNCHANGED <<OutcomeMap, ran>>,
           StatusMap' = [StatusMap EXCEPT ![c] = "pending"]
    PROVE  Call!Invoke(c)
<1>1. StatusMap[c] = "idle"
  BY DEF StatusMap
<1> QED BY <1>1 DEF Call!Invoke, StatusMap, OutcomeMap, Status, Outcome

LEMMA ViewRuns ==
    ASSUME NEW c \in Calls, Status(c) = "pending" \/ Outcome(c) = "failed", ran[c] = 0,
           ran' = [ran EXCEPT ![c] = 1], UNCHANGED <<StatusMap, OutcomeMap>>
    PROVE  Call!Run(c)
<1>1. StatusMap[c] = "pending" \/ OutcomeMap[c] = "failed"
  BY DEF StatusMap, OutcomeMap
<1> QED BY <1>1 DEF Call!Run, StatusMap, OutcomeMap, Status, Outcome

LEMMA ViewReturns ==
    ASSUME NEW c \in Calls, NEW o, Status(c) = "pending",
           o = "ok" => ran[c] = 1, o = "unserved" => ran[c] = 0,
           StatusMap' = [StatusMap EXCEPT ![c] = "returned"],
           OutcomeMap' = [OutcomeMap EXCEPT ![c] = o], UNCHANGED ran
    PROVE  Call!Return(c, o)
<1>1. StatusMap[c] = "pending"
  BY DEF StatusMap
<1> QED BY <1>1 DEF Call!Return, StatusMap, OutcomeMap, Status, Outcome

LEMMA ViewStays ==
    ASSUME UNCHANGED <<StatusMap, OutcomeMap, ran>>
    PROVE  UNCHANGED Call!vars
BY DEF Call!vars, StatusMap, OutcomeMap, Status, Outcome

LEMMA ViewStarts == Init => Call!Init
<1> SUFFICES ASSUME Init PROVE Call!Init
  OBVIOUS
<1>1. \A c \in Calls : pc[c] = "idle"
  BY DEF Init
<1>2. ASSUME NEW c \in Calls PROVE Status(c) = "idle" /\ Outcome(c) = "none"
  <2>1. pc[c] = "idle" /\ pc[c] # "done"
    BY <1>1
  <2> QED BY <2>1 DEF Status, Outcome
<1>3. StatusMap = [c \in Calls |-> "idle"] /\ OutcomeMap = [c \in Calls |-> "none"]
  BY <1>2 DEF StatusMap, OutcomeMap
<1>4. ran = [c \in Calls |-> 0]
  BY DEF Init
<1> QED BY <1>3, <1>4 DEF Call!Init, StatusMap, OutcomeMap, Status, Outcome

\* The call returns: it is done after the step, and was under way before.
LEMMA Returning ==
    ASSUME IInv, PInv, PInv', NEW c \in Calls, Others(c), UNCHANGED ran,
           pc[c] \notin {"idle", "done"}, pc'[c] = "done", wire'[c] = wire[c]
    PROVE  \E o \in {"ok", "unserved", "failed"} : Call!Return(c, o)
<1>1. PCall(c)' /\ CallShape(c)
  BY DEF PInv, IInv, CallInv
<1>2. reply'[c].form = "rows" => ~ Unserved(c)'
  BY <1>1 DEF PCall, Unserved
<1>3. \E o \in {"ok", "unserved", "failed"} :
          /\ Outcome(c)' = o
          /\ o = "ok" => reply'[c].form = "rows"
          /\ o = "unserved" => Unserved(c)'
  <2>1. CASE reply'[c].form = "rows"
    <3>1. Outcome(c)' = "ok"
      BY <2>1 DEF Outcome
    <3> QED BY <2>1, <3>1
  <2>2. CASE Unserved(c)'
    <3>1. Outcome(c)' = "unserved"
      BY <1>2, <2>2 DEF Outcome, Unserved
    <3> QED BY <2>2, <3>1
  <2>3. CASE reply'[c].form # "rows" /\ ~ Unserved(c)'
    <3>1. Outcome(c)' = "failed"
      BY <2>3 DEF Outcome, Unserved
    <3> QED BY <3>1
  <2> QED BY <2>1, <2>2, <2>3
<1>4. PICK o \in {"ok", "unserved", "failed"} :
          /\ Outcome(c)' = o
          /\ o = "ok" => reply'[c].form = "rows"
          /\ o = "unserved" => Unserved(c)'
  BY <1>3
<1>5. o = "ok" => ran[c] = 1
  BY <1>1, <1>4 DEF PCall
<1>6. o = "unserved" => ran[c] = 0
  <2>1. Unserved(c)' => wire'[c] = "none"
    BY <1>1 DEF PCall
  <2> QED BY <1>1, <1>4, <2>1 DEF CallShape
<1>7. Status(c) = "pending" /\ Status(c)' = "returned"
  BY DEF Status
<1>8. /\ StatusMap' = [StatusMap EXCEPT ![c] = "returned"]
      /\ OutcomeMap' = [OutcomeMap EXCEPT ![c] = o]
  BY <1>4, <1>7, OneViewChanges
<1>9. Call!Return(c, o)
  BY <1>5, <1>6, <1>7, <1>8, ViewReturns
<1> QED BY <1>9

\* A call that is answered is done, or has its audit to wait for.
LEMMA AnswerReturns ==
    ASSUME IInv, PInv, PInv', NEW c \in Calls, JustAnswer(c)
    PROVE  [Call!Next]_Call!vars
<1>1. PICK form \in Form, again \in BOOLEAN, outcome \in Label :
          Justified(c, form, outcome) /\ Answer(c, form, again, outcome)
  BY DEF JustAnswer
<1>2. UNCHANGED wire /\ pc[c] \in {"clone"} \cup InRunQuery /\ CallType
  BY DEF JustAnswer, IInv, TypeOK
<1>3. pc'[c] \in {"audit", "done"} /\ UNCHANGED ran /\ Others(c)
  BY <1>1, <1>2, AnswerView
<1>4. pc[c] \notin {"idle", "done"}
  BY <1>2 DEF InRunQuery
<1>5. CASE pc'[c] = "done"
  BY <1>2, <1>3, <1>4, <1>5, Returning DEF Call!Next
<1>6. CASE pc'[c] = "audit"
  <2>1. Status(c)' = Status(c) /\ Outcome(c)' = Outcome(c)
    BY <1>4, <1>6 DEF Status, Outcome
  <2> QED BY <1>3, <2>1, StatusesStay, OutcomesStay, ViewStays
<1> QED BY <1>3, <1>5, <1>6

LEMMA StepKept == IInv /\ PInv /\ [Next]_vars => [Call!Next]_Call!vars
<1> SUFFICES ASSUME IInv, PInv, [Next]_vars PROVE [Call!Next]_Call!vars
  OBVIOUS
<1>p. PInv'
  BY StepPInv
<1>t. CallType
  BY DEF IInv, TypeOK
<1>1. ASSUME NEW c \in Calls, Start(c) PROVE Call!Next
  <2>1. Others(c) /\ UNCHANGED ran
    BY <1>1, <1>t DEF Start, Others, Unseen, CallType, observed
  <2>2. pc[c] = "idle" /\ pc'[c] = "clone"
    BY <1>1, <1>t DEF Start, CallType
  <2>3. Status(c) = "idle" /\ Status(c)' = "pending" /\ Outcome(c)' = Outcome(c)
    BY <2>2 DEF Status, Outcome
  <2>4. StatusMap' = [StatusMap EXCEPT ![c] = "pending"] /\ OutcomeMap' = OutcomeMap
    BY <2>1, <2>3, OneViewChanges, OutcomesStay
  <2>5. Call!Invoke(c)
    BY <2>1, <2>3, <2>4, ViewInvokes
  <2> QED BY <2>5 DEF Call!Next
<1>2. ASSUME NEW c \in Calls, ServerRuns(c) PROVE Call!Next
  <2>1. wire[c] = "sent" /\ ran[c] = 0 /\ PCall(c) /\ CallShape(c)
    BY <1>2 DEF ServerRuns, PInv, IInv, CallInv, CallShape
  <2>2. ran' = [ran EXCEPT ![c] = 1] /\ UNCHANGED <<pc, reply, label>>
    BY <1>2, <2>1, <1>t DEF ServerRuns, CallType, observed
  <2>3. UNCHANGED <<StatusMap, OutcomeMap>>
    BY <2>2 DEF StatusMap, OutcomeMap, Status, Outcome
  <2>4. Status(c) = "pending" \/ Outcome(c) = "failed"
    <3>1. pc[c] # "idle"
      BY <2>1 DEF CallShape
    <3>2. CASE pc[c] = "done"
      <4>1. reply[c].form # "rows" /\ ~ Unserved(c)
        BY <2>1, <3>2 DEF PCall
      <4> QED BY <3>2, <4>1 DEF Outcome, Unserved
    <3>3. CASE pc[c] # "done"
      BY <3>1, <3>3 DEF Status
    <3> QED BY <3>2, <3>3
  <2>5. Call!Run(c)
    BY <2>1, <2>2, <2>3, <2>4, ViewRuns
  <2> QED BY <2>5 DEF Call!Next
<1>3. ASSUME NEW c \in Calls, AuditDone(c) PROVE Call!Next
  <2>1. Others(c) /\ UNCHANGED <<ran, wire>>
    BY <1>3, <1>t DEF AuditDone, Others, Unseen, CallType
  <2>2. pc[c] \notin {"idle", "done"} /\ pc'[c] = "done"
    BY <1>3, <1>t DEF AuditDone, CallType
  <2> QED BY <1>p, <2>1, <2>2, Returning DEF Call!Next
<1>4. ASSUME NEW c \in Calls, JustAnswer(c) PROVE [Call!Next]_Call!vars
  BY <1>p, <1>4, AnswerReturns
<1>5. ASSUME NEW c \in Calls, HiddenStep(c) PROVE UNCHANGED Call!vars
  <2>1. Others(c) /\ UNCHANGED <<ran, reply, label>>
    BY <1>5, <1>t DEF HiddenStep, Submitted, CloneProfile, Acquire, Prepared, Executed,
                      ServerRefuses, ConnectionLost, Others, Unseen, CallType, observed
  <2>2. pc'[c] = pc[c] \/ {pc[c], pc'[c]} \cap {"idle", "done"} = {}
    BY <1>5, <1>t DEF HiddenStep, Submitted, CloneProfile, Acquire, Prepared, Executed,
                      ServerRefuses, ConnectionLost, CallType
  <2>3. Status(c)' = Status(c) /\ Outcome(c)' = Outcome(c)
    BY <2>1, <2>2 DEF Status, Outcome
  <2> QED BY <2>1, <2>3, StatusesStay, OutcomesStay, ViewStays
<1>6. CASE Elsewhere
  <2>1. UNCHANGED <<StatusMap, OutcomeMap, ran>>
    BY <1>6 DEF Elsewhere, StatusMap, OutcomeMap, Status, Outcome
  <2> QED BY <2>1, ViewStays
<1> QED BY <1>1, <1>2, <1>3, <1>4, <1>5, <1>6, CallerKinds

\* What every call shows its caller is a behaviour of HanaCall: rows come from a statement
\* that ran, once; a call that was not served never touches the database, and one that
\* failed at most once, perhaps after its reply.
THEOREM BackendKeepsPromise == Spec => CallPromise
<1>1. Init => IInv /\ PInv /\ Call!Init
  BY InitIInv, InitPInv, ViewStarts
<1>2. IInv /\ PInv /\ [Next]_vars => IInv' /\ PInv' /\ [Call!Next]_Call!vars
  BY StepIInv, StepPInv, StepKept
<1> QED BY <1>1, <1>2, PTL DEF Spec, CallPromise, Call!Spec
=============================================================================
