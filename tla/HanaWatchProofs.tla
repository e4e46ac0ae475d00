-------------------------- MODULE HanaWatchProofs --------------------------
(***************************************************************************)
(* A watcher emits no event without a change, keeps its pool in count and  *)
(* sends nothing but reads, for any scalars, specs and pool size.          *)
(***************************************************************************)
EXTENDS HanaWatch, TLAPS

\* The pool has room for one session at least.
LEMMA MaxSize == TypeOK => max_size(spec) \in Nat \ {0}
BY WatchSpecsTyped DEF TypeOK, WatchSpec, max_size

\* The end of a tick, whatever its outcome, leaves the pool in count.
LEMMA EndTickPool ==
    ASSUME TypeOK, PoolAccounted, EndTick
    PROVE  /\ PoolAccounted'
           /\ idle' \in Nat /\ sessions' \in Nat /\ pending' \in Nat
<1>1. PICK kept \in BOOLEAN : GiveUp(kept)
  BY DEF EndTick
<1>2. pc' \notin Holding /\ UNCHANGED <<pending, spec>>
  BY DEF EndTick, Holding
<1>3. /\ idle \in Nat /\ sessions \in Nat /\ pending \in Nat /\ max_size(spec) \in Nat
      /\ sessions + pending <= max_size(spec)
  BY MaxSize DEF TypeOK, PoolAccounted
<1>4. sessions' = idle' /\ idle' \in Nat /\ sessions' <= sessions
  <2>1. CASE pc \in Holding
    BY <1>1, <1>3, <2>1 DEF GiveUp, PoolAccounted
  <2>2. CASE pc \notin Holding
    BY <1>1, <1>3, <2>2 DEF GiveUp, PoolAccounted
  <2> QED BY <2>1, <2>2
<1>5. idle' \in Nat /\ sessions' \in Nat /\ pending' = pending
  BY <1>2, <1>4
<1>6. sessions' + pending <= max_size(spec)
  BY <1>3, <1>4, <1>5
<1>7. sessions' + pending' <= max_size(spec')
  BY <1>2, <1>5, <1>6
<1> QED BY <1>2, <1>3, <1>4, <1>5, <1>7 DEF PoolAccounted

\* A tick that ends in an error keeps the invariant.
LEMMA ErrInv == IInv /\ pc \in InTick /\ Err => IInv'
<1> SUFFICES ASSUME IInv, pc \in InTick, Err PROVE IInv'
  OBVIOUS
<1>1. EndTick /\ UNCHANGED told
  BY DEF Err
<1>2. PoolAccounted' /\ idle' \in Nat /\ sessions' \in Nat /\ pending' \in Nat
  BY <1>1, EndTickPool DEF IInv
<1>3. /\ pc' = "asleep" /\ wire' = "none" /\ answer' = NoAnswer /\ orphan' \in BOOLEAN
      /\ UNCHANGED <<spec, stop, value, last, version, baseline, seen, emitted, late>>
  BY <1>1 DEF EndTick, table, told
<1>4. TypeOK'
  BY <1>2, <1>3 DEF IInv, TypeOK, NoAnswer, Raw
<1>5. Dated'
  BY <1>3 DEF IInv, Dated, TypeOK, NoAnswer
<1>6. Guarded'
  BY <1>3 DEF IInv, Guarded, Watchable, InTick
<1> QED BY <1>2, <1>3, <1>4, <1>5, <1>6 DEF IInv, OneLateEvent

\* An answered tick: what it reads is no older than the baseline, and of a later
\* version if it differs.
LEMMA AnsweredInv == IInv /\ Answered => IInv'
<1> SUFFICES ASSUME IInv, Answered PROVE IInv'
  OBVIOUS
<1> DEFINE scalar == cursor_from_outcome(answer.raw)
<1>1. EndTick /\ pc = "execute" /\ wire = "answered"
  BY DEF Answered
<1>2. PoolAccounted' /\ idle' \in Nat /\ sessions' \in Nat /\ pending' \in Nat
  BY <1>1, EndTickPool DEF IInv
<1>3. /\ pc' = "asleep" /\ wire' = "none" /\ answer' = NoAnswer /\ orphan' \in BOOLEAN
      /\ UNCHANGED <<spec, stop, value, last, version>>
  BY <1>1 DEF EndTick, table
<1>t. /\ TypeOK /\ answer.raw \in Raw /\ answer.version \in Nat
      /\ seen \in Nat /\ emitted \in Nat /\ late \in Nat /\ version \in Nat
  BY DEF IInv, TypeOK
<1>4. CASE answer.raw \notin Values
  <2>1. scalar = "none"
    BY <1>4 DEF cursor_from_outcome
  <2>2. UNCHANGED <<baseline, seen, emitted, late>>
    BY <2>1 DEF Answered, news
  <2>3. TypeOK'
    BY <1>2, <1>3, <1>t, <2>2 DEF TypeOK, NoAnswer, Raw
  <2>4. Dated'
    BY <1>3, <1>t, <2>2 DEF IInv, Dated, NoAnswer, TypeOK
  <2>5. Guarded' /\ OneLateEvent'
    BY <1>1, <1>3, <2>2 DEF IInv, Guarded, Watchable, InTick, OneLateEvent
  <2> QED BY <1>2, <2>3, <2>4, <2>5 DEF IInv
<1>5. CASE answer.raw \in Values
  <2>1. scalar = answer.raw /\ scalar # "none"
    BY <1>5, ScalarsReal DEF cursor_from_outcome
  <2>2. /\ baseline' = answer.raw /\ seen' = answer.version
        /\ emitted' = IF news(answer.raw) THEN emitted + 1 ELSE emitted
        /\ late' = IF news(answer.raw) /\ stop THEN late + 1 ELSE late
    BY <2>1 DEF Answered
  <2>3. TypeOK'
    BY <1>2, <1>3, <1>5, <1>t, <2>2 DEF TypeOK, NoAnswer, Raw, Scalar
  <2>4. Dated'
    <3>1. /\ answer.version >= 1 /\ answer.version <= version /\ seen <= answer.version
          /\ answer.version = version => answer.raw = last
          /\ baseline # "none" /\ seen = answer.version => baseline = answer.raw
      BY <1>1, <1>5 DEF IInv, Dated
    <3>2. /\ baseline = "none" => emitted = 0
          /\ baseline # "none" => emitted < seen
      BY DEF IInv, Dated
    <3>3. emitted' < seen'
      <4>1. CASE news(answer.raw)
        <5>1. seen < answer.version /\ emitted < seen
          BY <1>t, <3>1, <3>2, <4>1 DEF news
        <5> QED BY <1>t, <2>2, <4>1, <5>1
      <4>2. CASE ~ news(answer.raw)
        BY <1>t, <2>2, <3>1, <3>2, <4>2
      <4> QED BY <4>1, <4>2
    <3>4. baseline' # "none"
      BY <1>5, <2>2, ScalarsReal
    <3> QED BY <1>3, <1>t, <2>2, <3>1, <3>3, <3>4 DEF IInv, Dated, NoAnswer
  <2>5. Guarded' /\ OneLateEvent'
    <3>1. late = 0
      BY <1>1 DEF IInv, Guarded, InTick
    <3>2. late' <= 1 /\ (~ stop' => late' = 0)
      BY <1>3, <2>2, <3>1
    <3> QED BY <1>1, <1>3, <3>2 DEF IInv, Guarded, Watchable, InTick, OneLateEvent
  <2> QED BY <1>2, <2>3, <2>4, <2>5 DEF IInv
<1> QED BY <1>4, <1>5

\* Steps that only move the tick, the pool or the watcher as a whole.
LEMMA PlainInv ==
    ASSUME IInv,
           \/ watch \/ cancel \/ Stop \/ Tick
           \/ Replenish \/ Connected \/ ConnectFailed \/ SessionClosed \/ Acquire \/ Prepared
    PROVE  IInv'
<1>u. UNCHANGED <<spec, answer, baseline, seen, emitted, late, value, last, version, orphan>>
  BY DEF watch, cancel, Stop, Tick, Replenish, Connected, ConnectFailed, SessionClosed,
         Acquire, Prepared, pool, reading, told, table
<1>t. /\ idle \in Nat /\ pending \in Nat /\ sessions \in Nat /\ max_size(spec) \in Nat \ {0}
      /\ sessions = IF pc \in Holding THEN idle + 1 ELSE idle
      /\ sessions + pending <= max_size(spec)
  BY MaxSize DEF IInv, TypeOK, PoolAccounted
<1>1. PoolAccounted' /\ idle' \in Nat /\ pending' \in Nat /\ sessions' \in Nat
  <2>1. CASE watch \/ cancel \/ Tick \/ Prepared
    BY <1>u, <1>t, <2>1 DEF watch, cancel, Tick, Prepared, pool, PoolAccounted, Holding
  <2>2. CASE Stop
    BY <1>u, <1>t, <2>2 DEF Stop, PoolAccounted, Holding
  <2>3. CASE Replenish
    BY <1>u, <1>t, <2>3 DEF Replenish, PoolAccounted, Holding
  <2>4. CASE Connected
    BY <1>u, <1>t, <2>4 DEF Connected, PoolAccounted, Holding
  <2>5. CASE ConnectFailed
    BY <1>u, <1>t, <2>5 DEF ConnectFailed, PoolAccounted, Holding
  <2>6. CASE SessionClosed
    BY <1>u, <1>t, <2>6 DEF SessionClosed, PoolAccounted, Holding
  <2>7. CASE Acquire
    BY <1>u, <1>t, <2>7 DEF Acquire, PoolAccounted, Holding
  <2> QED BY <2>1, <2>2, <2>3, <2>4, <2>5, <2>6, <2>7
<1>2. /\ wire' \in {wire, "sent"} /\ stop' \in BOOLEAN
      /\ pc' \in {"new", "refused", "asleep", "gone"} \cup InTick
  BY DEF watch, cancel, Stop, Tick, Replenish, Connected, ConnectFailed, SessionClosed,
         Acquire, Prepared, reading, IInv, TypeOK, InTick
<1>3. TypeOK'
  BY <1>u, <1>1, <1>2 DEF IInv, TypeOK
<1>4. Dated'
  BY <1>u, <1>2 DEF IInv, Dated
<1>5. Guarded'
  <2>1. CASE watch
    BY <1>u, <2>1 DEF watch, reading, IInv, Guarded, Watchable, InTick
  <2>2. CASE cancel
    BY <1>u, <2>2 DEF cancel, reading, IInv, Guarded, Watchable, InTick
  <2>3. CASE Stop \/ Tick
    BY <1>u, <2>3 DEF Stop, Tick, reading, IInv, Guarded, Watchable, InTick
  <2>4. CASE Replenish \/ Connected \/ ConnectFailed \/ SessionClosed
    BY <1>u, <2>4 DEF Replenish, Connected, ConnectFailed, SessionClosed, reading,
                      IInv, Guarded, Watchable, InTick
  <2>5. CASE Acquire \/ Prepared
    BY <1>u, <2>5 DEF Acquire, Prepared, reading, IInv, Guarded, Watchable, InTick
  <2> QED BY <2>1, <2>2, <2>3, <2>4, <2>5
<1> QED BY <1>u, <1>1, <1>3, <1>4, <1>5 DEF IInv, OneLateEvent

\* Steps of the server and of the table.
LEMMA WorldInv ==
    ASSUME IInv, Server \/ \E raw \in Raw : Change(raw)
    PROVE  IInv'
<1>u. /\ UNCHANGED <<spec, pc, stop, idle, pending, sessions, baseline, seen, emitted, late>>
      /\ wire # "sent" => wire' = wire /\ answer' = answer
  BY DEF Server, ServerReads, ServerFails, OrphanEnds, Change, pool, told, reading, table
<1>1. PoolAccounted' /\ OneLateEvent'
  BY <1>u DEF IInv, PoolAccounted, OneLateEvent
<1>2. Guarded'
  BY <1>u DEF Server, ServerReads, ServerFails, OrphanEnds, Change, reading,
              IInv, Guarded, Watchable
<1>t. /\ version \in Nat /\ seen \in Nat /\ emitted \in Nat /\ answer.version \in Nat
      /\ value \in Raw /\ last \in Scalar
  BY DEF IInv, TypeOK
<1>3. CASE ServerReads
  <2>1. /\ answer' = [raw |-> value, version |-> version] /\ wire' = "answered"
        /\ UNCHANGED <<value, last, version, orphan>>
    BY <1>3 DEF ServerReads, table
  <2>2. TypeOK'
    BY <1>u, <2>1 DEF IInv, TypeOK
  <2>3. Dated'
    <3>1. value \in Values => value = last /\ last # "none" /\ version >= 1
      BY <1>t, ScalarsReal DEF IInv, Dated
    <3>2. answer'.raw = value /\ answer'.version = version
      BY <2>1
    <3>3. baseline # "none" => seen <= version /\ (seen = version => baseline = last)
      BY DEF IInv, Dated
    <3>4. baseline = "none" => seen = 0
      BY DEF IInv, Dated
    <3> QED BY <1>u, <1>t, <2>1, <3>1, <3>2, <3>3, <3>4 DEF IInv, Dated
  <2> QED BY <1>1, <1>2, <2>2, <2>3 DEF IInv
<1>4. CASE ServerFails \/ OrphanEnds
  <2>1. /\ UNCHANGED <<answer, value, last, version>> /\ orphan' \in BOOLEAN
        /\ wire' \in {wire, "failed"}
    BY <1>4 DEF ServerFails, OrphanEnds, reading, table, IInv, TypeOK
  <2>2. TypeOK'
    BY <1>u, <2>1 DEF IInv, TypeOK
  <2>3. Dated'
    BY <1>u, <2>1 DEF IInv, Dated
  <2> QED BY <1>1, <1>2, <2>2, <2>3 DEF IInv
<1>5. ASSUME NEW raw \in Raw, Change(raw) PROVE IInv'
  <2>1. UNCHANGED <<answer, wire, orphan>> /\ value' = raw
    BY <1>5 DEF Change, reading
  <2>2. CASE raw \in Values \ {last}
    <3>1. version' = version + 1 /\ last' = raw /\ raw # "none"
      BY <1>5, <2>2, ScalarsReal DEF Change
    <3>2. TypeOK'
      BY <1>u, <1>t, <2>1, <2>2, <3>1 DEF IInv, TypeOK, Scalar
    <3>3. Dated'
      <4>1. version' # 0 /\ last' # "none" /\ value' = last'
        BY <1>t, <2>1, <3>1
      <4>2. baseline # "none" => emitted < seen /\ seen < version'
        BY <1>t, <3>1 DEF IInv, Dated
      <4>3. answer.version < version'
        BY <1>t, <3>1 DEF IInv, Dated
      <4>4. answer'.version <= version'
        BY <1>t, <2>1, <3>1 DEF IInv, Dated
      <4>5. answer'.version # version'
        BY <1>t, <2>1, <4>3, <3>1
      <4>6. wire' = "answered" /\ answer'.raw \in Values =>
               /\ answer'.version >= 1 /\ seen' <= answer'.version
               /\ baseline' # "none" /\ seen' = answer'.version => baseline' = answer'.raw
        BY <1>u, <2>1 DEF IInv, Dated
      <4>7. baseline' = "none" => seen' = 0 /\ emitted' = 0
        BY <1>u DEF IInv, Dated
      <4>8. baseline' # "none" => emitted' < seen' /\ seen' <= version' /\ seen' # version'
        BY <1>u, <1>t, <3>1, <4>2
      <4> QED BY <4>1, <4>4, <4>5, <4>6, <4>7, <4>8 DEF Dated
    <3> QED BY <1>1, <1>2, <3>2, <3>3 DEF IInv
  <2>3. CASE raw \notin Values \ {last}
    <3>1. version' = version /\ last' = last /\ (raw \in Values => raw = last)
      BY <1>5, <2>3 DEF Change
    <3>2. TypeOK'
      BY <1>u, <2>1, <3>1 DEF IInv, TypeOK
    <3>3. Dated'
      BY <1>u, <2>1, <3>1 DEF IInv, Dated
    <3> QED BY <1>1, <1>2, <3>2, <3>3 DEF IInv
  <2> QED BY <2>2, <2>3
<1> QED BY <1>3, <1>4, <1>5 DEF Server

LEMMA InitInv == Init => IInv
<1> SUFFICES ASSUME Init PROVE IInv
  OBVIOUS
<1>1. TypeOK
  <2>1. answer \in [raw : Raw, version : Nat]
    BY DEF Init, NoAnswer, Raw
  <2>2. last \in Scalar /\ version \in Nat
    BY DEF Init, Scalar
  <2> QED BY <2>1, <2>2 DEF Init, TypeOK, Scalar
<1>2. PoolAccounted
  BY <1>1, MaxSize DEF Init, PoolAccounted, Holding
<1>3. Dated
  BY ScalarsReal DEF Init, Dated, NoAnswer
<1>4. Guarded /\ OneLateEvent
  BY DEF Init, Guarded, OneLateEvent, InTick
<1> QED BY <1>1, <1>2, <1>3, <1>4 DEF IInv

LEMMA StepInv == IInv /\ [Next]_vars => IInv'
<1> SUFFICES ASSUME IInv, [Next]_vars PROVE IInv'
  OBVIOUS
<1>1. CASE \/ watch \/ cancel \/ Stop \/ Tick
           \/ Replenish \/ Connected \/ ConnectFailed \/ SessionClosed \/ Acquire \/ Prepared
  BY <1>1, PlainInv
<1>2. CASE Failed \/ Expired
  <2>1. pc \in InTick /\ Err
    BY <1>2 DEF Failed, Expired, Timed, InTick
  <2> QED BY <2>1, ErrInv
<1>3. CASE Answered
  BY <1>3, AnsweredInv
<1>4. CASE Server \/ \E raw \in Raw : Change(raw)
  BY <1>4, WorldInv
<1>5. CASE UNCHANGED vars
  BY <1>5 DEF vars, pool, reading, told, table, IInv, TypeOK, PoolAccounted, Dated, Guarded,
              OneLateEvent, Watchable
<1> QED BY <1>1, <1>2, <1>3, <1>4, <1>5 DEF Next, Ended

\* The inductive invariant of a watcher.
THEOREM WatchInvariant == Spec => []IInv
BY InitInv, StepInv, PTL DEF Spec

\* README, Change-watching: a watcher never fires spuriously.
THEOREM WatchNeverSpurious == Spec => []NoSpuriousEvent
<1>1. IInv => NoSpuriousEvent
  <2> SUFFICES ASSUME IInv, emitted > 0 PROVE emitted < version
    BY DEF NoSpuriousEvent
  <2>1. emitted \in Nat /\ seen \in Nat /\ version \in Nat
    BY DEF IInv, TypeOK
  <2>2. emitted < seen /\ seen <= version
    BY <2>1 DEF IInv, Dated
  <2> QED BY <2>1, <2>2
<1> QED BY <1>1, WatchInvariant, PTL

\* After `cancel` no more than the event of the tick under way.
THEOREM WatchCancelled == Spec => []OneLateEvent
<1>1. IInv => OneLateEvent
  BY DEF IInv
<1> QED BY <1>1, WatchInvariant, PTL

\* The watcher's pool keeps count of its sessions and within its size.
THEOREM WatchPool == Spec => []PoolAccounted
<1>1. IInv => PoolAccounted
  BY DEF IInv
<1> QED BY <1>1, WatchInvariant, PTL

\* A watcher never changes data.
THEOREM WatchReadsOnly == Spec => []WatchNeverWrites
<1>1. IInv => WatchNeverWrites
  BY DEF IInv, Guarded, WatchNeverWrites, Watchable, enforce_read_only, Mutating
<1> QED BY <1>1, WatchInvariant, PTL
=============================================================================
