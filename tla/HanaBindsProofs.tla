-------------------------- MODULE HanaBindsProofs ---------------------------
(***************************************************************************)
(* What the placeholders of a statement are given, for any params, any     *)
(* arguments and words of any size.                                        *)
(***************************************************************************)
EXTENDS HanaBinds, TLAPS

-----------------------------------------------------------------------------
(* Conversions.                                                            *)

\* Division leaves a remainder smaller than what it divides by.
LEMMA Remainder ==
    ASSUME NEW n \in Nat
    PROVE  \E q, r \in Nat : /\ n \div Ulp = q /\ n % Ulp = r
                            /\ n = q * Ulp + r /\ r < Ulp
<1>1. Ulp \in Nat /\ Ulp > 0
  BY WordsTyped
<1> DEFINE q == n \div Ulp  r == n % Ulp
<1>2. q \in Nat /\ r \in Nat /\ r < Ulp
  BY <1>1
<1>3. r = n - q * Ulp
  BY <1>1
<1>4. q = n \div Ulp /\ r = n % Ulp
  OBVIOUS
<1> HIDE DEF q, r
<1>5. n = q * Ulp + r
  BY <1>1, <1>2, <1>3
<1> QED BY <1>2, <1>4, <1>5, Zenon

\* What lies between two multiples lies no nearer to a third.
LEMMA NearestMultiple ==
    ASSUME NEW n \in Nat, NEW q \in Nat, NEW r \in Nat, n = q * Ulp + r, r < Ulp,
           NEW p \in Nat
    PROVE  /\ 2 * r <= Ulp => Distance(q * Ulp, n) <= Distance(p * Ulp, n)
           /\ 2 * r >= Ulp => Distance((q + 1) * Ulp, n) <= Distance(p * Ulp, n)
<1>1. Ulp \in Nat \ {0}
  BY WordsTyped
<1>2. (q + 1) * Ulp = q * Ulp + Ulp
  BY <1>1
<1>3. q * Ulp \in Nat /\ p * Ulp \in Nat
  BY <1>1
<1>4. CASE p <= q
  <2>1. p * Ulp <= q * Ulp
    BY <1>1, <1>4
  <2> QED BY <1>1, <1>2, <1>3, <2>1 DEF Distance
<1>5. CASE p >= q + 1
  <2>1. (q + 1) * Ulp <= p * Ulp
    BY <1>1, <1>5
  <2> QED BY <1>1, <1>2, <1>3, <2>1 DEF Distance
<1> QED BY <1>4, <1>5

\* as_f64 gives the nearest of the doubles.
LEMMA NearestDouble ==
    ASSUME NEW n \in U64
    PROVE  /\ as_f64(n) \in Doubles
           /\ \A d \in Doubles : Distance(as_f64(n), n) <= Distance(d, n)
<1>1. n \in Nat /\ n < 2 * Half /\ Ulp \in Nat \ {0} /\ Half \in Nat
  BY WordsTyped DEF U64
<1>2. PICK q, r \in Nat : /\ n \div Ulp = q /\ n % Ulp = r
                         /\ n = q * Ulp + r /\ r < Ulp
  BY <1>1, Remainder
<1>3. \/ as_f64(n) = q * Ulp /\ 2 * r <= Ulp
      \/ as_f64(n) = (q + 1) * Ulp /\ 2 * r >= Ulp
  <2>1. as_f64(n) = IF 2 * r < Ulp \/ (2 * r = Ulp /\ q % 2 = 0) THEN q * Ulp ELSE (q + 1) * Ulp
    BY <1>2, Zenon DEF as_f64
  <2> QED BY <1>1, <1>2, <2>1
<1>4. q + 1 \in 0 .. 2 * Half /\ q \in 0 .. 2 * Half
  <2>1. q * 1 <= q * Ulp
    BY <1>1, <1>2
  <2>2. q * Ulp <= n /\ q * Ulp \in Nat
    BY <1>1, <1>2
  <2> QED BY <1>1, <1>2, <2>1, <2>2
<1>5. as_f64(n) \in Doubles
  BY <1>3, <1>4 DEF Doubles
<1>6. ASSUME NEW d \in Doubles PROVE Distance(as_f64(n), n) <= Distance(d, n)
  <2>1. PICK p \in 0 .. 2 * Half : d = p * Ulp
    BY DEF Doubles
  <2>2. p \in Nat
    BY <1>1
  <2> QED BY <1>1, <1>2, <1>3, <2>1, <2>2, NearestMultiple
<1> QED BY <1>5, <1>6
-----------------------------------------------------------------------------
(* One param.                                                              *)

\* Why the lowering of a param's value may fail.
Refused(p) ==
    LET v == arguments[p.name] IN
    \/ v \in {Missing, Plain("list")}
    \/ p.does = "times" /\ (v.type # "int" \/ 2 * v.num \notin I64)
    \/ p.does = "ratio" /\ v.type # "fraction"

lowered(p) == json_to_hana_bind(evaluate(p))

ArgumentsTyped == arguments \in [ArgNames -> Json \cup {Missing}]

\* The values that are neither integers nor errors.
Other == {"null", "bool", "string", "fraction"}

LEMMA ArgumentKinds ==
    ASSUME ArgumentsTyped, NEW n \in ArgNames
    PROVE  \/ arguments[n] = Missing
           \/ arguments[n] = Plain("list")
           \/ \E t \in Other : arguments[n] = Plain(t)
           \/ \E i \in I64 \cup U64 : arguments[n] = Val("int", i)
BY NumbersTyped DEF ArgumentsTyped, Json, Other

\* A param is lowered to what it means, unless it is refused.
LEMMA Lowered ==
    ASSUME ArgumentsTyped, NEW p \in Expr
    PROVE  /\ lowered(p) = Error <=> Refused(p)
           /\ evaluate(p) = Error => lowered(p) = Error
           /\ lowered(p) # Error => Denotes(lowered(p), Meaning(p))
<1> DEFINE v == arguments[p.name]
<1>1. p.name \in ArgNames /\ p.does \in {"is", "times", "ratio"}
  BY DEF Expr
<1>e. Half \in Nat \ {0}
  BY WordsTyped
<1>2. evaluate(p) = Error => lowered(p) = Error
  BY DEF lowered, json_to_hana_bind, Error, Plain, Val
<1>3. CASE v = Missing
  <2>1. evaluate(p) = Error
    BY <1>3 DEF evaluate, json_to_cel, execute, cel_to_json, Missing, Error, Plain, Val
  <2> QED BY <1>2, <1>3, <2>1 DEF Refused
<1>4. ASSUME NEW t \in Other \cup {"list"}, v = Plain(t)
      PROVE  /\ lowered(p) = Error <=> Refused(p)
             /\ lowered(p) # Error => Denotes(lowered(p), Meaning(p))
  <2>1. json_to_cel(v) = v /\ v # Missing /\ v # Error /\ v.type = t
    BY <1>4 DEF json_to_cel, Missing, Error, Plain, Val, Other
  <2>2. CASE p.does = "is"
    <3>1. evaluate(p) = v
      BY <1>4, <2>1, <2>2 DEF evaluate, execute, cel_to_json, Other
    <3>2. lowered(p) = IF t = "list" THEN Error ELSE v
      BY <2>1, <3>1 DEF lowered, json_to_hana_bind, Other
    <3>3. Refused(p) <=> t = "list"
      BY <1>4, <2>1, <2>2 DEF Refused, Plain, Val
    <3>4. t # "list" => Denotes(v, Meaning(p))
      BY <2>1, <2>2 DEF Denotes, Meaning, Other
    <3> QED BY <2>1, <3>2, <3>3, <3>4
  <2>3. CASE p.does = "times"
    <3>1. evaluate(p) = Error
      BY <2>1, <2>3 DEF evaluate, execute, cel_to_json, Other, Error, Plain, Val
    <3>2. Refused(p)
      BY <2>1, <2>3 DEF Refused, Other
    <3> QED BY <1>2, <3>1, <3>2
  <2>4. CASE p.does = "ratio"
    <3>1. CASE t = "fraction"
      <4>1. evaluate(p) = Plain("null")
        BY <2>1, <2>4, <3>1 DEF evaluate, execute, cel_to_json, Plain, Val
      <4>2. lowered(p) = Plain("null") /\ lowered(p) # Error
        BY <4>1 DEF lowered, json_to_hana_bind, Error, Plain, Val
      <4>3. ~ Refused(p)
        BY <1>4, <2>1, <2>4, <3>1 DEF Refused, Missing, Plain, Val
      <4>4. Denotes(Plain("null"), Meaning(p))
        BY <2>4 DEF Denotes, Meaning, Plain, Val
      <4> QED BY <4>2, <4>3, <4>4
    <3>2. CASE t # "fraction"
      <4>1. evaluate(p) = Error
        BY <2>1, <2>4, <3>2 DEF evaluate, execute, cel_to_json, Error, Plain, Val
      <4>2. Refused(p)
        BY <2>1, <2>4, <3>2 DEF Refused
      <4> QED BY <1>2, <4>1, <4>2
    <3> QED BY <3>1, <3>2
  <2> QED BY <1>1, <2>2, <2>3, <2>4
<1>5. ASSUME NEW i \in I64 \cup U64, v = Val("int", i)
      PROVE  /\ lowered(p) = Error <=> Refused(p)
             /\ lowered(p) # Error => Denotes(lowered(p), Meaning(p))
  <2>1. v.type = "int" /\ v.num = i /\ v # Missing /\ v # Plain("list") /\ i \in Int
    BY <1>5, <1>e DEF Missing, Plain, Val, I64, U64
  <2>2. json_to_cel(v) = IF i \in I64 THEN v ELSE Val("uint", i)
    BY <2>1 DEF json_to_cel
  <2>3. CASE p.does = "is"
    <3>1. evaluate(p) = v
      BY <1>5, <2>1, <2>2, <2>3 DEF evaluate, execute, cel_to_json, Missing, Plain, Val
    <3>2. ~ Refused(p) /\ Meaning(p) = v
      BY <2>1, <2>3 DEF Refused, Meaning
    <3>3. CASE i \in I64
      <4>1. lowered(p) = v
        BY <2>1, <3>1, <3>3 DEF lowered, json_to_hana_bind
      <4>2. v # Error /\ Denotes(v, v)
        BY <2>1, <3>3 DEF Denotes, Error, Plain, Val
      <4> QED BY <3>2, <4>1, <4>2
    <3>4. CASE i \notin I64
      <4>1. lowered(p) = Val("double", as_f64(i))
        BY <2>1, <3>1, <3>4 DEF lowered, json_to_hana_bind
      <4>2. /\ lowered(p).type = "double" /\ lowered(p).num = as_f64(i)
            /\ lowered(p) # Error
        BY <4>1 DEF Val, Error, Plain
      <4>3. /\ as_f64(i) \in Doubles
            /\ \A d \in Doubles : Distance(as_f64(i), i) <= Distance(d, i)
        BY <3>4, NearestDouble
      <4>4. Denotes(lowered(p), v)
        BY <2>1, <3>4, <4>2, <4>3 DEF Denotes
      <4> QED BY <3>2, <4>2, <4>4
    <3> QED BY <3>3, <3>4
  <2>4. CASE p.does = "times"
    <3>1. CASE 2 * i \in I64
      <4>1. i \in I64
        BY <1>e, <2>1, <3>1 DEF I64
      <4>2. evaluate(p) = Val("int", 2 * i)
        BY <2>1, <2>2, <2>4, <3>1, <4>1 DEF evaluate, execute, cel_to_json, Val
      <4>3. lowered(p) = Val("int", 2 * i) /\ lowered(p) # Error
        BY <3>1, <4>2 DEF lowered, json_to_hana_bind, Error, Plain, Val
      <4>4. ~ Refused(p) /\ Meaning(p) = Val("int", 2 * i)
        BY <2>1, <2>4, <3>1 DEF Refused, Meaning
      <4>5. Denotes(Val("int", 2 * i), Val("int", 2 * i))
        BY <3>1 DEF Denotes, Val
      <4> QED BY <4>3, <4>4, <4>5
    <3>2. CASE 2 * i \notin I64
      <4>1. execute(p.does, json_to_cel(v)) = Error
        BY <2>1, <2>2, <2>4, <3>2 DEF execute, Val, Missing, Plain
      <4>2. evaluate(p) = Error
        BY <4>1 DEF evaluate, cel_to_json, Error, Plain, Val
      <4>3. Refused(p)
        BY <2>1, <2>4, <3>2 DEF Refused
      <4> QED BY <1>2, <4>2, <4>3
    <3> QED BY <3>1, <3>2
  <2>5. CASE p.does = "ratio"
    <3>1. execute(p.does, json_to_cel(v)) = Error
      BY <2>1, <2>2, <2>5 DEF execute, Val, Missing, Plain
    <3>2. evaluate(p) = Error
      BY <3>1 DEF evaluate, cel_to_json, Error, Plain, Val
    <3>3. Refused(p)
      BY <2>1, <2>5 DEF Refused
    <3> QED BY <1>2, <3>2, <3>3
  <2> QED BY <1>1, <2>3, <2>4, <2>5
<1> QED BY <1>1, <1>2, <1>3, <1>4, <1>5, ArgumentKinds

-----------------------------------------------------------------------------
(* The loop over the params, and the two calls that bind no param.         *)

\* A call of a query binding has bound the first of its values, in order; one that
\* failed has a param that is refused.
Executing ==
    /\ params \in Seq(Expr) /\ ArgumentsTyped
    /\ pc \in {"called", "binding", "sent", "failed"}
    /\ pc = "called" => binds = << >>
    /\ pc \in {"binding", "sent"} =>
          /\ binds \in Seq({lowered(params[i]) : i \in 1 .. Len(params)})
          /\ Len(values) = Len(params) /\ Len(binds) <= Len(params)
          /\ \A i \in 1 .. Len(params) : values[i] = evaluate(params[i])
          /\ \A i \in 1 .. Len(binds) : binds[i] = lowered(params[i]) /\ binds[i] # Error
    /\ pc = "sent" => Len(binds) = Len(params)
    /\ pc = "failed" => \E i \in 1 .. Len(params) : lowered(params[i]) = Error

\* A page by offset has the page size and the offset.
Paging ==
    /\ cursor \in {Missing, Plain("text")} \cup {Val("int", n) : n \in Numbers}
    /\ pc = "sent" /\ mode = "offset" =>
          binds = <<Val("int", page_size),
                    Val("int", IF cursor = Missing THEN 0 ELSE wrap(cursor.num))>>

IInv ==
    /\ op = "execute" => Executing
    /\ op # "execute" => params = << >> /\ pc \in {"called", "sent", "failed"}
    /\ op = "list_resources" => Paging

LEMMA InitInv == Init => IInv
<1> SUFFICES ASSUME Init PROVE IInv
  OBVIOUS
<1>1. op = "execute" => Executing
  BY ParamsTyped DEF Init, Executing, ArgumentsTyped
<1> QED BY <1>1 DEF Init, IInv, Paging

\* Every value has been evaluated when the first is bound.
LEMMA EvaluateInv == Executing /\ Evaluate => Executing'
<1> SUFFICES ASSUME Executing, Evaluate PROVE Executing'
  OBVIOUS
<1>1. /\ UNCHANGED <<op, params, arguments, binds>> /\ binds = << >>
      /\ params \in Seq(Expr) /\ ArgumentsTyped
  BY DEF Evaluate, call, Executing
<1> DEFINE results == [i \in 1 .. Len(params) |-> evaluate(params[i])]
<1>2. /\ Len(params) \in Nat /\ \A i \in 1 .. Len(params) : params[i] \in Expr
  BY <1>1
<1>3. \A p : lowered(p)' = lowered(p) /\ evaluate(p)' = evaluate(p)
  BY <1>1 DEF lowered, evaluate
<1>4. ArgumentsTyped'
  BY <1>1 DEF ArgumentsTyped
<1>5. CASE \E i \in 1 .. Len(params) : results[i] = Error
  <2>1. PICK i \in 1 .. Len(params) : evaluate(params[i]) = Error
    BY <1>5
  <2>2. lowered(params[i]) = Error
    BY <1>1, <1>2, <2>1, Lowered
  <2>3. pc' = "failed"
    BY <1>5 DEF Evaluate
  <2> QED BY <1>1, <1>3, <1>4, <2>2, <2>3 DEF Executing
<1>6. CASE ~ \E i \in 1 .. Len(params) : results[i] = Error
  <2>1. pc' = "binding" /\ values' = results
    BY <1>6 DEF Evaluate
  <2>2. Len(results) = Len(params)
    BY <1>2
  <2>3. /\ << >> \in Seq({lowered(params[i]) : i \in 1 .. Len(params)})
        /\ Len(<< >>) = 0
    OBVIOUS
  <2> HIDE DEF results
  <2>4. \A i \in 1 .. Len(params) : results[i] = evaluate(params[i])
    BY DEF results
  <2>5. params' = params /\ binds' = << >>
    BY <1>1
  <2> QED BY <1>1, <1>2, <1>3, <1>4, <2>1, <2>2, <2>3, <2>4, <2>5 DEF Executing
<1> QED BY <1>5, <1>6

\* The next value goes to the next placeholder, or nothing is sent.
LEMMA BindInv == Executing /\ Bind => Executing'
<1> SUFFICES ASSUME Executing, Bind PROVE Executing'
  OBVIOUS
<1>1. /\ UNCHANGED <<op, params, arguments, values>> /\ pc = "binding"
      /\ params \in Seq(Expr) /\ ArgumentsTyped
      /\ Len(binds) < Len(values) /\ Len(values) = Len(params)
      /\ \A i \in 1 .. Len(params) : values[i] = evaluate(params[i])
      /\ \A i \in 1 .. Len(binds) : binds[i] = lowered(params[i]) /\ binds[i] # Error
  BY DEF Bind, call, Executing
<1> DEFINE Lows == {lowered(params[i]) : i \in 1 .. Len(params)}
           n == Len(binds) + 1
<1>2. Len(params) \in Nat /\ binds \in Seq(Lows) /\ Len(binds) \in Nat
  BY <1>1 DEF Executing
<1>3. \A p : lowered(p)' = lowered(p) /\ evaluate(p)' = evaluate(p)
  BY <1>1 DEF lowered, evaluate
<1>4. ArgumentsTyped'
  BY <1>1 DEF ArgumentsTyped
<1>5. n \in 1 .. Len(params) /\ json_to_hana_bind(Next_value) = lowered(params[n])
  BY <1>1, <1>2 DEF Next_value, lowered
<1>6. CASE lowered(params[n]) = Error
  <2>1. pc' = "failed" /\ binds' = binds
    BY <1>5, <1>6 DEF Bind
  <2> QED BY <1>1, <1>3, <1>4, <1>5, <1>6, <2>1 DEF Executing
<1>7. CASE lowered(params[n]) # Error
  <2>1. pc' = "binding" /\ binds' = Append(binds, lowered(params[n]))
    BY <1>1, <1>5, <1>7 DEF Bind
  <2>2. lowered(params[n]) \in Lows
    BY <1>5
  <2> HIDE DEF Lows
  <2>3. /\ binds' \in Seq(Lows) /\ Len(binds') = n
        /\ binds'[n] = lowered(params[n])
        /\ \A i \in 1 .. Len(binds) : binds'[i] = binds[i]
    BY <1>2, <2>1, <2>2
  <2>4. \A i \in 1 .. n : binds'[i] = lowered(params[i]) /\ binds'[i] # Error
    BY <1>1, <1>2, <1>7, <2>3
  <2>5. Lows' = Lows
    BY <1>1, <1>3 DEF Lows
  <2> QED BY <1>1, <1>2, <1>3, <1>4, <1>5, <2>1, <2>3, <2>4, <2>5 DEF Executing, Lows
<1> QED BY <1>6, <1>7

LEMMA StepInv == IInv /\ [Next]_vars => IInv'
<1> SUFFICES ASSUME IInv, [Next]_vars PROVE IInv'
  OBVIOUS
<1>1. UNCHANGED call
  BY DEF Next, Evaluate, Bind, Bound, List, Complete, Ended, vars
<1>2. UNCHANGED <<op, params, arguments, mode, cursor, page_size>>
  BY <1>1 DEF call
<1>3. \A p : lowered(p)' = lowered(p) /\ evaluate(p)' = evaluate(p)
  BY <1>2 DEF lowered, evaluate
<1>4. ASSUME op = "execute" PROVE Executing'
  <2>1. Executing
    BY <1>4 DEF IInv
  <2>2. CASE Evaluate
    BY <2>1, <2>2, EvaluateInv
  <2>3. CASE Bind
    BY <2>1, <2>3, BindInv
  <2>4. CASE Bound
    BY <1>2, <1>3, <2>1, <2>4 DEF Bound, Executing, ArgumentsTyped
  <2>5. CASE List \/ Complete
    BY <1>4, <2>5 DEF List, Complete
  <2>6. CASE UNCHANGED vars
    BY <1>2, <1>3, <2>1, <2>6 DEF vars, Executing, ArgumentsTyped
  <2> QED BY <2>2, <2>3, <2>4, <2>5, <2>6 DEF Next, Ended
<1>5. ASSUME op = "list_resources" PROVE Paging'
  <2>1. CASE List
    BY <1>2, <1>5, <2>1 DEF List, IInv, Paging, wrap
  <2>2. CASE Evaluate \/ Complete
    BY <1>5, <2>2 DEF Evaluate, Complete
  <2>3. CASE UNCHANGED vars
    BY <1>2, <1>5, <2>3 DEF vars, IInv, Paging, wrap
  <2>4. CASE Bind
    BY <1>5, <2>4 DEF Bind, IInv
  <2>5. CASE Bound
    BY <1>5, <2>5 DEF Bound, IInv
  <2> QED BY <2>1, <2>2, <2>3, <2>4, <2>5 DEF Next, Ended
<1>6. op # "execute" => params' = << >> /\ pc' \in {"called", "sent", "failed"}
  BY <1>2 DEF IInv, Next, Evaluate, Bind, Bound, List, Complete, Ended, vars
<1> QED BY <1>2, <1>4, <1>5, <1>6 DEF IInv
\* The inductive invariant of the calls that bind.
THEOREM BindsInvariant == Spec => []IInv
BY InitInv, StepInv, PTL DEF Spec

\* README: params[i] is bound to the i-th placeholder, with what it says of the
\* arguments, whatever their sizes.
THEOREM ParamsPositional == Spec => []BindsPositional
<1>1. IInv => BindsPositional
  <2> SUFFICES ASSUME Executing, pc = "sent"
               PROVE  /\ Len(binds) = Len(params)
                      /\ \A i \in 1 .. Len(params) : Denotes(binds[i], Meaning(params[i]))
    BY DEF IInv, BindsPositional
  <2>1. /\ Len(binds) = Len(params) /\ ArgumentsTyped
        /\ \A i \in 1 .. Len(params) : params[i] \in Expr
        /\ \A i \in 1 .. Len(params) : binds[i] = lowered(params[i]) /\ binds[i] # Error
    BY DEF Executing
  <2> QED BY <2>1, Lowered
<1> QED BY <1>1, BindsInvariant, PTL

\* A call is refused for one param that cannot be bound, and for nothing else.
THEOREM ParamsAllOrNothing == Spec => []AllOrNothing
<1>1. IInv => AllOrNothing
  <2> SUFFICES ASSUME Executing, pc \in {"sent", "failed"}
               PROVE  pc = "failed" <=> \E i \in 1 .. Len(params) : Refused(params[i])
    BY DEF IInv, AllOrNothing, Refused
  <2>1. ArgumentsTyped /\ \A i \in 1 .. Len(params) : params[i] \in Expr
    BY DEF Executing
  <2>2. \A i \in 1 .. Len(params) : Refused(params[i]) <=> lowered(params[i]) = Error
    BY <2>1, Lowered
  <2>3. CASE pc = "failed"
    BY <2>2, <2>3 DEF Executing
  <2>4. CASE pc = "sent"
    <3>1. \A i \in 1 .. Len(params) : lowered(params[i]) # Error
      BY <2>4 DEF Executing
    <3> QED BY <2>2, <2>4, <3>1
  <2> QED BY <2>3, <2>4
<1> QED BY <1>1, BindsInvariant, PTL

\* lib.rs, list_resources: the cast of the offset to an i64 may wrap, to a negative
\* number and to nothing else.
THEOREM OffsetCast == Spec => []OffsetNeverAnother
<1>1. IInv => OffsetNeverAnother
  <2> SUFFICES ASSUME Paging, mode = "offset", u64(cursor), pc = "sent"
               PROVE  binds[2] = cursor \/ binds[2].num < 0
    BY DEF IInv, OffsetNeverAnother
  <2>1. cursor.type = "int" /\ cursor.num \in 0 .. 2 * Half - 1 /\ Half \in Nat \ {0}
    BY WordsTyped DEF u64, U64
  <2>2. cursor # Missing /\ cursor = Val("int", cursor.num)
    BY <2>1 DEF Paging, Missing, Plain, Val
  <2>3. binds[2] = Val("int", wrap(cursor.num))
    BY <2>2 DEF Paging
  <2>4. CASE cursor.num \in I64
    BY <2>2, <2>3, <2>4 DEF wrap
  <2>5. CASE cursor.num \notin I64
    <3>1. binds[2].num = cursor.num - 2 * Half
      BY <2>3, <2>5 DEF wrap, Val
    <3> QED BY <2>1, <3>1
  <2> QED BY <2>4, <2>5
<1> QED BY <1>1, BindsInvariant, PTL
=============================================================================
