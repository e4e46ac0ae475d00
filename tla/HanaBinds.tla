------------------------------ MODULE HanaBinds ------------------------------
(***************************************************************************)
(* What a call binds to the placeholders of its statement.  execute of a   *)
(* query binding: the arguments through CEL (params.rs) and the loop that  *)
(* lowers each result to a scalar (lib.rs).  list_resources: the cursor    *)
(* and the page size.  complete_template_variable: the prefix.  And the    *)
(* database value each bind becomes (engine.rs).                           *)
(*                                                                         *)
(* Words are given by two numbers: an i64 holds the integers from -Half to *)
(* Half - 1, a u64 those from 0 to 2 * Half - 1, and of those that no i64  *)
(* holds a double has the multiples of Ulp (Half is 2 ^ 63, Ulp 2 ^ 11).   *)
(***************************************************************************)
EXTENDS Integers, Sequences

CONSTANTS
    Half, Ulp,
    ArgNames,     \* names of tool arguments
    ParamLists,   \* the params of a binding
    Numbers,      \* integers an argument or a cursor may be
    PageSizes

ASSUME WordsTyped == Half \in Nat \ {0} /\ Ulp \in Nat \ {0} /\ Half % Ulp = 0

I64 == -Half .. Half - 1
U64 == 0 .. 2 * Half - 1

ASSUME NumbersTyped == Numbers \subseteq I64 \cup U64

\* A param reads one argument and binds it, multiplies it by two, or divides it by
\* zero as a float.
Expr == [name: ArgNames, does: {"is", "times", "ratio"}]

ASSUME ParamsTyped == ParamLists \subseteq Seq(Expr)

Val(t, v) == [type |-> t, num |-> v]
Plain(t)  == Val(t, 0)

\* JSON, CEL, binds and database values alike: a type, and the number of an integer
\* or of a double.  Other scalars are one of a kind.
Json == {Plain("null"), Plain("bool"), Plain("string"), Plain("fraction"), Plain("list")}
            \cup {Val("int", n) : n \in Numbers}

Missing == Plain("missing")
Error   == Plain("error")

VARIABLES
    op, params, arguments,
    mode, cursor, page_size,  \* of a list_resources call
    pc, values, binds

call == <<op, params, arguments, mode, cursor, page_size>>
vars == <<call, pc, values, binds>>

-----------------------------------------------------------------------------
(* Conversions.                                                            *)

\* The double nearest to a natural number that no i64 holds, ties to even.
as_f64(n) ==
    LET q == n \div Ulp  r == n % Ulp
    IN  IF 2 * r < Ulp \/ (2 * r = Ulp /\ q % 2 = 0) THEN q * Ulp ELSE (q + 1) * Ulp

json_to_cel(v) ==
    IF v.type = "int" /\ v.num \notin I64 THEN Val("uint", v.num) ELSE v

\* CEL arithmetic: of integers checked for overflow, never of mixed types.
execute(does, v) ==
    CASE v = Missing       -> Error
      [] v # Missing /\ does = "is"    -> v
      [] v # Missing /\ does = "times" ->
             IF v.type = "int" /\ 2 * v.num \in I64 THEN Val("int", 2 * v.num) ELSE Error
      [] v # Missing /\ does = "ratio" ->
             IF v.type = "fraction" THEN Plain("infinite") ELSE Error

\* JSON has one type for integers and no infinity.
cel_to_json(v) ==
    CASE v.type = "uint"     -> Val("int", v.num)
      [] v.type = "infinite" -> Plain("null")
      [] OTHER               -> v

evaluate(p) == cel_to_json(execute(p.does, json_to_cel(arguments[p.name])))

\* Mutant: an integer is cast to i64 whatever its size.
bind_wrapped(v) ==
    CASE v.type = "list" -> Error
      [] v.type = "int"  -> IF v.num \in I64 THEN v ELSE Val("int", v.num - 2 * Half)
      [] OTHER           -> v

json_to_hana_bind(v) ==
    CASE v.type = "list" -> Error
      [] v.type = "int"  -> IF v.num \in I64 THEN v ELSE Val("double", as_f64(v.num))
      [] OTHER           -> v

\* parse::<u64> takes the cursor; `as i64`.
u64(c) == c.type = "int" /\ c.num \in U64

\* Mutant: the sign bit is masked off.
wrap_masked(n) == n % Half

wrap(n) == IF n \in I64 THEN n ELSE n - 2 * Half

-----------------------------------------------------------------------------

Init ==
    /\ op \in {"execute", "list_resources", "complete"}
    /\ params \in IF op = "execute" THEN ParamLists ELSE {<< >>}
    /\ arguments \in
          IF op = "execute" THEN [ArgNames -> Json \cup {Missing}] ELSE {[n \in ArgNames |-> Missing]}
    /\ mode \in IF op = "list_resources" THEN {"keyset", "offset"} ELSE {"none"}
    /\ cursor \in IF op = "list_resources"
                    THEN {Missing, Plain("text")} \cup {Val("int", n) : n \in Numbers}
                    ELSE {Missing}
    /\ page_size \in IF op = "list_resources" THEN PageSizes ELSE {0}
    /\ pc = "called"
    /\ values = << >>
    /\ binds = << >>

\* Every param is evaluated before the first is bound.
Evaluate ==
    LET results == [i \in 1 .. Len(params) |-> evaluate(params[i])] IN
    /\ pc = "called"
    /\ op = "execute"
    /\ IF \E i \in 1 .. Len(params) : results[i] = Error
       THEN pc' = "failed" /\ UNCHANGED values
       ELSE pc' = "binding" /\ values' = results
    /\ UNCHANGED <<call, binds>>

Next_value == values[Len(binds) + 1]

\* Mutant: a value that cannot be bound is passed over.
BindOrSkip ==
    /\ pc = "binding"
    /\ Len(binds) < Len(values)
    /\ IF json_to_hana_bind(Next_value) = Error
       THEN /\ values' = SubSeq(values, 1, Len(binds))
                             \o SubSeq(values, Len(binds) + 2, Len(values))
            /\ UNCHANGED binds
       ELSE binds' = Append(binds, json_to_hana_bind(Next_value)) /\ UNCHANGED values
    /\ UNCHANGED <<call, pc>>

Bind ==
    /\ pc = "binding"
    /\ Len(binds) < Len(values)
    /\ IF json_to_hana_bind(Next_value) = Error
       THEN pc' = "failed" /\ UNCHANGED binds
       ELSE binds' = Append(binds, json_to_hana_bind(Next_value)) /\ UNCHANGED pc
    /\ UNCHANGED <<call, values>>

Bound ==
    /\ pc = "binding"
    /\ Len(binds) = Len(values)
    /\ pc' = "sent"
    /\ UNCHANGED <<call, values, binds>>

\* A keyset cursor is bound as the string it is.
List ==
    /\ pc = "called"
    /\ op = "list_resources"
    /\ \/ /\ mode = "keyset"
          /\ pc' = "sent"
          /\ binds' = <<Plain(IF cursor = Missing THEN "null" ELSE "string"),
                        Val("int", page_size)>>
       \/ /\ mode = "offset"
          /\ cursor # Missing /\ ~ u64(cursor)
          /\ pc' = "failed"
          /\ UNCHANGED binds
       \/ /\ mode = "offset"
          /\ cursor = Missing \/ u64(cursor)
          /\ pc' = "sent"
          /\ binds' = <<Val("int", page_size),
                        Val("int", IF cursor = Missing THEN 0 ELSE wrap(cursor.num))>>
    /\ UNCHANGED <<call, values>>

Complete ==
    /\ pc = "called"
    /\ op = "complete"
    /\ pc' = "sent"
    /\ binds' = <<Plain("string")>>
    /\ UNCHANGED <<call, values>>

Ended == pc \in {"sent", "failed"} /\ UNCHANGED vars

Next == Evaluate \/ Bind \/ Bound \/ List \/ Complete \/ Ended

Spec == Init /\ [][Next]_vars

-----------------------------------------------------------------------------

\* What a param stands for, read off the arguments.
Meaning(p) ==
    LET v == arguments[p.name] IN
    CASE p.does = "is"    -> v
      [] p.does = "times" -> Val("int", 2 * v.num)
      [] p.does = "ratio" -> Plain("infinite")

Doubles        == {q * Ulp : q \in 0 .. 2 * Half}
Distance(m, n) == IF m < n THEN n - m ELSE m - n

\* The database value that stands for a meaning exactly, or the nearest there is.
Denotes(bound, meaning) ==
    CASE meaning.type = "int" /\ meaning.num \in I64    -> bound = meaning
      [] meaning.type = "int" /\ meaning.num \notin I64 ->
             /\ bound.type = "double" /\ bound.num \in Doubles
             /\ \A d \in Doubles :
                    Distance(bound.num, meaning.num) <= Distance(d, meaning.num)
      [] meaning.type = "infinite"                      -> bound.type = "null"
      [] OTHER                                          -> bound = meaning

\* README: params[i] is bound to the i-th placeholder.  A statement is sent with one
\* value for each param, in order, and each is what the param says of the arguments:
\* exact for every integer that an i64 holds, the nearest double above.
BindsPositional ==
    op = "execute" /\ pc = "sent" =>
        /\ Len(binds) = Len(params)
        /\ \A i \in 1 .. Len(params) : Denotes(binds[i], Meaning(params[i]))

\* Nothing is sent for a call with an argument that is missing, out of range or not a
\* scalar, at whatever position; and the call is refused only then.
AllOrNothing ==
    op = "execute" /\ pc \in {"sent", "failed"} =>
        (pc = "failed" <=>
            \E i \in 1 .. Len(params) :
                LET p == params[i]  v == arguments[p.name] IN
                \/ v \in {Missing, Plain("list")}
                \/ p.does = "times" /\ (v.type # "int" \/ 2 * v.num \notin I64)
                \/ p.does = "ratio" /\ v.type # "fraction")

\* An offset cursor is bound as the offset it names, or, if that is beyond an i64, as
\* a negative number that the statement refuses: never as another row of the table.
OffsetNeverAnother ==
    op = "list_resources" /\ mode = "offset" /\ u64(cursor) /\ pc = "sent" =>
        binds[2] = cursor \/ binds[2].num < 0
=============================================================================
