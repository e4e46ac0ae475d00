--------------------------- MODULE HanaRowsProofs ---------------------------
(***************************************************************************)
(* What the objects of a result keep of its cells, and which cells become  *)
(* candidates, for any columns and any number of rows.                     *)
(***************************************************************************)
EXTENDS HanaRows, FiniteSetTheorems, WellFoundedInduction, TLAPS

\* Of the columns that share a name there is a last one.
LEMMA LastNamed ==
    ASSUME NEW S, NEW n \in Nat, S \subseteq 1 .. n, S # {}
    PROVE  Max(S) \in S /\ \A y \in S : y <= Max(S)
<1> DEFINE T == {n - i : i \in S}
<1>1. T \subseteq Nat /\ T # {}
  <2>1. \A i \in S : n - i \in Nat
    OBVIOUS
  <2> QED BY <2>1
<1>2. PICK m \in T : \A k \in T : ~ (<<k, m>> \in OpToRel(<, Nat))
  <2> HIDE DEF T
  <2> QED BY <1>1, NatLessThanWellFounded, WFMin
<1>3. \A k \in T : ~ (k < m)
  BY <1>1, <1>2 DEF OpToRel
<1>4. PICK x \in S : m = n - x
  OBVIOUS
<1>5. \A y \in S : x >= y
  BY <1>3, <1>4
<1>6. Max(S) = CHOOSE z \in S : \A y \in S : z >= y
  BY DEF Max
<1>7. Max(S) \in S /\ \A y \in S : Max(S) >= y
  BY <1>4, <1>5, <1>6
<1> QED BY <1>7

\* And a first name in the alphabet.
LEMMA FirstOfSet ==
    ASSUME NEW S, S \subseteq Nat, S # {}
    PROVE  Min(S) \in S /\ \A y \in S : Min(S) <= y
<1>1. PICK m \in S : \A k \in S : ~ (<<k, m>> \in OpToRel(<, Nat))
  BY NatLessThanWellFounded, WFMin
<1>2. \A k \in S : m <= k
  <2>1. \A k \in S : k \in Nat /\ ~ (k < m)
    BY <1>1 DEF OpToRel
  <2> QED BY <2>1
<1>3. Min(S) = CHOOSE z \in S : \A y \in S : z =< y
  BY DEF Min
<1> QED BY <1>2, <1>3

-----------------------------------------------------------------------------

Typed ==
    /\ columns \in Seq(Column) /\ columns # << >> /\ limit \in Nat
    /\ Len(table) \in Nat /\ Len(table) <= limit
    /\ \A j \in 1 .. Len(table) : \A i \in 1 .. Len(columns) :
          table[j][i] \in CellOf(columns[i].type)

\* The rows made so far are the objects of the first rows of the table; a cursor was
\* made of all of them.
IInv ==
    /\ Typed
    /\ rows \in Seq({object(table[i]) : i \in 1 .. Len(table)})
    /\ Len(rows) <= Len(table)
    /\ \A i \in 1 .. Len(rows) : rows[i] = object(table[i])
    /\ pc = "paged" =>
          /\ Len(rows) = Len(table)
          /\ cursor.text = next_cursor(cursor.column)

\* The candidates so far are the texts of the cells that are strings among the rows
\* gone through, in order.
Given(n) == {i \in 1 .. n : rows[i][first_col].kind = "string"}

Candidates ==
    /\ taken \in Nat /\ taken <= limit /\ taken <= Len(rows)
    /\ pc = "fetching" => taken = 0
    /\ pc \in {"completing", "completed"} => Len(rows) = Len(table)
    /\ pc = "completed" => taken = limit \/ taken = Len(rows)
    /\ suggestions \in Seq({rows[i][first_col].text : i \in 1 .. taken})
    /\ Len(suggestions) = Cardinality(Given(taken))
    /\ \A i \in Given(taken) :
          suggestions[Cardinality({j \in Given(taken) : j <= i})] = rows[i][first_col].text

LEMMA InitInv == Init => IInv
<1> SUFFICES ASSUME Init PROVE IInv
  OBVIOUS
<1>1. columns \in Seq(Column)
  BY ColumnsTyped DEF Init
<1>c. columns # << >> /\ limit \in Nat
  BY ColumnsTyped, LimitsTyped DEF Init
<1>2. PICK n \in 0 .. limit : table \in [1 .. n -> Row(columns)]
  BY DEF Init
<1>3. Len(table) = n /\ n \in Nat /\ n <= limit
  BY <1>c, <1>2
<1>4. \A j \in 1 .. Len(table) : table[j] \in Row(columns)
  BY <1>2, <1>3
<1>5. Typed
  BY <1>1, <1>c, <1>3, <1>4 DEF Typed, Row
<1>6. rows = << >> /\ pc = "fetching"
  BY DEF Init
<1> QED BY <1>3, <1>5, <1>6 DEF IInv

LEMMA StepInv == IInv /\ [Next]_vars => IInv'
<1> SUFFICES ASSUME IInv, [Next]_vars PROVE IInv'
  OBVIOUS
<1>1. UNCHANGED <<columns, table, limit>>
  BY DEF Next, Fetch, Complete, rows_to_completion_values, Completed, Page, Tick, Ended,
         vars, result
<1>2. Typed' /\ Keys' = Keys /\ \A r : object(r)' = object(r)
  BY <1>1 DEF IInv, Typed, Keys, object, named
<1> DEFINE Objects == {object(table[i]) : i \in 1 .. Len(table)}
<1>3. Objects' = Objects
  BY <1>1, <1>2
<1>4. CASE Fetch
  <2> DEFINE n == Len(rows) + 1
  <2>1. /\ rows \in Seq(Objects) /\ n \in 1 .. Len(table) /\ pc' = pc /\ pc = "fetching"
        /\ Len(rows) \in Nat
    BY <1>4 DEF Fetch, IInv, Typed
  <2>2. object(table[n]) \in Objects
    BY <2>1
  <2>3. rows' = Append(rows, object(table[n]))
    BY <1>4 DEF Fetch
  <2> HIDE DEF Objects
  <2>4. /\ rows' \in Seq(Objects) /\ Len(rows') = n /\ rows'[n] = object(table[n])
        /\ \A i \in 1 .. Len(rows) : rows'[i] = rows[i]
    BY <2>1, <2>2, <2>3
  <2>5. \A i \in 1 .. n : rows'[i] = object(table[i])
    BY <2>1, <2>4 DEF IInv
  <2> QED BY <1>1, <1>2, <1>3, <2>1, <2>4, <2>5 DEF IInv, Objects
<1>5. ASSUME NEW key \in Names, Page(key) PROVE IInv'
  <2>1. /\ rows' = rows /\ Len(rows) = Len(table)
        /\ cursor' = [column |-> key, text |-> next_cursor(key)]
    BY <1>5 DEF Page
  <2>2. next_cursor(key)' = next_cursor(key)
    BY <1>1, <1>2, <2>1 DEF next_cursor, last_cursor_value, listed
  <2> QED BY <1>1, <1>2, <1>5, <2>1, <2>2 DEF IInv
<1>6. CASE Complete \/ rows_to_completion_values \/ Completed \/ Tick
  BY <1>1, <1>2, <1>6 DEF Complete, rows_to_completion_values, Completed, Tick, IInv
<1>7. CASE UNCHANGED vars
  <2>1. \A key : next_cursor(key)' = next_cursor(key)
    BY <1>1, <1>2, <1>7 DEF vars, next_cursor, last_cursor_value, listed
  <2> QED BY <1>1, <1>2, <1>7, <2>1 DEF vars, IInv
<1> QED BY <1>4, <1>5, <1>6, <1>7 DEF Next, Ended

LEMMA InitCandidates == Init => Candidates
<1> SUFFICES ASSUME Init PROVE Candidates
  OBVIOUS
<1>1. taken = 0 /\ suggestions = << >> /\ rows = << >> /\ pc = "fetching" /\ limit \in Nat
  BY LimitsTyped DEF Init
<1>2. Given(taken) = {}
  BY <1>1 DEF Given
<1> QED BY <1>1, <1>2, FS_EmptySet DEF Candidates

\* One more row adds its cell at the end, or nothing.
LEMMA SuggestCandidates ==
    ASSUME Typed, Candidates, rows_to_completion_values, UNCHANGED <<columns, table, limit>>
    PROVE  Candidates'
<1> DEFINE n == taken + 1  cell == rows[n][first_col]
           Texts(k) == {rows[i][first_col].text : i \in 1 .. k}
<1>1. /\ taken \in Nat /\ limit \in Nat /\ Len(rows) = Len(table) /\ Len(rows) \in Nat
      /\ n \in Nat /\ n <= limit /\ n <= Len(rows) /\ taken' = n
      /\ rows' = rows /\ pc' = pc /\ pc = "completing" /\ first_col' = first_col
  BY DEF rows_to_completion_values, Candidates, Typed, first_col, Keys
<1>2. suggestions' = IF cell.kind = "string" THEN Append(suggestions, cell.text)
                                             ELSE suggestions
  BY <1>1 DEF rows_to_completion_values
<1>3. /\ suggestions \in Seq(Texts(taken)) /\ Len(suggestions) = Cardinality(Given(taken))
      /\ \A i \in Given(taken) :
           suggestions[Cardinality({j \in Given(taken) : j <= i})] = rows[i][first_col].text
  BY DEF Candidates
<1>4. Texts(taken) \subseteq Texts(n) /\ cell.text \in Texts(n)
  BY <1>1
<1>5. /\ (Given(taken))' = Given(n) /\ IsFiniteSet(Given(taken))
      /\ Given(taken) \subseteq 1 .. taken
  <2>1. Given(taken) \subseteq 1 .. taken /\ IsFiniteSet(1 .. taken)
    <3>1. 1 \in Int /\ taken \in Int
      BY <1>1
    <3> QED BY <3>1, FS_Interval DEF Given
  <2> QED BY <1>1, <2>1, FS_Subset DEF Given
<1>6. /\ suggestions' \in Seq(Texts(n)) /\ Len(suggestions') = Cardinality(Given(n))
      /\ \A i \in Given(n) :
           suggestions'[Cardinality({j \in Given(n) : j <= i})] = rows[i][first_col].text
  <2>0. suggestions \in Seq(Texts(n))
    <3> HIDE DEF Texts
    <3> QED BY <1>3, <1>4
  <2>1. CASE cell.kind # "string"
    <3>1. Given(n) = Given(taken)
      BY <1>1, <2>1 DEF Given
    <3>2. suggestions' = suggestions
      BY <1>2, <2>1
    <3> QED BY <1>3, <2>0, <3>1, <3>2
  <2>2. CASE cell.kind = "string"
    <3>1. Given(n) = Given(taken) \cup {n} /\ n \notin Given(taken)
      BY <1>1, <1>5, <2>2 DEF Given
    <3>2. Cardinality(Given(n)) = Cardinality(Given(taken)) + 1
      BY <1>5, <3>1, FS_AddElement
    <3>3. suggestions' = Append(suggestions, cell.text)
      BY <1>2, <2>2
    <3>4. /\ suggestions' \in Seq(Texts(n)) /\ Len(suggestions') = Len(suggestions) + 1
          /\ suggestions'[Len(suggestions) + 1] = cell.text
          /\ \A k \in 1 .. Len(suggestions) : suggestions'[k] = suggestions[k]
          /\ Len(suggestions) \in Nat
      <4> HIDE DEF Texts, cell
      <4> QED BY <1>4, <2>0, <3>3
    <3>5. ASSUME NEW i \in Given(n)
          PROVE  suggestions'[Cardinality({j \in Given(n) : j <= i})] = rows[i][first_col].text
      <4>1. CASE i = n
        <5>1. {j \in Given(n) : j <= i} = Given(n)
          BY <1>1, <1>5, <3>1, <4>1
        <5> QED BY <1>3, <3>2, <3>4, <4>1, <5>1
      <4>2. CASE i # n
        <5>1. i \in Given(taken) /\ i \in 1 .. taken
          BY <1>5, <3>1, <4>2
        <5>2. {j \in Given(n) : j <= i} = {j \in Given(taken) : j <= i}
          BY <1>1, <3>1, <5>1
        <5> DEFINE Up == {j \in Given(taken) : j <= i}
        <5>3. Cardinality(Up) \in 1 .. Len(suggestions)
          <6>1. /\ IsFiniteSet(Up) /\ Cardinality(Up) <= Cardinality(Given(taken))
            BY <1>5, FS_Subset
          <6>2. i \in Up
            BY <5>1
          <6>3. Cardinality(Up) \in Nat /\ Cardinality(Up) # 0
            <7> HIDE DEF Up
            <7> QED BY <6>1, <6>2, FS_CardinalityType, FS_EmptySet
          <6> QED BY <1>3, <3>4, <6>1, <6>3
        <5> QED BY <1>3, <3>4, <5>1, <5>2, <5>3
      <4> QED BY <4>1, <4>2
    <3> QED BY <1>3, <3>2, <3>4, <3>5
  <2> QED BY <2>1, <2>2
<1>7. {rows[i][first_col].text : i \in 1 .. taken}' = Texts(n)
  BY <1>1
<1> HIDE DEF Texts, n, cell
<1>8. \A i : rows'[i][first_col'] = rows[i][first_col]
  BY <1>1
<1> QED BY <1>1, <1>5, <1>6, <1>7, <1>8 DEF Candidates

LEMMA StepCandidates == IInv /\ Candidates /\ [Next]_vars => Candidates'
<1> SUFFICES ASSUME IInv, Candidates, [Next]_vars PROVE Candidates'
  OBVIOUS
<1>1. UNCHANGED <<columns, table, limit>>
  BY DEF Next, Fetch, Complete, rows_to_completion_values, Completed, Page, Tick, Ended,
         vars, result
<1>2. first_col' = first_col
  BY <1>1 DEF first_col, Keys
<1>3. CASE Fetch
  <2>1. /\ UNCHANGED <<pc, taken, suggestions>> /\ pc = "fetching" /\ taken = 0
        /\ Len(rows) \in Nat /\ Len(rows') \in Nat
    <3>1. rows \in Seq({object(table[i]) : i \in 1 .. Len(table)})
      BY DEF IInv
    <3>2. rows' = Append(rows, object(table[Len(rows) + 1]))
      BY <1>3 DEF Fetch
    <3>3. Len(rows) \in Nat /\ Len(rows') \in Nat
      BY <3>1, <3>2
    <3> QED BY <1>3, <3>3 DEF Fetch, Candidates
  <2>2. Given(taken) = {} /\ (Given(taken))' = {}
    BY <2>1 DEF Given
  <2>3. suggestions = << >>
    BY <2>1, <2>2, FS_EmptySet DEF Candidates
  <2>4. Cardinality({}) = 0 /\ suggestions' = << >> /\ Len(suggestions') = 0
    BY <2>1, <2>3, FS_EmptySet
  <2>5. suggestions' \in Seq({rows'[i][first_col'].text : i \in 1 .. taken'})
    BY <2>4
  <2> QED BY <1>1, <2>1, <2>2, <2>4, <2>5 DEF Candidates
<1>4. CASE rows_to_completion_values
  BY <1>1, <1>4, SuggestCandidates DEF IInv
<1>5. CASE Complete \/ Completed \/ Tick \/ \E key \in Names : Page(key)
  <2>1. /\ UNCHANGED <<rows, taken, suggestions>>
        /\ pc' \in {"completing", "completed"} => Len(rows) = Len(table)
        /\ pc' = "completed" => taken = limit \/ taken = Len(rows)
        /\ pc' # "fetching"
    BY <1>5 DEF Complete, Completed, Tick, Page, Candidates
  <2> QED BY <1>1, <1>2, <2>1 DEF Candidates, Given
<1>6. CASE UNCHANGED vars
  BY <1>1, <1>2, <1>6 DEF vars, Candidates, Given
<1> QED BY <1>3, <1>4, <1>5, <1>6 DEF Next, Ended

\* The inductive invariant of a result on its way to the caller.
THEOREM RowsInvariant == Spec => [](IInv /\ Candidates)
BY InitInv, StepInv, InitCandidates, StepCandidates, PTL DEF Spec

-----------------------------------------------------------------------------
(* What becomes of a cell.                                                 *)

\* A key of the object holds the JSON of a column of that name.
LEMMA CellOfKey ==
    ASSUME IInv, NEW i \in 1 .. Len(rows), NEW k \in Keys
    PROVE  /\ named(k) \in 1 .. Len(columns) /\ columns[named(k)].name = k
           /\ i \in 1 .. Len(table)
           /\ table[i][named(k)] \in CellOf(columns[named(k)].type)
           /\ columns[named(k)].type \in Type
           /\ rows[i][k] = hdb_value_to_json(columns[named(k)].type, table[i][named(k)])
<1>1. Len(columns) \in Nat /\ i \in 1 .. Len(table)
  BY DEF IInv, Typed
<1> DEFINE S == {j \in 1 .. Len(columns) : columns[j].name = k}
<1>2. S \subseteq 1 .. Len(columns) /\ S # {}
  BY DEF Keys
<1>3. named(k) = Max(S)
  BY DEF named
<1>4. Max(S) \in S
  <2> HIDE DEF S
  <2> QED BY <1>1, <1>2, LastNamed
<1>5. named(k) \in 1 .. Len(columns) /\ columns[named(k)].name = k
  BY <1>3, <1>4
<1>6. table[i][named(k)] \in CellOf(columns[named(k)].type)
  BY <1>1, <1>5 DEF IInv, Typed
<1>7. columns[named(k)].type \in Type
  <2>1. columns[named(k)] \in Column
    BY <1>5 DEF IInv, Typed
  <2> QED BY <2>1 DEF Column
<1>8. rows[i][k] = hdb_value_to_json(columns[named(k)].type, table[i][named(k)])
  BY DEF IInv, object
<1> QED BY <1>1, <1>5, <1>6, <1>7, <1>8

\* A visible column is the one its name finds, and every name finds one.
LEMMA VisibleColumn ==
    ASSUME IInv
    PROVE  /\ \A c \in 1 .. Len(columns) : Visible(c) =>
                 columns[c].name \in Keys /\ named(columns[c].name) = c
           /\ \A k \in Keys : /\ named(k) \in 1 .. Len(columns) /\ Visible(named(k))
                             /\ columns[named(k)].name = k
<1> DEFINE S(k) == {j \in 1 .. Len(columns) : columns[j].name = k}
<1>1. Len(columns) \in Nat
  BY DEF IInv, Typed
<1>2. \A k \in Keys : /\ named(k) \in 1 .. Len(columns) /\ columns[named(k)].name = k
                      /\ \A d \in 1 .. Len(columns) : columns[d].name = k => d <= named(k)
  <2> TAKE k \in Keys
  <2>1. S(k) \subseteq 1 .. Len(columns) /\ S(k) # {}
    BY DEF Keys
  <2>2. named(k) = Max(S(k))
    BY DEF named
  <2>3. Max(S(k)) \in S(k) /\ \A y \in S(k) : y <= Max(S(k))
    <3> HIDE DEF S
    <3> QED BY <1>1, <2>1, LastNamed
  <2> QED BY <2>2, <2>3
<1>3. ASSUME NEW c \in 1 .. Len(columns), Visible(c)
      PROVE  columns[c].name \in Keys /\ named(columns[c].name) = c
  <2>1. columns[c].name \in Keys
    BY DEF Keys
  <2>2. c <= named(columns[c].name) /\ named(columns[c].name) <= c
    BY <1>2, <1>3, <2>1 DEF Visible
  <2> QED BY <1>1, <1>2, <2>1, <2>2
<1> QED BY <1>2, <1>3 DEF Visible

\* A cell of a type is of one of five forms.
LEMMA FormOfCell ==
    ASSUME NEW t \in Type, NEW cell \in CellOf(t)
    PROVE  \/ cell = Null
           \/ cell = Infinite /\ t = "double"
           \/ \E n \in Cells : cell = Value(n) /\ t \notin {"string", "binary"}
           \/ \E n \in Cells : cell = Bytes(n) /\ t \in {"string", "binary"}
           \/ \E x \in {Empty} \cup {Literal(n) : n \in Cells} \cup {Base64(n) : n \in Cells} :
                 cell = Chars(x) /\ t = "string"
BY DEF CellOf, Type, Strings

\* Cells that are not Blurred have different JSON, and different texts unless one is NULL.
LEMMA JsonApart ==
    ASSUME NEW t \in Type, NEW a \in CellOf(t), NEW b \in CellOf(t), a # b, ~ Blurred(t, a, b)
    PROVE  LET x == hdb_value_to_json(t, a)  y == hdb_value_to_json(t, b) IN
           /\ x # y
           /\ x.kind # "null" /\ y.kind # "null" => x.text # y.text
           /\ x.kind = "null" \/ y.kind = "null" =>
                 {a, b} = {Null, Chars(Empty)} \/ (x.text # Empty /\ y.text # Empty)
           /\ x.kind # "null" \/ y.kind # "null"
           /\ x.text # NoText /\ y.text # NoText
<1> DEFINE x == hdb_value_to_json(t, a)  y == hdb_value_to_json(t, b)
           js(cell) == hdb_value_to_json(t, cell)
           nil(cell) == cell \in {Null, Infinite}
<1>1. \A cell \in CellOf(t) : nil(cell) <=> js(cell).kind = "null"
  <2> TAKE cell \in CellOf(t)
  <2> QED BY FormOfCell
       DEF hdb_value_to_json, JsonNull, Json, Null, Infinite, Value, Bytes, Chars, Cell, Type
<1>2. \A cell \in CellOf(t) : /\ (cell = Chars(Empty) /\ t = "string") \/ js(cell).text # Empty
                             /\ js(cell).text # NoText
  <2> TAKE cell \in CellOf(t)
  <2> QED BY FormOfCell
       DEF hdb_value_to_json, JsonNull, Json, Null, Infinite, Value, Bytes, Chars, Cell, Type,
           Text, Empty, Literal, Base64, Listed, Length, NoText
<1>3. t # "lob" /\ ~ (nil(a) /\ nil(b))
  BY DEF Blurred
<1>4. ~ nil(a) /\ ~ nil(b) => x.text # y.text
  <2> SUFFICES ASSUME ~ nil(a), ~ nil(b) PROVE x.text # y.text
    OBVIOUS
  <2>1. CASE t \notin {"string", "binary"}
    <3>1. PICK m \in Cells, n \in Cells : a = Value(m) /\ b = Value(n)
      BY <2>1, FormOfCell
    <3>2. m # n
      BY <3>1
    <3>3. \/ x.text = Literal(m) /\ y.text = Literal(n)
          \/ x.text = Listed(m) /\ y.text = Listed(n)
      BY <1>3, <2>1, <3>1 DEF hdb_value_to_json, Json, Value, Cell, Type
    <3> QED BY <3>2, <3>3 DEF Literal, Listed, Text
  <2>2. CASE t \in {"string", "binary"}
    <3>1. \A cell \in CellOf(t) : ~ nil(cell) =>
             \/ \E n \in Cells : cell = Bytes(n) /\ js(cell).text = Base64(n)
             \/ \E z : cell = Chars(z) /\ js(cell).text = z
      <4> TAKE cell \in CellOf(t)
      <4> QED BY <2>2, FormOfCell DEF hdb_value_to_json, Json, Bytes, Chars, Cell
    <3>2. \A m, n : Base64(m) = Base64(n) => m = n
      BY DEF Base64, Text
    <3>3. \A n \in Cells : {a, b} # {Bytes(n), Chars(Base64(n))}
      BY DEF Blurred
    <3> HIDE DEF x, y, js, nil
    <3>4. x = js(a) /\ y = js(b)
      BY DEF x, y, js
    <3> QED BY <3>1, <3>2, <3>3, <3>4
  <2> QED BY <2>1, <2>2
<1>5. x # y
  <2> HIDE DEF x, y
  <2> QED BY <1>1, <1>3, <1>4 DEF x, y
<1>6. ASSUME nil(a) \/ nil(b), {a, b} # {Null, Chars(Empty)}
      PROVE  x.text # Empty /\ y.text # Empty
  <2>1. t = "string" => (nil(a) => a = Null) /\ (nil(b) => b = Null)
    BY FormOfCell DEF Null, Infinite, Value, Bytes, Chars, Cell
  <2>2. ~ nil(Chars(Empty))
    BY DEF Null, Infinite, Chars, Cell
  <2> HIDE DEF nil
  <2>3. ~ (t = "string" /\ (a = Chars(Empty) \/ b = Chars(Empty)))
    BY <1>6, <2>1, <2>2
  <2> QED BY <1>2, <2>3
<1> HIDE DEF nil
<1> QED BY <1>1, <1>2, <1>3, <1>4, <1>5, <1>6

\* The column a row's first key stands for.
LEMMA LeastColumn ==
    ASSUME IInv, NEW c \in 1 .. Len(columns), Least(c)
    PROVE  /\ columns[c].name \in Keys /\ named(columns[c].name) = c
           /\ first_col = columns[c].name
<1>1. columns[c].name \in Keys /\ named(columns[c].name) = c
  BY VisibleColumn DEF Least
<1>2. Keys \subseteq Nat /\ Keys # {}
  <2>1. \A i \in 1 .. Len(columns) : columns[i] \in Column
    BY DEF IInv, Typed
  <2> QED BY <1>1, <2>1 DEF Keys, Column
<1>3. first_col \in Keys /\ \A k \in Keys : first_col <= k
  BY <1>2, FirstOfSet DEF first_col
<1>4. \A k \in Keys : columns[c].name <= k
  BY DEF Least, Keys
<1>5. first_col <= columns[c].name /\ columns[c].name <= first_col
  BY <1>1, <1>3, <1>4
<1> QED BY <1>1, <1>2, <1>3, <1>5

\* A cell is a JSON string if its type is one of five and it has a value.
LEMMA KindOfCell ==
    ASSUME NEW t \in Type, NEW cell \in CellOf(t)
    PROVE  hdb_value_to_json(t, cell).kind = "string" <=> Stringy(t, cell)
BY FormOfCell DEF Stringy, hdb_value_to_json, JsonNull, Json, Null, Infinite, Value, Bytes,
                  Chars, Cell, Type

\* The text of a cell that is a value or characters reads as the cell.
LEMMA CellReadBack ==
    ASSUME NEW t \in Type \ {"lob", "array"}, NEW cell \in CellOf(t),
           cell.is \in {"value", "chars"}
    PROVE  LET json == hdb_value_to_json(t, cell) IN
           json.kind # "null" /\ reads_as(t, json.text) = cell
<1>1. CASE t = "string"
  <2>1. PICK x : cell = Chars(x)
    BY <1>1, FormOfCell DEF Null, Infinite, Value, Bytes, Chars, Cell
  <2> QED BY <1>1, <2>1 DEF hdb_value_to_json, reads_as, Json, Chars, Cell
<1>2. CASE t # "string"
  <2>1. PICK n : cell = Value(n) /\ t # "binary"
    BY <1>2, FormOfCell DEF Null, Infinite, Value, Bytes, Chars, Cell
  <2>2. LET json == hdb_value_to_json(t, cell) IN
        json.kind # "null" /\ json.text = Literal(n)
    BY <1>2, <2>1 DEF hdb_value_to_json, Json, Value, Cell, Type
  <2> QED BY <1>2, <2>1, <2>2 DEF reads_as, Literal, Text, Value, Type
<1> QED BY <1>1, <1>2

\* engine.rs, hdb_value_to_json: but for the pairs named, no two values become one on
\* their way to the caller, to the next page or to a watcher.
THEOREM RowsStayApart == Spec => []ValuesStayApart
<1>1. IInv => ValuesStayApart
  <2> SUFFICES ASSUME IInv, NEW i \in 1 .. Len(rows), NEW j \in 1 .. Len(rows),
                      NEW c \in 1 .. Len(columns), Visible(c), table[i][c] # table[j][c],
                      ~ Blurred(columns[c].type, table[i][c], table[j][c])
               PROVE  LET name == columns[c].name IN
                      /\ rows[i][name] # rows[j][name]
                      /\ {table[i][c], table[j][c]} = {Null, Chars(Empty)}
                         \/ cursor_value_to_string(rows[i][name])
                              # cursor_value_to_string(rows[j][name])
                      /\ Least(c) =>
                           cursor_from_outcome(<<rows[i]>>) # cursor_from_outcome(<<rows[j]>>)
    BY DEF ValuesStayApart
  <2> DEFINE k == columns[c].name  a == table[i][c]  b == table[j][c]
             x == rows[i][k]  y == rows[j][k]
  <2>1. k \in Keys /\ named(k) = c
    BY VisibleColumn
  <2>2. /\ columns[c].type \in Type
        /\ a \in CellOf(columns[c].type) /\ b \in CellOf(columns[c].type)
        /\ x = hdb_value_to_json(columns[c].type, a) /\ y = hdb_value_to_json(columns[c].type, b)
    <3> HIDE DEF k
    <3> QED BY <2>1, CellOfKey
  <2>3. /\ x # y /\ x.text # NoText /\ y.text # NoText
        /\ x.kind # "null" \/ y.kind # "null"
        /\ x.kind # "null" /\ y.kind # "null" => x.text # y.text
        /\ x.kind = "null" \/ y.kind = "null" =>
              {a, b} = {Null, Chars(Empty)} \/ (x.text # Empty /\ y.text # Empty)
    <3> HIDE DEF a, b, x, y, k
    <3>1. a # b /\ ~ Blurred(columns[c].type, a, b)
      BY DEF a, b
    <3> QED BY <2>2, <3>1, JsonApart
  <2>4. {a, b} = {Null, Chars(Empty)} \/ cursor_value_to_string(x) # cursor_value_to_string(y)
    <3> HIDE DEF a, b, x, y, k
    <3> QED BY <2>3 DEF cursor_value_to_string
  <2>5. Least(c) => cursor_from_outcome(<<rows[i]>>) # cursor_from_outcome(<<rows[j]>>)
    <3> SUFFICES ASSUME Least(c)
                 PROVE  cursor_from_outcome(<<rows[i]>>) # cursor_from_outcome(<<rows[j]>>)
      OBVIOUS
    <3>1. first_col = k
      BY LeastColumn
    <3>2. \A r : cursor_from_outcome(<<r>>) = IF r[k].kind = "null" THEN NoText ELSE r[k].text
      BY <3>1 DEF cursor_from_outcome
    <3> QED BY <2>3, <3>2
  <2> QED BY <2>3, <2>4, <2>5
<1> QED BY <1>1, RowsInvariant, PTL

\* surface.rs, rows_to_resource_page: when a page has a cursor, and that it is the key of
\* the last row shown.
THEOREM CursorsRoundTrip == Spec => []CursorRoundTrips
<1>1. IInv => CursorRoundTrips
  <2> SUFFICES ASSUME IInv, pc = "paged" PROVE CursorRoundTrips
    BY DEF CursorRoundTrips
  <2> DEFINE key == cursor.column
  <2>1. /\ Len(rows) = Len(table) /\ Len(rows) \in Nat /\ limit \in Nat /\ Len(table) <= limit
        /\ cursor.text = next_cursor(key)
    BY DEF IInv, Typed
  <2>2. listed = Shown
    <3>1. ASSUME NEW i \in 1 .. Len(rows), Uri \in Keys
          PROVE  rows[i][Uri].kind = "string" <=>
                   Stringy(columns[named(Uri)].type, table[i][named(Uri)])
      BY <3>1, CellOfKey, KindOfCell
    <3>2. ASSUME NEW u \in 1 .. Len(columns), Visible(u), columns[u].name = Uri
          PROVE  Uri \in Keys /\ u = named(Uri)
      BY <3>2, VisibleColumn
    <3>3. Uri \in Keys => /\ named(Uri) \in 1 .. Len(columns) /\ Visible(named(Uri))
                          /\ columns[named(Uri)].name = Uri
      BY VisibleColumn
    <3> QED BY <2>1, <3>1, <3>2, <3>3 DEF listed, Shown
  <2>3. CASE Len(rows) < limit \/ listed = {} \/ key \notin Keys
    BY <2>1, <2>2, <2>3 DEF next_cursor, last_cursor_value, CursorRoundTrips
  <2>4. CASE ~ (Len(rows) < limit \/ listed = {} \/ key \notin Keys)
    <3> DEFINE last == Max(listed)  c == named(key)  t == columns[c].type  cell == table[last][c]
    <3>1. last \in listed /\ last \in 1 .. Len(rows) /\ \A j \in listed : j <= last
      <4>1. listed \subseteq 1 .. Len(rows)
        BY DEF listed
      <4> HIDE DEF listed
      <4> QED BY <2>1, <2>4, <4>1, LastNamed
    <3>2. /\ c \in 1 .. Len(columns) /\ columns[c].name = key /\ Visible(c)
          /\ cell \in CellOf(t) /\ t \in Type
          /\ rows[last][key] = hdb_value_to_json(t, cell)
      <4> HIDE DEF last
      <4> QED BY <2>4, <3>1, CellOfKey, VisibleColumn
    <3>3. cursor.text = cursor_value_to_string(rows[last][key])
      BY <2>1, <2>4 DEF next_cursor, last_cursor_value
    <3> HIDE DEF last, c, t, cell, key
    <3>4. cursor.text # NoText
      <4>1. hdb_value_to_json(t, cell).text # NoText
        BY <3>2, FormOfCell
           DEF hdb_value_to_json, JsonNull, Json, Null, Infinite, Value, Bytes, Chars, Cell,
               Type, Text, Empty, Literal, Base64, Listed, Length, NoText
      <4>2. Empty # NoText
        BY DEF Empty, NoText, Text
      <4> QED BY <3>2, <3>3, <4>1, <4>2 DEF cursor_value_to_string
    <3>5. cell.is \in {"value", "chars"} /\ t \notin {"lob", "array"} =>
             reads_as(t, cursor.text) = cell
      BY <3>2, <3>3, CellReadBack DEF cursor_value_to_string
    <3>6. Len(table) = limit
      BY <2>1, <2>4
    <3> QED BY <2>2, <3>1, <3>2, <3>4, <3>5, <3>6 DEF CursorRoundTrips, key, t, cell
  <2> QED BY <2>3, <2>4
<1> QED BY <1>1, RowsInvariant, PTL

\* surface.rs, rows_to_completion_values: the candidates are the cells of the column whose
\* name sorts first, in order, none left out, each to be read back.
THEOREM SuggestionsAreOfCells == Spec => []SuggestionsAreCells
<1>1. IInv /\ Candidates => SuggestionsAreCells
  <2> SUFFICES ASSUME IInv, Candidates, pc = "completed",
                      NEW c \in 1 .. Len(columns), Least(c)
               PROVE  CandidatesOf(c)
    BY DEF SuggestionsAreCells
  <2> DEFINE type  == columns[c].type
             given == {i \in 1 .. Len(table) : Stringy(type, table[i][c])}
  <2>1. first_col \in Keys /\ named(first_col) = c
    BY LeastColumn
  <2>2. taken = Len(table) /\ Len(rows) = Len(table)
    BY DEF Candidates, IInv, Typed
  <2>3. ASSUME NEW i \in 1 .. Len(table)
        PROVE  /\ type \in Type /\ table[i][c] \in CellOf(type)
               /\ rows[i][first_col] = hdb_value_to_json(type, table[i][c])
               /\ rows[i][first_col].kind = "string" <=> Stringy(type, table[i][c])
    <3>1. /\ type \in Type /\ table[i][c] \in CellOf(type)
          /\ rows[i][first_col] = hdb_value_to_json(type, table[i][c])
      BY <2>1, <2>2, CellOfKey
    <3> QED BY <3>1, KindOfCell
  <2>4. given = Given(taken)
    BY <2>2, <2>3 DEF Given
  <2>5. ASSUME NEW i \in given
        PROVE  table[i][c].is = "bytes" \/ type = "lob" \/
               reads_as(type, rows[i][first_col].text) = table[i][c]
    <3>1. /\ i \in 1 .. Len(table) /\ table[i][c] # Null
          /\ type \in {"decimal", "string", "date", "binary", "lob"}
      BY DEF Stringy
    <3>2. table[i][c].is \in {"bytes", "value", "chars"}
      BY <2>3, <3>1, FormOfCell DEF Value, Bytes, Chars, Cell
    <3> HIDE DEF given, type
    <3>3. type # "array"
      BY <3>1
    <3> QED BY <2>3, <3>1, <3>2, <3>3, CellReadBack
  <2> HIDE DEF given, type
  <2>6. /\ Len(suggestions) = Cardinality(given)
        /\ \A i \in given :
              suggestions[Cardinality({j \in given : j <= i})] = rows[i][first_col].text
    BY <2>4 DEF Candidates
  <2> QED BY <2>5, <2>6 DEF given, type, CandidatesOf
<1> QED BY <1>1, RowsInvariant, PTL
=============================================================================
