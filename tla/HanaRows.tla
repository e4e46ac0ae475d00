------------------------------ MODULE HanaRows ------------------------------
(***************************************************************************)
(* From the cells of a result set to what a caller sees of them: the JSON  *)
(* object of a row (engine.rs), the completion candidates and the keyset   *)
(* cursor made from the objects (surface.rs, lib.rs), and a watcher's      *)
(* scalar (watch.rs).                                                      *)
(***************************************************************************)
EXTENDS Naturals, Sequences, FiniteSetsExt

CONSTANTS
    Columns,   \* column lists of a result: names and types, in select order
    Names,     \* names a cursor_column may have; a result need not have the column
    Uri,       \* the name "uri"
    Cells,     \* values of a type, told apart by number
    Limits     \* row caps of a query: max_results, page_size, a watcher's 1

Type == {"int", "double", "decimal", "bool", "string", "binary", "date", "lob", "array"}

\* A name is its rank in the alphabet: a JSON object is ordered by its keys.
Column == [name: Nat, type: Type]

ASSUME ColumnsTyped == Columns \subseteq Seq(Column) \ {<< >>}
ASSUME NamesTyped   == Names \subseteq Nat /\ Uri \in Nat
ASSUME CellsTyped   == Cells \subseteq Nat
ASSUME LimitsTyped  == Limits \subseteq Nat

-----------------------------------------------------------------------------
(* Texts, as terms.  The digits of a number, the rendering of a date or an *)
(* array and base64 are the libraries', each one-to-one; a LOB renders as  *)
(* its length, the same for two values in a row.                           *)

Text(as, n) == [as |-> as, num |-> n]
Empty       == Text("empty", 0)
Literal(n)  == Text("literal", n)
Base64(n)   == Text("base64", n)
Listed(n)   == Text("listed", n)
Length(n)   == Text("length", n \div 2)
NoText      == Text("none", 0)        \* no text at all

\* A cell has a number or, if it is characters, any text: '' and the text of another
\* value's base64 among them.  A DBSTRING that is not UTF-8 is bytes.
Cell(is, n, tx) == [is |-> is, num |-> n, text |-> tx]
Null     == Cell("null", 0, Empty)
Infinite == Cell("infinite", 0, Empty)
Value(n) == Cell("value", n, Empty)
Bytes(n) == Cell("bytes", n, Empty)
Chars(t) == Cell("chars", 0, t)

Strings == {Chars(Empty)} \cup {Chars(Literal(n)) : n \in Cells}
                          \cup {Chars(Base64(n)) : n \in Cells}

CellOf(type) ==
    {Null} \cup CASE type = "string" -> Strings \cup {Bytes(n) : n \in Cells}
                  [] type = "binary" -> {Bytes(n) : n \in Cells}
                  [] type = "double" -> {Infinite} \cup {Value(n) : n \in Cells}
                  [] type \in Type \ {"string", "binary", "double"} -> {Value(n) : n \in Cells}

Row(cols) == {r \in [1 .. Len(cols) -> UNION {CellOf(t) : t \in Type}] :
                 \A i \in 1 .. Len(cols) : r[i] \in CellOf(cols[i].type)}

VARIABLES
    columns,
    table,            \* the rows of the result that its caps let through
    limit,
    pc,
    rows,             \* the objects made so far
    taken,            \* rows gone through for candidates
    suggestions, cursor, scalar

result == <<columns, table, limit>>
vars   == <<result, pc, rows, taken, suggestions, cursor, scalar>>

-----------------------------------------------------------------------------
(* JSON: a kind, and the text that to_string gives it.                     *)

Json(kind, tx) == [kind |-> kind, text |-> tx]
JsonNull       == Json("null", Text("null", 0))

\* Mutant: a decimal is read as a double.
decimal_as_double(type, cell) ==
    CASE cell.is \in {"null", "infinite"} -> JsonNull
      [] cell.is = "chars" -> Json("string", cell.text)
      [] cell.is = "bytes" -> Json("string", Base64(cell.num))
      [] cell.is = "value" /\ type = "decimal" -> Json("number", Literal(cell.num \div 2))
      [] cell.is = "value" /\ type # "decimal" -> Json("string", Literal(cell.num))

hdb_value_to_json(type, cell) ==
    CASE cell.is \in {"null", "infinite"} -> JsonNull
      [] cell.is = "chars" -> Json("string", cell.text)
      [] cell.is = "bytes" -> Json("string", Base64(cell.num))
      [] cell.is = "value" /\ type \in {"int", "double"} -> Json("number", Literal(cell.num))
      [] cell.is = "value" /\ type = "bool" -> Json("bool", Literal(cell.num))
      [] cell.is = "value" /\ type \in {"decimal", "date"} -> Json("string", Literal(cell.num))
      [] cell.is = "value" /\ type = "lob" -> Json("string", Length(cell.num))
      [] cell.is = "value" /\ type = "array" -> Json("array", Listed(cell.num))

Keys == {columns[i].name : i \in 1 .. Len(columns)}

\* A later column of the same name replaces an earlier one.
named(name) == Max({i \in 1 .. Len(columns) : columns[i].name = name})

object(row) == [k \in Keys |-> hdb_value_to_json(columns[named(k)].type, row[named(k)])]

\* keys().next(), values().next()
first_col == Min(Keys)

-----------------------------------------------------------------------------

Init ==
    /\ columns \in Columns
    /\ limit \in Limits
    /\ table \in UNION {[1 .. n -> Row(columns)] : n \in 0 .. limit}
    /\ pc = "fetching"
    /\ rows = << >>
    /\ taken = 0 /\ suggestions = << >>
    /\ cursor = [column |-> 0, text |-> NoText]
    /\ scalar = NoText

Fetch ==
    /\ pc = "fetching"
    /\ Len(rows) < Len(table)
    /\ rows' = Append(rows, object(table[Len(rows) + 1]))
    /\ UNCHANGED <<result, pc, taken, suggestions, cursor, scalar>>

Complete ==
    /\ pc = "fetching" /\ Len(rows) = Len(table)
    /\ pc' = "completing"
    /\ UNCHANGED <<result, rows, taken, suggestions, cursor, scalar>>

\* Mutant: a cell that is no string is suggested as its JSON text.
suggest_rendered ==
    /\ pc = "completing"
    /\ taken < limit /\ taken < Len(rows)
    /\ taken' = taken + 1
    /\ suggestions' = Append(suggestions, rows[taken'][first_col].text)
    /\ UNCHANGED <<result, pc, rows, cursor, scalar>>

\* One turn of the loop; take(max) counts the rows, those passed over too.
rows_to_completion_values ==
    /\ pc = "completing"
    /\ taken < limit /\ taken < Len(rows)
    /\ taken' = taken + 1
    /\ LET cell == rows[taken'][first_col] IN
       suggestions' = IF cell.kind = "string" THEN Append(suggestions, cell.text)
                                              ELSE suggestions
    /\ UNCHANGED <<result, pc, rows, cursor, scalar>>

Completed ==
    /\ pc = "completing"
    /\ taken = limit \/ taken = Len(rows)
    /\ pc' = "completed"
    /\ UNCHANGED <<result, rows, taken, suggestions, cursor, scalar>>

cursor_value_to_string(json) == IF json.kind = "null" THEN Empty ELSE json.text

\* A row with no string under uri is skipped before its cursor column is read.
listed == {i \in 1 .. Len(rows) : Uri \in Keys /\ rows[i][Uri].kind = "string"}

last_cursor_value(key) ==
    IF listed = {} \/ key \notin Keys THEN NoText
    ELSE cursor_value_to_string(rows[Max(listed)][key])

\* Mutant: the cursor column is read of skipped rows too.
cursor_of_last(key) ==
    IF Len(rows) < limit \/ rows = << >> \/ key \notin Keys THEN NoText
    ELSE cursor_value_to_string(rows[Len(rows)][key])

next_cursor(key) == IF Len(rows) < limit THEN NoText ELSE last_cursor_value(key)

\* rows_to_resource_page in keyset mode; a page_size is 1 at least.
Page(key) ==
    /\ pc = "fetching" /\ Len(rows) = Len(table)
    /\ limit # 0
    /\ pc' = "paged"
    /\ cursor' = [column |-> key, text |-> next_cursor(key)]
    /\ UNCHANGED <<result, rows, taken, suggestions, scalar>>

cursor_from_outcome(outcome) ==
    IF outcome = << >> \/ outcome[1][first_col].kind = "null" THEN NoText
    ELSE outcome[1][first_col].text

\* A tick reads one row.
Tick ==
    /\ pc = "fetching" /\ Len(rows) = Len(table)
    /\ limit = 1
    /\ pc' = "ticked"
    /\ scalar' = cursor_from_outcome(rows)
    /\ UNCHANGED <<result, rows, taken, suggestions, cursor>>

Ended == pc \in {"completed", "paged", "ticked"} /\ UNCHANGED vars

Next ==
    \/ Fetch
    \/ Complete \/ rows_to_completion_values \/ Completed
    \/ \E key \in Names : Page(key)
    \/ Tick
    \/ Ended

Spec == Init /\ [][Next]_vars

-----------------------------------------------------------------------------
(* What the caller and the server make of it, said of the table's columns  *)
(* and cells, and of a text sent back as a bind.                           *)

\* The value a text has for a column of a type: a key is bound as a string, and the
\* server converts it.  Base64 is no notation of the server's.
Unreadable == Cell("unreadable", 0, Empty)
reads_as(type, text) ==
    CASE type = "string" -> Chars(text)
      [] type \in {"int", "double", "decimal", "bool", "date"} /\ text.as = "literal" ->
             Value(text.num)
      [] type \in {"binary", "lob", "array"} \/ (type # "string" /\ text.as # "literal") ->
             Unreadable

\* A column that no later one of its name hides.
Visible(c) == \A d \in 1 .. Len(columns) : columns[d].name = columns[c].name => d <= c

\* The visible column with the least name.
Least(c) == Visible(c) /\ \A d \in 1 .. Len(columns) : columns[c].name <= columns[d].name

Stringy(type, cell) == cell # Null /\ type \in {"decimal", "string", "date", "binary", "lob"}

\* Values that are alike in JSON: a LOB's, NULL and an infinity, bytes and their base64.
Blurred(type, a, b) ==
    \/ type = "lob"
    \/ {a, b} \subseteq {Null, Infinite}
    \/ \E n \in Cells : {a, b} = {Bytes(n), Chars(Base64(n))}

\* Nothing but a Blurred pair becomes one value on its way: rows that differ in a visible
\* column differ in the object; in the cursor too, except that NULL and '' are one; and
\* in the scalar a watcher would keep, if the column is its.
ValuesStayApart ==
    \A i, j \in 1 .. Len(rows) : \A c \in 1 .. Len(columns) :
        LET name == columns[c].name  a == table[i][c]  b == table[j][c] IN
        (Visible(c) /\ a # b /\ ~ Blurred(columns[c].type, a, b)) =>
            /\ rows[i][name] # rows[j][name]
            /\ {a, b} = {Null, Chars(Empty)}
               \/ cursor_value_to_string(rows[i][name]) # cursor_value_to_string(rows[j][name])
            /\ Least(c) => cursor_from_outcome(<<rows[i]>>) # cursor_from_outcome(<<rows[j]>>)

\* The candidates are the cells of column c that are strings in JSON, in the order of the
\* rows, none left out; a caller who takes one back finds its cell, unless it is bytes or
\* a LOB.
CandidatesOf(c) ==
    LET type  == columns[c].type
        given == {i \in 1 .. Len(table) : Stringy(type, table[i][c])}
    IN  /\ Len(suggestions) = Cardinality(given)
        /\ \A i \in given :
              table[i][c].is = "bytes" \/ type = "lob" \/
              reads_as(type, suggestions[Cardinality({j \in given : j <= i})]) = table[i][c]

\* surface.rs, rows_to_completion_values, lib.rs, keys().next(): the candidates are those
\* of the column whose name sorts first (the documents say the first column: see
\* FirstColumnSuggested), whatever the types, the NULLs and a hidden column of that name.
SuggestionsAreCells ==
    pc = "completed" => \A c \in 1 .. Len(columns) : Least(c) => CandidatesOf(c)

\* Rows a listing shows: a visible uri, and a string in it.
Shown == {i \in 1 .. Len(table) : \E u \in 1 .. Len(columns) :
             Visible(u) /\ columns[u].name = Uri /\ Stringy(columns[u].type, table[i][u])}

\* surface.rs, rows_to_resource_page: there is no cursor exactly when the page is short,
\* shows no row or has no such column.  Otherwise it is of the last row shown, and the
\* server reads it back as that row's key, exactly: a decimal goes through no double.
\* (Not a NULL, nor a type the server cannot read back: surface.rs promises UUIDs, and a
\* binary one is lost.)
CursorRoundTrips ==
    pc = "paged" =>
        \/ /\ cursor.text = NoText
           /\ Len(table) < limit \/ Shown = {} \/ cursor.column \notin Keys
        \/ /\ cursor.text # NoText /\ Len(table) = limit
           /\ \E i \in Shown : \E c \in 1 .. Len(columns) :
                 /\ \A j \in Shown : j <= i
                 /\ Visible(c) /\ columns[c].name = cursor.column
                 /\ (table[i][c].is \in {"value", "chars"} /\ columns[c].type \notin {"lob", "array"})
                        => reads_as(columns[c].type, cursor.text) = table[i][c]

-----------------------------------------------------------------------------
(* What the documents say, and the code does not do; a run shows it.       *)

\* types.rs, surface.rs: a completion query returns its candidates in its first column.
FirstColumnSuggested == pc = "completed" /\ Visible(1) => CandidatesOf(1)
=============================================================================
