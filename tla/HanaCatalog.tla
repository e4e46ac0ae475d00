----------------------------- MODULE HanaCatalog -----------------------------
(***************************************************************************)
(* A schema-discovery call (operation list_tables or list_columns): the    *)
(* filters it resolves from the operator's pins and the caller's arguments *)
(* (lib.rs), the statement and the binds the builders push side by side    *)
(* (engine.rs), and what the server makes of the two, which it matches by  *)
(* position.                                                               *)
(***************************************************************************)
EXTENDS Naturals, Sequences, FiniteSets

CONSTANTS
    Names,      \* names of schemas, tables, types and columns
    ArgNames,   \* names of tool arguments
    Configs,    \* filter configurations of the operator
    Catalog,    \* what SYS holds: the entries, in the order of the statement
    MaxRows     \* values of max_rows

Filters == {"schema", "table", "table_type", "column"}

\* A blank string is not trimmed; "other" is any JSON value that is no string.
String   == Names \cup {"empty", "blank"}
Argument == String \cup {"other", "missing"}

CatalogFilterConfig ==
    [pin: [Filters -> String \cup {"none"}], arg: [Filters -> ArgNames \cup {"none"}]]

ASSUME ConfigsTyped == Configs \subseteq CatalogFilterConfig
ASSUME NamesReal    == Names \cap {"empty", "blank", "other", "missing", "none", "limit"} = {}
ASSUME CatalogTyped == Catalog \in Seq([Filters -> Names])
ASSUME MaxRowsTyped == MaxRows \subseteq Nat \ {0}

VARIABLES
    operation, config, max_rows,
    arguments,  \* of the call
    pc,
    clauses,    \* the column of each `?` of the statement, "limit" for LIMIT ?
    binds,      \* what is bound, in order
    rows        \* the places in the catalog of the entries sent back

binding == <<operation, config, max_rows>>
vars    == <<binding, arguments, pc, clauses, binds, rows>>

-----------------------------------------------------------------------------
(* Resolving the filters.                                                  *)

\* Mutant: discovery bindings are registered as they are.
accept_any(o, cfg) == o \in {"list_tables", "list_columns"}

\* A list_columns binding names a table, or an argument that may.
Accepted(o, cfg) ==
    o = "list_columns" => cfg.pin["table"] \in Names \/ cfg.arg["table"] # "none"

Pinned(f) == IF config.pin[f] = "none" THEN "empty" ELSE config.pin[f]

\* Mutant: a number given for a filter removes the pin.
resolve_any(f, args) ==
    LET name == config.arg[f] IN
    IF name # "none" /\ args[name] # "missing"
    THEN IF args[name] \in String THEN args[name] ELSE "empty"
    ELSE Pinned(f)

\* A string argument stands for the pin, the empty one included.
resolve_one(f, args) ==
    LET name == config.arg[f] IN
    IF name # "none" /\ args[name] \in String THEN args[name] ELSE Pinned(f)

resolve(args) == [f \in Filters |-> resolve_one(f, args)]

\* Mutant: the columns' own filter is left out of the schema.
names_of_tables == {config.arg[f] : f \in Filters \ {"column"}} \ {"none"}

\* What input_schema lists.
argument_names == {config.arg[f] : f \in Filters} \ {"none"}

-----------------------------------------------------------------------------
(* The statement: for each filter of the view that is not empty, a clause  *)
(* and a bind; the row limit at the end of both.                           *)

Third == IF operation = "list_tables" THEN "table_type" ELSE "column"

clause(filters, f) == IF filters[f] = "empty" THEN << >> ELSE <<f>>
bind(filters, f)   == IF filters[f] = "empty" THEN << >> ELSE <<filters[f]>>

\* Mutant: the binds in another order than the clauses.
binds_swapped(filters) ==
    bind(filters, "table") \o bind(filters, "schema") \o bind(filters, Third) \o <<max_rows>>

clauses_of(filters) ==
    clause(filters, "schema") \o clause(filters, "table") \o clause(filters, Third) \o <<"limit">>

binds_of(filters) ==
    bind(filters, "schema") \o bind(filters, "table") \o bind(filters, Third) \o <<max_rows>>

-----------------------------------------------------------------------------

Init ==
    /\ operation \in {"list_tables", "list_columns"}
    /\ config \in Configs
    /\ Accepted(operation, config)
    /\ max_rows \in MaxRows
    /\ arguments \in [ArgNames -> Argument]
    /\ pc = "asked"
    /\ clauses = << >> /\ binds = << >> /\ rows = {}

run_catalog ==
    /\ pc = "asked"
    /\ pc' = "sent"
    /\ clauses' = clauses_of(resolve(arguments))
    /\ binds' = binds_of(resolve(arguments))
    /\ UNCHANGED <<binding, arguments, rows>>

\* What the server makes of a statement: the entries that match, the first of them
\* if they are more than the limit.
Places == 1 .. Len(Catalog)

Matching ==
    {p \in Places : \A i \in 1 .. Len(clauses) :
                       clauses[i] # "limit" => Catalog[p][clauses[i]] = binds[i]}

Limited(limit) ==
    {r \in SUBSET Matching :
        /\ Cardinality(r) <= limit
        /\ r # Matching => Cardinality(r) = limit
        /\ \A p \in r, q \in Matching \ r : p < q}

Answer ==
    /\ pc = "sent"
    /\ Len(binds) = Len(clauses)
    /\ pc' = "answered"
    /\ rows' \in Limited(binds[Len(clauses)])
    /\ UNCHANGED <<binding, arguments, clauses, binds>>

Answered == pc = "answered" /\ UNCHANGED vars

Next == run_catalog \/ Answer \/ Answered

Spec == Init /\ [][Next]_vars

-----------------------------------------------------------------------------

InView == {"schema", "table", Third}
Asked(f) == config.arg[f] # "none" /\ arguments[config.arg[f]] \in String

\* The filters reach the columns they were meant for, whichever of them are given:
\* an entry is sent back exactly when it has, for each filter of the view, the
\* caller's string, or else the operator's pin, or else anything; unless max_rows such
\* entries come before it.
FiltersReachTheirColumns ==
    pc = "answered" =>
        LET Wanted(entry) ==
                \A f \in InView :
                    LET w == IF Asked(f) THEN arguments[config.arg[f]] ELSE config.pin[f]
                    IN  w \in {"empty", "none", entry[f]}
        IN  /\ Cardinality(rows) <= max_rows
            /\ \A p \in Places :
                  /\ p \in rows => Wanted(Catalog[p])
                  /\ Wanted(Catalog[p]) /\ p \notin rows =>
                        Cardinality(rows) = max_rows /\ \A q \in rows : q < p

\* A pin holds in every call that gives no string for it: a missing argument, or one
\* that is a number, a list or null, does not open the view.
PinHoldsUnlessReplaced ==
    \A f \in InView : ~ Asked(f) /\ config.pin[f] \in Names =>
        \A p \in rows : Catalog[p][f] = config.pin[f]

\* lib.rs, register_profile and resolve_one: a list_columns call is answered with the
\* columns of one table, except where the table argument that registration accepted in
\* place of a pin is not given, or no string, and where an empty string lifts the pin.
\* (The documents know no exception: see ListColumnsScoped.)
ColumnsOfOneTable ==
    LET arg == config.arg["table"]  IN
    \/ operation # "list_columns"
    \/ \A p, q \in rows : Catalog[p]["table"] = Catalog[q]["table"]
    \/ arg # "none" /\ arguments[arg] = "empty"
    \/ arg # "none" /\ arguments[arg] \notin String /\ config.pin["table"] \in {"none", "empty"}

\* The schema tells of every argument that can make a difference: calls that agree on
\* the arguments it lists get the same statement.
SchemaIsComplete ==
    \A args \in [ArgNames -> Argument] :
        (\A n \in argument_names : args[n] = arguments[n]) =>
            resolve(args) = resolve(arguments)

-----------------------------------------------------------------------------
(* What the documentation says, and the code does of some bindings only.   *)

\* README, Schema discovery, and lib.rs, register_profile: a list_columns call never
\* enumerates every column in the database.
ListColumnsScoped ==
    operation = "list_columns" /\ pc # "asked" =>
        \E i \in 1 .. Len(clauses) : clauses[i] = "table"
=============================================================================
