-------------------------- MODULE HanaCatalogProofs --------------------------
(***************************************************************************)
(* Every filter of a discovery call reaches its own column, and a pin holds*)
(* unless a string replaces it, for any catalog, configuration, arguments  *)
(* and limit.                                                              *)
(***************************************************************************)
EXTENDS HanaCatalog, SequenceTheorems, TLAPS

-----------------------------------------------------------------------------
(* Clauses and binds, pushed side by side.                                 *)

\* An entry satisfies each clause with the bind at the same place.
Holds(cl, bi, entry) ==
    \A i \in 1 .. Len(cl) : cl[i] # "limit" => entry[cl[i]] = bi[i]

\* What one filter asks of an entry.
Passes(filters, f, entry) == filters[f] \in {"empty", entry[f]}

Column == Filters \cup {"limit"}
Bind   == String \cup Nat

\* One more pair keeps the pairs before it in step.
LEMMA PairPushed ==
    ASSUME NEW cl \in Seq(Column), NEW bi \in Seq(Bind), Len(cl) = Len(bi),
           NEW c \in Column, NEW b \in Bind
    PROVE  /\ cl \o <<c>> \in Seq(Column) /\ bi \o <<b>> \in Seq(Bind)
           /\ Len(cl \o <<c>>) = Len(cl) + 1 /\ Len(bi \o <<b>>) = Len(cl) + 1
           /\ (cl \o <<c>>)[Len(cl) + 1] = c /\ (bi \o <<b>>)[Len(cl) + 1] = b
           /\ \A entry : Holds(cl \o <<c>>, bi \o <<b>>, entry) <=>
                             Holds(cl, bi, entry) /\ (c # "limit" => entry[c] = b)
<1>1. cl \o <<c>> = Append(cl, c) /\ bi \o <<b>> = Append(bi, b)
  BY AppendIsConcat
<1>2. /\ Append(cl, c) \in Seq(Column) /\ Append(bi, b) \in Seq(Bind)
      /\ Len(cl) \in Nat
      /\ Len(Append(cl, c)) = Len(cl) + 1 /\ Len(Append(bi, b)) = Len(cl) + 1
      /\ \A i \in 1 .. Len(cl) : Append(cl, c)[i] = cl[i] /\ Append(bi, b)[i] = bi[i]
      /\ Append(cl, c)[Len(cl) + 1] = c /\ Append(bi, b)[Len(cl) + 1] = b
  BY AppendProperties, LenProperties
<1>3. \A i : i \in 1 .. Len(cl) + 1 <=> i \in 1 .. Len(cl) \/ i = Len(cl) + 1
  BY <1>2
<1>4. \A entry : Holds(Append(cl, c), Append(bi, b), entry) <=>
                     Holds(cl, bi, entry) /\ (c # "limit" => entry[c] = b)
  BY <1>2, <1>3 DEF Holds
<1> QED BY <1>1, <1>2, <1>4

\* A filter pushes its pair or nothing.
LEMMA FilterPushed ==
    ASSUME NEW filters \in [Filters -> String], NEW f \in Filters,
           NEW cl \in Seq(Column), NEW bi \in Seq(Bind), Len(cl) = Len(bi)
    PROVE  /\ cl \o clause(filters, f) \in Seq(Column) /\ bi \o bind(filters, f) \in Seq(Bind)
           /\ Len(cl \o clause(filters, f)) = Len(bi \o bind(filters, f))
           /\ \A entry : Holds(cl \o clause(filters, f), bi \o bind(filters, f), entry) <=>
                             Holds(cl, bi, entry) /\ Passes(filters, f, entry)
<1>1. CASE filters[f] = "empty"
  BY <1>1, ConcatEmptySeq DEF clause, bind, Passes
<1>2. CASE filters[f] # "empty"
  <2>1. f \in Column /\ filters[f] \in Bind /\ f # "limit"
    BY DEF Column, Bind, Filters
  <2>2. \A entry : Passes(filters, f, entry) <=> entry[f] = filters[f]
    BY <1>2 DEF Passes
  <2>3. clause(filters, f) = <<f>> /\ bind(filters, f) = <<filters[f]>>
    BY <1>2 DEF clause, bind
  <2> HIDE DEF Bind, Column
  <2>4. /\ cl \o <<f>> \in Seq(Column) /\ bi \o <<filters[f]>> \in Seq(Bind)
        /\ Len(cl \o <<f>>) = Len(bi \o <<filters[f]>>)
        /\ \A entry : Holds(cl \o <<f>>, bi \o <<filters[f]>>, entry) <=>
                          Holds(cl, bi, entry) /\ (f # "limit" => entry[f] = filters[f])
    BY <2>1, PairPushed
  <2> QED BY <2>1, <2>2, <2>3, <2>4
<1> QED BY <1>1, <1>2

\* The statement asks of an entry what the filters of the view ask, and its last bind
\* is the limit.
LEMMA StatementSound ==
    ASSUME NEW filters \in [Filters -> String], max_rows \in Nat
    PROVE  LET cl == clauses_of(filters)  bi == binds_of(filters) IN
           /\ Len(cl) = Len(bi) /\ bi[Len(cl)] = max_rows
           /\ \A entry : Holds(cl, bi, entry) <=> \A f \in InView : Passes(filters, f, entry)
<1> DEFINE c1 == clause(filters, "schema")       b1 == bind(filters, "schema")
           c2 == c1 \o clause(filters, "table")  b2 == b1 \o bind(filters, "table")
           c3 == c2 \o clause(filters, Third)    b3 == b2 \o bind(filters, Third)
<1>1. "schema" \in Filters /\ "table" \in Filters /\ Third \in Filters
  BY DEF Filters, Third
<1>2. << >> \in Seq(Column) /\ << >> \in Seq(Bind) /\ Len(<< >>) = 0
  BY EmptySeq
<1>3. \A entry : Holds(<< >>, << >>, entry)
  BY <1>2 DEF Holds
<1>4. << >> \o c1 = c1 /\ << >> \o b1 = b1
  <2>1. c1 \in Seq(Filters) /\ b1 \in Seq(String)
    BY <1>1 DEF clause, bind
  <2> HIDE DEF c1, b1
  <2> QED BY <2>1, ConcatEmptySeq
<1>5. /\ c1 \in Seq(Column) /\ b1 \in Seq(Bind) /\ Len(c1) = Len(b1)
      /\ \A entry : Holds(c1, b1, entry) <=> Passes(filters, "schema", entry)
  <2>1. /\ << >> \o c1 \in Seq(Column) /\ << >> \o b1 \in Seq(Bind)
        /\ Len(<< >> \o c1) = Len(<< >> \o b1)
        /\ \A entry : Holds(<< >> \o c1, << >> \o b1, entry) <=>
                          Holds(<< >>, << >>, entry) /\ Passes(filters, "schema", entry)
    BY <1>1, <1>2, FilterPushed
  <2> HIDE DEF c1, b1
  <2> QED BY <1>3, <1>4, <2>1
<1> HIDE DEF c1, b1
<1>6. /\ c2 \in Seq(Column) /\ b2 \in Seq(Bind) /\ Len(c2) = Len(b2)
      /\ \A entry : Holds(c2, b2, entry) <=>
                        Holds(c1, b1, entry) /\ Passes(filters, "table", entry)
  BY <1>1, <1>5, FilterPushed
<1> HIDE DEF c2, b2
<1>7. /\ c3 \in Seq(Column) /\ b3 \in Seq(Bind) /\ Len(c3) = Len(b3)
      /\ \A entry : Holds(c3, b3, entry) <=>
                        Holds(c2, b2, entry) /\ Passes(filters, Third, entry)
  BY <1>1, <1>6, FilterPushed
<1> HIDE DEF c3, b3
<1>8. "limit" \in Column /\ max_rows \in Bind
  BY DEF Column, Bind
<1>9. /\ Len(c3 \o <<"limit">>) = Len(c3) + 1 /\ Len(b3 \o <<max_rows>>) = Len(c3) + 1
      /\ (b3 \o <<max_rows>>)[Len(c3) + 1] = max_rows
      /\ \A entry : Holds(c3 \o <<"limit">>, b3 \o <<max_rows>>, entry) <=>
                        Holds(c3, b3, entry)
  BY <1>7, <1>8, PairPushed
<1>10. clauses_of(filters) = c3 \o <<"limit">> /\ binds_of(filters) = b3 \o <<max_rows>>
  BY DEF clauses_of, binds_of, c1, b1, c2, b2, c3, b3
<1> QED BY <1>5, <1>6, <1>7, <1>9, <1>10 DEF InView

-----------------------------------------------------------------------------
(* The call.                                                               *)

\* A call keeps its types, the statement sent is that of its filters, and what comes
\* back are the first max_rows entries that match.
IInv ==
    /\ operation \in {"list_tables", "list_columns"} /\ config \in Configs
    /\ Accepted(operation, config)
    /\ max_rows \in MaxRows
    /\ arguments \in [ArgNames -> Argument]
    /\ pc \in {"asked", "sent", "answered"}
    /\ pc # "asked" => /\ clauses = clauses_of(resolve(arguments))
                       /\ binds = binds_of(resolve(arguments))
    /\ IF pc = "answered" THEN rows \in Limited(max_rows) ELSE rows = {}

\* Every filter resolves to a string.
LEMMA ResolveTyped ==
    ASSUME config \in Configs, NEW args
    PROVE  resolve(args) \in [Filters -> String]
<1> SUFFICES ASSUME NEW f \in Filters PROVE resolve_one(f, args) \in String
  BY DEF resolve
<1>1. config.pin[f] \in String \cup {"none"}
  BY ConfigsTyped DEF CatalogFilterConfig
<1>2. Pinned(f) \in String
  BY <1>1 DEF Pinned, String
<1> QED BY <1>2 DEF resolve_one

LEMMA InitInv == Init => IInv
BY DEF Init, IInv

LEMMA StepInv == IInv /\ [Next]_vars => IInv'
<1> SUFFICES ASSUME IInv, [Next]_vars PROVE IInv'
  OBVIOUS
<1>1. CASE run_catalog
  <2>1. UNCHANGED <<operation, config, max_rows, arguments>> /\ rows' = {} /\ pc' = "sent"
    BY <1>1 DEF run_catalog, IInv, binding
  <2>2. resolve(arguments)' = resolve(arguments)
    BY <2>1 DEF resolve, resolve_one, Pinned
  <2>3. /\ clauses' = clauses_of(resolve(arguments))'
        /\ binds' = binds_of(resolve(arguments))'
    BY <1>1, <2>1, <2>2
       DEF run_catalog, clauses_of, binds_of, clause, bind, Third
  <2> QED BY <2>1, <2>3 DEF IInv
<1>2. CASE Answer
  <2>1. /\ UNCHANGED <<operation, config, max_rows, arguments, clauses, binds>>
        /\ pc = "sent" /\ pc' = "answered"
        /\ rows' \in Limited(binds[Len(clauses)])
    BY <1>2 DEF Answer, binding
  <2>2. max_rows \in Nat /\ resolve(arguments) \in [Filters -> String]
    BY ResolveTyped, MaxRowsTyped DEF IInv
  <2>3. binds[Len(clauses)] = max_rows
    BY <2>1, <2>2, StatementSound DEF IInv
  <2>4. Limited(max_rows)' = Limited(max_rows) /\ resolve(arguments)' = resolve(arguments)
    BY <2>1 DEF Limited, Matching, resolve, resolve_one, Pinned
  <2>5. /\ clauses' = clauses_of(resolve(arguments))'
        /\ binds' = binds_of(resolve(arguments))'
    BY <2>1, <2>4 DEF IInv, clauses_of, binds_of, clause, bind, Third
  <2> QED BY <2>1, <2>3, <2>4, <2>5 DEF IInv
<1>3. CASE UNCHANGED vars
  <2>1. /\ UNCHANGED <<operation, config, max_rows, arguments, pc, clauses, binds, rows>>
        /\ Limited(max_rows)' = Limited(max_rows) /\ resolve(arguments)' = resolve(arguments)
    BY <1>3 DEF vars, binding, Limited, Matching, resolve, resolve_one, Pinned
  <2>2. /\ clauses_of(resolve(arguments))' = clauses_of(resolve(arguments))
        /\ binds_of(resolve(arguments))' = binds_of(resolve(arguments))
    BY <2>1 DEF clauses_of, binds_of, clause, bind, Third
  <2> QED BY <2>1, <2>2 DEF IInv
<1> QED BY <1>1, <1>2, <1>3 DEF Next, Answered

\* What matches the statement is what passes the filters.
LEMMA MatchingPasses ==
    ASSUME IInv, pc = "answered", NEW p \in Places
    PROVE  p \in Matching <=> \A f \in InView : Passes(resolve(arguments), f, Catalog[p])
<1>1. max_rows \in Nat /\ resolve(arguments) \in [Filters -> String]
  BY ResolveTyped, MaxRowsTyped DEF IInv
<1>2. /\ clauses = clauses_of(resolve(arguments))
      /\ binds = binds_of(resolve(arguments))
  BY DEF IInv
<1>3. p \in Matching <=> Holds(clauses, binds, Catalog[p])
  BY DEF Matching, Holds
<1> QED BY <1>1, <1>2, <1>3, StatementSound

\* What a filter resolves to: the caller's string, or else the pin, or else anything.
LEMMA ResolvedTo ==
    ASSUME IInv, NEW f \in InView
    PROVE  /\ Asked(f) => resolve(arguments)[f] = arguments[config.arg[f]]
           /\ ~ Asked(f) => resolve(arguments)[f] =
                                IF config.pin[f] = "none" THEN "empty" ELSE config.pin[f]
<1>1. f \in Filters
  BY DEF InView, Third, Filters
<1> QED BY <1>1 DEF resolve, resolve_one, Pinned, Asked

-----------------------------------------------------------------------------

\* The inductive invariant of a discovery call.
THEOREM CatalogInvariant == Spec => []IInv
BY InitInv, StepInv, PTL DEF Spec

\* Whichever filters are given, each restricts its own column, and the answer is the
\* first max_rows entries that pass them all.
THEOREM CatalogFiltersReach == Spec => []FiltersReachTheirColumns
<1>1. IInv => FiltersReachTheirColumns
  <2> DEFINE Wanted(entry) ==
                 \A f \in InView :
                     LET w == IF Asked(f) THEN arguments[config.arg[f]] ELSE config.pin[f]
                     IN  w \in {"empty", "none", entry[f]}
  <2> SUFFICES ASSUME IInv, pc = "answered"
               PROVE  /\ Cardinality(rows) <= max_rows
                      /\ \A p \in Places :
                            /\ p \in rows => Wanted(Catalog[p])
                            /\ Wanted(Catalog[p]) /\ p \notin rows =>
                                  Cardinality(rows) = max_rows /\ \A q \in rows : q < p
    BY DEF FiltersReachTheirColumns
  <2>1. /\ rows \subseteq Matching /\ Cardinality(rows) <= max_rows
        /\ rows # Matching => Cardinality(rows) = max_rows
        /\ \A q \in rows, p \in Matching \ rows : q < p
    BY DEF IInv, Limited
  <2>2. ASSUME NEW p \in Places PROVE p \in Matching <=> Wanted(Catalog[p])
    <3>1. ASSUME NEW f \in InView
          PROVE  LET w == IF Asked(f) THEN arguments[config.arg[f]] ELSE config.pin[f]
                 IN  Passes(resolve(arguments), f, Catalog[p]) <=> w \in {"empty", "none", Catalog[p][f]}
      <4>1. Catalog[p][f] \in Names /\ f \in Filters
        BY CatalogTyped, ElementOfSeq DEF Places, InView, Third, Filters
      <4>2. CASE Asked(f)
        <5>1. arguments[config.arg[f]] \in String /\ "none" \notin String
          BY <4>2, NamesReal DEF Asked, String
        <5> QED BY <4>2, <5>1, ResolvedTo DEF Passes
      <4>3. CASE ~ Asked(f)
        BY <4>1, <4>3, ResolvedTo, NamesReal DEF Passes
      <4> QED BY <4>2, <4>3
    <3> QED BY <3>1, MatchingPasses
  <2> HIDE DEF Wanted
  <2> QED BY <2>1, <2>2
<1> QED BY <1>1, CatalogInvariant, PTL

\* A pin is lifted by a string, and by nothing else.
THEOREM CatalogPinHolds == Spec => []PinHoldsUnlessReplaced
<1>1. IInv => PinHoldsUnlessReplaced
  <2> SUFFICES ASSUME IInv, NEW f \in InView, ~ Asked(f), config.pin[f] \in Names,
                      NEW p \in rows
               PROVE  Catalog[p][f] = config.pin[f]
    BY DEF PinHoldsUnlessReplaced
  <2>1. pc = "answered" /\ p \in Matching /\ p \in Places
    BY DEF IInv, Limited, Matching
  <2>2. Passes(resolve(arguments), f, Catalog[p])
    BY <2>1, MatchingPasses
  <2>3. resolve(arguments)[f] = config.pin[f] /\ config.pin[f] # "empty"
    BY ResolvedTo, NamesReal
  <2> QED BY <2>2, <2>3 DEF Passes
<1> QED BY <1>1, CatalogInvariant, PTL

\* A list_columns call ranges over several tables only if the binding takes its table
\* from the caller, who gave none or lifted the pin.
THEOREM CatalogOneTable == Spec => []ColumnsOfOneTable
<1>1. IInv => ColumnsOfOneTable
  <2> DEFINE arg == config.arg["table"]
             pin == config.pin["table"]
  <2> SUFFICES ASSUME IInv, operation = "list_columns", NEW p \in rows, NEW q \in rows,
                      Catalog[p]["table"] # Catalog[q]["table"]
               PROVE  \/ arg # "none" /\ arguments[arg] = "empty"
                      \/ arg # "none" /\ arguments[arg] \notin String /\ pin \in {"none", "empty"}
    BY DEF ColumnsOfOneTable
  <2>1. /\ pc = "answered"
        /\ p \in Matching /\ q \in Matching /\ p \in Places /\ q \in Places
    BY DEF IInv, Limited, Matching
  <2> "table" \in InView
    BY DEF InView
  <2>2. /\ Passes(resolve(arguments), "table", Catalog[p])
        /\ Passes(resolve(arguments), "table", Catalog[q])
    BY <2>1, MatchingPasses
  <2>3. resolve(arguments)["table"] = "empty"
    BY <2>2 DEF Passes
  <2>4. CASE Asked("table")
    BY <2>3, <2>4, ResolvedTo, NamesReal DEF Asked, String
  <2>5. CASE ~ Asked("table")
    <3>1. pin \in {"none", "empty"}
      BY <2>3, <2>5, ResolvedTo
    <3>2. arg # "none"
      BY <3>1, NamesReal DEF IInv, Accepted
    <3> QED BY <2>5, <3>1, <3>2 DEF Asked
  <2> QED BY <2>4, <2>5
<1> QED BY <1>1, CatalogInvariant, PTL

\* The schema lists every argument the statement depends on.
THEOREM CatalogSchemaComplete == Spec => []SchemaIsComplete
<1>1. IInv => SchemaIsComplete
  <2> SUFFICES ASSUME NEW args \in [ArgNames -> Argument],
                      \A n \in argument_names : args[n] = arguments[n],
                      NEW f \in Filters
               PROVE  resolve_one(f, args) = resolve_one(f, arguments)
    BY DEF SchemaIsComplete, resolve
  <2>1. config.arg[f] # "none" => config.arg[f] \in argument_names
    BY DEF argument_names
  <2> QED BY <2>1 DEF resolve_one
<1> QED BY <1>1, CatalogInvariant, PTL

\* README, Schema discovery: the documented claim holds of a binding that pins its
\* table and takes no argument for it, one that requires a table filter indeed.
THEOREM PinnedTableScopes ==
    ASSUME \A c \in Configs : c.pin["table"] \in Names /\ c.arg["table"] = "none"
    PROVE  Spec => []ListColumnsScoped
<1>1. IInv => ListColumnsScoped
  <2> SUFFICES ASSUME IInv, operation = "list_columns", pc # "asked"
               PROVE  \E i \in 1 .. Len(clauses) : clauses[i] = "table"
    BY DEF ListColumnsScoped
  <2> DEFINE filters == resolve(arguments)
             c1 == clause(filters, "schema")  c3 == clause(filters, "column")
             c4 == <<"limit">>
  <2>1. filters["table"] # "empty"
    BY NamesReal DEF IInv, resolve, resolve_one, Pinned, Filters
  <2>2. clauses = ((c1 \o <<"table">>) \o c3) \o c4
    <3>1. clauses = clauses_of(filters) /\ Third = "column"
      BY DEF IInv, Third
    <3>2. clause(filters, "table") = <<"table">>
      BY <2>1 DEF clause
    <3> HIDE DEF filters
    <3> QED BY <3>1, <3>2 DEF clauses_of
  <2>3. /\ c1 \in Seq(Column) /\ <<"table">> \in Seq(Column)
        /\ c3 \in Seq(Column) /\ c4 \in Seq(Column)
        /\ Len(<<"table">>) = 1 /\ <<"table">>[1] = "table"
    <3>1. \A c \in Column : <<c>> \in Seq(Column)
      OBVIOUS
    <3>2. "schema" \in Column /\ "table" \in Column /\ "column" \in Column /\ "limit" \in Column
      BY DEF Column, Filters
    <3>3. << >> \in Seq(Column)
      OBVIOUS
    <3> HIDE DEF Column, filters
    <3> QED BY <3>1, <3>2, <3>3 DEF clause
  <2> HIDE DEF c1, c3, c4
  <2> DEFINE d == c1 \o <<"table">>  i == Len(c1) + 1
  <2>4. Len(c1) \in Nat /\ d \in Seq(Column) /\ i \in 1 .. Len(d) /\ d[i] = "table"
    BY <2>3, LenProperties, ConcatProperties
  <2> HIDE DEF d, i
  <2>5. d \o c3 \in Seq(Column) /\ i \in 1 .. Len(d \o c3) /\ (d \o c3)[i] = "table"
    BY <2>3, <2>4, LenProperties, ConcatProperties
  <2>6. i \in 1 .. Len((d \o c3) \o c4) /\ ((d \o c3) \o c4)[i] = "table"
    BY <2>3, <2>5, LenProperties, ConcatProperties
  <2> QED BY <2>2, <2>6 DEF d
<1> QED BY <1>1, CatalogInvariant, PTL
=============================================================================
