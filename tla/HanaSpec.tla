------------------------------ MODULE HanaSpec ------------------------------
(***************************************************************************)
(* The operator-facing spec of one binding (types.rs), the checks          *)
(* register_profile makes of it before it becomes a profile (lib.rs), and  *)
(* which operator-fixed statement each operation of a profile runs.        *)
(*                                                                         *)
(* Strings are abstracted to the classes the code tells apart.             *)
(***************************************************************************)
EXTENDS Naturals

\* An optional string: missing, only white space, an ordinary value, or a
\* value holding a bare cred:// URI.  The password check does not trim, so an
\* empty password counts as "absent" and one of white space is accepted.
Text == {"absent", "blank", "text", "cred"}

\* A SQL text.  "write_cte", "stacked" and "explain" begin with a keyword that
\* looks read-only; "read_cred" is a SELECT holding a bare cred:// URI.
Statement == {"absent", "blank", "read", "read_cred",
              "write_cte", "stacked", "explain", "write"}

\* What HANA changes data for.  EXPLAIN ANALYZE executes what it explains.
Mutating == {"write_cte", "stacked", "explain", "write"}

Operation == {"query", "list_tables", "list_columns"}
Surface   == {"tool", "resource", "prompt"}

is_catalog(operation) == operation \in {"list_tables", "list_columns"}

\* sql = "absent" stands for a missing list_query / completion entry.
ListQueryConfig ==
    [sql: Statement, mode: {"keyset", "offset"},
     cursor_column: {"absent", "blank", "safe", "unsafe"}, page_size: Nat]

\* variable_completions holds one entry per template variable; the entries are
\* checked and run independently, so one stands for all.
CompletionConfig == [sql: Statement, placeholders: Nat]

HanaBackendSpec ==
    [host: Text, port: Nat, user: Text, password: Text,
     use_tls: BOOLEAN, tls_verify_peer: BOOLEAN, tls_ca_cert: Text,
     operation: Operation, surface: Surface, uri: Text, read_only: BOOLEAN,
     query: Statement, read_query: Statement,
     table: Text, table_arg: Text,
     list_query: ListQueryConfig, completion: CompletionConfig,
     params_compile: BOOLEAN,
     pool_max_size: Nat, timeout_ms: Nat, max_rows: Nat, max_result_bytes: Nat]

-----------------------------------------------------------------------------
(* The guards on one string.                                               *)

empty(text)  == text \in {"absent", "blank"}

has_cred(text) == text \in {"cred", "read_cred"}

\* Mutant: the leading-keyword test the shared guard replaced.
leading_keyword_only(statement) ==
    statement \in {"read", "read_cred", "write_cte", "stacked", "explain"}

\* The shared guard: a read-only leading keyword, no write keyword anywhere, no
\* EXPLAIN ANALYZE, no stacked statement; an empty statement is refused.
enforce_read_only(statement) == statement \in {"read", "read_cred"}

validate_list_query(cfg) ==
    /\ ~ empty(cfg.sql)
    /\ cfg.page_size \in 1 .. 1000
    /\ cfg.mode = "keyset" => cfg.cursor_column = "safe"

validate_completion(cfg) ==
    /\ ~ empty(cfg.sql)
    /\ cfg.placeholders = 1

\* An operator-fixed statement that passes both string guards.
fenced(s, sql) ==
    /\ ~ has_cred(sql)
    /\ s.read_only => enforce_read_only(sql)

-----------------------------------------------------------------------------
(* register_profile's checks, in the code's groups.                        *)

ConnectionOk(s) ==
    /\ s.host = "text"
    /\ s.port # 0
    /\ ~ empty(s.user)
    /\ s.password # "absent"
    /\ s.timeout_ms # 0
    /\ s.max_rows # 0
    /\ s.max_result_bytes # 0
    /\ s.pool_max_size # 0

\* The statement an operation needs is there.
OperationOk(s) ==
    /\ s.operation = "query" => ~ empty(s.query) \/ ~ empty(s.read_query)
    /\ s.operation = "list_columns" => ~ empty(s.table) \/ ~ empty(s.table_arg)

\* Only a present `query` of a query binding is fenced; the catalog operations
\* never run it.
QueryOk(s) ==
    s.operation = "query" =>
        /\ ~ has_cred(s.query)
        /\ s.read_only /\ ~ empty(s.query) => enforce_read_only(s.query)

UriOk(s) ==
    s.uri # "absent" => s.surface = "resource" /\ s.uri # "blank"

\* Mutant: read_query accepted on every surface.
ReadQueryAnySurface(s) ==
    s.read_query # "absent" => s.read_query # "blank" /\ fenced(s, s.read_query)

ReadQueryOk(s) ==
    s.read_query # "absent" =>
        /\ s.read_query # "blank"
        /\ s.surface = "resource"
        /\ fenced(s, s.read_query)

\* Mutant: the listing statement is validated but not fenced.
ListQueryUnfenced(s) ==
    s.list_query.sql # "absent" => validate_list_query(s.list_query)

ListQueryOk(s) ==
    s.list_query.sql # "absent" =>
        /\ validate_list_query(s.list_query)
        /\ fenced(s, s.list_query.sql)

CompletionOk(s) ==
    s.completion.sql # "absent" =>
        /\ validate_completion(s.completion)
        /\ fenced(s, s.completion.sql)

\* register_profile accepts the spec.
Registrable(s) ==
    /\ ConnectionOk(s)
    /\ OperationOk(s)
    /\ QueryOk(s)
    /\ UriOk(s)
    /\ ReadQueryOk(s)
    /\ ListQueryOk(s)
    /\ CompletionOk(s)
    /\ s.params_compile

-----------------------------------------------------------------------------
(* What a registered profile runs.                                         *)

\* The three operations of the backend that reach the database.
Op == {"execute", "list_resources", "complete"}

\* On the resource surface a read_query replaces the query; every other
\* surface runs the query.
effective_statement(s) ==
    IF s.surface = "resource" /\ s.read_query # "absent" THEN s.read_query ELSE s.query

\* A catalog operation runs a code-fixed SELECT over SYS.*.
StatementOf(s, o) ==
    CASE o = "list_resources"                         -> s.list_query.sql
      [] o = "complete"                               -> s.completion.sql
      [] o = "execute" /\ is_catalog(s.operation)     -> "read"
      [] o = "execute" /\ ~ is_catalog(s.operation)   -> effective_statement(s)

\* list_resources / complete_template_variable answer with an empty result when
\* the binding has no statement for them; execute always runs one.
Configured(s, o) == o = "execute" \/ StatementOf(s, o) # "absent"
=============================================================================
