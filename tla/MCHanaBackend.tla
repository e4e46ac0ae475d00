--------------------------- MODULE MCHanaBackend ---------------------------
(* Instances of HanaBackend for TLC. *)
EXTENDS HanaBackend, TLC

CONSTANTS c1, c2, n1

CallSymmetry == Permutations(Calls)

\* Every outcome a message can lead to: no marker, each marker alone, and a
\* rejection that mentions a timeout.
AllTexts  == {{}, {"timeout"}, {"transport"}, {"reject", "timeout"}}
Transport == {{"transport"}}
OneText   == {{}}

Base ==
    [host |-> "text", port |-> 30015, user |-> "text", password |-> "text",
     use_tls |-> TRUE, tls_verify_peer |-> TRUE, tls_ca_cert |-> "absent",
     operation |-> "query", surface |-> "tool", uri |-> "absent", read_only |-> TRUE,
     query |-> "read", read_query |-> "absent",
     table |-> "absent", table_arg |-> "absent",
     list_query |-> [sql |-> "absent", mode |-> "offset",
                     cursor_column |-> "absent", page_size |-> 50],
     completion |-> [sql |-> "absent", placeholders |-> 1],
     params_compile |-> TRUE,
     pool_max_size |-> 1, timeout_ms |-> 5000, max_rows |-> 10000,
     max_result_bytes |-> 8388608]

Listing    == [Base.list_query EXCEPT !.sql = "read"]
Completion == [Base.completion EXCEPT !.sql = "read"]

\* A tool that may write, with a pool of two; a resource with a listing and completions.
Writer   == [Base EXCEPT !.read_only = FALSE, !.query = "write", !.pool_max_size = 2]
Resource == [Base EXCEPT !.surface = "resource", !.list_query = Listing,
                         !.completion = Completion]

OneSpec   == {Base}

\* Specs to be refused, each for the statement that one choice would make it run.
Refused ==
    {[Base EXCEPT !.query = q] : q \in {"absent", "write", "write_cte"}}
    \cup {[Resource EXCEPT !.list_query = [Listing EXCEPT !.sql = s]] :
              s \in {"read_cred", "write_cte"}}
    \cup {[Resource EXCEPT !.completion = [Completion EXCEPT !.sql = s]] :
              s \in {"read_cred", "write_cte"}}
    \cup {[Base EXCEPT !.surface = f, !.query = "absent", !.read_query = "read"] :
              f \in {"tool", "prompt"}}
    \cup {[Resource EXCEPT !.read_query = "write_cte"],
          [Base EXCEPT !.operation = "list_columns", !.query = "absent"]}

CallSpecs == {Writer, Resource} \cup Refused
=============================================================================
