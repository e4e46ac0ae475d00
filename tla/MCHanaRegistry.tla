--------------------------- MODULE MCHanaRegistry ---------------------------
(* Instances of HanaRegistry for TLC. *)
EXTENDS HanaRegistry

CONSTANTS m, n, r1, r2, c1, c2

\* A query and a discovery binding, each with settings that it ignores.
TwoProfiles ==
    {[operation |-> o, filter_args |-> {"schema"}, param_args |-> {"id"}] :
        o \in {"query", "list_tables"}}
=============================================================================
