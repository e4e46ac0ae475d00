---------------------------- MODULE MCHanaWatch ----------------------------
(* Instances of HanaWatch for TLC. *)
EXTENDS HanaWatch

CONSTANTS v1, v2, v3

Base == [host |-> "text", port |-> 39015, user |-> "text",
         tracking_query |-> "read", pool_max_size |-> 1]

\* A pool size of zero, a larger pool, and specs to be refused.
ManySpecs ==
    {[Base EXCEPT !.pool_max_size = n, !.tracking_query = q, !.user = u] :
        n \in {0, 2}, q \in {"absent", "read", "write_cte"}, u \in {"blank", "text"}}
=============================================================================
