---------------------------- MODULE MCHanaBinds ----------------------------
(* Instances of HanaBinds for TLC. *)
EXTENDS HanaBinds

\* Up to two params.
Lists == UNION {[1 .. n -> Expr] : n \in 0 .. 2}

\* The edges of both words, and numbers a double holds, rounds up and rounds down.
Edges == {-16, -1, 0, 7, 15, 16, 17, 19, 26, 31}
=============================================================================
