----------------------------- MODULE MCHanaRows -----------------------------
(* Instances of HanaRows for TLC. *)
EXTENDS HanaRows

\* One or two columns of any types, the names in either order or the same.
AllColumns == UNION {[1 .. n -> [name: 1 .. 2, type: Type]] : n \in 1 .. 2}
=============================================================================
