--------------------------- MODULE MCHanaListing ---------------------------
(* Instances of HanaListing for TLC. *)
EXTENDS HanaListing, TLC

CONSTANTS r1, r2, r3, r4

\* Rows that have a uri differ in nothing but their keys.
Rows == Permutations(Named)

Good == [mode |-> "keyset", page_size |-> 1, rows_fit |-> 9,
         found |-> TRUE, null_lists |-> TRUE, unique |-> TRUE]

\* The binding as it should be and with one fault each; a page size of two besides.
Faulty ==
    {Good, [Good EXCEPT !.page_size = 2],
     [Good EXCEPT !.page_size = 2, !.rows_fit = 1],
     [Good EXCEPT !.found = FALSE], [Good EXCEPT !.null_lists = FALSE]}
Shared == {[c EXCEPT !.unique = FALSE] : c \in Faulty}
Offset == {[c EXCEPT !.mode = "offset", !.null_lists = FALSE, !.found = FALSE] : c \in Faulty}

AllConfigs == Faulty \cup Shared \cup Offset

Cut == {[Good EXCEPT !.page_size = 2, !.rows_fit = 1]}
=============================================================================
