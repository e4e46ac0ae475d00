--------------------------- MODULE MCHanaMarshal ---------------------------
(* Instances of HanaMarshal for TLC: up to four rows of one to three units. *)
EXTENDS HanaMarshal

Sizes == {1, 2, 3}

\* The ends of every sequence of at most four sizes.
SmallMatches ==
    { [i \in 1 .. Len(z) |->
          (IF i >= 1 THEN z[1] ELSE 0) + (IF i >= 2 THEN z[2] ELSE 0) +
          (IF i >= 3 THEN z[3] ELSE 0) + (IF i >= 4 THEN z[4] ELSE 0)] :
        z \in UNION {[1 .. n -> Sizes] : n \in 0 .. 4} }
=============================================================================
