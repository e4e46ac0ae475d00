--------------------------- MODULE MCHanaCatalog ---------------------------
(* Instances of HanaCatalog for TLC. *)
EXTENDS HanaCatalog, TLC

E(s, t, ty, c) == ("schema" :> s) @@ ("table" :> t) @@ ("table_type" :> ty) @@ ("column" :> c)

\* Every filter alone, and every pair of them, leaves some entries and not others.
SmallCatalog ==
    <<E("a", "a", "a", "a"), E("a", "a", "b", "b"), E("a", "b", "a", "a"),
      E("b", "a", "b", "a"), E("b", "b", "a", "b")>>

\* Each filter pinned or not, and fed by either argument, by both with another
\* filter, or by none.  One of the last two filters is not in the view, and the
\* arguments are alike but for their names.
AllConfigs ==
    [pin: {p \in [Filters -> {"none", "empty", "blank", "a"}] :
              /\ p["schema"] # "blank" /\ p["table"] # "empty"
              /\ p["column"] \in {"none", "a"} /\ p["table_type"] = p["column"]},
     arg: {r \in [Filters -> ArgNames \cup {"none"}] : r["schema"] # "y"}]
=============================================================================
