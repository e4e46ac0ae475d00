---------------------------- MODULE HanaMarshal ----------------------------
(***************************************************************************)
(* marshal_result_set (engine.rs): fetch the rows of a result set one at a *)
(* time, keep them while both caps allow it, drain the rest.  Between two  *)
(* rows the fetch may fail and the outer timeout may drop the whole call.  *)
(*                                                                         *)
(* A row is known by its number.  `ends` gives the serialized size of the  *)
(* first i rows, so a row's own size is the difference of two ends.        *)
(***************************************************************************)
EXTENDS Integers, Sequences, FiniteSets

CONSTANTS
    RowLimits,   \* values of max_rows
    ByteLimits,  \* values of max_result_bytes
    Matches      \* the rows the database has for the statement, as ends

\* register_profile refuses a zero cap; an object serializes to two bytes or more.
ASSUME LimitsPositive ==
    RowLimits \subseteq Nat \ {0} /\ ByteLimits \subseteq Nat \ {0}
ASSUME MatchesGrow ==
    \A m \in Matches :
        /\ m \in Seq(Nat \ {0})
        /\ \A i, j \in 1 .. Len(m) : i < j => m[i] < m[j]

VARIABLES
    catalog,           \* a SYS.* select, or the operator's statement
    max_rows, max_result_bytes, ends,
    pc, row_count,
    rows,              \* the rows kept, by number
    truncated, byte_budget

call == <<catalog, max_rows, max_result_bytes, ends>>
vars == <<call, pc, row_count, rows, truncated, byte_budget>>

-----------------------------------------------------------------------------

\* The catalog selects end in LIMIT max_rows, so the server sends no more.
Sent == IF catalog /\ Len(ends) > max_rows THEN max_rows ELSE Len(ends)

End(i) == IF i = 0 THEN 0 ELSE ends[i]

\* Mutant: rows after the one that did not fit are tried again.
RowCapOnly == Len(rows) >= max_rows

\* No row is kept from here on.
Capped == Len(rows) >= max_rows \/ truncated

\* Mutant: the budget is not reduced by what is kept.
fits_alone(i) == End(i) - End(i - 1) <= max_result_bytes

fits(i) == End(i) - End(i - 1) <= byte_budget

TypeOK ==
    /\ catalog \in BOOLEAN
    /\ max_rows \in RowLimits
    /\ max_result_bytes \in ByteLimits
    /\ ends \in Matches
    /\ pc \in {"fetching", "done", "failed", "dropped"}
    /\ row_count \in 0 .. Sent
    /\ rows \in Seq(1 .. Sent)
    /\ truncated \in BOOLEAN
    /\ byte_budget \in Nat

Init ==
    /\ catalog \in BOOLEAN
    /\ max_rows \in RowLimits
    /\ max_result_bytes \in ByteLimits
    /\ ends \in Matches
    /\ pc = "fetching"
    /\ row_count = 0
    /\ rows = << >>
    /\ truncated = FALSE
    /\ byte_budget = max_result_bytes

\* next_row yields one more row.
NextRow ==
    /\ pc = "fetching"
    /\ row_count < Sent
    /\ row_count' = row_count + 1
    /\ UNCHANGED <<call, pc>>

Keep ==
    /\ NextRow
    /\ ~ Capped
    /\ fits(row_count + 1)
    /\ rows' = Append(rows, row_count + 1)
    /\ byte_budget' = byte_budget - (End(row_count + 1) - End(row_count))
    /\ UNCHANGED truncated

\* Mutant: a row that does not fit is passed over without a mark.
SkipUnmarked ==
    /\ NextRow
    /\ Capped \/ ~ fits(row_count + 1)
    /\ truncated' = Capped
    /\ UNCHANGED <<rows, byte_budget>>

Skip ==
    /\ NextRow
    /\ Capped \/ ~ fits(row_count + 1)
    /\ truncated' = TRUE
    /\ UNCHANGED <<rows, byte_budget>>

\* The result set is exhausted, a fetch fails, or the outer timeout strikes.
Stop(how) ==
    /\ pc = "fetching"
    /\ how = "done" => row_count = Sent
    /\ pc' = how
    /\ UNCHANGED <<call, row_count, rows, truncated, byte_budget>>

Stopped == pc # "fetching" /\ UNCHANGED vars

Next ==
    \/ Keep
    \/ Skip
    \/ \E how \in {"done", "failed", "dropped"} : Stop(how)
    \/ Stopped

Spec == Init /\ [][Next]_vars

-----------------------------------------------------------------------------

\* How many leading rows fit both caps.
Fitting == {k \in 0 .. Sent : k <= max_rows /\ End(k) <= max_result_bytes}

\* The outcome is the longest leading run of rows that fits both caps: no row is
\* skipped to make place for a later, smaller one, and none is dropped that
\* would have fitted.
LongestFittingPrefix ==
    pc = "done" =>
        /\ \A i \in 1 .. Len(rows) : rows[i] = i
        /\ Len(rows) \in Fitting
        /\ \A k \in Fitting : k <= Len(rows)

\* At every row, truncated says whether a row seen was not kept.
TruncatedIsExact == truncated <=> row_count > Len(rows)

\* What a caller can tell.  An answer of the operator's statement that is not marked
\* truncated is all the database had; one of a catalog select, whose own LIMIT leaves
\* the loop no row to miss, only if it has fewer rows than max_rows.
UnmarkedIsWhole ==
    pc = "done" /\ ~ truncated /\ (catalog => Len(rows) < max_rows) => Len(rows) = Len(ends)

\* The inductive invariant behind these three: the rows kept are the first ones, the
\* budget is what they leave, and once a row was passed over the next one to keep
\* was over a cap.
Inv ==
    /\ TypeOK
    /\ \A i \in 1 .. Len(rows) : rows[i] = i
    /\ Len(rows) <= max_rows
    /\ byte_budget = max_result_bytes - End(Len(rows))
    /\ ~ truncated => Len(rows) = row_count
    /\ truncated =>
           /\ Len(rows) < row_count
           /\ Len(rows) = max_rows \/ End(Len(rows) + 1) > max_result_bytes
    /\ pc = "done" => row_count = Sent
=============================================================================
