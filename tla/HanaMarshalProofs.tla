------------------------- MODULE HanaMarshalProofs -------------------------
(***************************************************************************)
(* The row loop keeps the longest prefix that fits, and says exactly when  *)
(* it left something out, for every result set and all caps.               *)
(***************************************************************************)
EXTENDS HanaMarshal, TLAPS

\* Facts about the result set that every step uses: ends are positive numbers,
\* later ones larger.
LEMMA EndsGrow ==
    ASSUME TypeOK
    PROVE  /\ ends \in Seq(Nat \ {0})
           /\ Sent \in 0 .. Len(ends)
           /\ \A i \in 0 .. Len(ends) : End(i) \in Nat
           /\ \A i, j \in 0 .. Len(ends) : i < j => End(i) < End(j)
<1>1. /\ ends \in Seq(Nat \ {0})
      /\ \A i, j \in 1 .. Len(ends) : i < j => ends[i] < ends[j]
  BY MatchesGrow DEF TypeOK
<1>2. Len(ends) \in Nat /\ \A i \in 1 .. Len(ends) : ends[i] \in Nat \ {0}
  BY <1>1
<1>3. max_rows \in Nat
  BY LimitsPositive DEF TypeOK
<1>4. Sent \in 0 .. Len(ends)
  BY <1>2, <1>3 DEF Sent
<1>5. \A i \in 0 .. Len(ends) : End(i) \in Nat
  BY <1>2 DEF End
<1>6. \A i, j \in 0 .. Len(ends) : i < j => End(i) < End(j)
  BY <1>1, <1>2 DEF End
<1> QED BY <1>1, <1>4, <1>5, <1>6

\* The initial state satisfies the invariant.
LEMMA InitInv == Init => Inv
<1> SUFFICES ASSUME Init PROVE Inv
  OBVIOUS
<1>1. ends \in Seq(Nat \ {0}) /\ max_rows \in Nat /\ max_result_bytes \in Nat
  BY MatchesGrow, LimitsPositive DEF Init
<1>2. 0 \in 0 .. Sent
  BY <1>1 DEF Sent
<1>3. rows \in Seq(1 .. Sent) /\ Len(rows) = 0
  BY DEF Init
<1>4. row_count \in 0 .. Sent /\ byte_budget \in Nat
  BY <1>1, <1>2 DEF Init
<1>5. TypeOK
  BY <1>3, <1>4 DEF Init, TypeOK
<1> QED BY <1>1, <1>3, <1>5 DEF Init, Inv, End

\* Every step preserves the invariant.
LEMMA StepInv == Inv /\ [Next]_vars => Inv'
<1> SUFFICES ASSUME Inv, [Next]_vars PROVE Inv'
  OBVIOUS
<1>t. TypeOK
  BY DEF Inv
<1>e. /\ ends \in Seq(Nat \ {0})
      /\ Sent \in 0 .. Len(ends)
      /\ \A i \in 0 .. Len(ends) : End(i) \in Nat
      /\ \A i, j \in 0 .. Len(ends) : i < j => End(i) < End(j)
  BY <1>t, EndsGrow
<1>n. /\ row_count \in Nat /\ max_rows \in Nat /\ max_result_bytes \in Nat
      /\ byte_budget \in Nat /\ Len(rows) \in Nat /\ Len(ends) \in Nat /\ Sent \in Nat
  BY <1>t, <1>e, LimitsPositive DEF TypeOK
<1>1. CASE Keep
  <2>1. /\ Len(rows) < max_rows
        /\ ~ truncated
        /\ Len(rows) = row_count
        /\ row_count + 1 \in 1 .. Sent
    BY <1>1, <1>n DEF Keep, NextRow, Capped, Inv
  <2>2. /\ End(row_count) \in Nat
        /\ End(row_count + 1) \in Nat
        /\ End(row_count) < End(row_count + 1)
    BY <2>1, <1>e, <1>n
  <2>3. /\ rows' \in Seq(1 .. Sent)
        /\ Len(rows') = row_count + 1
        /\ \A i \in 1 .. Len(rows') : rows'[i] = i
    BY <1>1, <2>1, <1>t, <1>n DEF Keep, TypeOK, Inv
  <2>4. /\ byte_budget' = max_result_bytes - End(row_count + 1)
        /\ byte_budget' \in Nat
    <3>1. byte_budget = max_result_bytes - End(row_count)
      BY <2>1 DEF Inv
    <3>2. End(row_count + 1) - End(row_count) <= byte_budget
      BY <1>1, <1>n DEF Keep, fits
    <3> QED BY <1>1, <1>n, <2>2, <3>1, <3>2 DEF Keep
  <2>5. /\ UNCHANGED <<call, pc, truncated>>
        /\ pc = "fetching"
        /\ row_count' = row_count + 1
    BY <1>1 DEF Keep, NextRow
  <2>6. Sent' = Sent /\ \A i : End(i)' = End(i)
    BY <2>5 DEF call, Sent, End
  <2>7. TypeOK'
    BY <1>t, <2>1, <2>3, <2>4, <2>5, <2>6 DEF TypeOK, call
  <2>8. byte_budget' = max_result_bytes' - End(Len(rows))'
    BY <2>3, <2>4, <2>5 DEF call, End
  <2> QED BY <2>1, <2>3, <2>5, <2>7, <2>8, <1>n DEF Inv, call
<1>2. CASE Skip
  <2>1. /\ UNCHANGED <<call, pc, rows, byte_budget>>
        /\ pc = "fetching"
        /\ truncated'
        /\ row_count' = row_count + 1
        /\ row_count + 1 \in 1 .. Sent
    BY <1>2, <1>n DEF Skip, NextRow
  <2>2. Sent' = Sent /\ End(Len(rows))' = End(Len(rows))
                     /\ End(Len(rows) + 1)' = End(Len(rows) + 1)
    BY <2>1 DEF call, Sent, End
  <2>3. TypeOK'
    BY <1>t, <2>1, <2>2 DEF TypeOK, call
  <2>4. Len(rows) <= row_count
    BY <1>n DEF Inv
  <2>5. Len(rows) = max_rows \/ End(Len(rows) + 1) > max_result_bytes
    <3>1. CASE truncated
      BY <3>1 DEF Inv
    <3>2. CASE Len(rows) >= max_rows
      BY <3>2, <1>n DEF Inv
    <3>3. CASE ~ truncated /\ ~ fits(row_count + 1)
      <4>1. Len(rows) = row_count /\ byte_budget = max_result_bytes - End(row_count)
        BY <3>3 DEF Inv
      <4>2. End(row_count) \in Nat /\ End(row_count + 1) \in Nat
        BY <2>1, <1>e, <1>n
      <4>3. End(row_count + 1) - End(row_count) > byte_budget
        BY <3>3, <4>2, <1>n DEF fits
      <4> QED BY <4>1, <4>2, <4>3, <1>n
    <3> QED BY <1>2, <3>1, <3>2, <3>3 DEF Skip, Capped
  <2> QED BY <2>1, <2>2, <2>3, <2>4, <2>5, <1>n DEF Inv, call
<1>3. CASE \E how \in {"done", "failed", "dropped"} : Stop(how)
  <2>1. PICK how \in {"done", "failed", "dropped"} : Stop(how)
    BY <1>3
  <2>2. /\ UNCHANGED <<call, row_count, rows, truncated, byte_budget>>
        /\ pc' = how
        /\ pc' = "done" => row_count = Sent
    BY <2>1 DEF Stop
  <2>3. Sent' = Sent /\ End(Len(rows))' = End(Len(rows))
                     /\ End(Len(rows) + 1)' = End(Len(rows) + 1)
    BY <2>2 DEF call, Sent, End
  <2> QED BY <2>2, <2>3 DEF Inv, TypeOK, call
<1>4. CASE UNCHANGED vars
  BY <1>4 DEF Inv, TypeOK, vars, call, Sent, End
<1> QED BY <1>1, <1>2, <1>3, <1>4 DEF Next, Stopped

\* Inv is an invariant of the row loop.
THEOREM MarshalInvariant == Spec => []Inv
BY InitInv, StepInv, PTL DEF Spec

\* marshal_result_set returns the longest run of leading rows that fits max_rows
\* and max_result_bytes.
THEOREM MarshalKeepsLongestPrefix == Spec => []LongestFittingPrefix
<1>1. Inv => LongestFittingPrefix
  <2> SUFFICES ASSUME Inv, pc = "done"
               PROVE  /\ \A i \in 1 .. Len(rows) : rows[i] = i
                      /\ Len(rows) \in Fitting
                      /\ \A k \in Fitting : k <= Len(rows)
    BY DEF LongestFittingPrefix
  <2>t. TypeOK
    BY DEF Inv
  <2>e. /\ Sent \in 0 .. Len(ends)
        /\ \A i \in 0 .. Len(ends) : End(i) \in Nat
        /\ \A i, j \in 0 .. Len(ends) : i < j => End(i) < End(j)
        /\ Len(ends) \in Nat
    BY <2>t, EndsGrow
  <2>n. /\ row_count = Sent /\ max_rows \in Nat /\ max_result_bytes \in Nat
        /\ byte_budget \in Nat /\ Len(rows) \in Nat /\ Sent \in Nat
    BY <2>t, <2>e, LimitsPositive DEF TypeOK, Inv
  <2>1. Len(rows) \in 0 .. Sent
    BY <2>n DEF Inv
  <2>2. End(Len(rows)) \in Nat
    BY <2>1, <2>e, <2>n
  <2>3. Len(rows) \in Fitting
    BY <2>1, <2>2, <2>n DEF Inv, Fitting
  <2>4. ASSUME NEW k \in Fitting, k > Len(rows) PROVE FALSE
    <3>1. k \in 0 .. Sent /\ k <= max_rows /\ End(k) <= max_result_bytes
      BY <2>4 DEF Fitting
    <3>2. truncated /\ Len(rows) # max_rows
      BY <2>4, <3>1, <2>n DEF Inv
    <3>3. End(Len(rows) + 1) > max_result_bytes
      BY <3>2 DEF Inv
    <3>4. k = Len(rows) + 1 \/ Len(rows) + 1 < k
      BY <2>4, <3>1, <2>n
    <3>5. End(Len(rows) + 1) <= End(k)
      BY <3>1, <3>4, <2>e, <2>n
    <3>6. End(k) \in Nat /\ End(Len(rows) + 1) \in Nat
      BY <3>1, <3>4, <2>e, <2>n
    <3> QED BY <3>1, <3>3, <3>5, <3>6, <2>n
  <2>5. \A k \in Fitting : k <= Len(rows)
    BY <2>4, <2>n DEF Fitting
  <2> QED BY <2>3, <2>5 DEF Inv
<1> QED BY <1>1, MarshalInvariant, PTL

\* At every moment of the loop, truncated says exactly whether a row was left out.
THEOREM MarshalTruncatedIsExact == Spec => []TruncatedIsExact
<1>1. Inv => TruncatedIsExact
  <2> SUFFICES ASSUME Inv PROVE TruncatedIsExact
    OBVIOUS
  <2>1. row_count \in Nat /\ Len(rows) \in Nat /\ truncated \in BOOLEAN
    <3>1. TypeOK
      BY DEF Inv
    <3>2. Sent \in Nat
      BY <3>1, EndsGrow
    <3> QED BY <3>1, <3>2 DEF TypeOK
  <2> QED BY <2>1 DEF Inv, TruncatedIsExact
<1> QED BY <1>1, MarshalInvariant, PTL

\* engine.rs, run_catalog's LIMIT and truncated: an answer without the mark is whole,
\* that of a catalog select if it is shorter than max_rows.
THEOREM MarshalUnmarkedIsWhole == Spec => []UnmarkedIsWhole
<1>1. Inv => UnmarkedIsWhole
  <2> SUFFICES ASSUME Inv, pc = "done", ~ truncated, catalog => Len(rows) < max_rows
               PROVE  Len(rows) = Len(ends)
    BY DEF UnmarkedIsWhole
  <2>1. Len(rows) = Sent
    BY DEF Inv
  <2>2. max_rows \in Nat /\ Len(ends) \in Nat
    <3>1. TypeOK
      BY DEF Inv
    <3>2. max_rows \in Nat
      BY <3>1, LimitsPositive DEF TypeOK
    <3> QED BY <3>1, <3>2, EndsGrow
  <2> QED BY <2>1, <2>2 DEF Sent
<1> QED BY <1>1, MarshalInvariant, PTL

\* The variables keep their types; the remaining byte budget never goes below zero.
THEOREM MarshalTypes == Spec => []TypeOK
<1>1. Inv => TypeOK
  BY DEF Inv
<1> QED BY <1>1, MarshalInvariant, PTL
=============================================================================
