------------------------ MODULE HanaListingProofs -------------------------
(***************************************************************************)
(* What a keyset listing gives and what it may miss, and when the end of a *)
(* listing is the end of the table: for any table and any page sizes.      *)
(***************************************************************************)
EXTENDS HanaListing, FiniteSetTheorems, WellFoundedInduction, TLAPS

-----------------------------------------------------------------------------
(* Sets of rows.                                                           *)

\* A finite set of rows that is not empty has one with the greatest key.
LEMMA GreatestKey ==
    ASSUME NEW k \in [Resources -> Nat], NEW rows \in SUBSET Resources, rows # {}
    PROVE  \E q \in rows : \A p \in rows : k[p] <= k[q]
<1> DEFINE Greatest(S) == \E q \in S : \A p \in S : k[p] <= k[q]
           Bad == {S \in SUBSET rows : S # {} /\ ~ Greatest(S)}
<1> SUFFICES ASSUME rows \in Bad PROVE FALSE
  OBVIOUS
<1>1. IsFiniteSet(rows)
  BY ResourcesFinite, FS_Subset
<1>2. IsWellFoundedOn(StrictSubsetOrdering(rows), SUBSET rows)
  BY <1>1, FS_StrictSubsetOrderingWellFounded, FS_FiniteSubsetsOfFinite
<1>3. PICK S \in Bad : \A T \in Bad : <<T, S>> \notin StrictSubsetOrdering(rows)
  <2> HIDE DEF Bad
  <2>1. Bad \subseteq SUBSET rows /\ Bad # {}
    BY DEF Bad
  <2> QED BY <1>2, <2>1, WFMin
<1>4. PICK r \in S : TRUE
  OBVIOUS
<1>5. S \ {r} \notin Bad
  <2>1. <<S \ {r}, S>> \in StrictSubsetOrdering(rows)
    BY <1>4 DEF StrictSubsetOrdering
  <2> QED BY <1>3, <2>1
<1>6. CASE S \ {r} = {}
  <2>1. \A p \in S : p = r
    BY <1>6
  <2>2. k[r] <= k[r]
    BY <1>4
  <2> QED BY <1>4, <2>1, <2>2
<1>7. CASE S \ {r} # {}
  <2>1. Greatest(S \ {r})
    BY <1>5, <1>7
  <2>2. PICK q \in S \ {r} : \A p \in S \ {r} : k[p] <= k[q]
    BY <2>1
  <2>3. \A p \in S : k[p] \in Nat
    OBVIOUS
  <2>4. CASE k[r] <= k[q]
    BY <2>2, <2>4
  <2>5. CASE k[q] < k[r]
    <3>1. \A p \in S : k[p] <= k[r]
      BY <2>2, <2>3, <2>5, <1>4
    <3> QED BY <3>1, <1>4
  <2> QED BY <2>2, <2>3, <2>4, <2>5, <1>4
<1> QED BY <1>6, <1>7

\* How many rows a page has is a number, zero only for no rows.
LEMMA PageCount ==
    ASSUME NEW rows \in SUBSET Resources
    PROVE  /\ Cardinality(rows) \in Nat
           /\ Cardinality(rows) = 0 <=> rows = {}
<1>1. IsFiniteSet(rows)
  BY ResourcesFinite, FS_Subset
<1> QED BY <1>1, FS_CardinalityType, FS_EmptySet

\* The page size of a binding is positive and its mode one of the two.
LEMMA ConfigType ==
    ASSUME TypeOK
    PROVE  /\ cfg \in Config
           /\ cfg.page_size \in Nat \ {0} /\ cfg.rows_fit \in Nat
           /\ cfg.mode \in {"keyset", "offset"}
BY ConfigsTyped DEF TypeOK, Config

\* Keys are numbers.
LEMMA KeyType ==
    ASSUME TypeOK
    PROVE  /\ key \in [Resources -> Nat]
           /\ \A r \in Present : key[r] \in Keys
           /\ Keys \subseteq Nat \ {0}
<1>0. Keys \cup {0} \subseteq Nat
  BY KeysPositive
<1>1. key \in [Resources -> Keys \cup {0}]
  BY DEF TypeOK
<1>2. \A r \in Resources : key[r] \in Keys \cup {0}
  BY <1>1, Zenon
<1>3. \A r \in Resources : key[r] \in Nat
  BY <1>0, <1>2, Zenon
<1>4. key \in [Resources -> Nat]
  BY <1>1, <1>3
<1> QED BY <1>2, <1>4, KeysPositive DEF Present

-----------------------------------------------------------------------------
(* What the cursor of a page is.                                           *)

\* A page that is empty has no next cursor, and a page that has one is selected
\* from all the remaining rows.
LEMMA FullPage ==
    ASSUME TypeOK, NEW rows \in SUBSET Selected, next_cursor(rows) # {}
    PROVE  /\ rows # {} /\ Selected = Remaining
           /\ Cardinality(rows) \in Nat \ {0}
<1>1. rows \in SUBSET Resources
  BY DEF Selected, Remaining, Present
<1>2. ~ short(rows) /\ cfg.page_size \in Nat \ {0}
  BY ConfigType DEF next_cursor
<1>3. Cardinality(rows) \in Nat /\ (Cardinality(rows) = 0 <=> rows = {})
  BY <1>1, PageCount
<1>4. Cardinality(rows) \in Nat \ {0} /\ rows # {}
  BY <1>2, <1>3 DEF short
<1> QED BY <1>4 DEF Selected

\* In keyset mode it is the key of a row of the page, not less than that of any
\* row of the page that has a uri, and greater than the cursor it replaces.
LEMMA KeysetCursor ==
    ASSUME TypeOK, cfg.mode = "keyset", NEW rows \in SUBSET Selected,
           NEW c \in next_cursor(rows)
    PROVE  \E q \in rows \cap Named :
              /\ c = key[q] /\ q \in Remaining
              /\ c \in Keys /\ c > cursor
              /\ \A p \in rows \cap Named : key[p] <= c
<1>1. Selected = Remaining
  BY FullPage
<1>2. PICK q \in rows \cap Named : c = key[q] /\ \A p \in rows \cap Named : key[p] <= key[q]
  BY DEF next_cursor, last_cursor_value
<1>3. q \in Present /\ key[q] > cursor
  BY <1>1 DEF Remaining
<1> QED BY <1>1, <1>2, <1>3, KeyType

-----------------------------------------------------------------------------
(* Types.                                                                  *)

LEMMA InitTypes == Init => TypeOK
<1> SUFFICES ASSUME Init PROVE TypeOK
  OBVIOUS
<1>1. fate \in [Resources -> Fate]
  BY DEF Init, Fate
<1> QED BY <1>1 DEF Init, TypeOK

LEMMA StepTypes == TypeOK /\ [Next]_vars => TypeOK'
<1> SUFFICES ASSUME TypeOK, [Next]_vars PROVE TypeOK'
  OBVIOUS
<1> USE DEF TypeOK
<1>1. CASE Continue
  <2>1. PICK rows \in SUBSET Selected : Give(rows) /\ cursor' \in next_cursor(rows)
    BY <1>1 DEF Continue
  <2>2. listed' \subseteq Named /\ again' \subseteq Named
    BY <2>1 DEF Give
  <2>3. CASE cfg.mode = "keyset"
    <3>1. cursor' \in Keys /\ cuts' = cuts \cup {cursor'}
      BY <1>1, <2>1, <2>3, KeysetCursor DEF Continue
    <3>2. cursor' \in Nat
      BY <3>1, KeysPositive
    <3> QED BY <1>1, <2>2, <3>1, <3>2 DEF Continue, changes
  <2>4. CASE cfg.mode # "keyset"
    <3>1. Cardinality(rows) \in Nat
      BY <2>1, FullPage
    <3>2. cursor' = cursor + Cardinality(rows)
      BY <2>1, <2>4 DEF next_cursor
    <3>3. cursor' \in Nat /\ cuts' = cuts
      BY <1>1, <2>4, <3>1, <3>2 DEF Continue
    <3> QED BY <1>1, <2>2, <3>3 DEF Continue, changes
  <2> QED BY <2>3, <2>4
<1>2. CASE End
  <2>1. listed' \subseteq Named /\ again' \subseteq Named
    BY <1>2 DEF End, Give
  <2>2. pc' \in {"listing", "exhausted", "gave_up"}
    BY <1>2 DEF End
  <2> QED BY <1>2, <2>1, <2>2 DEF End, changes
<1>3. ASSUME NEW c \in Configs, Reregister(c) PROVE TypeOK'
  BY <1>3 DEF Reregister, progress, changes
<1>4. ASSUME NEW r \in Resources, NEW k \in Keys, Insert(r, k) PROVE TypeOK'
  <2>1. key' \in [Resources -> Keys \cup {0}] /\ added' \in Nat
    BY <1>4 DEF Insert, Change
  <2> QED BY <1>4, <2>1 DEF Insert, Change, progress
<1>5. ASSUME NEW r \in Resources, NEW k \in Keys, Move(r, k) PROVE TypeOK'
  <2>1. key' \in [Resources -> Keys \cup {0}] /\ removed' \in Nat /\ added' \in Nat
    BY <1>5 DEF Move, Change
  <2>2. fate' \in [Resources -> Fate]
    BY <1>5 DEF Move, Fate
  <2> QED BY <1>5, <2>1, <2>2 DEF Move, Change, progress
<1>6. ASSUME NEW r \in Resources, Delete(r) PROVE TypeOK'
  <2>1. key' \in [Resources -> Keys \cup {0}] /\ removed' \in Nat
    BY <1>6 DEF Delete, Change
  <2>2. fate' \in [Resources -> Fate]
    BY <1>6 DEF Delete, Fate
  <2> QED BY <1>6, <2>1, <2>2 DEF Delete, Change, progress
<1>7. CASE UNCHANGED vars
  BY <1>7 DEF vars, progress, changes
<1> QED BY <1>1, <1>2, <1>3, <1>4, <1>5, <1>6, <1>7 DEF Next, Ended

-----------------------------------------------------------------------------
(* The keyset listing.                                                     *)

\* Name for the part of KeysetInv that speaks of a listing under way.
Under == cfg.mode = "keyset" /\ pc = "listing" =>
            /\ \A r \in Named \ listed : Ahead(r)
            /\ \A r \in listed : Behind(r)

LEMMA InitKeyset == Init => KeysetInv
<1> SUFFICES ASSUME Init PROVE KeysetInv
  OBVIOUS
<1>1. TypeOK
  BY InitTypes
<1>2. \A r \in Resources : fate[r] # "other" => key[r] # 0
  BY DEF Init
<1>3. \A r \in Resources : fate[r] # "other" => key[r] > cursor
  BY <1>1, <1>2, KeyType DEF Init
<1>4. Under
  BY <1>3, ResourcesFinite DEF Init, Under, Ahead, Fate
<1>5. OnlyTiesMissed /\ NoneGivenTwice
  BY DEF Init, OnlyTiesMissed, NoneGivenTwice
<1> QED BY <1>1, <1>2, <1>4, <1>5 DEF Init, KeysetInv, Under, RowsKept

\* What a page leaves ahead of the cursor it hands out, and behind it.
LEMMA ContinueKeyset == KeysetInv /\ Continue => KeysetInv'
<1> SUFFICES ASSUME KeysetInv, Continue PROVE KeysetInv'
  OBVIOUS
<1>t. TypeOK /\ TypeOK'
  BY StepTypes DEF KeysetInv, Next
<1>1. PICK rows \in SUBSET Selected : Page(rows) /\ Give(rows) /\ cursor' \in next_cursor(rows)
  BY DEF Continue
<1>2. RowsKept'
  BY DEF KeysetInv, Continue, RowsKept, Distinct, changes
<1>u. UNCHANGED <<key, cfg, pc, fate>>
  BY DEF Continue, changes
<1>3. ASSUME cfg.mode = "keyset" PROVE Under' /\ NoneGivenTwice'
  <2>1. PICK q \in rows \cap Named :
              /\ cursor' = key[q] /\ q \in Remaining
              /\ cursor' \in Keys /\ cursor' > cursor
              /\ \A p \in rows \cap Named : key[p] <= cursor'
    BY <1>t, <1>1, <1>3, KeysetCursor
  <2>2. Selected = Remaining
    BY <1>t, <1>1, FullPage
  <2>k. /\ key \in [Resources -> Nat] /\ cursor \in Nat /\ cursor' \in Nat
        /\ q \in Resources /\ Named \subseteq Resources
    BY <1>t, <2>1, KeyType, ResourcesFinite DEF TypeOK
  <2>b. \A r \in listed : Behind(r)
    BY <1>3 DEF KeysetInv, Continue
  <2>l. listed \subseteq Named /\ listed' = listed \cup (rows \cap Named)
    BY <1>t, <1>1 DEF Give, TypeOK
  <2>c. cuts' = cuts \cup {cursor'}
    BY <1>3 DEF Continue
  <2>3. ASSUME NEW r \in Named \ listed', key[r] > cursor
        PROVE  IF cfg.unique THEN key[r] > cursor' ELSE key[r] >= cursor'
    <3>1. r \in Selected \ rows /\ r # q
      BY <2>2, <2>3, <2>k, <2>l, <1>3, <2>1 DEF Remaining, Present
    <3>2. key[q] <= key[r]
      BY <1>1, <2>1, <3>1 DEF Page
    <3>3. cfg.unique => key[q] # key[r]
      <4>1. cfg.unique => Distinct(key)
        BY DEF KeysetInv, RowsKept
      <4>2. q \in Resources /\ r \in Resources /\ key[q] # 0
        BY <2>k, <2>1 DEF Remaining, Present
      <4> QED BY <3>1, <4>1, <4>2 DEF Distinct
    <3> QED BY <2>1, <2>k, <3>2, <3>3
  <2>4. ASSUME NEW r \in Named \ listed' PROVE Ahead(r)'
    <3>1. Ahead(r) /\ r \in Resources
      BY <1>3, <2>l, <2>4, <2>k DEF KeysetInv, Continue
    <3>2. key[r] \in Nat
      BY <2>k, <3>1
    <3> QED BY <1>u, <2>3, <2>c, <2>k, <3>1, <3>2 DEF Ahead
  <2>5. ASSUME NEW r \in listed' PROVE Behind(r)'
    <3>1. CASE r \in rows \cap Named
      BY <2>1, <3>1, <1>u DEF Behind
    <3>2. CASE r \in listed
      <4>1. key[r] \in Nat
        BY <2>k, <2>l, <3>2
      <4> QED BY <2>1, <2>b, <2>k, <3>2, <4>1, <1>u DEF Behind
    <3> QED BY <2>l, <2>5, <3>1, <3>2
  <2>6. ASSUME NEW r \in again' PROVE fate'[r] # "still"
    <3>1. CASE r \in again
      BY <1>3, <1>u, <3>1 DEF KeysetInv, NoneGivenTwice
    <3>2. CASE r \in rows \cap listed
      <4>1. key[r] > cursor /\ key[r] \in Nat
        BY <1>3, <2>2, <2>k, <2>l, <3>2 DEF Remaining
      <4> QED BY <2>b, <2>k, <3>2, <4>1, <1>u DEF Behind
    <3> QED BY <1>1, <2>6, <3>1, <3>2 DEF Give
  <2> QED BY <2>4, <2>5, <2>6 DEF Under, NoneGivenTwice
<1>4. OnlyTiesMissed'
  BY <1>u DEF Continue, OnlyTiesMissed
<1> QED BY <1>t, <1>2, <1>3, <1>4, <1>u DEF KeysetInv, Under, NoneGivenTwice

\* The last page: a listing that is exhausted leaves nothing ahead.
LEMMA EndKeyset == KeysetInv /\ End => KeysetInv'
<1> SUFFICES ASSUME KeysetInv, End PROVE KeysetInv'
  OBVIOUS
<1>t. TypeOK /\ TypeOK'
  BY StepTypes DEF KeysetInv, Next
<1>1. PICK rows \in SUBSET Selected :
            /\ Give(rows)
            /\ pc' = IF rows = Remaining THEN "exhausted" ELSE "gave_up"
  BY DEF End
<1>u. UNCHANGED <<key, cfg, cursor, cuts, fate>> /\ pc = "listing" /\ pc' # "listing"
  BY <1>1 DEF End, changes
<1>2. RowsKept'
  BY <1>u DEF KeysetInv, RowsKept, Distinct
<1>l. /\ listed \subseteq Named /\ listed' = listed \cup (rows \cap Named)
      /\ key \in [Resources -> Nat] /\ Named \subseteq Resources /\ cursor \in Nat
  BY <1>t, <1>1, KeyType, ResourcesFinite DEF Give, TypeOK
<1>3. OnlyTiesMissed'
  <2>1. SUFFICES ASSUME cfg.mode = "keyset", rows = Remaining, NEW r \in Named \ listed'
                 PROVE  IF cfg.unique THEN fate[r] = "other"
                                      ELSE fate[r] = "still" => key[r] \in cuts
    BY <1>1, <1>u DEF OnlyTiesMissed
  <2>2. Ahead(r) /\ r \in Resources
    BY <1>u, <1>l, <2>1 DEF KeysetInv
  <2>3. fate[r] # "other" => ~ (key[r] > cursor)
    BY <1>l, <2>1, <2>2 DEF Remaining, Present, KeysetInv, RowsKept
  <2> QED BY <2>2, <2>3 DEF Ahead
<1>4. NoneGivenTwice'
  <2>1. SUFFICES ASSUME cfg.mode = "keyset", NEW r \in again' PROVE fate[r] # "still"
    BY <1>u DEF NoneGivenTwice
  <2>2. CASE r \in again
    BY <2>1, <2>2 DEF KeysetInv, NoneGivenTwice
  <2>3. CASE r \in rows \cap listed
    <3>1. key[r] > cursor /\ key[r] \in Nat
      BY <1>l, <2>1, <2>3 DEF Selected, Remaining
    <3>2. Behind(r)
      BY <1>u, <2>1, <2>3 DEF KeysetInv
    <3> QED BY <1>l, <3>1, <3>2 DEF Behind
  <2> QED BY <1>1, <2>1, <2>2, <2>3 DEF Give
<1> QED BY <1>t, <1>u, <1>2, <1>3, <1>4 DEF KeysetInv

\* A new registration keeps the mode and the column, all the listing depends on.
LEMMA ReregisterKeyset == \A c \in Configs : KeysetInv /\ Reregister(c) => KeysetInv'
<1> SUFFICES ASSUME NEW c \in Configs, KeysetInv, Reregister(c) PROVE KeysetInv'
  OBVIOUS
<1>1. TypeOK'
  BY StepTypes DEF KeysetInv, Next
<1>2. /\ UNCHANGED <<key, pc, cursor, listed, again, cuts, fate>>
      /\ cfg'.mode = cfg.mode /\ cfg'.unique = cfg.unique
  BY DEF Reregister, progress, changes
<1> QED BY <1>1, <1>2
       DEF KeysetInv, RowsKept, Distinct, Ahead, Behind, OnlyTiesMissed, NoneGivenTwice

\* A change of one row.  It cannot bring a row that is to be given behind the
\* cursor without being seen to: such a row is then neither left alone nor raised.
LEMMA ChangeKeyset ==
    ASSUME KeysetInv, TypeOK', NEW r \in Resources, NEW k \in Keys \cup {0}, Change(r, k),
           \A q \in Resources \ {r} : fate'[q] = fate[q],
           \/ fate'[r] = "other"
           \/ fate'[r] = "raised" /\ fate[r] # "other" /\ k > key[r]
    PROVE  KeysetInv'
<1>u. /\ UNCHANGED <<cfg, pc, cursor, listed, again, cuts>> /\ pc = "listing"
      /\ key' = [key EXCEPT ![r] = k]
  BY DEF Change, progress
<1>t. /\ key \in [Resources -> Nat] /\ cursor \in Nat /\ Named \subseteq Resources
      /\ k \in Nat /\ listed \subseteq Named /\ again \subseteq Named
  BY KeyType, ResourcesFinite, KeysPositive DEF KeysetInv, TypeOK
<1>o. \A q \in Resources \ {r} : key'[q] = key[q] /\ fate'[q] = fate[q]
  BY <1>u, <1>t
<1>r. key'[r] = k /\ fate'[r] # "still"
  BY <1>u, <1>t
<1>1. RowsKept'
  <2>1. cfg.unique => Distinct(key')
    BY DEF Change
  <2>2. ASSUME NEW q \in Resources, fate'[q] # "other" PROVE key'[q] # 0
    BY <1>o, <1>r, <1>t, <2>2 DEF KeysetInv, RowsKept
  <2> QED BY <2>1, <2>2, <1>u DEF RowsKept, Distinct
<1>2. ASSUME cfg.mode = "keyset", NEW q \in Named \ listed PROVE Ahead(q)'
  <2>1. Ahead(q)
    BY <1>2, <1>u DEF KeysetInv
  <2>2. CASE q = r
    BY <1>r, <1>t, <1>u, <2>1, <2>2 DEF Ahead
  <2>3. CASE q # r
    BY <1>o, <1>t, <1>u, <2>1, <2>3 DEF Ahead
  <2> QED BY <2>2, <2>3
<1>3. ASSUME cfg.mode = "keyset", NEW q \in listed PROVE Behind(q)'
  <2>1. Behind(q)
    BY <1>3, <1>u DEF KeysetInv
  <2> QED BY <1>o, <1>r, <1>t, <1>u, <2>1 DEF Behind
<1>4. OnlyTiesMissed'
  BY <1>u DEF OnlyTiesMissed
<1>5. ASSUME cfg.mode = "keyset", NEW q \in again PROVE fate'[q] # "still"
  BY <1>5, <1>o, <1>r, <1>t DEF KeysetInv, NoneGivenTwice
<1> QED BY <1>u, <1>1, <1>2, <1>3, <1>4, <1>5 DEF KeysetInv, NoneGivenTwice

LEMMA StepKeyset == KeysetInv /\ [Next]_vars => KeysetInv'
<1> SUFFICES ASSUME KeysetInv, [Next]_vars PROVE KeysetInv'
  OBVIOUS
<1>t. TypeOK /\ TypeOK'
  BY StepTypes DEF KeysetInv
<1>1. CASE Continue
  BY <1>1, ContinueKeyset
<1>2. CASE End
  BY <1>2, EndKeyset
<1>3. ASSUME NEW c \in Configs, Reregister(c) PROVE KeysetInv'
  BY <1>3, ReregisterKeyset
<1>4. ASSUME NEW r \in Resources, NEW k \in Keys, Insert(r, k) PROVE KeysetInv'
  <2>1. fate[r] = "other" /\ fate' = fate
    BY <1>4 DEF KeysetInv, RowsKept, Insert
  <2> QED BY <1>t, <1>4, <2>1, ChangeKeyset DEF Insert
<1>5. ASSUME NEW r \in Resources, NEW k \in Keys, Move(r, k) PROVE KeysetInv'
  <2>1. fate \in [Resources -> Fate]
    BY <1>t DEF TypeOK
  <2>2. /\ \A q \in Resources \ {r} : fate'[q] = fate[q]
        /\ \/ fate'[r] = "other"
           \/ fate'[r] = "raised" /\ fate[r] # "other" /\ k > key[r]
    BY <1>5, <2>1 DEF Move
  <2> QED BY <1>t, <1>5, <2>2, ChangeKeyset DEF Move
<1>6. ASSUME NEW r \in Resources, Delete(r) PROVE KeysetInv'
  <2>1. fate \in [Resources -> Fate]
    BY <1>t DEF TypeOK
  <2>2. fate'[r] = "other" /\ \A q \in Resources \ {r} : fate'[q] = fate[q]
    BY <1>6, <2>1 DEF Delete
  <2> QED BY <1>t, <1>6, <2>2, ChangeKeyset DEF Delete
<1>7. CASE UNCHANGED vars
  BY <1>7 DEF vars, progress, changes, KeysetInv, TypeOK, RowsKept, Distinct, Ahead, Behind,
              OnlyTiesMissed, NoneGivenTwice
<1> QED BY <1>1, <1>2, <1>3, <1>4, <1>5, <1>6, <1>7 DEF Next, Ended

-----------------------------------------------------------------------------
(* Ranks: the places of the rows in the order an offset counts.            *)

\* Counting sets of rows.
LEMMA Counts ==
    ASSUME NEW S \in SUBSET Resources, NEW T \in SUBSET Resources
    PROVE  /\ Cardinality(S) \in Nat /\ Cardinality(T) \in Nat
           /\ S \subseteq T => Cardinality(S) <= Cardinality(T)
           /\ Cardinality(S \cup T) <= Cardinality(S) + Cardinality(T)
           /\ S \cap T = {} => Cardinality(S \cup T) = Cardinality(S) + Cardinality(T)
<1>1. IsFiniteSet(S) /\ IsFiniteSet(T)
  BY ResourcesFinite, FS_Subset
<1>2. S \subseteq T => Cardinality(S) <= Cardinality(T)
  BY <1>1, FS_Subset
<1>3. Cardinality(S) \in Nat /\ Cardinality(T) \in Nat
  BY <1>1, FS_CardinalityType
<1>4. /\ Cardinality(S \cup T) = Cardinality(S) + Cardinality(T) - Cardinality(S \cap T)
      /\ Cardinality(S \cap T) \in Nat
  BY <1>1, FS_Union, FS_Intersection, FS_CardinalityType
<1>5. S \cap T = {} => Cardinality(S \cap T) = 0
  BY FS_EmptySet
<1> QED BY <1>2, <1>3, <1>4, <1>5

\* One row more or less.
LEMMA CountsOne ==
    ASSUME NEW S \in SUBSET Resources, NEW T \in SUBSET Resources, NEW r \in Resources,
           T \subseteq S \cup {r}
    PROVE  /\ Cardinality(T) <= Cardinality(S) + 1
           /\ r \in T /\ r \notin S /\ S \subseteq T => Cardinality(T) = Cardinality(S) + 1
<1>1. IsFiniteSet(S)
  BY ResourcesFinite, FS_Subset
<1>2. /\ Cardinality(S \cup {r}) = IF r \in S THEN Cardinality(S) ELSE Cardinality(S) + 1
      /\ Cardinality(S) \in Nat
  BY <1>1, FS_AddElement, FS_CardinalityType
<1>3. Cardinality(T) <= Cardinality(S \cup {r}) /\ Cardinality(T) \in Nat
  BY Counts
<1>4. Cardinality(T) <= Cardinality(S) + 1
  BY <1>2, <1>3
<1>5. ASSUME r \in T, r \notin S, S \subseteq T PROVE Cardinality(T) = Cardinality(S) + 1
  <2>1. T = S \cup {r}
    BY <1>5
  <2> QED BY <1>2, <1>5, <2>1
<1> QED BY <1>4, <1>5

\* A set of rows that is not empty has one with the least key.
LEMMA LeastKey ==
    ASSUME NEW k \in [Resources -> Nat], NEW rows \in SUBSET Resources, rows # {}
    PROVE  \E q \in rows : \A p \in rows : k[q] <= k[p]
<1> DEFINE T == {k[p] : p \in rows}
<1>1. T \subseteq Nat /\ T # {}
  OBVIOUS
<1>2. PICK n \in T : \A m \in T : ~ (<<m, n>> \in OpToRel(<, Nat))
  <2> HIDE DEF T
  <2> QED BY <1>1, NatLessThanWellFounded, WFMin
<1>3. \A m \in T : ~ (m < n)
  BY <1>1, <1>2 DEF OpToRel
<1>4. PICK q \in rows : n = k[q]
  OBVIOUS
<1> QED BY <1>3, <1>4

\* The rows before a row, and those whose rank is below an offset.
Before(r) == {q \in Present : key[q] < key[r]}
Below(c)  == {q \in Present : rank(q) < c}

LEMMA RankType == \A r : rank(r) \in Nat
BY Counts DEF rank, Present

\* Of two rows that are there, the one with the greater key has the greater rank.
LEMMA RankOrder ==
    ASSUME TypeOK, Distinct(key), NEW p \in Present, NEW q \in Present, p # q
    PROVE  /\ key[p] < key[q] => rank(p) < rank(q)
           /\ key[p] < key[q] \/ key[q] < key[p]
<1>1. \A x \in Resources : key[x] \in Nat
  BY KeyType
<1>2. key[p] # key[q] /\ p \in Resources /\ q \in Resources
  BY DEF Distinct, Present
<1>3. ASSUME key[p] < key[q] PROVE rank(p) < rank(q)
  <2>1. /\ Before(p) \cup {p} \subseteq Before(q) /\ p \notin Before(p)
        /\ Before(p) \in SUBSET Resources /\ Before(q) \in SUBSET Resources
    BY <1>1, <1>2, <1>3 DEF Before, Present
  <2>2. Cardinality(Before(p) \cup {p}) = Cardinality(Before(p)) + 1
    BY <1>2, <2>1, CountsOne
  <2>3. Cardinality(Before(p) \cup {p}) <= Cardinality(Before(q))
    BY <1>2, <2>1, Counts
  <2>4. Cardinality(Before(p)) \in Nat /\ Cardinality(Before(q)) \in Nat
    BY <2>1, Counts
  <2> QED BY <2>2, <2>3, <2>4 DEF rank, Before
<1> QED BY <1>1, <1>2, <1>3

\* No more rows lie below an offset than it counts, and as many if some row lies
\* at it or after.
LEMMA BelowCount ==
    ASSUME TypeOK, Distinct(key), NEW c \in Nat
    PROVE  /\ Cardinality(Below(c)) <= c
           /\ \A q \in Present : rank(q) >= c => Cardinality(Below(c)) = c
<1>1. key \in [Resources -> Nat]
  BY KeyType
<1>2. Below(c) \in SUBSET Resources /\ Present \in SUBSET Resources
  BY DEF Below, Present
<1>3. Cardinality(Below(c)) \in Nat
  BY <1>2, Counts
<1>4. Cardinality(Below(c)) <= c
  <2>1. CASE Below(c) = {}
    BY <2>1, FS_EmptySet
  <2>2. CASE Below(c) # {}
    <3>1. PICK g \in Below(c) : \A p \in Below(c) : key[p] <= key[g]
      BY <1>1, <1>2, <2>2, GreatestKey
    <3>2. Below(c) \subseteq Before(g) \cup {g}
      <4>1. ASSUME NEW p \in Below(c), p # g PROVE p \in Before(g)
        <5>1. key[p] < key[g] \/ key[g] < key[p]
          BY <4>1, RankOrder DEF Below
        <5>2. key[p] \in Nat /\ key[g] \in Nat
          BY <1>1, <1>2
        <5> QED BY <3>1, <5>1, <5>2 DEF Before, Below
      <4> QED BY <4>1
    <3>3. Before(g) \in SUBSET Resources
      BY DEF Before, Present
    <3>4. Cardinality(Below(c)) <= Cardinality(Before(g)) + 1
      BY <1>2, <3>2, <3>3, CountsOne
    <3>5. Cardinality(Before(g)) = rank(g) /\ rank(g) < c
      BY DEF rank, Before, Below
    <3> QED BY <1>3, <3>4, <3>5, RankType
  <2> QED BY <2>1, <2>2
<1>5. ASSUME NEW q \in Present, rank(q) >= c PROVE c <= Cardinality(Below(c))
  <2>1. q \in Present \ Below(c)
    BY <1>5, RankType DEF Below
  <2>2. PICK m \in Present \ Below(c) : \A p \in Present \ Below(c) : key[m] <= key[p]
    <3>1. Present \ Below(c) \in SUBSET Resources /\ Present \ Below(c) # {}
      BY <1>2, <2>1
    <3> QED BY <1>1, <3>1, LeastKey
  <2>3. Before(m) \subseteq Below(c)
    <3>1. ASSUME NEW p \in Before(m), p \notin Below(c) PROVE FALSE
      <4>1. key[p] < key[m] /\ key[m] <= key[p]
        BY <2>2, <3>1 DEF Before
      <4>2. key[p] \in Nat /\ key[m] \in Nat
        BY <1>1, <1>2 DEF Before
      <4> QED BY <4>1, <4>2
    <3> QED BY <3>1
  <2>4. Cardinality(Before(m)) <= Cardinality(Below(c))
    BY <1>2, <2>3, Counts
  <2>5. rank(m) = Cardinality(Before(m)) /\ ~ (rank(m) < c)
    BY DEF rank, Before, Below
  <2> QED BY <1>3, <2>4, <2>5, RankType
<1> QED BY <1>3, <1>4, <1>5

-----------------------------------------------------------------------------
(* The offset listing.                                                     *)

\* Name for the part of IInv that speaks of it.
OffsetKept ==
    cfg.mode = "offset" /\ pc = "listing" =>
        /\ Cardinality(Skipped) <= removed
        /\ Cardinality(Repeated) + Cardinality(ToRepeat) <= added

LEMMA OffsetSets ==
    ASSUME TypeOK
    PROVE  /\ Skipped \in SUBSET Resources /\ Repeated \in SUBSET Resources
           /\ ToRepeat \in SUBSET Resources
           /\ cursor \in Nat /\ removed \in Nat /\ added \in Nat
BY ResourcesFinite DEF TypeOK, Skipped, Repeated, ToRepeat

\* Such a binding orders by a unique column.
LEMMA OffsetDistinct ==
    ASSUME KeysetInv, cfg.mode = "offset"
    PROVE  Distinct(key)
BY OffsetOrdered DEF KeysetInv, TypeOK, RowsKept

\* A page holds the rows whose ranks follow the offset, without a gap.
LEMMA PageRanks ==
    ASSUME TypeOK, Distinct(key), cfg.mode = "offset",
           NEW rows \in SUBSET Selected, Page(rows)
    PROVE  /\ Cardinality(rows) \in Nat
           /\ \A p \in rows : cursor <= rank(p) /\ rank(p) < cursor + Cardinality(rows)
           /\ \A q \in Present \ rows :
                 rank(q) < cursor \/ rank(q) >= cursor + Cardinality(rows)
<1>1. /\ Selected = Remaining
      /\ Remaining = {r \in Present : rank(r) >= cursor}
  BY DEF Selected, Remaining
<1>2. /\ rows \in SUBSET Resources /\ Below(cursor) \in SUBSET Resources
      /\ rows \subseteq Present /\ Present \subseteq Resources
      /\ cursor \in Nat
  BY <1>1 DEF Below, Present, TypeOK
<1>3. /\ Cardinality(rows) \in Nat
      /\ Cardinality(Below(cursor) \cup rows) <= Cardinality(Below(cursor)) + Cardinality(rows)
      /\ Cardinality(Below(cursor)) <= cursor
      /\ Cardinality(Below(cursor)) \in Nat /\ Cardinality(Below(cursor) \cup rows) \in Nat
  BY <1>2, Counts, BelowCount
<1>4. \A x \in Resources : key[x] \in Nat
  BY KeyType
<1>5. ASSUME NEW p \in rows
      PROVE  cursor <= rank(p) /\ rank(p) < cursor + Cardinality(rows)
  <2>1. cursor <= rank(p) /\ rank(p) \in Nat
    BY <1>1, RankType
  <2>2. Before(p) \subseteq Below(cursor) \cup rows
    <3>1. ASSUME NEW q \in Before(p), q \notin Below(cursor), q \notin rows PROVE FALSE
      <4>1. q \in Selected \ rows /\ key[q] < key[p]
        BY <1>1, <1>2, <3>1, RankType DEF Before, Below
      <4>2. key[p] <= key[q]
        BY <4>1 DEF Page
      <4> QED BY <4>1, <4>2, <1>2, <1>4 DEF Before
    <3> QED BY <3>1
  <2>3. p \notin Before(p)
    BY <1>2, <1>4 DEF Before
  <2>4. Before(p) \in SUBSET Resources /\ Before(p) \cup {p} \subseteq Below(cursor) \cup rows
    BY <1>2, <2>2 DEF Before
  <2>5. Cardinality(Before(p) \cup {p}) = Cardinality(Before(p)) + 1
    BY <1>2, <2>3, <2>4, CountsOne
  <2>6. Cardinality(Before(p) \cup {p}) <= Cardinality(Below(cursor) \cup rows)
    BY <1>2, <2>4, Counts
  <2>7. rank(p) = Cardinality(Before(p))
    BY DEF rank, Before
  <2> QED BY <1>2, <1>3, <2>1, <2>5, <2>6, <2>7
<1>6. ASSUME NEW q \in Present \ rows, rank(q) >= cursor
      PROVE  rank(q) >= cursor + Cardinality(rows)
  <2>1. Cardinality(Below(cursor)) = cursor
    BY <1>2, <1>6, BelowCount
  <2>2. Below(cursor) \cap rows = {}
    BY <1>1, <1>2, RankType DEF Below
  <2>3. Below(cursor) \cup rows \subseteq Before(q)
    <3>1. ASSUME NEW x \in Below(cursor) PROVE x \in Before(q)
      <4>1. rank(x) < rank(q) /\ x \in Present
        BY <1>2, <1>6, <3>1, RankType DEF Below
      <4>2. x # q /\ ~ (rank(q) < rank(x))
        BY <4>1, RankType
      <4> QED BY <4>1, <4>2, RankOrder DEF Before
    <3>2. ASSUME NEW x \in rows PROVE x \in Before(q)
      <4>1. key[x] <= key[q] /\ x # q /\ x \in Present /\ q \in Present
        BY <1>1, <1>2, <1>6, <3>2 DEF Page
      <4>2. key[x] < key[q] \/ key[q] < key[x]
        BY <4>1, RankOrder
      <4> QED BY <1>2, <1>4, <4>1, <4>2 DEF Before
    <3> QED BY <3>1, <3>2
  <2>4. Cardinality(Below(cursor) \cup rows) = Cardinality(Below(cursor)) + Cardinality(rows)
    BY <1>2, <2>2, Counts
  <2>5. Before(q) \in SUBSET Resources
    BY <1>2 DEF Before
  <2>6. Cardinality(Below(cursor) \cup rows) <= Cardinality(Before(q))
    BY <1>2, <2>3, <2>5, Counts
  <2> QED BY <2>1, <2>4, <2>6 DEF rank, Before
<1>7. \A q \in Present \ rows : rank(q) < cursor \/ rank(q) >= cursor
  BY <1>2, RankType
<1> QED BY <1>3, <1>5, <1>6, <1>7

\* What a page leaves behind it and repeats.
LEMMA PageGiven ==
    ASSUME KeysetInv, OffsetKept, cfg.mode = "offset", pc = "listing",
           NEW rows \in SUBSET Selected, Page(rows), Give(rows), fate' = fate,
           NEW Missed, NEW Ahead2,
           \A r \in Missed : /\ r \in Named \ listed' /\ fate[r] = "still"
                             /\ rank(r) < cursor + Cardinality(rows),
           \A r \in Ahead2 : /\ r \in listed' /\ fate[r] = "still"
                             /\ rank(r) >= cursor + Cardinality(rows)
    PROVE  /\ Cardinality(Missed) <= removed
           /\ Cardinality(Repeated') + Cardinality(Ahead2) <= added
<1>1. TypeOK /\ Distinct(key)
  BY OffsetDistinct DEF KeysetInv
<1>2. /\ Cardinality(rows) \in Nat
      /\ \A p \in rows : cursor <= rank(p) /\ rank(p) < cursor + Cardinality(rows)
      /\ \A q \in Present \ rows :
            rank(q) < cursor \/ rank(q) >= cursor + Cardinality(rows)
  BY <1>1, PageRanks
<1>3. /\ Skipped \in SUBSET Resources /\ Repeated \in SUBSET Resources
      /\ ToRepeat \in SUBSET Resources
      /\ cursor \in Nat /\ removed \in Nat /\ added \in Nat
  BY <1>1, OffsetSets
<1>4. /\ listed' = listed \cup (rows \cap Named) /\ again' = again \cup (rows \cap listed)
      /\ listed \subseteq Named /\ Named \subseteq Resources
  BY <1>1, ResourcesFinite DEF Give, TypeOK
<1>5. \A r : rank(r) \in Nat
  BY RankType
<1>6. \A r \in Resources : fate[r] = "still" => r \in Present
  BY DEF KeysetInv, RowsKept, Present
<1>7. Missed \subseteq Skipped
  <2> SUFFICES ASSUME NEW r \in Missed PROVE r \in Skipped
    OBVIOUS
  <2>1. r \in Named /\ r \notin listed /\ r \notin rows /\ r \in Present /\ fate[r] = "still"
    BY <1>4, <1>6
  <2>2. rank(r) < cursor
    BY <1>2, <1>3, <1>5, <2>1
  <2> QED BY <2>1, <2>2 DEF Skipped
<1>8. Cardinality(Missed) <= removed
  <2>1. Cardinality(Missed) <= Cardinality(Skipped) /\ Cardinality(Skipped) \in Nat
    <3>1. Missed \in SUBSET Resources
      BY <1>3, <1>7
    <3> QED BY <1>3, <1>7, <3>1, Counts
  <2>2. Cardinality(Missed) \in Nat
    BY <1>3, <1>7, Counts
  <2> QED BY <1>3, <2>1, <2>2 DEF OffsetKept
<1> DEFINE X == {r \in rows \cap listed : fate[r] = "still"}
<1>9. X \cup Ahead2 \subseteq ToRepeat /\ X \cap Ahead2 = {}
  <2>1. ASSUME NEW r \in X PROVE r \in ToRepeat /\ r \notin Ahead2
    <3>1. rank(r) >= cursor /\ ~ (rank(r) >= cursor + Cardinality(rows))
      BY <1>2, <1>3, <1>5
    <3> QED BY <3>1 DEF ToRepeat
  <2>2. ASSUME NEW r \in Ahead2 PROVE r \in ToRepeat
    <3>1. rank(r) >= cursor + Cardinality(rows) /\ r \in listed' /\ fate[r] = "still"
      OBVIOUS
    <3>2. r \notin rows /\ rank(r) >= cursor
      BY <1>2, <1>3, <1>5, <3>1
    <3> QED BY <1>4, <3>1, <3>2 DEF ToRepeat
  <2> QED BY <2>1, <2>2
<1>10. Repeated' = Repeated \cup X
  BY <1>4 DEF Repeated
<1>11. X \in SUBSET Resources /\ Ahead2 \in SUBSET Resources
  BY <1>3, <1>9
<1> HIDE DEF X
<1>12. /\ Cardinality(X \cup Ahead2) = Cardinality(X) + Cardinality(Ahead2)
       /\ Cardinality(X \cup Ahead2) <= Cardinality(ToRepeat)
       /\ Cardinality(Repeated \cup X) <= Cardinality(Repeated) + Cardinality(X)
  BY <1>3, <1>9, <1>11, Counts
<1>13. /\ Cardinality(X) \in Nat /\ Cardinality(Ahead2) \in Nat
       /\ Cardinality(Repeated) \in Nat /\ Cardinality(ToRepeat) \in Nat
       /\ Cardinality(Repeated \cup X) \in Nat
  BY <1>3, <1>11, Counts
<1>14. Cardinality(Repeated') + Cardinality(Ahead2) <= added
  BY <1>3, <1>10, <1>12, <1>13 DEF OffsetKept
<1> QED BY <1>8, <1>14

\* A change of one row shifts the rank of another by one at most, and up only if
\* the row was not there, down only if it is there no more.
LEMMA RankShift ==
    ASSUME TypeOK, TypeOK', NEW r \in Resources, NEW q \in Resources, q # r,
           \A p \in Resources \ {r} : key'[p] = key[p]
    PROVE  /\ rank(q)' <= rank(q) + 1 /\ rank(q) <= rank(q)' + 1
           /\ key[r] = 0 => rank(q) <= rank(q)'
           /\ key'[r] = 0 => rank(q)' <= rank(q)
           /\ rank(q) \in Nat /\ rank(q)' \in Nat
<1>1. key'[q] = key[q]
  OBVIOUS
<1>2. /\ Before(q)' = {p \in Resources : key'[p] # 0 /\ key'[p] < key[q]}
      /\ Before(q) = {p \in Resources : key[p] # 0 /\ key[p] < key[q]}
  BY <1>1 DEF Before, Present
<1>3. rank(q)' = Cardinality(Before(q)') /\ rank(q) = Cardinality(Before(q))
  BY DEF rank, Before
<1> DEFINE S == Before(q)  T == Before(q)'
<1>4. /\ S \in SUBSET Resources /\ T \in SUBSET Resources
      /\ S \subseteq T \cup {r} /\ T \subseteq S \cup {r}
      /\ key[r] = 0 => S \subseteq T
      /\ key'[r] = 0 => T \subseteq S
  BY <1>2
<1> HIDE DEF S, T
<1>5. /\ Cardinality(T) <= Cardinality(S) + 1 /\ Cardinality(S) <= Cardinality(T) + 1
      /\ S \subseteq T => Cardinality(S) <= Cardinality(T)
      /\ T \subseteq S => Cardinality(T) <= Cardinality(S)
      /\ Cardinality(S) \in Nat /\ Cardinality(T) \in Nat
  BY <1>4, Counts, CountsOne
<1> QED BY <1>3, <1>4, <1>5 DEF S, T

\* So one change makes one row more slip before the offset at most, and one that was
\* given come after it.
LEMMA ChangeOffset ==
    ASSUME KeysetInv, TypeOK', OffsetKept, NEW r \in Resources, NEW k, Change(r, k),
           \A q \in Resources \ {r} : fate'[q] = fate[q],
           fate'[r] # "still",
           removed' >= removed, added' >= added,
           key[r] # 0 => removed' = removed + 1,
           k # 0 => added' = added + 1
    PROVE  OffsetKept'
<1> SUFFICES ASSUME cfg.mode = "offset"
             PROVE  /\ Cardinality(Skipped') <= removed'
                    /\ Cardinality(Repeated') + Cardinality(ToRepeat') <= added'
  BY DEF OffsetKept, Change
<1>1. TypeOK /\ Distinct(key)
  BY OffsetDistinct DEF KeysetInv
<1>2. /\ UNCHANGED <<cfg, pc, cursor, listed, again, cuts>> /\ pc = "listing"
      /\ key' = [key EXCEPT ![r] = k]
  BY DEF Change, progress
<1>3. key'[r] = k /\ \A q \in Resources \ {r} : key'[q] = key[q]
  BY <1>1, <1>2 DEF TypeOK
<1>4. /\ Skipped \in SUBSET Resources /\ Repeated \in SUBSET Resources
      /\ ToRepeat \in SUBSET Resources
      /\ cursor \in Nat /\ removed \in Nat /\ added \in Nat
      /\ removed' \in Nat /\ added' \in Nat
  BY <1>1, OffsetSets DEF TypeOK
<1>5. \A q \in Resources \ {r} :
         /\ rank(q)' <= rank(q) + 1 /\ rank(q) <= rank(q)' + 1
         /\ key[r] = 0 => rank(q) <= rank(q)'
         /\ k = 0 => rank(q)' <= rank(q)
         /\ rank(q) \in Nat /\ rank(q)' \in Nat
  BY <1>1, <1>3, RankShift
<1>6. /\ listed \subseteq Named /\ Named \subseteq Resources /\ again \subseteq Named
      /\ \A q \in Resources : fate'[q] = "still" =>
            q # r /\ fate[q] = "still" /\ q \in Present
  BY <1>1, ResourcesFinite DEF KeysetInv, RowsKept, Present, TypeOK
<1>7. \A q \in Skipped' : /\ q \in Named \ listed /\ q \in Present \ {r}
                          /\ fate[q] = "still" /\ rank(q)' < cursor
  BY <1>2, <1>6 DEF Skipped
<1>8. \A q \in ToRepeat' : /\ q \in listed /\ q \in Present \ {r}
                           /\ fate[q] = "still" /\ rank(q)' >= cursor
  BY <1>2, <1>6 DEF ToRepeat
<1>p. Present \subseteq Resources
  BY DEF Present
<1>9. Cardinality(Skipped') <= removed'
  <2>1. ASSUME NEW q \in Skipped', q \notin Skipped
        PROVE  key[r] # 0 /\ rank(q) = cursor /\ q \in Present
    <3>1. q \in Resources \ {r} /\ rank(q)' < cursor /\ ~ (rank(q) < cursor)
      BY <1>7, <1>p, <2>1 DEF Skipped
    <3> QED BY <1>4, <1>5, <1>7, <3>1
  <2>2. Skipped' \in SUBSET Resources
    BY <1>7, <1>p
  <2>3. CASE Skipped' \subseteq Skipped
    <3>1. /\ Cardinality(Skipped') <= Cardinality(Skipped)
          /\ Cardinality(Skipped') \in Nat /\ Cardinality(Skipped) \in Nat
      BY <1>4, <2>2, <2>3, Counts
    <3> QED BY <1>2, <1>4, <3>1 DEF OffsetKept
  <2>4. CASE ~ (Skipped' \subseteq Skipped)
    <3>1. PICK s \in Skipped' : s \notin Skipped
      BY <2>4
    <3>2. Skipped' \subseteq Skipped \cup {s}
      <4> SUFFICES ASSUME NEW q \in Skipped', q \notin Skipped, q # s PROVE FALSE
        OBVIOUS
      <4>1. rank(q) = rank(s) /\ q \in Present /\ s \in Present
        BY <2>1, <3>1
      <4> QED BY <1>1, <4>1, RankOrder, RankType
    <3>3. Cardinality(Skipped') <= Cardinality(Skipped) + 1
      BY <1>4, <2>2, <3>1, <3>2, CountsOne
    <3>4. removed' = removed + 1
      BY <2>1, <3>1
    <3>5. Cardinality(Skipped) \in Nat /\ Cardinality(Skipped') \in Nat
      BY <1>4, <2>2, Counts
    <3> QED BY <1>2, <1>4, <3>3, <3>4, <3>5 DEF OffsetKept
  <2> QED BY <2>3, <2>4
<1>10. Cardinality(Repeated') <= Cardinality(Repeated) /\ Cardinality(Repeated') \in Nat
  <2>1. Repeated' \subseteq Repeated /\ Repeated' \in SUBSET Resources
    BY <1>2, <1>6 DEF Repeated
  <2> QED BY <1>4, <2>1, Counts
<1>11. Cardinality(Repeated') + Cardinality(ToRepeat') <= added'
  <2>1. ASSUME NEW q \in ToRepeat', q \notin ToRepeat
        PROVE  k # 0 /\ rank(q) + 1 = cursor /\ q \in Present
    <3>1. q \in Resources \ {r} /\ rank(q)' >= cursor /\ ~ (rank(q) >= cursor)
      BY <1>8, <1>p, <2>1 DEF ToRepeat
    <3> QED BY <1>4, <1>5, <1>8, <3>1
  <2>2. ToRepeat' \in SUBSET Resources
    BY <1>8, <1>p
  <2>3. /\ Cardinality(ToRepeat) \in Nat /\ Cardinality(ToRepeat') \in Nat
        /\ Cardinality(Repeated) \in Nat
    BY <1>4, <2>2, Counts
  <2>4. CASE ToRepeat' \subseteq ToRepeat
    <3>1. Cardinality(ToRepeat') <= Cardinality(ToRepeat)
      BY <1>4, <2>2, <2>4, Counts
    <3> QED BY <1>2, <1>4, <1>10, <2>3, <3>1 DEF OffsetKept
  <2>5. CASE ~ (ToRepeat' \subseteq ToRepeat)
    <3>1. PICK s \in ToRepeat' : s \notin ToRepeat
      BY <2>5
    <3>2. ToRepeat' \subseteq ToRepeat \cup {s}
      <4> SUFFICES ASSUME NEW q \in ToRepeat', q \notin ToRepeat, q # s PROVE FALSE
        OBVIOUS
      <4>1. rank(q) + 1 = rank(s) + 1 /\ q \in Present /\ s \in Present
        BY <2>1, <3>1
      <4> QED BY <1>1, <4>1, RankOrder, RankType
    <3>3. Cardinality(ToRepeat') <= Cardinality(ToRepeat) + 1
      BY <1>4, <2>2, <3>1, <3>2, CountsOne
    <3>4. added' = added + 1
      BY <2>1, <3>1
    <3> QED BY <1>2, <1>4, <1>10, <2>3, <3>3, <3>4 DEF OffsetKept
  <2> QED BY <2>4, <2>5
<1> QED BY <1>9, <1>11

-----------------------------------------------------------------------------
(* The invariant of both.                                                  *)

LEMMA InitInv == Init => IInv
<1> SUFFICES ASSUME Init PROVE IInv
  OBVIOUS
<1>1. KeysetInv
  BY InitKeyset
<1>2. Skipped = {} /\ Repeated = {} /\ ToRepeat = {}
  <2>1. \A r : ~ (rank(r) < cursor)
    BY RankType DEF Init
  <2> QED BY <2>1 DEF Init, Skipped, Repeated, ToRepeat
<1>3. Cardinality({}) = 0
  BY FS_EmptySet
<1> QED BY <1>1, <1>2, <1>3 DEF Init, IInv, OffsetShiftBounded

LEMMA StepInv == IInv /\ [Next]_vars => IInv'
<1> SUFFICES ASSUME IInv, [Next]_vars PROVE IInv'
  OBVIOUS
<1>1. KeysetInv /\ KeysetInv' /\ TypeOK /\ TypeOK'
  BY StepKeyset DEF IInv, KeysetInv
<1>2. OffsetKept /\ OffsetShiftBounded
  BY DEF IInv, OffsetKept
<1> SUFFICES OffsetKept' /\ OffsetShiftBounded'
  BY <1>1 DEF IInv, OffsetKept
<1>3. CASE Continue
  <2>1. PICK rows \in SUBSET Selected :
             Page(rows) /\ Give(rows) /\ cursor' \in next_cursor(rows)
    BY <1>3 DEF Continue
  <2>2. UNCHANGED <<key, cfg, fate, removed, added>> /\ pc = "listing" /\ pc' = "listing"
    BY <1>3 DEF Continue, changes
  <2>3. ASSUME cfg.mode = "offset" PROVE OffsetKept'
    <3>1. cursor' = cursor + Cardinality(rows)
      BY <2>1, <2>3 DEF next_cursor
    <3>2. \A r : rank(r)' = rank(r)
      BY <2>2 DEF rank, Present
    <3>3. \A r \in Skipped' : /\ r \in Named \ listed' /\ fate[r] = "still"
                              /\ rank(r) < cursor + Cardinality(rows)
      BY <2>2, <3>1, <3>2 DEF Skipped
    <3>4. \A r \in ToRepeat' : /\ r \in listed' /\ fate[r] = "still"
                               /\ rank(r) >= cursor + Cardinality(rows)
      BY <2>2, <3>1, <3>2 DEF ToRepeat
    <3>5. /\ Cardinality(Skipped') <= removed
          /\ Cardinality(Repeated') + Cardinality(ToRepeat') <= added
      BY <1>1, <1>2, <2>1, <2>2, <2>3, <3>3, <3>4, PageGiven
    <3> QED BY <2>2, <3>5 DEF OffsetKept
  <2> QED BY <2>2, <2>3 DEF OffsetKept, OffsetShiftBounded
<1>4. CASE End
  <2>1. PICK rows \in SUBSET Selected :
              /\ Page(rows) /\ Give(rows)
              /\ pc' = IF rows = Remaining THEN "exhausted" ELSE "gave_up"
    BY <1>4 DEF End
  <2>2. UNCHANGED <<key, cfg, fate, removed, added>> /\ pc = "listing" /\ pc' # "listing"
    BY <1>4, <2>1 DEF End, changes
  <2>3. ASSUME cfg.mode = "offset", rows = Remaining PROVE OffsetShiftBounded'
    <3> DEFINE Missed == {r \in Named \ listed' : fate[r] = "still"}
    <3>1. \A r \in Missed : /\ r \in Named \ listed' /\ fate[r] = "still"
                            /\ rank(r) < cursor + Cardinality(rows)
      <4> SUFFICES ASSUME NEW r \in Missed PROVE rank(r) < cursor + Cardinality(rows)
        OBVIOUS
      <4>1. r \in Present /\ r \notin rows
        BY <1>1, <2>1, ResourcesFinite DEF KeysetInv, RowsKept, Present, Give
      <4>2. ~ (rank(r) >= cursor)
        BY <2>3, <4>1 DEF Remaining
      <4>3. Cardinality(rows) \in Nat /\ cursor \in Nat /\ rank(r) \in Nat
        BY <1>1, <2>1, <2>3, OffsetDistinct, PageRanks, RankType DEF TypeOK
      <4> QED BY <4>2, <4>3
    <3>2. /\ Cardinality(Missed) <= removed
          /\ Cardinality(Repeated') + Cardinality({}) <= added
      <4> HIDE DEF Missed
      <4> QED BY <1>1, <1>2, <2>1, <2>2, <2>3, <3>1, PageGiven
    <3>3. Cardinality({}) = 0 /\ Cardinality(Repeated') \in Nat
      <4>1. Repeated' \in SUBSET Resources
        BY <1>1, ResourcesFinite DEF Repeated, TypeOK
      <4> QED BY <4>1, FS_EmptySet, Counts
    <3>4. Cardinality(Repeated') <= added /\ added \in Nat
      BY <1>1, <3>2, <3>3 DEF TypeOK
    <3> QED BY <2>2, <3>2, <3>4 DEF OffsetShiftBounded, Repeated
  <2> QED BY <2>1, <2>2, <2>3 DEF OffsetKept, OffsetShiftBounded
<1>5. ASSUME NEW c \in Configs, Reregister(c) PROVE OffsetKept' /\ OffsetShiftBounded'
  <2>1. /\ UNCHANGED <<key, pc, cursor, listed, again, fate, removed, added>>
        /\ cfg'.mode = cfg.mode
    BY <1>5 DEF Reregister, progress, changes
  <2> QED BY <1>2, <2>1
         DEF OffsetKept, OffsetShiftBounded, Skipped, Repeated, ToRepeat, rank, Present
<1>t. /\ fate \in [Resources -> Fate] /\ removed \in Nat /\ added \in Nat
      /\ \A k \in Keys : k # 0
  BY <1>1, KeysPositive DEF TypeOK
<1>6. ASSUME NEW r \in Resources, NEW k \in Keys, Insert(r, k)
      PROVE  OffsetKept' /\ OffsetShiftBounded'
  <2>1. fate[r] = "other" /\ fate' = fate
    BY <1>1, <1>6 DEF KeysetInv, RowsKept, Insert
  <2>2. key[r] = 0 /\ removed' = removed /\ added' = added + 1 /\ Change(r, k)
    BY <1>6 DEF Insert
  <2>3. OffsetKept'
    BY <1>1, <1>2, <1>t, <2>1, <2>2, ChangeOffset
  <2> QED BY <2>2, <2>3 DEF Change, OffsetShiftBounded
<1>7. ASSUME NEW r \in Resources, NEW k \in Keys, Move(r, k)
      PROVE  OffsetKept' /\ OffsetShiftBounded'
  <2>1. fate'[r] # "still" /\ \A q \in Resources \ {r} : fate'[q] = fate[q]
    BY <1>t, <1>7 DEF Move
  <2>2. removed' = removed + 1 /\ added' = added + 1 /\ Change(r, k)
    BY <1>7 DEF Move
  <2>3. OffsetKept'
    BY <1>1, <1>2, <1>t, <2>1, <2>2, ChangeOffset
  <2> QED BY <2>2, <2>3 DEF Change, OffsetShiftBounded
<1>8. ASSUME NEW r \in Resources, Delete(r) PROVE OffsetKept' /\ OffsetShiftBounded'
  <2>1. fate'[r] # "still" /\ \A q \in Resources \ {r} : fate'[q] = fate[q]
    BY <1>t, <1>8 DEF Delete
  <2>2. removed' = removed + 1 /\ added' = added /\ Change(r, 0)
    BY <1>8 DEF Delete
  <2>3. OffsetKept'
    BY <1>1, <1>2, <1>t, <2>1, <2>2, ChangeOffset
  <2> QED BY <2>2, <2>3 DEF Change, OffsetShiftBounded
<1>9. CASE UNCHANGED vars
  <2>1. UNCHANGED <<key, cfg, pc, cursor, listed, again, fate, removed, added>>
    BY <1>9 DEF vars, progress, changes
  <2> QED BY <1>2, <2>1
         DEF OffsetKept, OffsetShiftBounded, Skipped, Repeated, ToRepeat, rank, Present
<1> QED BY <1>3, <1>4, <1>5, <1>6, <1>7, <1>8, <1>9 DEF Next, Ended

\* The inductive invariant of a listing, for any table and any bindings.
THEOREM ListingInvariant == Spec => []IInv
BY InitInv, StepInv, PTL DEF Spec

\* The variables keep their types.
THEOREM ListingTypes == Spec => []TypeOK
<1>1. IInv => TypeOK
  BY DEF IInv, KeysetInv
<1> QED BY <1>1, ListingInvariant, PTL

\* surface.rs: an exhausted keyset listing missed only rows that share the key of a
\* cursor, and none at all if keys are unique.
THEOREM KeysetMissesOnlyTies == Spec => []OnlyTiesMissed
<1>1. IInv => OnlyTiesMissed
  BY DEF IInv, KeysetInv
<1> QED BY <1>1, ListingInvariant, PTL

\* A keyset listing gives no row twice that was left alone.
THEOREM KeysetGivesOnce == Spec => []NoneGivenTwice
<1>1. IInv => NoneGivenTwice
  BY DEF IInv, KeysetInv
<1> QED BY <1>1, ListingInvariant, PTL

\* surface.rs, the fallback to offsets: an exhausted offset listing missed no more of
\* the rows left alone than were removed, and repeated no more than were added.
THEOREM OffsetShifts == Spec => []OffsetShiftBounded
<1>1. IInv => OffsetShiftBounded
  BY DEF IInv
<1> QED BY <1>1, ListingInvariant, PTL

-----------------------------------------------------------------------------
(* The cursor, in both modes.                                              *)

\* A page that does not end the listing takes the cursor further.
THEOREM CursorGoesOn == Spec => CursorAdvances
<1>1. TypeOK /\ Continue => cursor' > cursor
  <2> SUFFICES ASSUME TypeOK, Continue PROVE cursor' > cursor
    OBVIOUS
  <2>1. PICK rows \in SUBSET Selected : cursor' \in next_cursor(rows)
    BY DEF Continue
  <2>2. CASE cfg.mode = "keyset"
    BY <2>1, <2>2, KeysetCursor
  <2>3. CASE cfg.mode # "keyset"
    <3>1. cursor' = cursor + Cardinality(rows)
      BY <2>1, <2>3 DEF next_cursor
    <3>2. Cardinality(rows) \in Nat \ {0} /\ cursor \in Nat
      BY <2>1, FullPage DEF TypeOK
    <3> QED BY <3>1, <3>2
  <2> QED BY <2>2, <2>3
<1>2. TypeOK /\ [Next]_vars => [Continue => cursor' > cursor]_vars
  BY <1>1
<1> QED BY <1>2, ListingTypes, PTL DEF Spec, CursorAdvances

\* A listing that ends before the table does so for one of the causes named.
THEOREM EarlyEndExplained == Spec => []EarlyEndHasCause
<1>1. Init => EarlyEndHasCause
  BY DEF Init, EarlyEndHasCause
<1>2. TypeOK /\ End => EarlyEndHasCause'
  <2> SUFFICES ASSUME TypeOK, End, pc' # "exhausted",
                      cfg.rows_fit >= cfg.page_size,
                      cfg.mode = "keyset" => Named = Resources /\ cfg.found
               PROVE  cfg.mode = "keyset" /\ ~ cfg.null_lists /\ cursor = 0
    BY ConfigType DEF End, EarlyEndHasCause
  <2>1. PICK rows \in SUBSET Selected :
              /\ Page(rows) /\ next_cursor(rows) = {} /\ rows # Remaining
    BY DEF End
  <2>2. /\ cfg.page_size \in Nat \ {0} /\ cfg.rows_fit \in Nat
        /\ cfg.mode \in {"keyset", "offset"}
    BY ConfigType
  <2>3. rows \in SUBSET Resources
    BY DEF Selected, Remaining, Present
  <2>4. Cardinality(rows) \in Nat /\ (Cardinality(rows) = 0 <=> rows = {})
    BY <2>3, PageCount
  <2>5. CASE short(rows)
    <3>1. rows = Selected
      BY <2>1, <2>2, <2>4, <2>5 DEF Page, short
    <3> QED BY <2>1, <3>1 DEF Selected
  <2>6. CASE ~ short(rows)
    <3>1. rows # {}
      BY <2>2, <2>4, <2>6 DEF short
    <3>2. cfg.mode = "keyset" /\ last_cursor_value(rows) = {}
      BY <2>1, <2>2, <2>6 DEF next_cursor
    <3>3. PICK q \in rows : \A p \in rows : key[p] <= key[q]
      BY <2>3, <3>1, KeyType, GreatestKey
    <3>4. key[q] \in last_cursor_value(rows)
      BY <2>3, <3>2, <3>3 DEF last_cursor_value
    <3> QED BY <3>2, <3>4
  <2> QED BY <2>5, <2>6
<1>3. TypeOK /\ EarlyEndHasCause /\ [Next]_vars => EarlyEndHasCause'
  BY <1>2 DEF Next, Continue, Reregister, Insert, Delete, Move, Change, Ended, vars,
              EarlyEndHasCause
<1> QED BY <1>1, <1>3, ListingTypes, PTL DEF Spec

\* When the bindings' pages fit the byte cap, their statements take NULL for the
\* beginning and select the cursor column by its name, and every row has a uri,
\* then a listing that ends has come to the end of the table, as surface.rs says.
THEOREM EndOfSoundListing ==
    ASSUME Named = Resources,
           \A c \in Configs : /\ c.rows_fit >= c.page_size
                              /\ c.mode = "keyset" => c.found /\ c.null_lists
    PROVE  Spec => []EndIsExhaustion
<1>1. TypeOK /\ EarlyEndHasCause => EndIsExhaustion
  <2> SUFFICES ASSUME TypeOK, EarlyEndHasCause, pc = "gave_up" PROVE FALSE
    BY DEF EndIsExhaustion
  <2>1. /\ cfg.page_size \in Nat /\ cfg.rows_fit \in Nat /\ cfg.rows_fit >= cfg.page_size
        /\ cfg.mode = "keyset" => cfg.found /\ cfg.null_lists
    BY ConfigType DEF TypeOK
  <2> QED BY <2>1 DEF EarlyEndHasCause
<1> QED BY <1>1, ListingTypes, EarlyEndExplained, PTL

=============================================================================
