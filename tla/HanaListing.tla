---------------------------- MODULE HanaListing ----------------------------
(***************************************************************************)
(* A client lists the resources of a binding page by page, while others    *)
(* change the table: list_resources (lib.rs) and rows_to_resource_page     *)
(* (surface.rs).  The plugin keeps nothing between two pages; all there is *)
(* of a listing is the cursor the client hands back.                       *)
(*                                                                         *)
(* A page is one statement, hence one step; a call that fails leaves the   *)
(* client with the cursor it had.  The rows of a table are known by their  *)
(* resources and their keys, the values of the column the operator orders  *)
(* by.  Keys are those whose rendering the server reads back as the key,   *)
(* the ids and timestamps of cursor_value_to_string's comment.             *)
(***************************************************************************)
EXTENDS Naturals, FiniteSets

CONSTANTS
    Resources,   \* what the table may hold, one row each
    Named,       \* those whose row has a `uri`
    Keys,        \* values of the ordering column
    Configs,     \* list_query and limits the binding may be registered with
    MaxChanges   \* bound: changes of the table during the listing

\* A list_query, by what decides a page.  `found`: the rows have a column called
\* cursor_column to the letter.  `null_lists`: the statement takes a NULL cursor
\* for the beginning.  `rows_fit`: how many rows max_result_bytes has room for.
\* `unique`: no two rows of the table share a key.
Config == [mode: {"keyset", "offset"}, page_size: Nat \ {0}, rows_fit: Nat,
           found: BOOLEAN, null_lists: BOOLEAN, unique: BOOLEAN]

ASSUME ResourcesFinite == IsFiniteSet(Resources) /\ Named \subseteq Resources
ASSUME KeysPositive    == Keys \subseteq Nat \ {0}
ASSUME ConfigsTyped    == Configs \subseteq Config
ASSUME ChangesTyped    == MaxChanges \in Nat
\* An offset counts the rows of an order, and only distinct keys fix one.
ASSUME OffsetOrdered   == \A c \in Configs : c.mode = "offset" => c.unique

VARIABLES
    key,      \* resource -> key of its row, 0 when there is none
    cfg,
    pc,       \* "listing"; "exhausted" or "gave_up" once next_cursor is None
    cursor,   \* last key or running offset, 0 when the client has no cursor yet
    \* history
    listed,   \* resources the client has been given
    again,    \* resources it has been given a second time
    cuts,     \* the keys that were cursors
    fate,     \* resource -> "still", "raised" or "other" since the listing began
    removed, added   \* rows removed and added; a moved row is both

progress == <<listed, again, cuts>>
changes  == <<fate, removed, added>>
vars     == <<key, cfg, pc, cursor, progress, changes>>

Fate == {"still", "raised", "other"}

TypeOK ==
    /\ key \in [Resources -> Keys \cup {0}]
    /\ cfg \in Configs
    /\ pc \in {"listing", "exhausted", "gave_up"}
    /\ cursor \in Nat
    /\ listed \subseteq Named
    /\ again \subseteq Named
    /\ cuts \subseteq Keys
    /\ fate \in [Resources -> Fate]
    /\ removed \in Nat /\ added \in Nat

Present == {r \in Resources : key[r] # 0}

\* The ordering column is unique among the rows that are there.
Distinct(k) == \A r, q \in Resources : r # q /\ k[r] # 0 => k[r] # k[q]

Init ==
    /\ key \in [Resources -> Keys \cup {0}]
    /\ cfg \in Configs
    /\ cfg.unique => Distinct(key)
    /\ pc = "listing"
    /\ cursor = 0
    /\ listed = {} /\ again = {} /\ cuts = {}
    /\ fate = [r \in Resources |-> IF key[r] = 0 THEN "other" ELSE "still"]
    /\ removed = 0 /\ added = 0

-----------------------------------------------------------------------------
(* The statement, external: the rows after the cursor, in key order.       *)

rank(r) == Cardinality({q \in Present : key[q] < key[r]})

Remaining ==
    IF cfg.mode = "keyset" THEN {r \in Present : key[r] > cursor}
                           ELSE {r \in Present : rank(r) >= cursor}

\* `cursor_column > NULL` holds for no row.
Selected ==
    IF cfg.mode = "keyset" /\ cursor = 0 /\ ~ cfg.null_lists THEN {} ELSE Remaining

\* What run_query returns of it: the leading rows, page_size of them by the LIMIT
\* and as max_rows, and no more than fit the byte cap.  Rows with the same key
\* come in any order.
Page(rows) ==
    /\ rows \subseteq Selected
    /\ \A p \in rows, q \in Selected \ rows : key[p] <= key[q]
    /\ Cardinality(rows) <= cfg.page_size /\ Cardinality(rows) <= cfg.rows_fit
    /\ rows # Selected => Cardinality(rows) \in {cfg.page_size, cfg.rows_fit}

-----------------------------------------------------------------------------
(* rows_to_resource_page.                                                  *)

\* Mutant: a page that is just full also ends the listing.
not_over(rows) == Cardinality(rows) <= cfg.page_size

short(rows) == Cardinality(rows) < cfg.page_size

\* The key of the last row that has a uri and the cursor column.
last_cursor_value(rows) ==
    {key[r] : r \in {q \in rows \cap Named :
                        cfg.found /\ \A p \in rows \cap Named : key[p] <= key[q]}}

\* Mutant: the offset of the page, not of the listing.
page_offset(rows) ==
    IF short(rows) THEN {}
    ELSE IF cfg.mode = "keyset" THEN last_cursor_value(rows)
    ELSE {Cardinality(rows)}

\* Mutant: the cursor is the first row's.
first_cursor(rows) ==
    IF short(rows) THEN {}
    ELSE IF cfg.mode = "offset" THEN {cursor + Cardinality(rows)}
    ELSE {key[r] : r \in {q \in rows : \A p \in rows : key[q] <= key[p]}}

\* next_cursor: none, or one value.
next_cursor(rows) ==
    IF short(rows) THEN {}
    ELSE IF cfg.mode = "keyset" THEN last_cursor_value(rows)
    ELSE {cursor + Cardinality(rows)}

\* Mutant: the last row of a page is fetched only for its cursor.
GiveAllButLast(rows) ==
    LET given == {r \in rows \cap Named : \E q \in rows : key[q] > key[r]} IN
    /\ listed' = listed \cup given
    /\ again' = again \cup (given \cap listed)

\* Mutant: a row is given, whether it has a uri or not.
GiveAny(rows) ==
    /\ listed' = listed \cup rows
    /\ again' = again \cup (rows \cap listed)

Give(rows) ==
    /\ listed' = listed \cup (rows \cap Named)
    /\ again' = again \cup (rows \cap listed)

Continue ==
    /\ pc = "listing"
    /\ \E rows \in SUBSET Selected :
        /\ Page(rows)
        /\ Give(rows)
        /\ cursor' \in next_cursor(rows)
    /\ cuts' = IF cfg.mode = "keyset" THEN cuts \cup {cursor'} ELSE cuts
    /\ UNCHANGED <<key, cfg, pc, changes>>

End ==
    /\ pc = "listing"
    /\ \E rows \in SUBSET Selected :
        /\ Page(rows)
        /\ Give(rows)
        /\ next_cursor(rows) = {}
        /\ pc' = IF rows = Remaining THEN "exhausted" ELSE "gave_up"
    /\ UNCHANGED <<key, cfg, cursor, cuts, changes>>

\* The binding is registered again between two pages; the operator keeps the mode
\* and the column.
Reregister(c) ==
    /\ pc = "listing"
    /\ c.mode = cfg.mode /\ c.unique = cfg.unique
    /\ cfg' = c
    /\ UNCHANGED <<key, pc, cursor, progress, changes>>

-----------------------------------------------------------------------------
(* Others change the table.                                                *)

Change(r, k) ==
    /\ pc = "listing"
    /\ removed + added < MaxChanges
    /\ key[r] # k
    /\ key' = [key EXCEPT ![r] = k]
    /\ cfg.unique => Distinct(key')
    /\ UNCHANGED <<cfg, pc, cursor, progress>>

Insert(r, k) ==
    /\ key[r] = 0
    /\ Change(r, k)
    /\ added' = added + 1
    /\ UNCHANGED <<fate, removed>>

Delete(r) ==
    /\ Change(r, 0)
    /\ removed' = removed + 1
    /\ fate' = [fate EXCEPT ![r] = "other"]
    /\ UNCHANGED added

\* An update of the ordering column, updated_at say.
Move(r, k) ==
    /\ key[r] # 0
    /\ Change(r, k)
    /\ removed' = removed + 1 /\ added' = added + 1
    /\ fate' = [fate EXCEPT ![r] = IF @ # "other" /\ k > key[r] THEN "raised" ELSE "other"]

Ended == pc # "listing" /\ UNCHANGED vars

Next ==
    \/ Continue
    \/ End
    \/ \E c \in Configs : Reregister(c)
    \/ \E r \in Resources, k \in Keys : Insert(r, k) \/ Move(r, k)
    \/ \E r \in Resources : Delete(r)
    \/ Ended

Spec == Init /\ [][Next]_vars

-----------------------------------------------------------------------------

\* A listing that ends before the table has one of four causes: a page that the byte
\* cap may cut, rows with no uri, a cursor column the rows do not have, or a NULL
\* first bind that selects nothing.  Nothing else, in particular no change of the
\* table and no new registration, ends a listing early.
EarlyEndHasCause ==
    pc = "gave_up" =>
        \/ cfg.rows_fit < cfg.page_size
        \/ cfg.mode = "keyset" /\ (Named # Resources \/ ~ cfg.found)
        \/ cfg.mode = "keyset" /\ ~ cfg.null_lists /\ cursor = 0

\* A keyset listing that is exhausted has given every resource that was there
\* throughout, even one whose key was raised meanwhile.  If rows share keys, it
\* may miss a row that has the key of the last row of some page.
OnlyTiesMissed ==
    pc = "exhausted" /\ cfg.mode = "keyset" =>
        \A r \in Named \ listed :
            IF cfg.unique THEN fate[r] = "other"
                          ELSE fate[r] = "still" => key[r] \in cuts

\* A keyset listing gives no resource twice whose row was left alone.
NoneGivenTwice ==
    cfg.mode = "keyset" => \A r \in again : fate[r] # "still"

\* What keeps the two above, while a keyset listing goes on: the rows not yet
\* given lie after the cursor, or have the key of a cursor; the rows given and
\* left alone lie at it or before.
RowsKept == /\ cfg.unique => Distinct(key)
            /\ \A r \in Resources : fate[r] # "other" => key[r] # 0
Ahead(r)  == IF cfg.unique THEN fate[r] # "other" => key[r] > cursor
                           ELSE fate[r] = "still" => key[r] > cursor \/ key[r] \in cuts
Behind(r) == fate[r] = "still" => key[r] <= cursor

KeysetInv ==
    /\ TypeOK /\ RowsKept
    /\ cfg.mode = "keyset" /\ pc = "listing" =>
          /\ \A r \in Named \ listed : Ahead(r)
          /\ \A r \in listed : Behind(r)
    /\ OnlyTiesMissed /\ NoneGivenTwice

\* An offset listing that is exhausted has missed no more of the rows left alone
\* than were removed, and repeated no more of them than were added.
OffsetShiftBounded ==
    pc = "exhausted" /\ cfg.mode = "offset" =>
        /\ Cardinality({r \in Named \ listed : fate[r] = "still"}) <= removed
        /\ Cardinality({r \in again : fate[r] = "still"}) <= added

\* What keeps it while an offset listing goes on: of the rows left alone, few have
\* slipped before the offset without being given, and few that were given have
\* been given again or are about to be.
Skipped  == {r \in Named \ listed : fate[r] = "still" /\ rank(r) < cursor}
Repeated == {r \in again : fate[r] = "still"}
ToRepeat == {r \in listed : fate[r] = "still" /\ rank(r) >= cursor}

IInv ==
    /\ KeysetInv
    /\ cfg.mode = "offset" /\ pc = "listing" =>
          /\ Cardinality(Skipped) <= removed
          /\ Cardinality(Repeated) + Cardinality(ToRepeat) <= added
    /\ OffsetShiftBounded

\* Every page that does not end the listing takes the cursor further, so that a
\* client is never led in circles.
CursorAdvances == [][Continue => cursor' > cursor]_vars

-----------------------------------------------------------------------------
(* What a comment says and the code does not do; a run shows it.           *)

\* surface.rs, rows_to_resource_page: no next cursor means that the listing is
\* exhausted.
EndIsExhaustion == pc # "gave_up"
=============================================================================
