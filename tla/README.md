# Verification of the SAP HANA backend plugin

A TLA+ model of `mcpg-plugin-backend-hana`, checked with TLC on small instances
whose safety properties are proved with TLAPS for every value of the constants. Source references are paths of the repository (`src/lib.rs:640`).

The plugin answers three operations of an MCP gateway by running
operator-fixed SQL against SAP HANA. Its promise is small and its hazards are
those of any pooled, timed-out, re-configurable client: which configuration a
call runs under, what may reach the server, what a timeout leaves behind, and
what the caller and the operator are told.

## 1. Inventory

| Component | State | Operations | Model |
|---|---|---|---|
| Profile registry (`lib.rs`, `types.rs`) | `profiles: RwLock<BTreeMap<name, HanaProfile>>`; a profile is an `Arc`-shared pool, compiled parameters and the spec | `register_profile` (checks, builds the pool, inserts or replaces); the read and clone at the head of every call; `try_read` in `output_schema` / `input_schema` | `HanaSpec`, `HanaBackend`, `HanaRegistry` |
| Calls (`lib.rs`, `cdylib.rs`) | per call: cloned profile, deadline, result | `execute`, `list_resources`, `complete_template_variable`, each a `block_on` on a two-worker runtime | `HanaBackend`, `HanaCall` |
| Query engine and pool (`engine.rs`, bb8) | sessions: idle, held, being opened | `run_query`: guard, `pool.get`, prepare, `execute_row`, fetch, under one outer timeout | `HanaBackend` |
| Parameters and binds (`params.rs`, `lib.rs`) | compiled CEL | evaluate all, lower one by one; binds of a page, of a completion | `HanaBinds`; that they may fail, in `HanaBackend` |
| Row marshalling (`engine.rs`) | rows kept, byte budget, `truncated` | the loop of `marshal_result_set`; rendering of a cell | `HanaMarshal`; objects and cells in `HanaRows` |
| Error classification, observability (`envelope.rs`, `lib.rs`) | host counters and audit sink | `classify_error`, `error_kind`, `audit_action_for_outcome`, `emit_host_observability` | `HanaEnvelope`, `HanaBackend` |
| Read-only guard (shared plugin SDK) | none | `enforce_read_only` | its verdicts, in `HanaSpec` (external) |
| Resource listing (`lib.rs`, `surface.rs`) | the cursor, held by the caller | page, next cursor; keyset and offset | `HanaListing`; cursor values in `HanaRows`, their binds in `HanaBinds` |
| Completion values (`lib.rs`) | none | first column, cap | `HanaRows` |
| Catalog filters and statements (`lib.rs`, `engine.rs`) | none | pin or argument; clauses and binds; `LIMIT` | `HanaCatalog`; `LIMIT` against the cap in `HanaMarshal` |
| Polling watcher (`watch.rs`) | last value seen, stop flag, a pool and a runtime of its own | start, tick, cancel | `HanaWatch` |
| Schemas (`lib.rs`) | none | which schema is answered, which arguments it lists | `HanaRegistry`, `HanaCatalog` |
| Surface bodies, FFI export, packaging, CI | none | JSON layout, build | not modelled |

**How they interact.** A call takes the read lock just long enough to clone its
profile, then works on the clone alone. The clone holds the profile's pool
alive: a registration that replaces the entry does not disturb the calls
already inside, and the replaced pool dies with its last clone. Calls of one
binding meet in its pool (`pool_max_size` sessions). The server and the network
are a third actor: a statement that was sent is no longer in the plugin's hands,
and dropping the future that waits for it does not recall it. After its outcome
is known, `execute` reports to the host: a counter, and on failures an audit
event whose sink is awaited, outside the call's timeout and with the clone still
alive. A listing is a conversation: between two pages the plugin keeps nothing,
and table and registration may both have changed when the cursor comes back. A
watcher shares nothing with the calls; it has a thread, a runtime that runs only
inside a tick, and a pool that lasts from tick to tick.

**What is hard.** Interleavings of registration, calls, timeouts and connection
attempts at every `.await`; the outer timeout, which drops the future wherever
it is; a statement that runs after its call was answered; failures classified by
the words of their message; five spec fields that may name the statement to run,
each checked under its own conditions; the row loop's two caps; pages cut from a
table that moves; clauses and binds kept in two lists; numbers that pass through
CEL, JSON and the driver; a tick that is cancelled, expires or fails at any point.
`PROJECT.json` lists each hazard at its line with the properties that watch it.

**What makes each part correct.**

- Registry: a call uses one registration throughout; whatever was accepted can
  be run as it stands; a registration gets the lock; a schema is never another
  binding's.
- Engine and pool: sessions are neither leaked nor exceeded; a read-only binding
  never changes data; a replaced pool closes.
- Calls: each returns, whatever the server does, and what the caller is told is
  compatible with what the server did.
- Observability: one count and at most one audit event per `execute`.
- Binds: the i-th placeholder gets what the i-th parameter says, exactly, or the
  call is refused before anything is sent.
- Marshalling: the longest leading run of rows that fits both caps, `truncated`
  exactly when something was left out; two values become one only where the
  rendering of their type says so.
- What is read off the rows: candidates, cursor and scalar are of the right row
  and column, and the server reads them back as the cells they came from.
- Listing: paging to the end visits every resource that was left alone, once,
  and ends early only for a known cause.
- Catalog: each filter reaches its own column; a pin is lifted only by a string;
  columns of several tables are listed only if the caller may choose the table.
- Watcher: no event without a change, a lasting change is reported, cancelling
  ends it and its sessions.

## 2. Modules

| Module | Stands for |
|---|---|
| `HanaSpec` | a spec, the checks of `register_profile`, `effective_statement`. Pure. |
| `HanaEnvelope` | verdict, label and audit action of a failure. Pure. |
| `HanaBackend` | registry, pools, calls, server. Extends the two above. |
| `HanaCall` | the abstract promise to one caller, which `HanaBackend` implements. |
| `HanaRegistry` | the lock itself, at a finer grain than `HanaBackend`. |
| `HanaBinds` | what a call binds: the step before it is sent. |
| `HanaCatalog` | the statement and binds of a discovery call, and the server's answer. |
| `HanaMarshal` | the row loop of `marshal_result_set`, the last step of a call. |
| `HanaRows` | cells to JSON objects, and what is read off the objects. |
| `HanaListing` | a client paging through a changing table. |
| `HanaWatch` | one watcher, its pool, its server and its table. |
| `Hana...Proofs` | theorems and proofs, one module for each of the eight state machines above. |
| `MC...` | instances for TLC. |

`HanaBackend` has every await and abstracts the data; the others take one of its
steps, or a sequence of calls, and give it its data. They are not composed into
one state space: what they share is the statement (sent once, answered, cut,
expired), and each module takes that from `HanaBackend` as a step that may also
fail and leave nothing behind.

Some definitions are preceded by a `Mutant:` comment. They are not part of the
model: each is a slip one could make in the code, and substituting it for the
definition it varies breaks the property that `PROJECT.json` pairs it with.

### HanaSpec

Strings are reduced to what the code distinguishes: missing, blank, ordinary,
holding a bare `cred://` URI; for SQL also the kinds of statement the guard tells
apart (a read, a CTE that writes, stacked statements, an analysing EXPLAIN, a
plain write). `Registrable` is the conjunction of the checks, in the groups the
code has them. `StatementOf(s, o)` is the statement an operation of a profile
sends, `Configured` whether there is one. `Mutating` is what HANA changes data
for; it is deliberately independent of `enforce_read_only`, so that the guard's
strength is a fact the properties depend on.

### HanaBackend

A registration is a *generation*, its index in `binding`; `profiles` maps a name
to its current generation. Each generation has a pool: `idle` sessions,
`pending` attempts and all `sessions` open on the server. A call is a program
counter and the little it holds:

| `pc` | in the code |
|---|---|
| `idle` | not made |
| `clone` | `profiles.read().await` |
| `waiting` | `pool.get()` in `run_query` |
| `prepare`, `execute`, `fetch` | the awaits of the same names; `fetch` is `marshal_result_set` |
| `audit` | the audit sink of `emit_host_observability` |
| `done` | returned |

`wire` is the statement's fate outside the plugin, and `ran` counts its
executions; both go on changing after the call is `done`. Each action is the code
between two awaits. The failure exits of a step are separate actions
(`PrepareFailed`, `Timeout`, ...), and each exit names both halves of its ending
by itself: `Observe`, which counts the outcome and audits it, and `Reply`, which
sets the reply and gives up the session. The code, too, has no common way out:
four places observe, and an exit that forgets to (`BadPayloadUnobserved`, a
mutant) is not seen in its reply. Messages are the set of marker groups they contain; the server, the driver
and CEL may produce any. `Settle` is the `Arc`: a pool with no registry entry,
clone or attempt left closes its sessions.

A bb8 pool is external and modelled from its use: at most `max_size` sessions
and attempts together, opened on demand, each handed to one caller; a session
given back is kept or discarded as broken. Waiters are not queued in order, which
allows more than bb8 does.

### HanaCall

A call is idle, pending, returned. While it is pending, or after it was answered
with a failure, the server may run its statement once; an answer with rows
requires that it ran; a call that was not served at all (no profile, bad
arguments, nothing configured) leaves no trace on the server, ever. That a
*failed* call may still run is part of the promise, and the reason a write
answered `retryable` is not safe to retry (§6).

### HanaRegistry

`HanaBackend` takes each access to the registry for one step. This module is why
it may: tokio's `RwLock` is a queue, `readers` and `writer` its permits; a
registration locks and inserts, a call locks, clones and lets go
(`CloneUnderGuard`, the mutant, does not). The branch for a missing profile
reports to the host while the guard is still held (`lib.rs:687`): `NotFound` goes
through `audit` if that outcome has an audit action. It has none, and
`RegistrationEnds` depends on that. The host asks for the two schemas one after
the other; each is a `try_read` that answers for an unknown binding when it fails.

### HanaBinds

JSON, CEL values, binds and database values are one set of typed numbers. `Half` is
where a signed word ends and an unsigned one has its middle, 2^63 in the code; `Ulp`
is the distance between the doubles from there on, 2^11. The instance takes 16 and 4,
so that every edge (the last `i64`, the last `u64`, an integer no double holds, one
half-way between two) is among the inputs; the proofs take any two numbers of which
`Ulp` divides `Half`. A parameter reads one argument, multiplies it or divides it
as a float: the results CEL can give that the code treats differently. `Evaluate`
is `evaluate_params`, `Bind` one turn of the lowering loop, `Bound` its end.
`Meaning` and `Denotes`, the reference, are stated without the conversions.

### HanaCatalog

A binding has a pin and an argument name, or neither, for each filter. `resolve`
is the code's resolution, `clauses_of` and `binds_of` what the two builders push;
`Answer` is the server, which pairs the two by position and sends the first
`max_rows` of the matching entries; an entry is known by its place in the catalog,
so that two alike are still two.

### HanaMarshal

Rows are numbered and known by the cumulative size of the rows up to them, which
is all the loop uses. Skipped rows are fetched and dropped, as in the code, so a
failed fetch or the timeout can still strike after the answer was complete. For a
catalog select, `Sent` is what the statement's own `LIMIT` leaves.

### HanaRows

A cell is NULL, an infinity, a numbered value, bytes, or characters; a `DBSTRING`
column holds characters or bytes that are no UTF-8. Texts are terms: the literal of a
number, base64, a LOB's length, a list, or the empty text. That digits, dates and
base64 are each one-to-one is taken from the libraries; *which* of them a cell gets,
and what meets there, is the model's: a string may be the base64 of another cell's
bytes, `''` has the cursor text of NULL, a LOB shares its length with another.

An object is a function of column names, which are ranks of the alphabet, so "the
first column" of an object is the least name. A page has a cursor only if it is full,
and takes it from the last row that has a string under `uri` and from the cursor
column, if the result has one (`listed`, `last_cursor_value`). The loop over the
candidates is a step for each row (`Complete`, `rows_to_completion_values`,
`Completed`): `take(max)` counts rows, and those passed over use it up.

The properties do not compare with the objects but with the cells of the table:
`reads_as` is what the server makes of a text bound as a string for a column of a
type, and `CursorRoundTrips` and `SuggestionsAreCells` say that it finds the cell the
text came from.

### HanaListing

A page is one step (`Continue` or `End`): the statement, the rows cut at
`page_size` or by the byte cap, the rows without `uri` left out, the cursor of the
last. `key` is the table; others insert, delete and move rows between pages, and
the operator registers the binding again with another page size or another fault.
An offset counts rows of an order that only distinct keys fix, so a binding
that pages by offset is taken to order by a unique key (`OffsetOrdered`).
`fate`, `listed`, `again`, `cuts` record what the properties compare. A call that
fails is no step: the client asks again with the cursor it has.

### HanaWatch

`Tick` to `EndTick` is `run_query` under the tick's timeout, with the pool steps
of `HanaBackend`. They are enabled only inside a tick (`InTick`): the watcher's
current-thread runtime runs only in `block_on`, so an attempt is frozen from one
tick to the next. The helper that holds the thread, the diff and the stop flag is
the SDK's and external. A statement whose tick is over goes on as `orphan`.

## 3. Runs

| Run | Shows | Instance |
|---|---|---|
| `calls` | `IInv`, `ReadOnlyBindingNeverWrites`, `RegisteredIsRunnable`, `OneProfilePerCall`, `SessionsAccounted`, `ObservedOnce`, and that `HanaBackend` implements `HanaCall` (`CallPromise`) | two calls of any operation, one name, registered up to twice with a writing tool (pool of two), a resource with listing and completions (pool of one), or one of eleven specs each of which must be refused |
| `progress` | `EveryCallReturns`, `SupersededPoolDrains` | two calls, pool of one, registered twice |
| `marshal` | `LongestFittingPrefix`, `TruncatedIsExact`, `UnmarkedIsWhole`, `Inv` | every result set of at most four rows of one to three units; caps from one row / one unit to more than all of them; operator's statement or catalog select |
| `listing` | `IInv`, `EarlyEndHasCause`, `OnlyTiesMissed`, `NoneGivenTwice`, `OffsetShiftBounded`, `CursorAdvances` | four rows, one without `uri`, keys 1..4, unique or shared; keyset and offset; pages of one and two, the byte cap, the column not found, NULL that lists nothing; two changes of the table and any number of registrations |
| `watch` | `IInv`, `NoSpuriousEvent`, `OneLateEvent`, `PoolAccounted`, `WatchNeverWrites`, `CancelDrains`, `Reported` | three values, up to three changes, no row and NULL between; `pool_max_size` 0 (one session) and 2; specs to be refused |
| `catalog` | `FiltersReachTheirColumns`, `PinHoldsUnlessReplaced`, `ColumnsOfOneTable`, `SchemaIsComplete` | both operations, every mix of pins and arguments, every argument a string, an empty one, another JSON value or missing; five entries that every filter and pair of filters splits, `max_rows` 3 |
| `binds` | `BindsPositional`, `AllOrNothing`, `OffsetNeverAnother` | up to two parameters over two arguments of every JSON type, integers at every edge |
| `rows` | `ValuesStayApart`, `SuggestionsAreCells`, `CursorRoundTrips` | up to two rows and two columns of any types, `uri` or not, names in either order or the same; every form a cell of the type has, two of each; a cursor column that may be missing; a limit of none, one, two |
| `registry` | `IInv`, `SchemasOfProfile`, `SchemaNeverAnothers`, `RegistrationEnds` | two names, two registrations, two callers that never stop calling, a host that asks at any time |

Three more runs (`verdicts`, `list_cut`, `rows_first`) end in a violation
each, and are described in §6.

**Bounds, and why they are enough.** Calls meet in three places: the registry
entry, the pool's count and the idle list. Two calls, with a pool of one, already
produce every conflict there (one waits, one holds; both wait while an attempt is
pending), and with a pool of two both hold at once. Two generations make one old
and one new. A call is made once, since nothing of it survives its return. In
`calls` every message carries a transport marker: markers decide the verdict and
the label, not the control, and `verdicts` has the others. Several names,
larger pools, every other spec, and a plugin without a host (`HostInstalled` is
TRUE in the runs) are covered by the proofs only. The calls are interchangeable,
and nothing names one, so their permutation is a symmetry of `calls` (not of
`progress`, where liveness is checked); the same holds for the rows with a `uri`
in `listing`. In `marshal`, four rows leave room for a cap in the middle, a row
that does not fit, a smaller one after it, and the end. In `listing`, four rows
make three pages at least, with a change before, at and after the cursor. In
`watch`, three values let a change be undone and a third value come. The bounds
in guards are `MaxGens`, `MaxChanges` and `MaxVersions`; the others are sizes of
inputs.

**Deadlock** is checked everywhere; `Terminated`, `Stopped`, `Ended` and
`Answered` mark the intended ends.

**Fairness.** In `progress`: the plugin's steps up to the timeout (`Prologue`)
and the timeout itself are fair because the runtime polls ready tasks and its
timers fire; connection attempts end because bb8 bounds each by its
`connection_timeout`. Nothing is assumed of the server, of sessions becoming free,
or of callers: `EveryCallReturns` rests on the outer timeout alone, and restricting
it to `Holding` (a timeout that does not cover the wait for a session) breaks it.

The audit sink is the host's, and the code awaits it with no limit of its own: a call
whose sink does not come back never returns. So the sink is not assumed to, but is
an antecedent (`SinkReturns`): a call returns if *its own* sink does, though the sinks
of the others never do, and a superseded pool drains if no sink keeps a clone of it.

In `watch`, `ThreadFairness` is the thread's own: it starts, ticks, stops when
flagged, and its tick's timer fires. That is all `CancelDrains` needs. `Reported`
cannot hold against a server that never answers in time, so it carries
`ServerFairness` as its antecedent: what tick after tick tries again and again
succeeds in the end (strong fairness, since each try may expire). The run keeps
the weaker assumption for everything else.

In `registry`, the workers run what is runnable: a granted lock is used. No call
need ever return, and callers may call without end; that the lock is a queue is
what lets a registration through.

## 4. Proofs

The theorems hold for any sets of names, calls, specs, values, columns and
resources, any number of registrations, sessions, changes and rows, any limits,
result sets and catalogs, and words of any size. Every invariant and every action
property that a run checks is the statement of one of them.

The assumptions are the `ASSUME`s of the modules, all on constants, and TLC evaluates
each. Most give types, or say that what is counted is finite. The others:

| Assumption | Says | Why |
|---|---|---|
| `LimitsPositive`, `MaxRowsTyped` | caps are above zero | `register_profile` refuses a zero |
| `MatchesGrow` | a row has at least one byte | its JSON has braces |
| `KeysPositive`, `NamesReal`, `ScalarsReal` | keys and names are unlike the marks for "none" | marks of the model |
| `TasksApart` | a registration is not a call | tasks of the model |
| `WordsTyped` | `Ulp` divides `Half` | 2^11 and 2^63 |
| `OffsetOrdered` | offset paging orders by a unique key | else a page is not determined (§2) |

| Module | Theorem | States |
|---|---|---|
| `HanaBackendProofs` | `BackendInvariant` | `Spec => []IInv` |
| | `BackendTypes`, `BackendSessions`, `BackendOneProfile`, `BackendRunnable`, `BackendNeverWrites`, `BackendObserved` | the safety properties of `HanaBackend` |
| | `BackendKeepsPromise` | `Spec => CallPromise`: the refinement of `HanaCall` |
| `HanaRegistryProofs` | `RegistryInvariant` | `Spec => []IInv` |
| | `RegistryWriterAlone` | while a registration inserts, nobody else is at the registry |
| | `RegistrySchemasOfProfile`, `RegistrySchemaNeverAnothers` | the schema properties |
| `HanaBindsProofs` | `BindsInvariant` | the lowering loop |
| | `ParamsPositional`, `ParamsAllOrNothing`, `OffsetCast` | the properties of `HanaBinds` |
| `HanaCatalogProofs` | `CatalogInvariant` | what a discovery call sends and gets |
| | `CatalogFiltersReach`, `CatalogPinHolds`, `CatalogOneTable`, `CatalogSchemaComplete` | the properties of `HanaCatalog` |
| | `PinnedTableScopes` | the documented claim `ListColumnsScoped`, of bindings that pin the table for good |
| `HanaMarshalProofs` | `MarshalInvariant`, `MarshalTypes` | `Inv`, `TypeOK` |
| | `MarshalKeepsLongestPrefix`, `MarshalTruncatedIsExact`, `MarshalUnmarkedIsWhole` | the properties of the row loop |
| `HanaRowsProofs` | `RowsInvariant` | the objects and the candidates made so far, and what cursor and scalar are read off |
| | `RowsStayApart`, `CursorsRoundTrip`, `SuggestionsAreOfCells` | the properties of `HanaRows` |
| `HanaListingProofs` | `ListingInvariant`, `ListingTypes` | `IInv`, `TypeOK` |
| | `KeysetMissesOnlyTies`, `KeysetGivesOnce`, `OffsetShifts`, `CursorGoesOn`, `EarlyEndExplained` | the properties of a listing |
| | `EndOfSoundListing` | the documented claim `EndIsExhaustion`, from what it needs |
| `HanaWatchProofs` | `WatchInvariant` | `Spec => []IInv` |
| | `WatchNeverSpurious`, `WatchCancelled`, `WatchPool`, `WatchReadsOnly` | the safety properties of a watcher |

**Backend.** `SessionsAccounted` is not inductive: that a call returning its
session leaves the counts right depends on the session being of the generation
the call cloned, on the call holding one exactly while its `pc` says so, and, when
a pool is dropped, on nobody holding a session of it. `IInv` is therefore the
conjunction of `TypeOK`, `CallInv` (per call: what it holds at each `pc`, which
profile it has, what it has emitted) and `PoolInv`. The proof has one lemma per
kind of step, and within a step proves the calls' half first: `PoolInv` in the
next state needs the next state's `CallShape`, since a pool may be dropped only
when no call holds one of its sessions. `BackendNeverWrites` follows because
`CallBinding` says a statement on the wire belongs to a registered profile, and
`BackendRunnable` that such a statement passed the guard.

**Promise.** The refinement needs more than `IInv`: `PInv` adds that a statement
ran at most once, that rows (or rows being fetched) mean it ran, and that a call
that was not served has sent nothing. Every step is then, for the caller, an
`Invoke`, a `Run`, a `Return` that `ran` justifies, or a stutter: the steps are
grouped by what they do to one call (start, run, answer, hidden), and each group
has one lemma.

**Registry.** That an access to the registry is one step for everyone else
(`RegistryWriterAlone`) is what entitles `HanaBackend` to take it for one. `LockKept`
carries it: the permits out are those of the tasks that hold, a granted writer has
no reader beside it, and whoever is in line holds nothing. `SchemasOfProfile`
compares two answers given one after the other, so it needs an invariant for the time
between them (`HalfKept`): the first answer is still the registered profile's, or the
quiet it was given in is over.

**Binds.** `Executing` is the invariant of the loop: the values bound so far are those
of the parameters up to there, none refused. What one parameter is lowered to is a
lemma (`Lowered`), and the numeric part is under it: an integer that an `i64` holds
arrives as itself, a greater one as the multiple of `Ulp` nearest to it, the even one
if there are two (`NearestDouble`), and what CEL makes of two numbers fits or fails.

**Catalog.** The builders push a clause and its bind together or neither
(`PairPushed`), so the two lists have the same places filled for any combination of
filters; `StatementSound` is that invariant, and the server's pairing by position then
restricts each column by its own value. `CatalogOneTable` needs that what registration
accepted still holds when the call is made (`Accepted`): a binding with neither pin nor
argument would list every table. `PinnedTableScopes` says when the documented scope
of `list_columns` (§6) holds: every binding pins a table and takes no argument for it.

**Marshal.** `Inv` ties the budget to the kept rows (`max_result_bytes` minus
their end) and records why the first row left out did not fit; with sizes that
grow, no longer prefix can fit then.

**Rows.** A cell of an object is that of the last column of its name (`CellOfKey`), so
of a visible column it is that column's (`VisibleColumn`). What a type's cells become is
settled by their forms (`FormOfCell`): two that are not blurred differ in kind or in
text (`JsonApart`), and a text made of a value or of characters is read back as it
(`CellReadBack`). That a page's cursor is of the last row *shown* takes the step from
rows whose object has a string under `uri` to rows whose cell has one. `Candidates` is
the invariant of the completion loop: after `taken` rows the suggestions are the texts
of the rows among them that have one, each at the place given by how many of those
there are up to it. The step adds a row above all counted so far, so the places given
before do not move.

**Listing.** `OnlyTiesMissed` speaks of the end; its strengthening of what holds
while the listing goes on: a row left alone and not yet given lies ahead of the
cursor or shares the key of one (`Ahead`), a row given lies at it or behind
(`Behind`). With unique keys a raised row stays ahead, too, which is why it may
be promised there and not with shared keys. A page keeps `Ahead` because it takes
the least keys, as many as it has room for. `EndOfSoundListing` assumes what the
documentation leaves unsaid: every row has a `uri`, `max_result_bytes` holds
`page_size` rows, and under keyset the column is found and NULL lists from the
start. Without any one of these it is false, as `list_cut` shows for the byte cap.

`OffsetShifts` is about counts. The *rank* of a row is how many come before it. An
inserted or deleted row shifts every rank above it by one, a moved row those between
its old key and its new, and with unique keys at most one row left alone has the rank the cursor stands at: so one change
carries at most one such row over the cursor, backwards (it will be missed) when a row
went, forwards (it will be repeated) when one came. `Skipped`, `Repeated` and
`ToRepeat` count these, and `IInv` bounds them by the changes of each kind. A page
moves the cursor over exactly the ranks it gives, without a gap (`PageRanks`), which
takes the finding of a least key above any given rank; it is done by a minimal
counterexample, over the well-founded order of the naturals.

**Watch.** `NoSpuriousEvent` counts events against versions of the table; `Dated`
carries the count through a tick: the answer was read at a version no older than
the baseline's, equal only if it reads the same. `Guarded` says that once a
cancelled watcher is between ticks it never starts another, so that one event at
most is late.

**Only model-checked.** The liveness properties (`EveryCallReturns`,
`SupersededPoolDrains`, `CancelDrains`, `Reported`, `RegistrationEnds`): liveness
under fairness is beyond the proof system. The three statements of §6 that runs refute
are, of course, not theorems. One of them is under the conditions that make it true
(`EndOfSoundListing`), and so is the documented scope of `list_columns`
(`PinnedTableScopes`).

## 5. Not modelled

- JSON layout of envelopes, schemas, prompt and resource bodies, and the wording
  of messages beyond their markers: formatting, on which no decision rests. That
  a resource body carries no `truncated` is a listed hazard.
- The cost of a fetch: `HanaMarshal` lets the timeout strike while rows are
  drained after a cap was met, and has no clock to bound it with.
- A cursor that outlives a change of the listing's *mode*: the code reads it as a
  cursor of the new mode and nothing says what should happen.
- `watch` with a `timeout_ms` of zero, which it takes and `register_profile`
  refuses: every tick expires. `Reported` assumes a server that answers in time.
- The SDK's guard and polling helper, bb8, tokio's lock, the driver and CEL:
  external, modelled by what the plugin relies on. The FFI export is generated.
- The scan for `arguments.` in the source of `params`, from which `input_schema` names
  its properties: a hint over characters, which rejects nothing (`lib.rs:1091`). An
  argument in index form is left out, one in a string literal is listed.
- Character-level work: SQL text, `cred://` scanning, base64, dates. The classes
  the code distinguishes stand for them.
- A panic inside a call, and the host unloading the plugin.
- Build, packaging and CI: nothing at run time.

## 6. Findings

Each is a statement of the repository that a run refutes.

| Run | Says | Does |
|---|---|---|
| `verdicts` | `envelope.rs:20`, `README.md:97`: transient failures are retryable, caller and config problems are not | a parameter whose CEL source mentions `connection`, `pool` or `timeout` fails as a retryable transport error, because the source is in the message that is searched; the host's label says `invalid_spec` |
| `list_cut` | `surface.rs:24`: a page shorter than `page_size` exhausts the listing | a page cut by `max_result_bytes` is shorter, too; `truncated` is not looked at and the rest is never listed |
| `rows_first` | `types.rs:275`, `surface.rs:87`: candidates are of the first column | they are of the column whose name is first in the alphabet, for objects are ordered maps (`lib.rs:1049`): of `SELECT name, id` the ids |

**Disagreements met that no run states.** They follow from a definition alone, or
from a case a property excludes by name; the models have the code's behaviour.

| Says | Does | In the models |
|---|---|---|
| `README.md:246`: audit events on failures | a call on an unknown profile, and a failed listing or completion, leave none (`lib.rs:692`, `lib.rs:70`) | `Audited`, in `ObservedOnce`; `NotFound` of `HanaRegistry` |
| `envelope.rs:25`, `README.md:98`: a rejection is not masked by words in its text | its outcome label is: one that mentions a timeout is counted as a timeout (`lib.rs:869`) | `failure_label`; refutes `VerdictFitsLabel`, too, after more steps than `verdicts` shows |
| `types.rs:51`: a blank `tls_ca_cert` means plaintext | it means TLS with the system roots (`lib.rs:599`) | TLS is a field no property reads |
| `types.rs:133`: rows past `max_rows` set `truncated` | a catalog select ends in `LIMIT max_rows`, so there is never a row too many (`engine.rs:83`) | `UnmarkedIsWhole` says what does hold |
| `surface.rs:25`: the listing ends when the table does | a last row without `uri` lends no cursor (`surface.rs:38`) | a cause in `EarlyEndHasCause` |
| `types.rs:288`: `cursor_column` is checked | it is checked trimmed and used untrimmed (`types.rs:302`) | `found`, a cause in `EarlyEndHasCause` |
| `types.rs:244`: `cursor_column > ?` with a first cursor of NULL | SQL selects nothing for it (`lib.rs:995`) | `null_lists`, a cause in `EarlyEndHasCause` |
| `watch.rs:96`, `README.md:234`: `timeout_ms` is a server-side budget, too | it bounds the wait only; the statement may run on (`watch.rs:228`) | `orphan` |
| `lib.rs:126`, `README.md:147`: an argument narrows a pinned filter | it replaces it, and an empty one lifts it (`lib.rs:194`) | `FiltersReachTheirColumns`, `PinHoldsUnlessReplaced` |
| `lib.rs:962`: the running offset is bound | one above `i64::MAX` wraps to a negative bind (`lib.rs:1001`) | `OffsetNeverAnother`: never another row |
| `README.md:232`, `watch.rs:124`: a watcher's scalar is the first column | as in `rows_first` (`watch.rs:131`) | `first_col`, in `cursor_from_outcome` |
| `README.md:155`: `list_columns` never enumerates every column in the database | a call that leaves the `table_arg` argument out, or gives an empty or non-string one, does (`lib.rs:505`) | `ColumnsOfOneTable` says which calls do |
| `surface.rs:75`: cursor values round-trip | a binary key comes back as its base64 text (`engine.rs:332`) | `reads_as`; the types `CursorRoundTrips` excludes |

Also worth knowing: a write whose call timed out is answered `retryable` though it
may have run (`HanaCall` allows exactly this), and a resource read without a URI
runs its statement before it fails.

## 7. Plan

In order of weight.

1. **The registry as an atomic object** - an abstract registry whose read and insert
   are single steps, implemented by `HanaRegistry`; its proof starts from
   `RegistryWriterAlone` and would make the link to `HanaBackend` a theorem.
2. **An abstract watcher** - what a subscriber sees (an event only after a change),
   implemented by `HanaWatch`, in the way `HanaCall` is by `HanaBackend`.
3. **Larger instances of `HanaBackend`** - two names in one run, and a catalog
   binding. The proofs cover both; a run would show they are not vacuous there.
4. **Cost of the drain** - extend `HanaMarshal` with the time a fetch takes: a
   finished answer may still be lost to the timeout while the rest is drained.
