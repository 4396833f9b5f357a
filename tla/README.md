# A verification project for googlesqlite

googlesqlite is a `database/sql` driver that runs GoogleSQL (BigQuery and Spanner
dialects) on SQLite. A statement is analyzed by the GoogleSQL analyzer (compiled to
wasm), translated to SQLite text that calls registered Go functions, and executed on
an SQLite connection. This directory holds TLA+ models of the parts of the driver that
keep state, the TLC configurations that check them, and TLAPS proofs.

## 1. The system

### Components, state and operations

| Component | State it keeps | Operations | Modelled |
|---|---|---|---|
| Catalog (`internal/catalog.go`) | slices, maps and analyzer names of tables, views, functions, TVFs; `lastSyncedAt`; the rows of `googlesqlite_catalog` | `Sync`, `AddNew*Spec`, `Delete*Spec`, `resetCatalog` | `Catalog` |
| Statement clock (`internal/statement_clock.go`) | per SQLite connection: frozen instant and token; the table `statementClocks` | `Start`, `End`, `TakeStatementClock` | `StatementClock` |
| Script execution (`driver.go`, `internal/stmt_action.go`, `internal/rows.go`) | list of actions whose `Cleanup` is due, `ChangedCatalog` | `ExecContext`, `QueryContext`, each DDL action, `Cleanup`, `Rows.Close` | `Script` |
| Transactions (`driver.go`) | `txActive`, `txReset`; the state of the SQLite connection | `BeginTx`, `Commit`, `Rollback`, `execTxEnd` | `Transaction` |
| DML, ASSERT_ROWS_MODIFIED, MERGE (`internal/stmt_action.go`) | savepoints of the SQLite connection | `DMLStmtAction`, `MergeStmtAction` | `Transaction` |
| Driver, connector, DSN registry (`driver.go`) | maps from DSN to inner `sql.DB` and catalog, the `dead` flag | `OpenConnector`, `Connect`, `Close`, `IsValid`, `translateConnDone` | `Connector` |
| ALTER TABLE (`internal/stmt_action_alter.go`) | table spec, SQLite columns, stored row | `ADD COLUMN`, `replaceTableSpec` | `Sessions` |
| Analyzer (`internal/analyzer.go`) | `wasmAnalyzeMu` | sync, parse, resolve, build actions | its lock and name resolution, in `Sessions` |
| INFORMATION_SCHEMA (`internal/info_schema_vtab.go`) | none; reads the catalog inside SQLite | `Filter` | its locks and completeness, in `Sessions` |
| Window functions (`internal/functions/window`) | per call: frame buffers, inner aggregator | `Step`, `Inverse`, `Value`, `Done` | `WindowFrame`, `Windows` |
| MATCH_RECOGNIZE (`internal/match_recognize.go`) | program and threads of a pattern machine | `mrCompile`, `mrMatch` | `RowPattern`, `Windows` |
| Aggregates (`internal/functions/aggregate`, `helper/aggrt_*.go`) | per group: function state, distinct keys, rows that wait for HAVING | `Step`, `Done` | `Aggregates` |
| Dates (`internal/functions/date`, `helper`) | none | add, subtract, diff, trunc, last day, extract, bucket, series | `Calendar` |
| Ranges and intervals (`internal/functions/rangefn`, `interval`, `range_sessionize.go`) | none | set relations, pieces, sessions, justify, divide | `Ranges` |
| Compliance runner (`cmd/specctl/run_compliance*.go`) | progress in a file; a worker's setup | `runFileIsolated`, `runWorker`, `runCase` | `Compliance` |
| Prepared statements (`internal/stmt.go`) | a compiled action per statement | `Prepare`, `Exec`, `Query` | their clock and their errors, in `StatementClock` and `Connector` |
| Script variables (`internal/script_vars.go`) | name to SQL text, per connection | `DECLARE`, `SET`, substitution | no |
| Formatter, casts, other functions, SQLite bridge | none | translation, conversion, evaluation | no |
| Wildcard tables, property graphs, proto registry | views of the catalog, registries | lookup, registration | no |
| EXPORT DATA, zone info, JavaScript functions, other tools, playground | files, interpreters | I/O | no |

### Interactions

* The application holds an outer `sql.DB` whose connections are `driver.Conn`s. Each
  checks an SQLite connection out of an inner `sql.DB`. The two pools are independent,
  so an SQLite connection outlives a `Conn` and may be handed to another one.
* All `Conn`s with the same DSN share one `*Catalog`, protected by `c.mu`. Catalogs of
  other processes share its table `googlesqlite_catalog` in the database file.
* A call of `ExecContext` or `QueryContext` freezes the statement clock, syncs the
  catalog, and runs the statements of the script one by one. A DDL statement changes
  SQLite, then the catalog in memory, then its row. `Cleanup` of the statements runs
  when the script ends, or when the `Rows` are closed.
* Transactions are SQL text sent to the SQLite connection; the catalog and the clock
  are not told about them.
* A statement waits for three kinds of locks: `wasmAnalyzeMu` around analysis, `c.mu`
  around the catalog, and SQLite's file locks. A scan of INFORMATION_SCHEMA takes `c.mu`
  while it holds SQLite's shared lock; ALTER and DROP write to SQLite while they hold
  `c.mu`.
* SQLite drives aggregates and window functions by callbacks, row by row; each instance
  keeps its state between them.

### What is hard

Steps of several connections or processes interleave between the statements of a
script and inside `Sync`; a context can end between any two SQL statements; a failure
in the middle of a DDL statement leaves SQLite, memory and the stored row apart; SQLite
can end a transaction without telling the driver; rows are read, and `CURRENT_*`
functions evaluated, after the call that started the query has returned; a panic is
turned into an error on the way out of a call. Worker processes hang, crash and answer late. `PROJECT.json`
lists 40 such hazards by line, with the properties that watch them.

### What makes each component correct

* Catalog: its three indexes agree; a short name that several tables share keeps its
  meaning; `Sync` misses no row.
* Clock: all `CURRENT_*` calls of a statement return one instant; a clock is not left
  frozen; no statement sees an instant from before it began.
* Script: TEMP objects live as long as their script and no longer; catalog and rows agree
  between scripts, and SQLite with them but for a table that a failed CREATE OR REPLACE has
  lost; `ChangedCatalog` describes the change; every script ends.
* Transaction: a pooled connection carries no open transaction; what was committed
  stays; what was rolled back is gone; a failed assertion leaves no trace.
* Connector: stores are kept apart as the DSN says, and the `Conn`s of a file share one;
  no SQLite connection leaks; a `Conn` that has answered ErrBadConn is not used again.
* Sessions: no spec runs ahead of its table; a table's columns are the same everywhere
  once nobody alters it; every call returns.
* Functions: incremental evaluation is not visible in results; functions that cut, step
  along or number the same calendar agree; ranges are sets, intervals keep their order.
* Compliance runner: each case is reported once, in order, against its setup; files end.

## 2. Modules

### Catalog

`list`, `map`, `res` are, per instance and kind, the slice, the map by storage name and
the names registered in the analyzer's `SimpleCatalog`. A slice is a set of entries
with the position of the append. An object is found under its path and every suffix of
it; a name that is taken is skipped (`FillFree`). `Replace` is a second
`add*Spec` of a known name: it rewrites the map, for tables also the slot in the slice,
and never the analyzer's handle. `ResetCatalog` is the rebuild a DROP causes.

An operation holds `c.mu` from start to end, but its write to SQLite is a separate step
(`op` says which is pending), because another process, the wall clock and a failure
come in between: `AddNew` then `SaveRow` or `SaveFail`; `Delete` then `DropRow` or
`DropFail`; `SyncStart`, then one `SyncLoad` per row, then `SyncEnd`. `Begin`, `Commit`
and `Rollback` are the application's transactions, which the catalog does not notice.

### StatementClock

`clock[c]` belongs to SQLite connection `c`; `table` holds the clocks nobody has taken.
`NewConn` and `Close` move SQLite connections between `Conn`s. A statement begins
(`Begin`, `BeginPrepared`), evaluates `CURRENT_*` calls (`Evaluate`), and ends with
`Return` or with `HandOff` and `CloseRows`. `Panic` is a panic in a later statement of
a query script: the deferred function still sees no error and leaves the clock to `Rows` nobody
holds. Token and statement are identified, since both are unique on a clock.

### Script

`db`, `cat` and `rows` are what SQLite, the catalog and `googlesqlite_catalog` say about
each name; operations of `Catalog` are single steps here. `acts[s]` is the script so
far, which is also the list of actions whose `Cleanup` is due. `phase[s]` says which of
the writes of a statement, or which part of a `Cleanup`, is next. `Issue` takes the
next statement, `FailStmt` is one that fails without an action, `Unwind` ends the script
after an error. A step checks `cancelled[s]` wherever the code passes the context on.

Every SQL statement that a CREATE or DROP sends may fail for a reason of its own, a division
by zero in CREATE TABLE AS SELECT for one. Each is committed by itself: CREATE OR REPLACE and
CREATE TEMP drop the old object first, so when the CREATE then fails the object is lost in
SQLite, while its spec and its row remain and a DROP without IF EXISTS fails too. The history
variable `wiped` has the names this happened to since they were last made.
`Disturb` holds what may happen to a script from outside: a panic in the analyzer or formatter,
the end of the caller's context, and a row of `googlesqlite_catalog` that cannot be saved or
deleted (`RowFail`). `Spec` leaves it out, `DisturbedSpec` and `FairSpec` have it. Automatic
indexes, whose CREATE INDEX may fail between SQLite and the catalog, are off by default and
not modelled.

### Transaction

`disk`, `work`, `txOpen`, `marks`, `queryOnly` are the SQLite connection: what is
committed, what it sees, whether BEGIN is in effect, its savepoints and the pragma.
`txActive`, `txReset` are the driver's view. A write is an element of a set that is made at
most once, so a table is the set of writes it shows. The history variables `mine`,
`done`, `durable`, `undone`, `refused` record what the application was told.

A MERGE sends one statement per WHEN clause (`Write`), then drops its staging tables and
reports success (`MergeDone`); the statements on the staging tables change nothing else
and appear only as a chance to fail (`WriteFail`). The SQL statements `BEGIN` and
`COMMIT` have no action: `BeginStmtAction` and `CommitStmtAction` do nothing
(`stmt_action.go:806-826`, `963-983`), so only `BeginTx` opens a transaction.

### Connector

`Connectors` are calls of `sql.Open`. `pool[k]` names the inner `sql.DB` and catalog of
connector `k` by the connector that made them; `dbMap`, `catMap` are `nameToDBMap` and
`nameToCatalogMap`, `sqlite[c].view` what `registerInfoSchemaVTab` bound connection `c` to.
`Connect`, `ConnectFail`, `Release`, `Expire`, `CloseConn`, `CloseStart`, `CloseInner` and
`CloseEnd` move SQLite connections between the two pools. `Lose` is a lost SQLite connection.
Exec, Query, Prepare and BeginTx meet it in `MeetLost`: `translateConnDone` marks the `Conn`
dead and answers ErrBadConn. Commit, Rollback and prepared statements, which need a handle
(`TakeHandle`, `DropHandle`), meet it in `MeetLostUnmarked`: they hand the error on and mark
nothing. `failed[o]` counts the requests that met the loss of `Conn` `o` from the first
ErrBadConn on. A table is named after the connector it
was made through, so what a `Conn` sees tells whose state it shares. `Conn`s of one private
in-memory `sql.DB` share the catalog, and each has an SQLite database of its own. What
`database/sql` does with a `Conn` is external.

### Sessions

Sessions of one process over the locks `wasm`, `mu` and SQLite's (`reading`, `writer`,
`flushing`). `at[s]` is the place in the call: `LockWasm`, `Sync`, `Resolve`, then the
statement, which is a query, DML, a scan of INFORMATION_SCHEMA or ALTER TABLE with its
`AddColumn` steps, `DeleteRow`, `ResetStart` / `ResetAdd` / `ResetEnd`, `Readd` and
`SaveRow`. A step begins and ends where the session can wait or be overtaken. `SQLFails`,
`BusyTimeout` and `Cancel` end a call. `torn` remembers tables on which an ALTER failed half way.

### WindowClause, WindowResult, WindowFrame, RowPattern, Windows

`WindowClause` defines the frames a clause asks for, by distances between keys.
`WindowResult` says what the clause promises: one result per row, from the rows of
its frame and nothing else, and a row pattern's matches defined by quantification.
`WindowFrame` is the code: incremental `Step` and `Inverse` for ROWS, the buffered
partition, binary search and the moved inner aggregator for RANGE. `Windows` adds
MATCH_RECOGNIZE, which runs the compiled program of `RowPattern`. The
refinement is `Implements == W!Spec` with `part <- [c |-> over, keys |-> input.keys, vals |->
input.vals]` and `out` mapped to itself: a call of `Value` that delivers a result is a step of
`WindowResult`, every other callback a stutter.

### Calendar, Ranges, Aggregates

The functions are operators; the state only chooses their arguments. In `Calendar` a day
walks through the calendar, compared with fixed origins. In `Ranges` a table of ranges
grows and an interval is chosen. In `Aggregates` rows are stepped into one instance of
every function, under a call with some mix of DISTINCT, IGNORE NULLS, HAVING, ORDER BY
and LIMIT; since SQLite may end the group after any row, `AggDone` is compared with the
definition of the call in every state. `MCFunctions` runs these and `Windows`: a
behaviour evaluates functions of one family.

### Compliance

The parent (`place`, `attempt`, `start`, `current`, `killed`, `report`), the pipe with its
reading goroutine (`pipe`, `hand`, `closed`), and the worker with its `fileRunner`: the
objects its database holds, `setup.stmts`, `setup.temp`, `setup.failed`. `WorkerCrash` may
happen anywhere, `Watchdog` at any time: a slow worker looks like one that hangs.
`RunTimeout` is a statement that `exec` gives up on, after which the connection is
replaced and the setup replayed, perhaps in part. Lines are shorter than the
scanner's limit of 64 MiB: a longer one would end the reading while the worker blocks.
`MCRunners` joins this model and `Script`, which share nothing.

## 3. Runs

| Run | Properties | Bounds and environment |
|---|---|---|
| `catalog_index` | TypeOK, IndexConsistent, FirstRegistered, NamesKeepMeaning | 1 instance, paths `d1.t` and `d2.t`, tables and functions, 3 registrations, all faults |
| `catalog_rows` | RowsKnown | as above, 2 instants, 2 registrations; transactions, failed saves, restarts |
| `clock_sequential` | TypeOK, OneInstant | 2 Conns, 2 SQLite connections, 3 statements, 3 instants; prepared, panics |
| `clock_shared` | FrozenOnlyByActive, NoInstantFromBefore | the same, 2 instants; overlap, prepared, reopened |
| `script_objects` | TypeOK, CleanExit, ReplayExact, TempScoped, StoresAgree, PersistentSurvives | 1 session, 2 scripts of up to 3 statements, tables and views, 2 definitions |
| `runners` | ScriptEnds, ReportsExact, FileEnds | 1 script of up to 2 statements, all kinds and modes, cancellation, panics; 6 files of up to 4 cases, 3 attempts, a pipe of 2 lines |
| `tx_end` | TxClosed, Durable | 4 writes, DML and MERGE; cancellation, interrupts, busy |
| `tx_undo` | TypeOK, Undone, AssertUntouched | 4 writes, all forms; cancellation, busy |
| `connector` | TypeOK, OwnStore, InnerReleased, BadConnRetires | 2 connectors, 2 Conns, 3 SQLite connections, 1 file and private memory; lost connections, failed and late Connects, transactions and prepared statements |
| `sessions` | TypeOK, SpecWithinTable, AlterApplied, InfoComplete, CallsReturn | 3 sessions: two alter different tables (one twice), one reads, writes or scans and may be cancelled |
| `sessions_reset` (violation) | NamesStable | 2 sessions, 2 tables |
| `functions` | Implements, FrameExact, BoundariesCounted, StretchesExact, StepsExact, RangesAsSets, IntervalOrderKept, AggregatesExact | see below |

A property may be a conjunction of named parts, each with its own comment in the module:
`OwnStore` is Isolated, FileShared, MemoryWithin and InfoSchemaBound; `InnerReleased` is InnerAccounted
and MemoryReleased; `TempScoped` is TempHeld and TempGone; `StoresAgree` is SchemaAgrees and
RestartExact; `StretchesExact` is StretchEnclosed and WeeksNumbered; `StepsExact` is
MonthsAgree, BucketHolds and SeriesRegular; `RangesAsSets` is SetRelations, PiecesCover and
SessionsConnected; `IntervalOrderKept` is Justified and DivisionExact; `AggregatesExact` is
AggregateExact and PairExact; `FrameExact` is FrameHeld and BitsHeld; `ReportsExact` is
CasesReported and SetupSeen. `PROJECT.json` lists a mutant for every part.

Why the bounds are enough. Two paths that share a last component are the smallest case
in which a short name is contended, and three registrations let an object be dropped
and return behind its rival; the proofs cover every number. One body suffices in
`Catalog`, because a definition also differs in `temp`. Two instants tell "before" from
"after" for the watermark. Three statements on two connections let one statement overlap two, and
a connection change hands in between. Three statements in a script give create, drop
and create again of one name, and the second script starts from what the first left.
Four writes let two statements, or a MERGE, precede and follow the one that fails.
Two connectors, two `Conn`s and three SQLite connections let one `Conn` be open while the
other is lost or on its way through a closing connector, with a connection idle or stranded
beside them. Three sessions are one for each lock; two
columns in one ALTER let the second fail. Partitions of four rows hold a frame with a row
before and behind it that enter and leave; keys and values include NULL, NaN and infinities.
The days from December 1999 to March 2004 contain two leap days and January 1 on five weekdays. Three ranges make a
chain of which the ends do not touch; intervals stand on both sides of 30 days and one
day. Groups of three rows hold a duplicate, a better and a worse key in every order. Files of
four cases use up three attempts; a pipe of two lines holds a result and the next
start, which is what a late answer looks like.

Deadlock is not checked where the bounds, or the application's silence, end a
behaviour (all but the Catalog runs, where `Sync` can always run again, and `functions`,
where the callbacks must come to the last row).

Fairness. `ScriptEnds`: weak fairness on the steps of a session that is
in a script (`Step`). The goroutine that runs a script does not stop between two
statements, and callers close their `Rows` (`database/sql` closes them when the context
ends or the last row was read). `CallsReturn`: weak fairness on each session's steps
inside a call, SQLite's busy timeout among them; nothing makes the application close
its `Rows` or end its transaction, and the property holds without. `FileEnds`: weak
fairness on the parent, its timer and its reading goroutine, none on the worker. Nothing is
assumed of issuing statements, failing, panicking or cancelling.

### What the switches show

`Environment`, `Modes`, `Kinds`, `Statements` and the names in a configuration select what
may happen. The passing runs leave some of it out, because the code does not have the
property there. TLC finds the behaviour when the switch is added:

| Run | Change | Property that fails | Why |
|---|---|---|---|
| `catalog_rows` | two instances | RowsKnown | a row is stamped before it is written: another process's watermark passes it (catalog.go:1955) |
| `catalog_rows` | `"cancel"` | RowsKnown | `Sync` does not ask `rows.Err()` after its loop and moves the watermark past unread rows (catalog.go:1955) |
| `catalog_rows` | `"rollback"` or `"dropFail"` | RowsKnown | the DROP is undone in SQLite, not in memory, and the row is older than the watermark |
| `clock_sequential` | `"overlap"` | OneInstant | a statement started while another's `Rows` are open replaces the instant (statement_clock.go:46) |
| `clock_sequential` | `"reopen"` | OneInstant | a `Conn` on a used SQLite connection finds no clock (statement_clock.go:78) |
| `clock_shared` | `"panic"` | FrozenOnlyByActive | the clock is handed to `Rows` nobody gets (driver.go:589) |
| `script_objects` | `DisturbedSpec`: a panic or the end of the context | TempScoped | `QueryContext` takes the branch for success (driver.go:569); `Cleanup` uses the context that has ended (driver.go:524) |
| `script_objects` | `DisturbedSpec`: a row that cannot be written, or the end of the context | StoresAgree | SQLite and memory have changed when the row is saved or deleted (catalog.go:1967, 2024) |
| `script_objects` | mode `"ifNotExists"` | StoresAgree | with a column list the spec is replaced, SQLite's table is not (stmt_action.go:101) |
| `script_objects` | `TempNames = {t}` | PersistentSurvives | CREATE TEMP TABLE drops a persistent table of that name (stmt_action.go:85) |
| `script_objects` | two sessions | TempScoped | TEMP tables of two sessions share a namespace (stmt_action.go:85) |
| `script_objects` | kinds table and function | StoresAgree | rows are keyed by name alone (catalog.go:46) |
| `tx_end` | form `"assert"` | TxClosed | the savepoint of ASSERT_ROWS_MODIFIED is released or undone with a context that may have ended, and stays open in the pool (stmt_action.go:464) |
| `tx_undo` | `"nested"` | Undone | a failing read-only BeginTx rolls back the outer transaction (driver.go:678) |
| `tx_undo` | `"interrupt"` | Undone | SQLite ends the transaction, `txActive` stays true (driver.go:712) |
| `tx_undo` | property MergeAtomic | MergeAtomic | the second statement of a MERGE fails and the first stays applied (stmt_action.go:1031) |
| `connector` | property LossMetOnce | LossMetOnce | Commit, Rollback and prepared statements meet the lost connection without setting `dead` (driver.go:692-722, stmt.go:242-354), though the comment at driver.go:341-350 says an operation that observes it does: the `Conn` goes back to the pool and the next request meets the loss again, until Exec, Query, Prepare or BeginTx does |
| `connector` | property ConnsShareState | ConnsShareState | `Conn`s of one in-memory `sql.DB` share the catalog and not SQLite's tables: after CREATE TABLE on one, a query on another resolves the name and finds no table; driver.go:189-191 says they share state, driver_test.go:1471 knows they do not |
| `sessions` | two sessions alter one table | AlterApplied | each builds its spec from the one it read first (stmt_action_alter.go:80) |
| `sessions` | `"ddlTx"` | SpecWithinTable | ROLLBACK takes the column back, the spec stays (driver.go:704) |

`CleanExit` speaks of TEMP tables only: the `Cleanup` of a TEMP view, function or TVF
the script itself dropped fails (stmt_action.go:218, 270, 319). `ReplayExact` leaves out
views, which `Cleanup` notes as added after their DROP (stmt_action.go:209). Some facts
have no property: after CREATE OR REPLACE TABLE the analyzer keeps the old handle
(`Replace` leaves `res` alone, catalog.go:2412); a replaced function keeps its old
body in `c.functions` (catalog.go:2378); when `replaceTableSpec` fails, spec and row are gone,
although the comment at stmt_action_alter.go:80-81 expects the old spec, and a torn ALTER
cannot be retried; `ErrBadConn` makes `database/sql` run a whole script again; session
variables of a pooled `Conn` survive, as there is no `ResetSession`.

### Findings

One run is expected to fail.

`sessions_reset`: `resetCatalog` replaces the analyzer's catalog by an
empty one and fills it under `c.mu`; the analyzer reads it under `wasmAnalyzeMu` only. A
statement analyzed meanwhile does not find tables that nobody touched.

### Cases left out of the function properties

The code computes something else there; the properties say so in their comments:

* DATE_ADD takes every number of quarters for one (date_add.go:38), DATE_SUB has no QUARTER;
  DATE_DIFF ISOWEEK takes a year for 48 weeks (date_diff.go:72); DATE_DIFF DAY and the
  day grids of DATE_BUCKET go through a Duration, which saturates at 106751 days, about 292
  years: `Sub` does so too, and the properties ask nothing beyond (`Reaches`); DATE_TRUNC to ISOYEAR is wrong when January 1 is a Friday or a Saturday
  (date_trunc.go:73); EXTRACT QUARTER has quarters of 91 days (extract.go:66-77); a date
  array by months drifts to the shortest month it met.
* RANGE_CONTAINS is false when both ends are unbounded (range_ops.go:118-121);
  RANGE_SESSIONIZE loses unbounded bounds (range_sessionize.go:213, 225);
  GENERATE_RANGE_ARRAY stops at 65536 pieces (range_ops.go:221), and its model has
  steps of a fixed positive length only: months, parts of a day on DATE ranges, which
  `coerceRangeBound` cuts off (range_ops.go:264-276), and steps that do not lead on are left out; JUSTIFY_INTERVAL leaves mixed
  signs when there are no days in between (justify.go:64).
* `Inverse` of BIT_AND, BIT_OR, BIT_XOR and ARRAY_CONCAT_AGG drops an entry for a NULL row; RANGE
  keys at the largest finite DOUBLE are clamped; INT64 keys, whose bounds wrap
  (range_frame.go:102), do not occur, nor do infinite offsets, and the refusal of NULL, NaN
  and negative ones (range_frame.go:227-239) is left out. `Summer` is exact in the model, as
  it is in the code for INT64, NUMERIC and INTERVAL; finite DOUBLEs below 1e300 are
  added in a compensated float64 sum (summer.go:107-116), which is not always exact although
  summer.go:11-13 says that a shrinking frame never loses precision: the frame 1e40, 1e20, 1
  shrunk to 1 sums to 0.
* A quantifier bound of MATCH_RECOGNIZE is a number; the refusal of NULL and negative ones
  (match_recognize.go:435-445) is left out.
* ORDER BY in an aggregate compares no further key when the first is NULL on both sides
  (aggrt_aggregator.go:161). Sort keys pass through the plain JSON of a marker
  (aggrt_aggregate_option.go:103-135): NaN cannot be written, INT64 keys beyond 2^53 run
  together, DATE and NUMERIC keys come back as something else; `MarkerKeeps` admits NULL and
  the integers up to `MaxExact`. `sort.Slice` is insertion, and so stable, up to twelve rows;
  larger groups with ORDER BY are left out. HAVING with NaN keys depends on the order of the rows.
  AGG of kind COUNT counts NULL, and its kinds SUM and AVG, float64 sums, are not modelled.
* A setup case that hangs the compliance worker hangs its replay too, so the rest of the
  file is given up with the line "worker wedged before any case"; a setup that times out is
  not noted as failed, and the cases that need it report an error of the driver. After
  500 attempts the rest of a file is dropped without a line.

Seen while reading and outside the models: DATETIME_TRUNC and TIME_TRUNC to SECOND clear the
seconds (datetime_trunc.go:16-39, time_trunc.go:15-38), DATETIME_TRUNC to WEEK keeps the time of
day, and the table of wildcard tables is global to the process (wildcard_table.go:42-50).

## 4. Proofs

A theorem holds for all values of the constants that satisfy the ASSUMEs of its module.
These say that marker values (no line, no connection, no date) lie outside the sets they
mark, that bounds are natural numbers and divisors are not 0, that the bounds of RANGE values
are a finite set of integers, that arguments and keys of aggregates and window functions are
integers, NULL or NaN (an infinity is an integer beyond every sum of finite ones; an argument of
an aggregate may also carry a deferred error), that files are not inner connections, that
setup cases come before the cases that use them, and that `Environment`, `Kinds`, `Forms`
contain known switches. TLC evaluates them in every run.

A hypothesis in a theorem (`OneSession => ...`) excludes a case in which the code does not
have the property; the table in section 3 shows the behaviour TLC finds there. The other
theorems hold for every environment.

| Theorem | Property | Hypotheses |
|---|---|---|
| `TypeCorrect`, `IndexConsistency`, `FirstRegistration`, `MeaningKept` | TypeOK, IndexConsistent, FirstRegistered, NamesKeepMeaning | none |
| `NoRowMissed` | RowsKnown | one instance; no rollback, cancelled Sync or failed row deletion |
| `ClockTypeCorrect` | TypeOK | none |
| `FrozenSafe`, `NoOldInstant` | FrozenOnlyByActive, NoInstantFromBefore | no panics |
| `InstantIsOne` | OneInstant | statements of a `Conn` do not overlap; its SQLite connection stays with it |
| `TxTypeCorrect`, `RejectedGone` | TypeOK, AssertUntouched | none |
| `TxCloses` | TxClosed | no ASSERT_ROWS_MODIFIED, no nested BeginTx |
| `CommittedStays` | Durable | no ASSERT_ROWS_MODIFIED |
| `RolledBackGone` | Undone | no nested BeginTx, no interrupts |
| `ConnTypeCorrect`, `OwnStoreKept`, `InnersReleased`, `DeadIsRetired` | TypeOK, OwnStore, InnerReleased, BadConnRetires | none |
| `SessionsTypeCorrect`, `ScansComplete` | TypeOK, InfoComplete | none |
| `ReadersFindColumns` | SpecWithinTable | ALTER outside transactions |
| `AlterLeavesOne` | AlterApplied | the same, and one session alters a table |
| `ScriptTypeCorrect` | TypeOK | none (panics and cancellation included) |
| `PersistentKept` | PersistentSurvives | one session; TEMP names differ from the others (panics and cancellation included) |
| `StoresKeptEqual` | StoresAgree | the same, one map in the catalog, no IF NOT EXISTS with columns; undisturbed |
| `TempsAreScoped`, `CleanupSucceeds` | TempScoped, CleanExit | one session, names apart, no IF NOT EXISTS with columns; undisturbed |
| `ReplayIsExact` | ReplayExact | one session, names apart, no TEMP functions; undisturbed |
| `ReportIsExact` | ReportsExact | none |
| `IntervalsKeepPlace` | IntervalOrderKept | none |
| `BoundariesAreCounted`, `StretchesAreExact`, `StepsAreExact` | BoundariesCounted, StretchesExact, StepsExact | none |
| `RangesAreSets` | RangesAsSets | none |
| `AggregatesAreExact` | AggregatesExact | none |
| `FramesAreExact` | FrameExact | ROWS and RANGE clauses (`FrameSpec`); finite keys strictly between -`MaxFloat` and `MaxFloat` |

**CatalogProofs.** `TypeInv` adds `TxOwner` to the types: a write inside a transaction updates
`tx.rows`, so the transaction has to be open and the instance's own. `IndexInv` adds for each
slice that positions are distinct and at most `regs` (`SliceOK`), that map and slice agree
(`MapOK`) and that every name leads to the first entry that has it (`ResOK`); lemmas
`AppendOK`, `RefreshOK`, `WithoutOK`, `RebuiltOK` show that each operator on an index keeps
this. `KnownInv` adds where a row can be that is not loaded: it is stamped
not before the watermark and, while a Sync is under way, is still on its list or will be read
by the next; the stamp of a pending save is not before the watermark either.

**StatementClockProofs.** `ClockInv`: SQLite connections are held by one `Conn`, active
statements sit on an open `Conn`, a frozen clock's token is an active statement that owns it,
and the clock an active statement reads is unset or not older than it. `InstantInv` says
that the clock of a `Conn` in use holds the instant of its one active statement; panics
are allowed, since the next `Start` overwrites what they left.

**TransactionProofs.** Without assertions there is never a savepoint (`NoMarks`); then
SQLite has a transaction only while `txActive` (`CloseInv`). `DurableInv` adds that the
working set contains the committed one and that what a statement has not written yet is
still in `left`. `UndoInv` bounds what savepoints and the working set can hold by the
writes known to the current transaction. `AssertInv` says that no set a savepoint or a
ROLLBACK can return to has a refused write, and that a statement's own savepoint lies below
everything it wrote.

**ConnectorProofs.** One invariant, `ConnInv`: a connector uses its file's pair
of inner `sql.DB` and catalog or its own, and the catalog stays registered until the connector
closes (`RegistryOK`); a SQLite connection has one holder or is stranded, and a closed inner
`sql.DB` keeps none idle (`PoolOK`); a table is where its connector keeps its own, and a file's
catalog and database have the same tables, an in-memory catalog at least those of each of its
databases (`StoreOK`); a `Conn` that answered ErrBadConn is dead, and the request that holds it
is the only one counted since.

**SessionsProofs.** `TypeInv` ties a session's place to the locks it holds. `InfoInv`: every
table that no statement alters has its row, and its spec is in the map or still to be loaded
by the session inside `resetCatalog`. `WithinInv`: every spec, whether in the map, the analyzer, a row or the
hands of a session, is contained in SQLite's columns. `AppliedInv` follows an ALTER: at each place it says which
of the four copies already has the new columns.

**ScriptProofs.** `SurviveInv`: objects stand in the map of their own sort, rows are of
persistent objects, and what a script has removed of the objects before it, it has dropped by
name. `AgreeInv`: while a statement is under way, the three stores agree except on the
name it works on, and there as its phase says; SQLite also lacks the names in `wiped`. `TempInv`: every TEMP object that is there
has its action on the list, so that `Cleanup` finds it. `ReplayInv`: the objects at the start,
less those noted as deleted, with those noted as added, are the persistent objects now.

**ComplianceProofs.** `CompInv` has three parts. `SetupInv`: every earlier setup case is there, or
the worker knows that it is broken, or a replay lost it. `ParentInv`: the report is a prefix
of the file's cases and `current` the next. `StreamInv`: the lines of an attempt are numbered,
2c - 1 for the start of case c and 2c for its result, and what the worker has written, less what
the parent has read, is the content of pipe and hand, in order.

**FunctionsProofs.** Intervals: `QuoRem` describes Go's division, which truncates towards zero;
`DaysJustified`, `HoursJustified`, `IntervalJustified` and `DivisionIs` follow, nonlinear in the
length of a day. Dates: `CivilFound` shows that the era arithmetic finds the month and
day of every date. From there on a date is a day between the first days of month M and
M + 1 (`InMonth`), counted from March of year 0; `DateIs` gives the date of any year, month
and day in these terms. `Stretch` numbers the stretches of a part; `DiffIs` shows that
DATE_DIFF subtracts these numbers, `StretchNext` that a number grows by one exactly where a
stretch opens, `NoneOpens` that none opens between days with one number. Week numbers
count the days of a span that fall on one weekday (`WeekdaysCounted`, by a bijection).

What a loop computes for every input is proved by induction over the number of its rounds. The
induction is one lemma, `NatSet` (a set that has 0 and with each number the next holds them
all, from the least element outside it), applied to the set of the rounds after which the
claim holds; a fold over a sequence is turned into the list of its accumulators first
(`FoldsExist`, `FoldsLoop`). Steps: date arithmetic by months lands on the first
days of consecutive months, and the elements of a date array are at equal steps.
Ranges: containment and overlap compare bounds of a finite set of points; the
pieces of an array are cuts at multiples of the step; sorting permutes, and rows are of one
session exactly when a chain of overlapping (or meeting) ranges joins them.
Aggregates: `AggInv` says that the wrapper has processed each row in order (`Chain`), or, with
HAVING, has kept them all. `ExactOne` and `ExactPair` say what the functions hold after the
rows of a set, and `ProcessNext` that IGNORE NULLS and DISTINCT add a row to that set or pass
it over; `Passing` is the induction. `AtBestIs` shows that replaying at the best key picks the
rows HAVING asks for. `BeforeTrans` shows that the order is transitive, with NULL keys and
mixed directions; then each `Slide` keeps the sorted rows sorted (`ArrangedNext`).
Windows: `WindowInv` says that the buffered rows are those of the sorted partition, that the
aggregators hold the rows of the frame of the last output row (`Holds`), in the state of a fresh
instance but for `bits`, and that a ROWS frame only moves forward. `SearchFinds` shows by
induction over the width of the interval that bisection finds the first index at which a
monotone test holds. `Place` puts NULL, NaN, infinities and numbers in one order of integers, in
the direction of the clause: `ComparePlaces` shows that `cmp` and the clause compare places,
`BoundPlace` that a boundary lies at its distance, clamped to the finite numbers, and
`BoundDistance` that the clamp decides nothing for a key inside them. A finite key at the very
edge is excluded because it is its own clamped boundary. Together (`RangeFrameExact`,
`RowsFrameExact`) the interval the code walks is the frame. `FreshTail` compares an instance with
one that has not seen its first row, so that `AlikeInverse` can take that row out again; the sum
is a count of NaN and of each infinity apart from the finite total, so removing a value restores
what was there.

Only model-checked:

* liveness (`ScriptEnds`, `CallsReturn`, `FileEnds`), which needs fairness and ENABLED;
* the refinement `Implements`: results and row patterns are defined by RECURSIVE operators,
  which the prover's SMT backend does not accept. What is proved of it is `FrameExact`: for
  ROWS and RANGE clauses results are computed from the right rows, in the right state;
* `NamesStable`, which does not hold.

## 5. What is not modelled, and why

The map covers about a tenth of the implementation's lines: those that keep state or decide
something. The bulk of the rest is of four kinds.

* Translation of text to text and of trees to text (formatter, query rewrites, casts,
  parsers and printers of dates, protocol buffers, JSON): one large case distinction per
  input form, without control to explore. The compliance and unit tests compare results.
* Functions that hand one value to a library (strings, hashes, regular expressions,
  geography, network, statistics, sketches), and the tables that register them.
* The emulated window functions of `window/funcs.go` and `option.go`, which the formatter
  no longer reaches for the functions that have native ones (formatter.go:1148-1200).
* I/O and tools: EXPORT DATA, zone files, JavaScript, the other commands of specctl, the
  playground, generated code.

Inside the modelled components:

* Script variables: DECLARE and SET are evaluated while the script is analyzed and then
  replaced in the text.
* Prepared statements: only their clock.
* Automatic indexes (off by default), CLONE limits, TRUNCATE as a form of its own (it is
  a DML statement), ALTER TABLE actions other than ADD COLUMN, which change only options.
* Lookup names that skip a level of a path of three components, and paths whose
  components join to one storage name (`a_b.c`, `a.b_c`).
* `hasTableSpec` followed by `DeleteTableSpec` is one step; the unlocked read of
  `tableMap` in `DropStmtAction` is an atomic read.
* Failure while a handle is built, or in the middle of `resetCatalog`.
* Setup cases of the compliance suite that create no object.

## 6. Plan

1. Proofs: the refinement `Implements`, with the recursive operators of `WindowResult` and
   `RowPattern` written as recursive functions.
2. Prepared statements: the DROP at prepare time, specs registered at each execution.
3. Times of day: DATETIME, TIME and TIMESTAMP functions and zones.

## 7. Running

    tlc -workers 2 -config CatalogIndex.cfg MCCatalog
    tlapm CatalogProofs.tla

| Configuration | Module |
|---|---|
| `CatalogIndex`, `CatalogRows` | `MCCatalog` |
| `ClockSequential`, `ClockShared` | `MCStatementClock` |
| `ScriptObjects` | `MCScript` |
| `Runners` | `MCRunners` |
| `TxEnd`, `TxUndo` | `MCTransaction` |
| `Connector` | `MCConnector` |
| `Sessions`, `SessionsReset` | `MCSessions` |
| `Functions` | `MCFunctions` |

`CatalogIndex` and `Functions` take two to three minutes, the others at most one.
