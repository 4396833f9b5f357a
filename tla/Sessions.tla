------------------------------ MODULE Sessions ------------------------------
(***************************************************************************)
(* Sessions of one process that share a catalog and a database file, with  *)
(* the locks their statements wait for:                                    *)
(*   wasm - wasmAnalyzeMu (internal/analyzer.go),                          *)
(*   mu   - Catalog.mu (internal/catalog.go),                              *)
(*   the SHARED, RESERVED and EXCLUSIVE locks of SQLite's rollback journal.*)
(* The statements are queries, DML, queries of INFORMATION_SCHEMA          *)
(* (internal/info_schema_vtab.go) and ALTER TABLE ... ADD COLUMN           *)
(* (internal/stmt_action_alter.go), which changes the table, the catalog   *)
(* in memory and the row of googlesqlite_catalog one after the other.      *)
(*                                                                         *)
(* A step begins and ends where its session can wait or be overtaken: at a *)
(* lock, at an SQL statement, and at each table that resetCatalog re-adds, *)
(* because the analyzer reads the catalog without holding c.mu.            *)
(***************************************************************************)
EXTENDS Naturals, Sequences

CONSTANTS
    Sessions,
    Tables,
    Columns,
    Statements,  \* Statements[s]: what session s may run
    Cancellable, \* sessions whose calls the application may cancel
    Environment, \* "ddlTx": ALTER TABLE may run inside a Tx
    None,
    MaxStmts     \* MaxStmts[s]: how many statements session s runs

Statement == [kind  : {"select", "dml", "info", "alter"},
              table : Tables,
              adds  : Seq(Columns),   \* its ADD COLUMN actions
              skip  : BOOLEAN]        \* IF NOT EXISTS

ASSUME ParameterAssumption ==
    /\ Cancellable \subseteq Sessions
    /\ Environment \subseteq {"ddlTx"}
    /\ \A s \in Sessions : Statements[s] \subseteq Statement
    /\ None \notin Sessions /\ \A C \in SUBSET Columns : None # C
    /\ MaxStmts \in [Sessions -> Nat]

VARIABLES
    wasm,    \* the session that holds wasmAnalyzeMu
    mu,      \* the session that holds c.mu
    reading, \* sessions with a SHARED lock
    writer,  \* the session with the RESERVED lock
    flushing, \* it waits to write the database file: no new readers
    disk,    \* the committed database
    work,    \* the database as the writer sees it
    map,     \* c.tableMap: map[t] is the columns of t's spec
    res,     \* the same in the analyzer's SimpleCatalog
    tx,      \* sessions inside a Tx
    at,      \* at[s]: where session s is
    stmt,    \* stmt[s]: its statement
    seen,    \* seen[s]: the columns its statement was resolved with
    left,    \* left[s]: ADD COLUMN actions to do
    copy,    \* copy[s]: the columns of the spec ALTER TABLE builds
    changed, \* changed[s]: it has added a column
    todo,    \* todo[s]: specs resetCatalog has still to re-add
    count,   \* count[s]: statements begun
    torn,    \* tables whose ALTER TABLE failed after it had changed something
    missed,  \* tables a statement did not find
    hidden   \* tables a scan of INFORMATION_SCHEMA did not list

lockVars == <<wasm, mu>>
sqliteVars == <<reading, writer, flushing, disk, work>>
catalogVars == <<map, res>>
alterVars == <<left, copy, changed, todo>>
callVars == <<stmt, seen, count>>
ghostVars == <<torn, missed, hidden>>
vars == <<lockVars, sqliteVars, catalogVars, tx, at, callVars, alterVars, ghostVars>>

Specs == {None} \cup SUBSET Columns
NoSpecs == [t \in Tables |-> None]

\* cols: the columns of the SQLite tables; row: the rows of
\* googlesqlite_catalog; recent: those stamped after the last Sync.
Database == [cols   : [Tables -> SUBSET Columns],
             row    : [Tables -> Specs],
             recent : SUBSET Tables]

\* Where a session waits for a mutex, and where it runs SQL.
AtMutex == {"wasm", "mu", "resolve", "scan", "alter", "drop", "readd"}
AtSQL == {"sync", "run", "add", "unsave", "save", "commit"}

TypeOK ==
    /\ wasm \in Sessions \cup {None} /\ mu \in Sessions \cup {None}
    /\ reading \subseteq Sessions
    /\ writer \in Sessions \cup {None}
    /\ flushing \in BOOLEAN /\ (flushing => writer # None)
    /\ disk \in Database /\ work \in Database
    /\ map \in [Tables -> Specs] /\ res \in [Tables -> Specs]
    /\ tx \subseteq Sessions
    /\ at \in [Sessions -> {"idle", "rows", "reset"} \cup AtMutex \cup AtSQL]
    /\ stmt \in [Sessions -> {None} \cup Statement]
    /\ \A s \in Sessions : stmt[s] \in {None} \cup Statements[s]
    /\ seen \in [Sessions -> Specs]
    /\ left \in [Sessions -> Seq(Columns)]
    /\ copy \in [Sessions -> SUBSET Columns]
    /\ changed \in [Sessions -> BOOLEAN]
    /\ todo \in [Sessions -> [Tables -> Specs]]
    /\ count \in [Sessions -> Nat] /\ \A s \in Sessions : count[s] <= MaxStmts[s]
    /\ torn \subseteq Tables /\ missed \subseteq Tables /\ hidden \subseteq Tables

\* Every table has been created, without the columns that ALTER TABLE adds,
\* and loaded.
Init ==
    /\ wasm = None /\ mu = None
    /\ reading = {} /\ writer = None /\ flushing = FALSE
    /\ disk = [cols |-> [t \in Tables |-> {}], row |-> [t \in Tables |-> {}], recent |-> {}]
    /\ work = disk
    /\ map = [t \in Tables |-> {}] /\ res = map
    /\ tx = {}
    /\ at = [s \in Sessions |-> "idle"]
    /\ stmt = [s \in Sessions |-> None]
    /\ seen = [s \in Sessions |-> None]
    /\ left = [s \in Sessions |-> <<>>]
    /\ copy = [s \in Sessions |-> {}]
    /\ changed = [s \in Sessions |-> FALSE]
    /\ todo = [s \in Sessions |-> NoSpecs]
    /\ count = [s \in Sessions |-> 0]
    /\ torn = {} /\ missed = {} /\ hidden = {}

-----------------------------------------------------------------------------
(* SQLite's locks.                                                         *)

View(s) == IF writer = s THEN work ELSE disk

CanRead(s) == s \in reading \/ writer = s \/ ~flushing
CanReserve(s) == CanRead(s) /\ writer \in {None, s}
CanFlush(s) == writer = s /\ reading \subseteq {s}

\* A SHARED lock is kept to the end of the statement, or of the Tx.
Reading(s) == reading' = IF s \in tx THEN reading \cup {s} ELSE reading

\* An SQL statement of session s that changes the database to new, after
\* which Then happens.  Outside a Tx it commits by itself: it reserves the
\* file, keeps new readers out and waits for those that are there.
Write(s, new, Then) ==
    \/ /\ s \in tx
       /\ CanReserve(s)
       /\ writer' = s
       /\ work' = new
       /\ Reading(s)
       /\ UNCHANGED <<flushing, disk>>
       /\ Then
    \/ /\ s \notin tx
       /\ writer # s /\ CanReserve(s)
       /\ writer' = s
       /\ work' = new
       /\ flushing' = TRUE
       /\ UNCHANGED <<reading, disk, lockVars, catalogVars, at, alterVars, torn>>
    \/ /\ s \notin tx
       /\ CanFlush(s)
       /\ disk' = work
       /\ writer' = None
       /\ flushing' = FALSE
       /\ UNCHANGED <<reading, work>>
       /\ Then

\* Whether the SQL statement session s is at has to wait.
Blocked(s) ==
    \/ at[s] = "sync" /\ ~CanRead(s)
    \/ at[s] = "run" /\ stmt[s].kind \in {"select", "info"} /\ ~CanRead(s)
    \/ /\ at[s] \in {"add", "unsave", "save"} \/ (at[s] = "run" /\ stmt[s].kind = "dml")
       /\ ~(IF s \notin tx /\ writer = s THEN CanFlush(s) ELSE CanReserve(s))
    \/ at[s] = "commit" /\ ~CanFlush(s)

-----------------------------------------------------------------------------
(* Transactions.                                                           *)

MayRun(st, inTx) == inTx /\ st.kind = "alter" => "ddlTx" \in Environment

BeginTx(s) ==
    /\ at[s] = "idle" /\ s \notin tx
    /\ count[s] < MaxStmts[s] /\ \E st \in Statements[s] : MayRun(st, TRUE)
    /\ tx' = tx \cup {s}
    /\ UNCHANGED <<lockVars, sqliteVars, catalogVars, at, callVars, alterVars, ghostVars>>

\* Mutant: readers stay locked out.
EndTxFlushing(s, db) ==
    /\ tx' = tx \ {s}
    /\ reading' = reading \ {s}
    /\ writer' = IF writer = s THEN None ELSE writer
    /\ disk' = db
    /\ UNCHANGED <<work, flushing>>
    /\ at' = [at EXCEPT ![s] = "idle"]

\* The Tx is over and the database is db.
EndTx(s, db) ==
    /\ tx' = tx \ {s}
    /\ reading' = reading \ {s}
    /\ writer' = IF writer = s THEN None ELSE writer
    /\ flushing' = (flushing /\ writer # s)
    /\ disk' = db
    /\ UNCHANGED work
    /\ at' = [at EXCEPT ![s] = "idle"]

Rollback(s) ==
    /\ at[s] = "idle" /\ s \in tx
    /\ EndTx(s, disk)
    /\ UNCHANGED <<lockVars, catalogVars, callVars, alterVars, ghostVars>>

\* COMMIT of a Tx that wrote waits for the readers.
CommitStart(s) ==
    /\ at[s] = "idle" /\ s \in tx
    /\ IF writer = s
       THEN /\ at' = [at EXCEPT ![s] = "commit"]
            /\ flushing' = TRUE
            /\ UNCHANGED <<tx, reading, writer, disk, work>>
       ELSE EndTx(s, disk)
    /\ UNCHANGED <<lockVars, catalogVars, callVars, alterVars, ghostVars>>

Commit(s) ==
    /\ at[s] = "commit"
    /\ CanFlush(s)
    /\ EndTx(s, work)
    /\ UNCHANGED <<lockVars, catalogVars, callVars, alterVars, ghostVars>>

-----------------------------------------------------------------------------
(* A statement up to its execution.                                        *)

Goto(s, place) == at' = [at EXCEPT ![s] = place]

Start(s, st) ==
    /\ at[s] = "idle"
    /\ count[s] < MaxStmts[s]
    /\ MayRun(st, s \in tx)
    /\ count' = [count EXCEPT ![s] = @ + 1]
    /\ stmt' = [stmt EXCEPT ![s] = st]
    /\ seen' = [seen EXCEPT ![s] = None]
    /\ changed' = [changed EXCEPT ![s] = FALSE]
    /\ Goto(s, "wasm")
    /\ UNCHANGED <<lockVars, sqliteVars, catalogVars, tx, left, copy, todo, ghostVars>>

\* Analyzer.Analyze takes wasmAnalyzeMu, ...
LockWasm(s) ==
    /\ at[s] = "wasm" /\ wasm = None
    /\ wasm' = s
    /\ Goto(s, "mu")
    /\ UNCHANGED <<mu, sqliteVars, catalogVars, tx, callVars, alterVars, ghostVars>>

\* ... Catalog.Sync takes c.mu ...
LockMu(s) ==
    /\ at[s] = "mu" /\ mu = None
    /\ mu' = s
    /\ Goto(s, "sync")
    /\ UNCHANGED <<wasm, sqliteVars, catalogVars, tx, callVars, alterVars, ghostVars>>

\* The specs after addTableSpec of the rows R: a table that is in the map
\* keeps its place in the analyzer's catalog.
Loaded(R, row) == [t \in Tables |-> IF t \in R THEN row[t] ELSE map[t]]
Registered(R, row) ==
    [t \in Tables |-> IF t \in R /\ map[t] = None THEN row[t] ELSE res[t]]

\* ... and loads the recent rows; both locks are released.
Sync(s) ==
    /\ at[s] = "sync"
    /\ CanRead(s)
    /\ Reading(s)
    /\ map' = Loaded(View(s).recent, View(s).row)
    /\ res' = Registered(View(s).recent, View(s).row)
    /\ disk' = [disk EXCEPT !.recent = {}]
    /\ work' = [work EXCEPT !.recent = {}]
    /\ mu' = None /\ wasm' = None
    /\ Goto(s, "resolve")
    /\ UNCHANGED <<writer, flushing, tx, callVars, alterVars, ghostVars>>

\* What the analyzer finds: INFORMATION_SCHEMA is there when some table is.
Found(s) ==
    IF stmt[s].kind = "info" THEN \E t \in Tables : res[t] # None ELSE res[stmt[s].table] # None

\* analyzeStatementLocked.  It does not hold c.mu.
Resolve(s) ==
    /\ at[s] = "resolve" /\ wasm = None
    /\ IF Found(s)
       THEN /\ Goto(s, IF stmt[s].kind = "alter" THEN "alter" ELSE "run")
            /\ seen' = [seen EXCEPT ![s] = IF stmt[s].kind = "info" THEN None ELSE res[stmt[s].table]]
            /\ UNCHANGED missed
       ELSE /\ Goto(s, "idle")
            /\ missed' = IF stmt[s].kind = "info" THEN missed ELSE missed \cup {stmt[s].table}
            /\ UNCHANGED seen
    /\ UNCHANGED <<lockVars, sqliteVars, catalogVars, tx, stmt, count, alterVars, torn, hidden>>

-----------------------------------------------------------------------------
(* Queries and DML.                                                        *)

\* A query opens Rows; the application closes them.
Select(s) ==
    /\ at[s] = "run" /\ stmt[s].kind = "select"
    /\ CanRead(s)
    /\ reading' = reading \cup {s}
    /\ Goto(s, "rows")
    /\ UNCHANGED <<lockVars, writer, flushing, disk, work, catalogVars, tx, callVars, alterVars, ghostVars>>

\* A query of INFORMATION_SCHEMA has the SHARED lock when SQLite calls
\* infoSchemaCursor.Filter, which takes c.mu.
OpenScan(s) ==
    /\ at[s] = "run" /\ stmt[s].kind = "info"
    /\ CanRead(s)
    /\ reading' = reading \cup {s}
    /\ Goto(s, "scan")
    /\ UNCHANGED <<lockVars, writer, flushing, disk, work, catalogVars, tx, callVars, alterVars, ghostVars>>

\* Mutant: Filter reads the catalog without its lock.
FilterUnlocked(s) ==
    /\ at[s] = "scan"
    /\ hidden' = hidden \cup {t \in Tables : map[t] = None}
    /\ Goto(s, "rows")
    /\ UNCHANGED <<lockVars, sqliteVars, catalogVars, tx, callVars, alterVars, torn, missed>>

Filter(s) ==
    /\ at[s] = "scan" /\ mu = None
    /\ hidden' = hidden \cup {t \in Tables : map[t] = None}
    /\ Goto(s, "rows")
    /\ UNCHANGED <<lockVars, sqliteVars, catalogVars, tx, callVars, alterVars, torn, missed>>

CloseRows(s) ==
    /\ at[s] = "rows"
    /\ reading' = IF s \in tx THEN reading ELSE reading \ {s}
    /\ Goto(s, "idle")
    /\ UNCHANGED <<lockVars, writer, flushing, disk, work, catalogVars, tx, callVars, alterVars, ghostVars>>

\* DML changes rows of the table, which the model leaves out.
Dml(s) ==
    /\ at[s] = "run" /\ stmt[s].kind = "dml"
    /\ Write(s, View(s), Goto(s, "idle") /\ UNCHANGED <<lockVars, catalogVars, alterVars, torn>>)
    /\ UNCHANGED <<tx, callVars, missed, hidden>>

-----------------------------------------------------------------------------
(* ALTER TABLE ... ADD COLUMN.                                             *)

Tbl(s) == stmt[s].table

\* AlterTableStmtAction.exec copies the spec, under c.mu.
AlterRead(s) ==
    /\ at[s] = "alter" /\ mu = None
    /\ IF map[Tbl(s)] = None
       THEN Goto(s, "idle") /\ UNCHANGED <<left, copy>>
       ELSE /\ Goto(s, "add")
            /\ left' = [left EXCEPT ![s] = stmt[s].adds]
            /\ copy' = [copy EXCEPT ![s] = map[Tbl(s)]]
    /\ UNCHANGED <<lockVars, sqliteVars, catalogVars, tx, callVars, changed, todo, ghostVars>>

\* The statement reports an error.
Torn(s) == torn' = IF stmt[s].kind = "alter" /\ changed[s] THEN torn \cup {Tbl(s)} ELSE torn

\* The next column is in the spec already: skip it, or fail.
AddPresent(s) ==
    /\ at[s] = "add" /\ left[s] # <<>> /\ Head(left[s]) \in copy[s]
    /\ IF stmt[s].skip
       THEN left' = [left EXCEPT ![s] = Tail(@)] /\ UNCHANGED <<at, torn>>
       ELSE Goto(s, "idle") /\ Torn(s) /\ UNCHANGED left
    /\ UNCHANGED <<lockVars, sqliteVars, catalogVars, tx, callVars, copy, changed, todo, missed, hidden>>

\* Mutant: the spec is not given the column.
AddColumnOnly(s) ==
    /\ left' = [left EXCEPT ![s] = Tail(@)]
    /\ changed' = [changed EXCEPT ![s] = TRUE]
    /\ UNCHANGED <<copy, lockVars, catalogVars, at, todo, torn>>

AddedColumn(s) ==
    /\ left' = [left EXCEPT ![s] = Tail(@)]
    /\ copy' = [copy EXCEPT ![s] = @ \cup {Head(left[s])}]
    /\ changed' = [changed EXCEPT ![s] = TRUE]
    /\ UNCHANGED <<lockVars, catalogVars, at, todo, torn>>

\* ALTER TABLE ... ADD COLUMN in SQLite.
AddColumn(s) ==
    /\ at[s] = "add" /\ left[s] # <<>> /\ Head(left[s]) \notin copy[s]
    /\ (writer = s /\ s \notin tx) \/ Head(left[s]) \notin View(s).cols[Tbl(s)]
    /\ Write(s, [View(s) EXCEPT !.cols[Tbl(s)] = @ \cup {Head(left[s])}], AddedColumn(s))
    /\ UNCHANGED <<tx, callVars, missed, hidden>>

\* SQLite has the column although the spec has not.
AddDuplicate(s) ==
    /\ at[s] = "add" /\ left[s] # <<>> /\ Head(left[s]) \notin copy[s]
    /\ writer # s \/ s \in tx
    /\ CanRead(s) /\ Head(left[s]) \in View(s).cols[Tbl(s)]
    /\ Goto(s, "idle") /\ Torn(s)
    /\ Reading(s)
    /\ UNCHANGED <<lockVars, writer, flushing, disk, work, catalogVars, tx, callVars, alterVars, missed, hidden>>

AddedAll(s) ==
    /\ at[s] = "add" /\ left[s] = <<>>
    /\ Goto(s, IF changed[s] THEN "drop" ELSE "idle")
    /\ UNCHANGED <<lockVars, sqliteVars, catalogVars, tx, callVars, alterVars, ghostVars>>

\* DeleteTableSpec takes c.mu; resetCatalog starts from an empty catalog.
ResetStart(s) ==
    /\ at[s] = "drop" /\ mu = None
    /\ IF map[Tbl(s)] = None
       THEN /\ Goto(s, "idle") /\ Torn(s)
            /\ UNCHANGED <<mu, catalogVars, todo>>
       ELSE /\ mu' = s
            /\ Goto(s, "reset")
            /\ todo' = [todo EXCEPT ![s] = [map EXCEPT ![Tbl(s)] = None]]
            /\ map' = NoSpecs
            /\ res' = map'
            /\ UNCHANGED torn
    /\ UNCHANGED <<wasm, sqliteVars, tx, callVars, left, copy, changed, missed, hidden>>

\* It adds the other tables again, one by one.
ResetAdd(s, t) ==
    /\ at[s] = "reset" /\ todo[s][t] # None
    /\ map' = [map EXCEPT ![t] = todo[s][t]]
    /\ res' = [res EXCEPT ![t] = todo[s][t]]
    /\ todo' = [todo EXCEPT ![s][t] = None]
    /\ UNCHANGED <<lockVars, sqliteVars, tx, at, callVars, left, copy, changed, ghostVars>>

ResetEnd(s) ==
    /\ at[s] = "reset" /\ todo[s] = NoSpecs
    /\ Goto(s, "unsave")
    /\ UNCHANGED <<lockVars, sqliteVars, catalogVars, tx, callVars, alterVars, ghostVars>>

\* ... deletes the row and unlocks.
DeleteRow(s) ==
    /\ at[s] = "unsave"
    /\ Write(s, [View(s) EXCEPT !.row[Tbl(s)] = None, !.recent = @ \ {Tbl(s)}],
             Goto(s, "readd") /\ mu' = None /\ UNCHANGED <<wasm, catalogVars, alterVars, torn>>)
    /\ UNCHANGED <<tx, callVars, missed, hidden>>

\* AddNewTableSpec takes c.mu and registers the new spec ...
Readd(s) ==
    /\ at[s] = "readd" /\ mu = None
    /\ mu' = s
    /\ map' = [map EXCEPT ![Tbl(s)] = copy[s]]
    /\ res' = [res EXCEPT ![Tbl(s)] = IF map[Tbl(s)] = None THEN copy[s] ELSE @]
    /\ Goto(s, "save")
    /\ UNCHANGED <<wasm, sqliteVars, tx, callVars, alterVars, ghostVars>>

\* ... saves the row and unlocks.
SaveRow(s) ==
    /\ at[s] = "save"
    /\ Write(s, [View(s) EXCEPT !.row[Tbl(s)] = copy[s], !.recent = @ \cup {Tbl(s)}],
             Goto(s, "idle") /\ mu' = None /\ UNCHANGED <<wasm, catalogVars, alterVars, torn>>)
    /\ UNCHANGED <<tx, callVars, missed, hidden>>

-----------------------------------------------------------------------------
(* Failures.                                                               *)

\* Mutant: an error in Sync leaves wasmAnalyzeMu locked.
UnlockMuOnly(s) ==
    /\ mu' = IF mu = s THEN None ELSE mu
    /\ UNCHANGED wasm

\* The deferred unlocks.
UnlockAll(s) ==
    /\ mu' = IF mu = s THEN None ELSE mu
    /\ wasm' = IF wasm = s THEN None ELSE wasm

\* Mutant: ALTER TABLE goes on when SQLite did not add the column.
SQLFailsIgnored(s) ==
    /\ at[s] \in AtSQL
    /\ IF at[s] = "add" /\ left[s] # <<>>
       THEN /\ AddedColumn(s)
            /\ writer' = IF writer = s THEN None ELSE writer
            /\ flushing' = (flushing /\ writer # s)
            /\ UNCHANGED <<tx, reading, disk, work>>
       ELSE /\ UnlockAll(s) /\ EndTx(s, disk) /\ Torn(s)
            /\ UNCHANGED <<catalogVars, alterVars>>
    /\ UNCHANGED <<callVars, missed, hidden>>

\* The SQL statement fails: SQLite undoes it, outside a Tx with its locks,
\* and the call returns the error.  A failed COMMIT is followed by ROLLBACK.
SQLFails(s) ==
    /\ at[s] \in AtSQL
    /\ UnlockAll(s)
    /\ IF s \notin tx \/ at[s] = "commit"
       THEN EndTx(s, disk)
       ELSE Goto(s, "idle") /\ UNCHANGED <<tx, reading, writer, flushing, disk, work>>
    /\ Torn(s)
    /\ UNCHANGED <<catalogVars, callVars, alterVars, missed, hidden>>

\* SQLite gives up waiting for a lock (its busy timeout).
BusyTimeout(s) == Blocked(s) /\ SQLFails(s)

\* The context of the call ends.
Cancel(s) == s \in Cancellable /\ SQLFails(s)

-----------------------------------------------------------------------------

\* What session s does inside a call.
Step(s) ==
    \/ LockWasm(s) \/ LockMu(s) \/ Sync(s) \/ Resolve(s)
    \/ Select(s) \/ OpenScan(s) \/ Filter(s) \/ Dml(s)
    \/ AlterRead(s) \/ AddPresent(s) \/ AddColumn(s) \/ AddDuplicate(s) \/ AddedAll(s)
    \/ ResetStart(s) \/ ResetEnd(s) \/ DeleteRow(s) \/ Readd(s) \/ SaveRow(s)
    \/ \E t \in Tables : ResetAdd(s, t)
    \/ Commit(s) \/ BusyTimeout(s)

\* What the application does.
Application(s) ==
    \/ \E st \in Statements[s] : Start(s, st)
    \/ BeginTx(s) \/ CommitStart(s) \/ Rollback(s)
    \/ CloseRows(s)
    \/ Cancel(s)

Next == \E s \in Sessions : Step(s) \/ Application(s)

Spec == Init /\ [][Next]_vars

\* A session inside a call is scheduled.  Nothing makes the application close
\* its Rows or end its Tx.
FairSpec == Spec /\ \A s \in Sessions : WF_vars(Step(s))

-----------------------------------------------------------------------------

Altered == {st.table : st \in {x \in UNION {Statements[s] : s \in Sessions} : x.kind = "alter"}}

\* No spec, in memory or in a row, and no statement about to run, has a
\* column that the SQLite table lacks: the order of ALTER TABLE (table first,
\* spec last) lets other sessions resolve against either version, and a
\* failure half way leaves a table that can still be read
\* (stmt_action_alter.go:86-108).
SpecWithinTable ==
    \A t \in Tables :
        /\ map[t] # None => map[t] \subseteq disk.cols[t]
        /\ res[t] # None => res[t] \subseteq disk.cols[t]
        /\ disk.row[t] # None => disk.row[t] \subseteq disk.cols[t]
        /\ \A s \in Sessions : at[s] = "run" /\ seen[s] # None /\ Tbl(s) = t
                                   => seen[s] \subseteq disk.cols[t]

\* When no ALTER TABLE is under way, a table none has failed on has the same
\* columns in SQLite, in the catalog, for the analyzer and in its row,
\* whatever other sessions loaded or rebuilt in between
\* (stmt_action_alter.go:20-24).
AlterApplied ==
    (\A s \in Sessions : at[s] = "idle" \/ stmt[s].kind # "alter") =>
        \A t \in Tables \ torn :
            map[t] = disk.cols[t] /\ res[t] = disk.cols[t] /\ disk.row[t] = disk.cols[t]

\* A scan of INFORMATION_SCHEMA lists every table that nobody alters, also
\* while another session rebuilds the catalog (info_schema_vtab.go:144-146).
InfoComplete == hidden \subseteq Altered

\* A statement finds every table that nobody alters (analyzer.go:1848-1849:
\* "One goroutine at a time owns the wasm runtime").
NamesStable == missed \subseteq Altered

\* Every call returns, also when a scan of INFORMATION_SCHEMA that waits for
\* c.mu keeps its holder from committing, or when Rows the application left
\* open keep a writer, and with it every Sync, waiting.
CallsReturn == \A s \in Sessions : at[s] = "wasm" ~> at[s] \in {"idle", "rows"}
=============================================================================
