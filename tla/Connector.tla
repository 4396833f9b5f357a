----------------------------- MODULE Connector -----------------------------
(***************************************************************************)
(* From sql.Open to an SQLite connection (driver.go): connectors, the      *)
(* registry that maps DSNs to inner databases and catalogs, and the life   *)
(* of a driver Conn between the two connection pools.                      *)
(*                                                                         *)
(* sql.Open makes a connector.  A private in-memory DSN gets an inner      *)
(* sql.DB and a catalog of its own; every other DSN shares the pair that   *)
(* its first connector made.  Both are made together, so one name stands   *)
(* for both: the connector that made them (pool).  A Conn checks an SQLite *)
(* connection (Inners) out of the inner sql.DB and is itself kept in the   *)
(* pool of the application's sql.DB.                                       *)
(*                                                                         *)
(* A table is named after the connector it was created through, so what a  *)
(* Conn sees tells whose state it shares.                                  *)
(***************************************************************************)
EXTENDS Naturals, FiniteSets

CONSTANTS
    Connectors,  \* calls of sql.Open
    Conns,       \* driver connections
    Inners,      \* SQLite connections
    Files,       \* DSNs that are not private in-memory ones
    Memory,      \* a private in-memory DSN
    Environment, \* see EnvironmentAssumption
    None,
    MaxIdle      \* idle connections an inner sql.DB keeps

\* "lose": an SQLite connection may be lost under its Conn; "connectFail":
\* NewAnalyzer or the ConnectHook may fail; "late": the outer pool may still
\* call Connect while it is being closed; "handles": the application begins
\* transactions and prepares statements.
ASSUME EnvironmentAssumption ==
    /\ Environment \subseteq {"lose", "connectFail", "late", "handles"}
    /\ Memory \notin Files /\ Files \cap Inners = {}
    /\ None \notin Connectors \cup Conns \cup Inners \cup Files
    /\ MaxIdle \in Nat

VARIABLES
    phase,    \* phase[k]: "new", "open", "closing" (inside connector.Close), "closed"
    dsn,      \* dsn[k]: connector.name
    name,     \* name[k]: the DSN the inner sql.DB was opened with
    pool,     \* pool[k]: connector.inner and connector.catalog
    dbMap,    \* nameToDBMap
    catMap,   \* nameToCatalogMap
    seq,      \* memoryConnectorSeq
    shut,     \* the inner databases that are closed
    sqlite,   \* sqlite[c]: the SQLite connection
    conn,     \* conn[o]: the Conn
    specs,    \* specs[p]: the tables in catalog p
    tables,   \* tables[d]: the tables of SQLite database d
    failed,   \* failed[o]: requests that met the loss of Conn o's connection, from the
              \* first ErrBadConn on
    stranded  \* SQLite connections that a failed Connect left checked out

registryVars == <<dbMap, catMap, seq>>
connectorVars == <<phase, dsn, name, pool>>
vars == <<phase, dsn, name, pool, dbMap, catMap, seq, shut, sqlite, conn, specs, tables,
          failed, stranded>>

Dsns == Files \cup {Memory}

\* The DSN of an inner database: freshMemoryDSN appends a number to a
\* private in-memory one.
Names == Files \X {0} \cup {Memory} \X Nat

\* An SQLite database: a file, or the private one of a connection.
Databases == Files \cup Inners

SQLiteConn == [state : {"new", "idle", "used", "closed"},
               of    : Connectors \cup {None},  \* the inner sql.DB it belongs to
               view  : Connectors \cup {None}]  \* the catalog of its INFORMATION_SCHEMA

DriverConn == [state : {"new", "used", "idle", "closed"},
               of    : Connectors \cup {None},
               inner : Inners \cup {None},
               dead  : BOOLEAN,
               hit   : BOOLEAN,  \* the current request has met the lost connection
               handle : BOOLEAN] \* a sql.Tx or a prepared statement is open on it

TypeOK ==
    /\ phase \in [Connectors -> {"new", "open", "closing", "closed"}]
    /\ dsn \in [Connectors -> Dsns]
    /\ name \in [Connectors -> Names]
    /\ pool \in [Connectors -> Connectors]
    /\ dbMap \in [Files -> Connectors \cup {None}]
    /\ DOMAIN catMap \subseteq Names /\ \A n \in DOMAIN catMap : catMap[n] \in Connectors
    /\ seq \in Nat
    /\ shut \subseteq Connectors
    /\ sqlite \in [Inners -> SQLiteConn]
    /\ conn \in [Conns -> DriverConn]
    /\ specs \in [Connectors -> SUBSET Connectors]
    /\ tables \in [Databases -> SUBSET Connectors]
    /\ failed \in [Conns -> Nat]
    /\ stranded \subseteq Inners

Init ==
    /\ phase = [k \in Connectors |-> "new"]
    /\ dsn = [k \in Connectors |-> Memory]
    /\ name = [k \in Connectors |-> <<Memory, 0>>]
    /\ pool = [k \in Connectors |-> k]
    /\ dbMap = [f \in Files |-> None]
    /\ catMap = <<>>
    /\ seq = 0
    /\ shut = {}
    /\ sqlite = [c \in Inners |-> [state |-> "new", of |-> None, view |-> None]]
    /\ conn = [o \in Conns |-> [state |-> "new", of |-> None, inner |-> None,
                                dead |-> FALSE, hit |-> FALSE, handle |-> FALSE]]
    /\ specs = [k \in Connectors |-> {}]
    /\ tables = [d \in Databases |-> {}]
    /\ failed = [o \in Conns |-> 0]
    /\ stranded = {}

-----------------------------------------------------------------------------
(* Connectors and the registry.                                            *)

Owned(k) == dsn[k] = Memory

Bind(n, k) == [m \in DOMAIN catMap \cup {n} |-> IF m = n THEN k ELSE catMap[m]]

\* Mutant: in-memory DSNs share a registered pair, as files do.
OpenMemoryCached(k) ==
    LET n == <<Memory, 0>> IN
    /\ dsn' = [dsn EXCEPT ![k] = Memory]
    /\ name' = [name EXCEPT ![k] = n]
    /\ pool' = [pool EXCEPT ![k] = IF n \in DOMAIN catMap THEN catMap[n] ELSE k]
    /\ catMap' = Bind(n, pool'[k])
    /\ UNCHANGED <<dbMap, seq>>

\* OpenConnector of a private in-memory DSN: a fresh name, inner sql.DB and
\* catalog.
OpenMemory(k) ==
    LET n == <<Memory, seq + 1>> IN
    /\ dsn' = [dsn EXCEPT ![k] = Memory]
    /\ name' = [name EXCEPT ![k] = n]
    /\ pool' = [pool EXCEPT ![k] = k]
    /\ catMap' = Bind(n, k)
    /\ seq' = seq + 1
    /\ UNCHANGED dbMap

\* Mutant: each open of a file makes a catalog of its own.
OpenFileAnew(k, f) ==
    /\ dsn' = [dsn EXCEPT ![k] = f]
    /\ name' = [name EXCEPT ![k] = <<f, 0>>]
    /\ pool' = [pool EXCEPT ![k] = k]
    /\ dbMap' = [dbMap EXCEPT ![f] = k]
    /\ catMap' = Bind(<<f, 0>>, k)
    /\ UNCHANGED seq

\* newDBAndCatalog: the pair registered for the DSN, or a new one.
OpenFile(k, f) ==
    /\ dsn' = [dsn EXCEPT ![k] = f]
    /\ name' = [name EXCEPT ![k] = <<f, 0>>]
    /\ IF dbMap[f] = None
       THEN /\ pool' = [pool EXCEPT ![k] = k]
            /\ dbMap' = [dbMap EXCEPT ![f] = k]
            /\ catMap' = Bind(<<f, 0>>, k)
       ELSE /\ pool' = [pool EXCEPT ![k] = dbMap[f]]
            /\ UNCHANGED <<dbMap, catMap>>
    /\ UNCHANGED seq

\* Driver.OpenConnector, called by sql.Open.
OpenConnector(k, d) ==
    /\ phase[k] = "new"
    /\ phase' = [phase EXCEPT ![k] = "open"]
    /\ IF d = Memory THEN OpenMemory(k) ELSE OpenFile(k, d)
    /\ UNCHANGED <<shut, sqlite, conn, specs, tables, failed, stranded>>

-----------------------------------------------------------------------------
(* SQLite connections, kept by the inner sql.DB.                           *)

Pooled(p, state) == {c \in Inners : sqlite[c].of = p /\ sqlite[c].state = state}

\* db.Conn takes an idle connection, or makes internalSQLiteDriver.Open open
\* one, which binds INFORMATION_SCHEMA to the catalog registered for the
\* name, if there is one.
Take(k, c) ==
    /\ pool[k] \notin shut
    /\ \/ c \in Pooled(pool[k], "idle")
       \/ Pooled(pool[k], "idle") = {} /\ sqlite[c].state = "new"

Taken(k, c) ==
    IF sqlite[c].state = "idle"
    THEN [sqlite[c] EXCEPT !.state = "used"]
    ELSE [state |-> "used", of |-> pool[k],
          view  |-> IF name[k] \in DOMAIN catMap THEN catMap[name[k]] ELSE None]

\* sql.Conn.Close gives a connection back: it is kept when the inner sql.DB
\* is open and has room, and closed otherwise.  One that was lost is not
\* given back.
GivenBack(c) ==
    LET s == sqlite[c] IN
    IF s.state = "closed" THEN s
    ELSE [s EXCEPT !.state = IF s.of \in shut \/ Cardinality(Pooled(s.of, "idle")) >= MaxIdle
                             THEN "closed" ELSE "idle"]

Live(o) == conn[o].state \in {"used", "idle"}
Database(o) == LET k == conn[o].of IN IF Owned(k) THEN conn[o].inner ELSE dsn[k]
Catalog(o) == pool[conn[o].of]

-----------------------------------------------------------------------------
(* The life of a Conn.                                                     *)

MayConnect(k) == phase[k] = "open" \/ (phase[k] = "closing" /\ "late" \in Environment)

\* connector.Connect succeeds; the outer sql.DB hands the Conn out.
Connect(k, o, c) ==
    /\ MayConnect(k)
    /\ conn[o].state = "new"
    /\ Take(k, c)
    /\ sqlite' = [sqlite EXCEPT ![c] = Taken(k, c)]
    /\ conn' = [conn EXCEPT ![o] = [state |-> "used", of |-> k, inner |-> c,
                                    dead |-> FALSE, hit |-> FALSE, handle |-> FALSE]]
    /\ UNCHANGED <<connectorVars, registryVars, shut, specs, tables, failed, stranded>>

\* NewAnalyzer or the ConnectHook fails: Connect returns the error and leaves
\* the SQLite connection checked out.
ConnectFail(k, c) ==
    /\ "connectFail" \in Environment
    /\ MayConnect(k)
    /\ Take(k, c)
    /\ sqlite' = [sqlite EXCEPT ![c] = Taken(k, c)]
    /\ stranded' = stranded \cup {c}
    /\ UNCHANGED <<connectorVars, registryVars, shut, conn, specs, tables, failed>>

\* The outer sql.DB hands out an idle Conn.
Fetch(o) ==
    /\ conn[o].state = "idle"
    /\ phase[conn[o].of] = "open"
    /\ conn' = [conn EXCEPT ![o].state = "used", ![o].hit = FALSE]
    /\ UNCHANGED <<connectorVars, registryVars, shut, sqlite, specs, tables, failed, stranded>>

\* Mutant: Conn.Close leaves the SQLite connection checked out.
CloseConnKept(o) ==
    /\ conn' = [conn EXCEPT ![o].state = "closed"]
    /\ UNCHANGED sqlite

\* Conn.Close, after database/sql closed the statements prepared on it.
CloseConn(o) ==
    /\ conn' = [conn EXCEPT ![o].state = "closed", ![o].handle = FALSE]
    /\ sqlite' = [sqlite EXCEPT ![conn[o].inner] = GivenBack(conn[o].inner)]

\* Mutant: no Validator, a dead Conn looks like any other.
IsValidAlways(o) == TRUE

IsValid(o) == ~conn[o].dead

\* A request ends.  The outer sql.DB keeps the Conn if it is valid and the
\* sql.DB is open, and closes it otherwise.
Release(o) ==
    /\ conn[o].state = "used"
    /\ IF IsValid(o) /\ phase[conn[o].of] = "open"
       THEN conn' = [conn EXCEPT ![o].state = "idle"] /\ UNCHANGED sqlite
       ELSE CloseConn(o)
    /\ UNCHANGED <<connectorVars, registryVars, shut, specs, tables, failed, stranded>>

\* The outer sql.DB closes an idle Conn: idle limit, lifetime, or DB.Close.
Expire(o) ==
    /\ conn[o].state = "idle"
    /\ CloseConn(o)
    /\ UNCHANGED <<connectorVars, registryVars, shut, specs, tables, failed, stranded>>

\* A statement creates a table: SQLite and the catalog have it.
Create(o) ==
    /\ conn[o].state = "used"
    /\ sqlite[conn[o].inner].state = "used"
    /\ specs' = [specs EXCEPT ![Catalog(o)] = @ \cup {conn[o].of}]
    /\ tables' = [tables EXCEPT ![Database(o)] = @ \cup {conn[o].of}]
    /\ UNCHANGED <<connectorVars, registryVars, shut, sqlite, conn, failed, stranded>>

\* The inner sql.Conn is closed while a Conn holds it.
Lose(c) ==
    /\ "lose" \in Environment
    /\ sqlite[c].state = "used"
    /\ \E o \in Conns : conn[o].inner = c /\ conn[o].state \in {"used", "idle"}
    /\ sqlite' = [sqlite EXCEPT ![c].state = "closed"]
    /\ UNCHANGED <<connectorVars, registryVars, shut, conn, specs, tables, failed, stranded>>

\* BeginTx or Prepare succeeds.
TakeHandle(o) ==
    /\ "handles" \in Environment
    /\ conn[o].state = "used"
    /\ sqlite[conn[o].inner].state = "used"
    /\ conn' = [conn EXCEPT ![o].handle = TRUE]
    /\ UNCHANGED <<connectorVars, registryVars, shut, sqlite, specs, tables, failed, stranded>>

\* The sql.Tx ends, or the prepared statement is closed.
DropHandle(o) ==
    /\ Live(o) /\ conn[o].handle
    /\ conn' = [conn EXCEPT ![o].handle = FALSE]
    /\ UNCHANGED <<connectorVars, registryVars, shut, sqlite, specs, tables, failed, stranded>>

\* A request counts once, when the Conn is dead.
Noted(o, dead) ==
    failed' = [failed EXCEPT ![o] = IF ~dead \/ (conn[o].dead /\ conn[o].hit) THEN @ ELSE @ + 1]

\* Exec, Query, Prepare or BeginTx gets sql.ErrConnDone: translateConnDone
\* marks the Conn dead and the caller's sql.DB gets driver.ErrBadConn.  It
\* closes the Conn when the call ends, or when the sql.Tx around it does,
\* which is a Release.
MeetLost(o) ==
    /\ conn[o].state = "used"
    /\ sqlite[conn[o].inner].state = "closed"
    /\ conn' = [conn EXCEPT ![o].dead = TRUE, ![o].hit = TRUE]
    /\ Noted(o, TRUE)
    /\ UNCHANGED <<connectorVars, registryVars, shut, sqlite, specs, tables, stranded>>

\* Commit, Rollback or a prepared statement gets sql.ErrConnDone: the caller
\* gets that error and the Conn is not marked.  Commit and Rollback end the
\* sql.Tx, the prepared statement stays.
MeetLostUnmarked(o) ==
    /\ conn[o].state = "used" /\ conn[o].handle
    /\ sqlite[conn[o].inner].state = "closed"
    /\ \E h \in BOOLEAN : conn' = [conn EXCEPT ![o].hit = TRUE, ![o].handle = h]
    /\ Noted(o, conn[o].dead)
    /\ UNCHANGED <<connectorVars, registryVars, shut, sqlite, specs, tables, stranded>>

-----------------------------------------------------------------------------
(* Closing.                                                                *)

\* Mutant: a connector that shares its catalog takes it out of the registry.
UnbindAny(k) == [n \in DOMAIN catMap \ {name[k]} |-> catMap[n]]

\* Mutant: the entry is set to nil.
UnbindNil(k) == IF Owned(k) THEN [catMap EXCEPT ![name[k]] = None] ELSE catMap

\* connector.Close removes only a catalog that is the connector's own.
Unbind(k) == IF Owned(k) THEN [n \in DOMAIN catMap \ {name[k]} |-> catMap[n]] ELSE catMap

\* The application closes its sql.DB: idle Conns are closed (Expire), then
\* connector.Close runs.
CloseStart(k) ==
    /\ phase[k] = "open"
    /\ \A o \in Conns : conn[o].of = k => conn[o].state # "idle"
    /\ phase' = [phase EXCEPT ![k] = "closing"]
    /\ catMap' = Unbind(k)
    /\ UNCHANGED <<dsn, name, pool, dbMap, seq, shut, sqlite, conn, specs, tables, failed, stranded>>

\* Mutant: the inner sql.DB stays open.
CloseInnerKept(k) == UNCHANGED <<shut, sqlite>>

\* inner.Close closes its idle connections; those checked out follow when
\* they are given back.
CloseInner(k) ==
    /\ shut' = shut \cup {pool[k]}
    /\ sqlite' = [c \in Inners |-> IF c \in Pooled(pool[k], "idle")
                                   THEN [sqlite[c] EXCEPT !.state = "closed"] ELSE sqlite[c]]

CloseEnd(k) ==
    /\ phase[k] = "closing"
    /\ phase' = [phase EXCEPT ![k] = "closed"]
    /\ IF Owned(k) THEN CloseInner(k) ELSE UNCHANGED <<shut, sqlite>>
    /\ UNCHANGED <<dsn, name, pool, registryVars, conn, specs, tables, failed, stranded>>

-----------------------------------------------------------------------------

Next ==
    \/ \E k \in Connectors, d \in Dsns : OpenConnector(k, d)
    \/ \E k \in Connectors, o \in Conns, c \in Inners : Connect(k, o, c)
    \/ \E k \in Connectors, c \in Inners : ConnectFail(k, c)
    \/ \E o \in Conns : \/ Fetch(o) \/ Release(o) \/ Expire(o) \/ Create(o)
                        \/ TakeHandle(o) \/ DropHandle(o)
                        \/ MeetLost(o) \/ MeetLostUnmarked(o)
    \/ \E c \in Inners : Lose(c)
    \/ \E k \in Connectors : CloseStart(k) \/ CloseEnd(k)

Spec == Init /\ [][Next]_vars

-----------------------------------------------------------------------------

SameStore(k, l) == k = l \/ (dsn[k] = dsn[l] /\ ~Owned(k))

\* No Conn sees, in its catalog or in its SQLite database, a table made
\* through a sql.DB with another DSN or, for private in-memory DSNs, through
\* another sql.DB, although all of them share one registry
\* (driver.go:182-186: otherwise "table already exists" on a second open).
Isolated ==
    \A o \in Conns : Live(o) =>
        \A k \in specs[Catalog(o)] \cup tables[Database(o)] : SameStore(k, conn[o].of)

\* All Conns of one file share one catalog and one database, whichever
\* sql.DB they come from and although connectors come and go: what one
\* created every later Conn finds in both (driver.go:151-170).
FileShared ==
    \A o \in Conns : Live(o) /\ ~Owned(conn[o].of) =>
        specs[Catalog(o)] = tables[Database(o)]

\* Conns of one private in-memory sql.DB share the catalog, and each has an
\* SQLite database of its own: a Conn's catalog has the tables of its SQLite
\* database, and those of the other Conns (see ConnsShareState).
MemoryWithin ==
    \A o \in Conns : Live(o) /\ Owned(conn[o].of) =>
        tables[Database(o)] \subseteq specs[Catalog(o)]

\* The SQLite connections under the Conns of an open sql.DB read
\* INFORMATION_SCHEMA from the catalog their statements use
\* (driver.go:131-146: it is "always present at this point").
InfoSchemaBound ==
    \A o \in Conns : Live(o) /\ phase[conn[o].of] = "open" =>
        sqlite[conn[o].inner].view = Catalog(o)

\* An SQLite connection is checked out exactly while one Conn holds it, and
\* one that is idle is held by none: except for those that a failed Connect
\* strands nothing leaks from the inner pool, and nothing is shared.
InnerAccounted ==
    \A c \in Inners \ stranded :
        LET holders == {o \in Conns : Live(o) /\ conn[o].inner = c} IN
        /\ sqlite[c].state = "used" => Cardinality(holders) = 1
        /\ sqlite[c].state \in {"new", "idle"} => holders = {}

\* Once a sql.DB on a private in-memory DSN and all its Conns are closed, no
\* SQLite connection of it is left, unless a Connect had stranded it
\* (driver.go:217-225).
MemoryReleased ==
    \A k \in Connectors :
        (phase[k] = "closed" /\ Owned(k) /\ \A o \in Conns : conn[o].of = k => ~Live(o))
            => \A c \in Inners \ stranded : sqlite[c].of = k => sqlite[c].state = "closed"

\* Property: from the request on that first gets ErrBadConn for a lost SQLite
\* connection, no other request meets the loss: the Conn is not handed out
\* again, also when the sql.Tx around the call ends with another error
\* (driver.go:365-367, 389-398).  Before it, Commit, Rollback and prepared
\* statements may meet the loss any number of times (see LossMetOnce).
BadConnRetires == \A o \in Conns : failed[o] <= 1

\* Violated: a Conn whose lost SQLite connection a request has observed does
\* not go back to the pool (driver.go:341-350: "dead is set when an
\* operation on this Conn observes" the loss, so that it does not surface on
\* "every subsequent request").  Commit, Rollback and prepared statements
\* observe it and set nothing.
LossMetOnce == \A o \in Conns : conn[o].hit => conn[o].state # "idle"

\* Violated: every Conn of one sql.DB shares its state (driver.go:189-191).
\* Those of a private in-memory one share the catalog and not the tables.
ConnsShareState ==
    \A o, p \in Conns : Live(o) /\ Live(p) /\ conn[o].of = conn[p].of =>
        specs[Catalog(o)] = specs[Catalog(p)] /\ tables[Database(o)] = tables[Database(p)]

\* Property: a Conn finds no object of another store, neither in its catalog
\* nor in SQLite; INFORMATION_SCHEMA shows the catalog its statements use;
\* that catalog has what its SQLite database has, and for a file nothing else.
OwnStore == Isolated /\ FileShared /\ MemoryWithin /\ InfoSchemaBound

\* Property: the inner pool is accounted for while a sql.DB is open and empty
\* once it is closed.
InnerReleased == InnerAccounted /\ MemoryReleased
=============================================================================
