--------------------------- MODULE StatementClock ---------------------------
(***************************************************************************)
(* The statement clock (internal/statement_clock.go): the instant that     *)
(* CURRENT_TIMESTAMP and its siblings return while a statement runs.       *)
(*                                                                         *)
(* Every SQLite connection (InnerConns) has a clock, installed with the    *)
(* SQL functions when SQLite opens the connection.  A driver Conn (Conns)  *)
(* checks an SQLite connection out of the inner sql.DB and takes its clock *)
(* from the table statementClocks.  ExecContext and QueryContext freeze    *)
(* the clock; ExecContext releases it when it returns, a query when its    *)
(* Rows are closed.                                                        *)
(*                                                                         *)
(* database/sql serialises the calls on a Conn, so Start and End, which    *)
(* write two atomics each, are one step each.  A statement is its own      *)
(* token: both are unique on a clock.                                      *)
(***************************************************************************)
EXTENDS Naturals

CONSTANTS
    Conns,       \* driver connections, as the outer sql.DB opens them
    InnerConns,  \* SQLite connections of the inner sql.DB
    Stmts,       \* the statements of a behaviour
    Environment, \* what the application and the outer pool may do
    None,
    MaxTime      \* bound on the wall clock

ASSUME EnvironmentAssumption ==
    /\ Environment \subseteq {"overlap", "prepared", "reopen", "panic"}
    /\ None \notin Conns \cup InnerConns \cup Stmts
    /\ MaxTime \in Nat

VARIABLES
    clock,      \* clock[c]: the StatementClock of SQLite connection c; nanos 0 is unset
    opened,     \* SQLite connections that have been opened
    table,      \* the keys of statementClocks
    inner,      \* inner[o]: the SQLite connection Conn o holds, or None
    owns,       \* owns[o]: Conn o got a clock, not a nil pointer
    phase,      \* phase[s]: "new", "running" (inside the call), "rows", "done"
    how,        \* how[s]: "exec", "query" or "prepared"
    on,         \* on[s]: the Conn statement s runs on
    started,    \* started[s]: the wall clock when s started
    seen,       \* seen[s]: the instants the calls of s returned
    now         \* the wall clock

connVars == <<opened, table, inner, owns>>
stmtVars == <<phase, how, on, started, seen>>
vars == <<clock, opened, table, inner, owns, phase, how, on, started, seen, now>>

Clock == [nanos : Nat, token : Stmts \cup {None}]

TypeOK ==
    /\ clock \in [InnerConns -> Clock]
    /\ opened \subseteq InnerConns
    /\ table \subseteq opened
    /\ inner \in [Conns -> InnerConns \cup {None}]
    /\ owns \in [Conns -> BOOLEAN]
    /\ phase \in [Stmts -> {"new", "running", "rows", "done"}]
    /\ how \in [Stmts -> {"exec", "query", "prepared"}]
    /\ on \in [Stmts -> Conns \cup {None}]
    /\ started \in [Stmts -> Nat]
    /\ seen \in [Stmts -> SUBSET Nat]
    /\ now \in Nat

Init ==
    /\ clock = [c \in InnerConns |-> [nanos |-> 0, token |-> None]]
    /\ opened = {}
    /\ table = {}
    /\ inner = [o \in Conns |-> None]
    /\ owns = [o \in Conns |-> FALSE]
    /\ phase = [s \in Stmts |-> "new"]
    /\ how = [s \in Stmts |-> "exec"]
    /\ on = [s \in Stmts |-> None]
    /\ started = [s \in Stmts |-> 0]
    /\ seen = [s \in Stmts |-> {}]
    /\ now = 1

-----------------------------------------------------------------------------

Active(s) == phase[s] \in {"running", "rows"}
ActiveOn(o) == {s \in Stmts : Active(s) /\ on[s] = o}

\* No call is in progress on Conn o.
Quiet(o) == \A s \in ActiveOn(o) : phase[s] # "running"

CheckedOut == {inner[o] : o \in Conns}

\* RegisterFunctions, run by SQLite's open: a new clock goes into the table.
\* TakeStatementClock takes it out again for the Conn that checks the
\* connection out.
OpenSQLite(c) == IF c \in opened THEN table ELSE table \cup {c}

\* Mutant: a clock is registered for a connection that is not kept.
NewConnUntracked(o, c) ==
    /\ inner[o] = None
    /\ c \notin CheckedOut
    /\ inner' = [inner EXCEPT ![o] = c]
    /\ owns' = [owns EXCEPT ![o] = TRUE]
    /\ table' = table \cup {c}
    /\ UNCHANGED <<clock, opened, stmtVars, now>>

\* newConn: db.Conn hands out an idle SQLite connection or opens one.
NewConn(o, c) ==
    /\ inner[o] = None
    /\ c \notin CheckedOut
    /\ opened \subseteq CheckedOut \/ c \in opened
    /\ opened' = opened \cup {c}
    /\ inner' = [inner EXCEPT ![o] = c]
    /\ owns' = [owns EXCEPT ![o] = c \in OpenSQLite(c)]
    /\ table' = OpenSQLite(c) \ {c}
    /\ UNCHANGED <<clock, stmtVars, now>>

\* Conn.Close: the outer pool lets the Conn go (idle limit, lifetime) and the
\* SQLite connection returns to the inner pool.
Close(o) ==
    /\ "reopen" \in Environment
    /\ inner[o] # None
    /\ ActiveOn(o) = {}
    /\ inner' = [inner EXCEPT ![o] = None]
    /\ owns' = [owns EXCEPT ![o] = FALSE]
    /\ UNCHANGED <<clock, opened, table, stmtVars, now>>

\* Mutant: the first statement to freeze the clock keeps it.
StartIfUnset(o, s) ==
    clock' = IF owns[o] /\ clock[inner[o]].nanos = 0
             THEN [clock EXCEPT ![inner[o]] = [nanos |-> now, token |-> s]]
             ELSE clock

\* StatementClock.Start and StatementClock.End; a nil clock ignores both.
Start(o, s) ==
    clock' = IF owns[o]
             THEN [clock EXCEPT ![inner[o]] = [nanos |-> now, token |-> s]]
             ELSE clock

End(o, s) ==
    clock' = IF owns[o] /\ clock[inner[o]].token = s
             THEN [clock EXCEPT ![inner[o]] = [nanos |-> 0, token |-> None]]
             ELSE clock

\* ExecContext or QueryContext begins.  Inside a Tx or on a sql.Conn the
\* application may start a statement while it still reads another's Rows.
Begin(s, o, h) ==
    /\ phase[s] = "new"
    /\ inner[o] # None
    /\ IF "overlap" \in Environment THEN Quiet(o) ELSE ActiveOn(o) = {}
    /\ phase' = [phase EXCEPT ![s] = "running"]
    /\ how' = [how EXCEPT ![s] = h]
    /\ on' = [on EXCEPT ![s] = o]
    /\ started' = [started EXCEPT ![s] = now]
    /\ Start(o, s)
    /\ UNCHANGED <<connVars, seen, now>>

\* A prepared statement is executed: no clock is started for it.
BeginPrepared(s, o) ==
    /\ "prepared" \in Environment
    /\ phase[s] = "new"
    /\ inner[o] # None
    /\ IF "overlap" \in Environment THEN Quiet(o) ELSE ActiveOn(o) = {}
    /\ phase' = [phase EXCEPT ![s] = "running"]
    /\ how' = [how EXCEPT ![s] = "prepared"]
    /\ on' = [on EXCEPT ![s] = o]
    /\ started' = [started EXCEPT ![s] = now]
    /\ UNCHANGED <<clock, connVars, seen, now>>

\* withStatementClock: the frozen instant, or the wall clock when none is set.
Instant(c) == IF clock[c].nanos # 0 THEN clock[c].nanos ELSE now

\* SQLite evaluates a CURRENT_* call of s, inside its call or while a row is
\* fetched from its Rows.
Evaluate(s) ==
    /\ Active(s)
    /\ phase[s] = "running" \/ Quiet(on[s])
    /\ seen' = [seen EXCEPT ![s] = @ \cup {Instant(inner[on[s]])}]
    /\ UNCHANGED <<clock, connVars, phase, how, on, started, now>>

\* Mutant: a query that fails leaves the release to Rows that do not exist.
ReturnUnreleased(s) ==
    /\ phase[s] = "running"
    /\ phase' = [phase EXCEPT ![s] = "done"]
    /\ IF how[s] # "exec" THEN UNCHANGED clock ELSE End(on[s], s)
    /\ UNCHANGED <<connVars, how, on, started, seen, now>>

\* ExecContext returns, or QueryContext returns an error: the clock is released.
Return(s) ==
    /\ phase[s] = "running"
    /\ phase' = [phase EXCEPT ![s] = "done"]
    /\ IF how[s] = "prepared" THEN UNCHANGED clock ELSE End(on[s], s)
    /\ UNCHANGED <<connVars, how, on, started, seen, now>>

\* Mutant: the clock is released when QueryContext returns.
HandOffReleased(s) ==
    /\ phase[s] = "running"
    /\ how[s] # "exec"
    /\ phase' = [phase EXCEPT ![s] = "rows"]
    /\ End(on[s], s)
    /\ UNCHANGED <<connVars, how, on, started, seen, now>>

\* QueryContext returns Rows and hands the release of the clock to them.
HandOff(s) ==
    /\ phase[s] = "running"
    /\ how[s] # "exec"
    /\ phase' = [phase EXCEPT ![s] = "rows"]
    /\ UNCHANGED <<clock, connVars, how, on, started, seen, now>>

\* A later statement of the script panics inside QueryContext.  The deferred
\* function sees no error yet and hands the release of the clock to the Rows
\* of an earlier statement; recoverPanicAsError then returns an error, and
\* nobody gets those Rows.  A panic before there are Rows is a Return.
Panic(s) ==
    /\ "panic" \in Environment
    /\ phase[s] = "running"
    /\ how[s] = "query"
    /\ phase' = [phase EXCEPT ![s] = "done"]
    /\ UNCHANGED <<clock, connVars, how, on, started, seen, now>>

\* Rows.Close runs onClose.
CloseRows(s) ==
    /\ phase[s] = "rows"
    /\ Quiet(on[s])
    /\ phase' = [phase EXCEPT ![s] = "done"]
    /\ IF how[s] = "prepared" THEN UNCHANGED clock ELSE End(on[s], s)
    /\ UNCHANGED <<connVars, how, on, started, seen, now>>

Tick ==
    /\ now < MaxTime
    /\ now' = now + 1
    /\ UNCHANGED <<clock, connVars, stmtVars>>

Next ==
    \/ \E o \in Conns, c \in InnerConns : NewConn(o, c)
    \/ \E o \in Conns : Close(o)
    \/ \E s \in Stmts, o \in Conns, h \in {"exec", "query"} : Begin(s, o, h)
    \/ \E s \in Stmts, o \in Conns : BeginPrepared(s, o)
    \/ \E s \in Stmts : Evaluate(s) \/ Return(s) \/ HandOff(s) \/ Panic(s) \/ CloseRows(s)
    \/ Tick

Spec == Init /\ [][Next]_vars

-----------------------------------------------------------------------------

\* A clock is frozen only while the statement that froze it is still running
\* or its Rows are open, in whatever order overlapping statements end: a
\* clock left frozen would give every later prepared statement on the SQLite
\* connection the same old time (End's CompareAndSwap,
\* statement_clock.go:54-61).
FrozenOnlyByActive ==
    \A c \in InnerConns :
        clock[c].nanos # 0 =>
            \E s \in Stmts : /\ clock[c].token = s
                             /\ Active(s)
                             /\ inner[on[s]] = c
                             /\ clock[c].nanos = started[s]

\* A statement never sees an instant from before it began, not even when it
\* inherits the SQLite connection, and its clock, of an earlier statement.
NoInstantFromBefore ==
    \A s \in Stmts : how[s] # "prepared" => \A t \in seen[s] : t >= started[s]

\* All calls of one statement return one instant, the one it began at
\* (statement_clock.go:17-31: "the current time is the same for all calls
\* within a statement").
OneInstant ==
    \A s \in Stmts : how[s] # "prepared" => seen[s] \subseteq {started[s]}
=============================================================================
