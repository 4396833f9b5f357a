---------------------------- MODULE Transaction ----------------------------
(***************************************************************************)
(* One driver Conn, the transactions the application opens on it           *)
(* (driver.go BeginTx, Tx.Commit, Tx.Rollback) and the data-changing       *)
(* statements it runs (DMLStmtAction, with and without                     *)
(* ASSERT_ROWS_MODIFIED, and MergeStmtAction, of internal/stmt_action.go). *)
(*                                                                         *)
(* The driver holds no transaction object: it sends BEGIN, COMMIT,         *)
(* ROLLBACK, SAVEPOINT and RELEASE to the SQLite connection as text and    *)
(* remembers in txActive that it did.  The state of the SQLite connection  *)
(* (work, txOpen, marks, queryOnly) can therefore differ from what the     *)
(* driver and the application believe.                                     *)
(*                                                                         *)
(* A write stands for the change one SQL statement makes; each is made at  *)
(* most once, so a table is the set of the writes it shows.  Every call of *)
(* conn.ExecContext is a step, because the context can end between two.    *)
(***************************************************************************)
EXTENDS Naturals, Sequences, FiniteSets

CONSTANTS
    Writes,
    Forms,       \* "dml", "assert" (ASSERT_ROWS_MODIFIED), "merge"
    Environment  \* see EnvironmentAssumption

\* "cancel": the context of a call may end between two SQL statements;
\* "interrupt": also inside one; "busy": another connection may hold the
\* lock that BEGIN IMMEDIATE or a commit needs; "nested": the application
\* calls BeginTx on a sql.Conn that has a Tx.
ASSUME EnvironmentAssumption ==
    /\ Forms \subseteq {"dml", "assert", "merge"}
    /\ Environment \subseteq {"cancel", "interrupt", "busy", "nested"}

VARIABLES
    disk,      \* the committed writes
    work,      \* the writes the SQLite connection sees
    txOpen,    \* SQLite: BEGIN is in effect
    marks,     \* SQLite: what each open savepoint goes back to
    queryOnly, \* SQLite: PRAGMA query_only
    txActive,  \* Conn.txActive
    txReset,   \* Conn.txReset is not empty
    at,        \* where the statement in progress is, or "idle"
    form,      \* its form
    cur,       \* its writes
    left,      \* those it has still to make
    cancelled, \* its context has ended
    mine,      \* the writes attempted in the current Tx
    done,      \* the writes of the statements that reported success
    durable,   \* writes reported as committed
    undone,    \* writes of a Tx that was rolled back or failed to commit
    refused,   \* the writes of the statements that reported an error
    rejected   \* those of a statement that failed, or whose assertion did, in time

sqliteVars == <<disk, work, txOpen, marks, queryOnly>>
connVars == <<txActive, txReset>>
callVars == <<at, form, cur, left, cancelled>>
ghostVars == <<mine, done, durable, undone, refused, rejected>>
vars == <<disk, work, txOpen, marks, queryOnly, txActive, txReset, at, form, cur, left,
          cancelled, mine, done, durable, undone, refused, rejected>>

TypeOK ==
    /\ disk \subseteq Writes /\ work \subseteq Writes
    /\ txOpen \in BOOLEAN
    /\ marks \in Seq(SUBSET Writes)
    /\ queryOnly \in BOOLEAN
    /\ txActive \in BOOLEAN /\ txReset \in BOOLEAN
    /\ at \in {"idle", "savepoint", "write", "check", "rollbackTo", "releaseBack", "release"}
    /\ form \in {"dml", "assert", "merge"}
    /\ cur \subseteq Writes /\ left \subseteq cur
    /\ cancelled \in BOOLEAN
    /\ mine \subseteq Writes /\ done \subseteq Writes
    /\ durable \subseteq Writes /\ undone \subseteq Writes
    /\ refused \subseteq Forms \X Writes
    /\ rejected \subseteq refused

Init ==
    /\ disk = {} /\ work = {}
    /\ txOpen = FALSE
    /\ marks = <<>>
    /\ queryOnly = FALSE
    /\ txActive = FALSE /\ txReset = FALSE
    /\ at = "idle"
    /\ form = "dml"
    /\ cur = {} /\ left = {}
    /\ cancelled = FALSE
    /\ mine = {} /\ done = {} /\ durable = {} /\ undone = {}
    /\ refused = {} /\ rejected = {}

-----------------------------------------------------------------------------
(* The SQLite connection.                                                  *)

InTransaction == txOpen \/ marks # <<>>

\* ROLLBACK, or what SQLite does by itself when it interrupts a write.
RollbackAll ==
    /\ work' = disk
    /\ txOpen' = FALSE
    /\ marks' = <<>>
    /\ UNCHANGED disk

\* RELEASE of the innermost savepoint: it commits when the savepoint itself
\* began the transaction.
Release ==
    /\ marks' = SubSeq(marks, 1, Len(marks) - 1)
    /\ disk' = IF Len(marks) = 1 /\ ~txOpen THEN work ELSE disk
    /\ UNCHANGED <<work, txOpen>>

-----------------------------------------------------------------------------
(* BeginTx, Commit, Rollback.                                              *)

MayBegin == at = "idle" /\ (~txActive \/ "nested" \in Environment)

\* BEGIN, and for a read-only Tx PRAGMA query_only=on unless it is on.
BeginTx(readOnly) ==
    /\ MayBegin
    /\ ~InTransaction
    /\ txOpen' = TRUE
    /\ queryOnly' = (queryOnly \/ readOnly)
    /\ txReset' = (readOnly /\ ~queryOnly)
    /\ txActive' = TRUE
    /\ mine' = {}
    /\ UNCHANGED <<disk, work, marks, callVars, done, durable, undone, refused, rejected>>

\* Mutant: BEGIN took effect, the PRAGMA did not, and nothing rolls back.
BeginFailOpen(readOnly) ==
    /\ MayBegin
    /\ InTransaction \/ Environment \cap {"cancel", "busy"} # {}
    /\ txOpen' = (txOpen \/ readOnly)
    /\ UNCHANGED <<disk, work, marks, queryOnly, connVars, callVars, ghostVars>>

\* BeginTx fails: SQLite is in a transaction already, the lock is taken, or
\* the context ends, for a read-only Tx also between BEGIN and the PRAGMA.
\* A read-only BeginTx whose BEGIN was sent then sends ROLLBACK.
BeginFail(readOnly) ==
    /\ MayBegin
    /\ InTransaction \/ Environment \cap {"cancel", "busy"} # {}
    /\ \/ readOnly /\ RollbackAll
       \/ (readOnly => "cancel" \in Environment) /\ UNCHANGED <<disk, work, txOpen, marks>>
    /\ UNCHANGED <<queryOnly, connVars, callVars, ghostVars>>

\* The driver forgets the Tx, whatever SQLite said.
TxEnds ==
    /\ txActive /\ at = "idle"
    /\ txActive' = FALSE
    /\ txReset' = FALSE
    /\ mine' = {}
    /\ UNCHANGED <<callVars, done, refused, rejected>>

\* COMMIT; PRAGMA query_only=off.
Commit ==
    /\ TxEnds
    /\ InTransaction
    /\ disk' = work
    /\ txOpen' = FALSE
    /\ marks' = <<>>
    /\ queryOnly' = (queryOnly /\ ~txReset)
    /\ durable' = durable \cup (mine \cap done)
    /\ UNCHANGED <<work, undone>>

\* Mutant: a failed COMMIT is not followed by a ROLLBACK.
CommitFailOpen ==
    /\ TxEnds
    /\ ~InTransaction \/ "busy" \in Environment
    /\ undone' = undone \cup mine
    /\ UNCHANGED <<sqliteVars, durable>>

\* COMMIT fails, because the database is locked or no transaction is open.
\* Tx.Commit then sends ROLLBACK; PRAGMA query_only=off, which SQLite stops
\* at the ROLLBACK when no transaction is open.
CommitFail ==
    /\ TxEnds
    /\ ~InTransaction \/ "busy" \in Environment
    /\ RollbackAll
    /\ queryOnly' = (queryOnly /\ ~(txReset /\ InTransaction))
    /\ undone' = undone \cup mine
    /\ UNCHANGED durable

\* Tx.Rollback.
Rollback ==
    /\ TxEnds
    /\ RollbackAll
    /\ queryOnly' = (queryOnly /\ ~(txReset /\ InTransaction))
    /\ undone' = undone \cup mine
    /\ UNCHANGED durable

-----------------------------------------------------------------------------
(* Statements.                                                             *)

Used == done \cup {r[2] : r \in refused}

\* Mutant: what a failed MERGE did not reach is still on the list.
StartKeepLeft(f, W) ==
    /\ at = "idle"
    /\ f \in Forms
    /\ at' = IF f = "assert" THEN "savepoint" ELSE "write"
    /\ form' = f
    /\ cur' = W /\ left' = left \cup W
    /\ cancelled' = FALSE
    /\ mine' = IF txActive THEN mine \cup W ELSE mine
    /\ UNCHANGED <<sqliteVars, connVars, done, durable, undone, refused, rejected>>

\* ExecContext begins a statement with writes W.
Start(f, W) ==
    /\ at = "idle"
    /\ f \in Forms
    /\ at' = IF f = "assert" THEN "savepoint" ELSE "write"
    /\ form' = f
    /\ cur' = W /\ left' = W
    /\ cancelled' = FALSE
    /\ mine' = IF txActive THEN mine \cup W ELSE mine
    /\ UNCHANGED <<sqliteVars, connVars, done, durable, undone, refused, rejected>>

Cancel ==
    /\ "cancel" \in Environment
    /\ at # "idle" /\ ~cancelled
    /\ cancelled' = TRUE
    /\ UNCHANGED <<sqliteVars, connVars, at, form, cur, left, ghostVars>>

Succeed ==
    /\ at' = "idle"
    /\ done' = done \cup cur
    /\ durable' = IF txActive THEN durable ELSE durable \cup cur
    /\ UNCHANGED <<refused, rejected>>

\* The statement reports an error; atOnce when it did so with a live context
\* and without having passed its assertion.
Fail(atOnce) ==
    /\ at' = "idle"
    /\ refused' = refused \cup ({form} \X cur)
    /\ rejected' = IF atOnce THEN rejected \cup ({form} \X cur) ELSE rejected
    /\ UNCHANGED <<done, durable>>

\* SAVEPOINT googlesqlite_assert_rows_modified.
Savepoint ==
    /\ at = "savepoint"
    /\ IF cancelled
       THEN /\ Fail(FALSE)
            /\ UNCHANGED marks
       ELSE /\ marks' = Append(marks, work)
            /\ at' = "write"
            /\ UNCHANGED <<done, durable, refused, rejected>>
    /\ UNCHANGED <<disk, work, txOpen, queryOnly, connVars, form, cur, left, cancelled, mine, undone>>

\* Mutant: MERGE reports success after its first statement.
WriteFirst(w) ==
    /\ at = "write" /\ ~cancelled /\ ~queryOnly
    /\ work' = work \cup {w}
    /\ disk' = IF InTransaction THEN disk ELSE work'
    /\ left' = left \ {w}
    /\ IF form = "assert" THEN at' = "check" /\ UNCHANGED <<done, durable, refused, rejected>> ELSE Succeed
    /\ UNCHANGED <<txOpen, marks, queryOnly, connVars, form, cur, cancelled, mine, undone>>

\* One data-changing SQL statement.  A MERGE sends one per WHEN clause.
Write(w) ==
    /\ at = "write" /\ ~cancelled /\ ~queryOnly
    /\ work' = work \cup {w}
    /\ disk' = IF InTransaction THEN disk ELSE work'
    /\ left' = left \ {w}
    /\ \/ form = "dml" /\ Succeed
       \/ form = "merge" /\ UNCHANGED <<at, done, durable, refused, rejected>>
       \/ form = "assert" /\ at' = "check" /\ UNCHANGED <<done, durable, refused, rejected>>
    /\ UNCHANGED <<txOpen, marks, queryOnly, connVars, form, cur, cancelled, mine, undone>>

\* After its last clause a MERGE drops its staging tables, which nothing else
\* reads, and only then reports success.
MergeDone ==
    /\ at = "write" /\ ~cancelled
    /\ form = "merge" /\ left = {}
    /\ Succeed
    /\ UNCHANGED <<sqliteVars, connVars, form, cur, left, cancelled, mine, undone>>

WriteRefused ==
    IF form = "assert"
    THEN at' = "rollbackTo" /\ UNCHANGED <<done, durable, refused, rejected>>
    ELSE Fail(~cancelled)

\* An SQL statement fails, one on a MERGE's staging tables included: its own
\* changes are undone.
WriteFail ==
    /\ at = "write"
    /\ WriteRefused
    /\ UNCHANGED <<sqliteVars, connVars, form, cur, left, cancelled, mine, undone>>

\* The context ends while SQLite runs a data-changing statement: SQLite
\* rolls back the whole transaction.
WriteInterrupt ==
    /\ "interrupt" \in Environment
    /\ at = "write" /\ ~cancelled /\ ~queryOnly
    /\ cancelled' = TRUE
    /\ WriteRefused
    /\ RollbackAll
    /\ UNCHANGED <<queryOnly, connVars, form, cur, left, mine, undone>>

\* Mutant: a failed assertion only releases the savepoint.
CheckKept ==
    /\ at = "check"
    /\ at' \in {"releaseBack", "release"}
    /\ UNCHANGED <<sqliteVars, connVars, form, cur, left, cancelled, ghostVars>>

\* The count of modified rows is compared with the one asserted.
Check ==
    /\ at = "check"
    /\ at' \in {"rollbackTo", "release"}
    /\ UNCHANGED <<sqliteVars, connVars, form, cur, left, cancelled, ghostVars>>

\* ROLLBACK TO and RELEASE, with the statement's context; errors are ignored.
RollbackTo ==
    /\ at = "rollbackTo"
    /\ at' = "releaseBack"
    /\ work' = IF cancelled \/ marks = <<>> THEN work ELSE marks[Len(marks)]
    /\ UNCHANGED <<disk, txOpen, marks, queryOnly, connVars, form, cur, left, cancelled, ghostVars>>

ReleaseBack ==
    /\ at = "releaseBack"
    /\ IF cancelled \/ marks = <<>>
       THEN UNCHANGED <<disk, work, txOpen, marks>>
       ELSE Release
    /\ Fail(~cancelled)
    /\ UNCHANGED <<queryOnly, connVars, form, cur, left, cancelled, mine, undone>>

\* RELEASE after a satisfied assertion.
ReleaseDone ==
    /\ at = "release" /\ ~cancelled
    /\ Release
    /\ Succeed
    /\ UNCHANGED <<queryOnly, connVars, form, cur, left, cancelled, mine, undone>>

\* It fails: the context has ended, or the commit finds the database locked.
ReleaseFail ==
    /\ at = "release"
    /\ cancelled \/ ("busy" \in Environment /\ Len(marks) = 1 /\ ~txOpen)
    /\ Fail(FALSE)
    /\ UNCHANGED <<sqliteVars, connVars, form, cur, left, cancelled, mine, undone>>

-----------------------------------------------------------------------------

Next ==
    \/ \E readOnly \in BOOLEAN : BeginTx(readOnly) \/ BeginFail(readOnly)
    \/ Commit \/ CommitFail \/ Rollback
    \/ \E w \in Writes \ Used : Start("dml", {w}) \/ Start("assert", {w})
    \/ \E w, v \in Writes \ Used : w # v /\ Start("merge", {w, v})
    \/ Cancel
    \/ Savepoint
    \/ \E w \in left : Write(w)
    \/ MergeDone
    \/ WriteFail \/ WriteInterrupt
    \/ Check \/ RollbackTo \/ ReleaseBack \/ ReleaseDone \/ ReleaseFail

Spec == Init /\ [][Next]_vars

-----------------------------------------------------------------------------

\* Between calls, with no Tx, the SQLite connection is as it was opened: no
\* transaction is open, nothing waits to be committed, and writes are
\* allowed.  Otherwise the pool hands the Conn to a caller whose statements
\* nobody commits, or fail (driver.go:654-722).
TxClosed ==
    at = "idle" /\ ~txActive =>
        /\ ~InTransaction
        /\ work = disk
        /\ ~queryOnly

\* What a Tx wrote is gone once it was rolled back or failed to commit
\* (driver_test.go:1217: "Rolled-back rows are gone after Tx.Rollback.").
Undone == undone \cap disk = {} /\ (at = "idle" => undone \cap work = {})

\* What a statement outside a Tx, or a Tx that committed, reported as done is
\* on disk and stays there, whatever fails later (driver_test.go:1216:
\* "Committed rows survive after Tx.Commit.").
Durable == durable \subseteq disk

\* A statement whose ASSERT_ROWS_MODIFIED fails leaves the table untouched
\* (stmt_action.go:454-457; pipe_dml_compliance_test.go:247), and no savepoint
\* that earlier statements could not release brings its rows back.  A
\* statement whose context had ended is not meant.
AssertUntouched ==
    at = "idle" => \A r \in rejected : r[1] = "assert" => r[2] \notin work \cup disk

\* A MERGE that fails changes nothing (data-manipulation-language.md:1369-1371:
\* it can "perform the operations atomically").
MergeAtomic ==
    at = "idle" => \A r \in refused : r[1] = "merge" => r[2] \notin work
=============================================================================
