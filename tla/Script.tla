------------------------------- MODULE Script -------------------------------
(***************************************************************************)
(* A multi-statement script (driver.go ExecContext, QueryContext; the DDL  *)
(* actions of internal/stmt_action.go; Rows.Close of internal/rows.go).    *)
(*                                                                         *)
(* A session runs the statements of a script one by one.  A DDL statement  *)
(* changes three things in turn, each of which can fail: the schema of the *)
(* SQLite database (db), the catalog in memory (cat), and the row of       *)
(* googlesqlite_catalog (rows).  It also notes the change for the caller   *)
(* (ChangedCatalog: added, deleted).  When the script ends every action's  *)
(* Cleanup runs, which removes the TEMP objects: at the end of             *)
(* ExecContext, at the end of a QueryContext that fails, or else when the  *)
(* caller closes the Rows.                                                 *)
(*                                                                         *)
(* Sessions share the database and the catalog, so their steps interleave. *)
(* An operation of the catalog, which holds c.mu, is one step; module      *)
(* Catalog looks inside it.  The fields temp and by of an object in db     *)
(* record who made it; SQLite itself does not know.                        *)
(***************************************************************************)
EXTENDS Naturals, Sequences

CONSTANTS
    Sessions,
    Kinds,       \* "table", "view", "function", "tvf"
    PermNames,   \* names that statements without TEMP use
    TempNames,   \* names that TEMP statements use
    Bodies,      \* what a definition says: columns or query
    Modes,       \* forms of CREATE
    NoObj,
    MaxStmts,    \* bound on the statements of a script
    MaxScripts   \* bound on the scripts of a session

Names == PermNames \cup TempNames

\* A table and a view of one name exclude each other, in SQLite and in
\* c.tableMap; functions and TVFs have maps of their own.
Space(kind) == IF kind \in {"table", "view"} THEN "relation" ELSE kind
Spaces == {Space(k) : k \in Kinds}

Object == [kind : Kinds, body : Bodies, temp : BOOLEAN, by : Sessions]

CreateStmt ==
    {st \in [do : {"create"}, kind : Kinds, name : Names, body : Bodies, temp : BOOLEAN, mode : Modes] :
        /\ st.name \in IF st.temp THEN TempNames ELSE PermNames
        /\ st.kind \in {"function", "tvf"} => st.mode = "default"
        /\ st.mode = "ifNotExistsAs" => st.kind = "table"}

DropStmt == [do : {"drop"}, kind : Kinds, name : Names, ifExists : BOOLEAN]

Stmt == CreateStmt \cup DropStmt

Phases == {"idle", "next", "drop", "create", "add", "dropObject", "forget",
           "rows", "clean", "cleanForget"}

ASSUME ParameterAssumption ==
    /\ Kinds \subseteq {"table", "view", "function", "tvf"}
    /\ Modes \subseteq {"default", "replace", "ifNotExists", "ifNotExistsAs"}
    /\ NoObj \notin Object
    /\ MaxStmts \in Nat
    /\ MaxScripts \in Nat

VARIABLES
    db,        \* db[n]: the SQLite table or view named n
    cat,       \* cat[sp][n]: the spec in c.tableMap, c.funcMap, c.tvfMap
    rows,      \* rows[n]: the row of googlesqlite_catalog
    fresh,     \* names whose row was saved after the last Catalog.Sync
    wiped,     \* history: names that a CREATE dropped and has not made again
    phase,     \* phase[s]: where session s is in its script
    entry,     \* entry[s]: "exec" or "query"
    acts,      \* acts[s]: the actions whose Cleanup is due
    next,      \* next[s]: the action whose Cleanup is next
    failed,    \* failed[s]: a statement of the script failed
    err,       \* err[s]: the script reports an error
    cancelled, \* cancelled[s]: the caller's context is done
    own,       \* own[s]: Cleanup runs with a context of its own (Rows.Close)
    added, deleted, \* the ChangedCatalog of the script
    before,    \* the persistent objects when the script started
    scripts    \* scripts[s]: how many scripts s has started

dataVars == <<db, cat, rows, fresh, wiped>>
ctlVars == <<entry, acts, next, failed, err, cancelled, own, before, scripts>>
ccVars == <<added, deleted>>
vars == <<db, cat, rows, fresh, wiped, phase, entry, acts, next, failed, err, cancelled, own,
          added, deleted, before, scripts>>

TypeOK ==
    /\ db \in [Names -> Object \cup {NoObj}]
    /\ cat \in [Spaces -> [Names -> Object \cup {NoObj}]]
    /\ rows \in [Names -> Object \cup {NoObj}]
    /\ fresh \subseteq Names
    /\ wiped \subseteq Names
    /\ phase \in [Sessions -> Phases]
    /\ entry \in [Sessions -> {"exec", "query"}]
    /\ acts \in [Sessions -> Seq(Stmt)]
    /\ next \in [Sessions -> Nat]
    /\ failed \in [Sessions -> BOOLEAN]
    /\ err \in [Sessions -> BOOLEAN]
    /\ cancelled \in [Sessions -> BOOLEAN]
    /\ own \in [Sessions -> BOOLEAN]
    /\ added \in [Sessions -> SUBSET (Spaces \X Names)]
    /\ deleted \in [Sessions -> SUBSET (Spaces \X Names)]
    /\ before \in [Sessions -> SUBSET (Spaces \X Names)]
    /\ scripts \in [Sessions -> Nat]

Init ==
    /\ db = [n \in Names |-> NoObj]
    /\ cat = [sp \in Spaces |-> [n \in Names |-> NoObj]]
    /\ rows = [n \in Names |-> NoObj]
    /\ fresh = {}
    /\ wiped = {}
    /\ phase = [s \in Sessions |-> "idle"]
    /\ entry = [s \in Sessions |-> "exec"]
    /\ acts = [s \in Sessions |-> <<>>]
    /\ next = [s \in Sessions |-> 1]
    /\ failed = [s \in Sessions |-> FALSE]
    /\ err = [s \in Sessions |-> FALSE]
    /\ cancelled = [s \in Sessions |-> FALSE]
    /\ own = [s \in Sessions |-> FALSE]
    /\ added = [s \in Sessions |-> {}]
    /\ deleted = [s \in Sessions |-> {}]
    /\ before = [s \in Sessions |-> {}]
    /\ scripts = [s \in Sessions |-> 0]

-----------------------------------------------------------------------------
(* The script.                                                             *)

Last(s) == acts[s][Len(acts[s])]

\* The persistent objects of catalog c.
PersistentIn(c) == {o \in Spaces \X Names : c[o[1]][o[2]] # NoObj /\ ~c[o[1]][o[2]].temp}
Persistent == PersistentIn(cat)

\* The catalog after Sync has read the rows saved since the last one.
Synced == [sp \in Spaces |-> [n \in Names |->
             IF n \in fresh /\ rows[n] # NoObj /\ Space(rows[n].kind) = sp
             THEN rows[n] ELSE cat[sp][n]]]

Goto(s, p) == phase' = [phase EXCEPT ![s] = p]

\* ExecContext or QueryContext is called: a new internal.Conn, a new list of
\* actions.  Analyze syncs the catalog before it parses the script.
StartScript(s, e) ==
    /\ phase[s] = "idle"
    /\ scripts[s] < MaxScripts
    /\ Goto(s, "next")
    /\ scripts' = [scripts EXCEPT ![s] = @ + 1]
    /\ entry' = [entry EXCEPT ![s] = e]
    /\ acts' = [acts EXCEPT ![s] = <<>>]
    /\ next' = [next EXCEPT ![s] = 1]
    /\ failed' = [failed EXCEPT ![s] = FALSE]
    /\ err' = [err EXCEPT ![s] = FALSE]
    /\ cancelled' = [cancelled EXCEPT ![s] = FALSE]
    /\ own' = [own EXCEPT ![s] = FALSE]
    /\ added' = [added EXCEPT ![s] = {}]
    /\ deleted' = [deleted EXCEPT ![s] = {}]
    /\ cat' = Synced
    /\ fresh' = {}
    /\ before' = [before EXCEPT ![s] = PersistentIn(Synced)]
    /\ UNCHANGED <<db, rows, wiped>>

\* Mutant: QueryContext leaves the Cleanup of a failed script to Rows.Close.
UnwindUncleaned(s) ==
    /\ Goto(s, IF entry[s] = "exec" THEN "clean" ELSE "idle")
    /\ failed' = [failed EXCEPT ![s] = TRUE]
    /\ err' = [err EXCEPT ![s] = TRUE]
    /\ UNCHANGED <<entry, acts, next, cancelled, own, before, scripts>>

\* A statement failed: no further statement runs and Cleanup begins, for the
\* failed statement's own action too.
Unwind(s) ==
    /\ Goto(s, "clean")
    /\ failed' = [failed EXCEPT ![s] = TRUE]
    /\ err' = [err EXCEPT ![s] = TRUE]
    /\ UNCHANGED <<entry, acts, next, cancelled, own, before, scripts>>

\* The action of the next statement is built and recorded, then executed.
\* CREATE TABLE IF NOT EXISTS ... AS SELECT returns at once when the catalog
\* has the table; CREATE OR REPLACE, and CREATE TEMP TABLE, drop first.
FirstStep(st) ==
    CASE st.do = "drop" /\ Space(st.kind) = "relation" -> "dropObject"
      [] st.do = "drop" /\ Space(st.kind) # "relation" -> "forget"
      [] st.do = "create" /\ Space(st.kind) # "relation" -> "add"
      [] OTHER -> IF st.mode = "ifNotExistsAs" /\ ~st.temp /\ cat["relation"][st.name] # NoObj
                  THEN "next"
                  ELSE IF st.mode = "replace" \/ (st.kind = "table" /\ st.temp)
                       THEN "drop" ELSE "create"

Issue(s, st) ==
    /\ phase[s] = "next"
    /\ Len(acts[s]) < MaxStmts
    /\ acts' = [acts EXCEPT ![s] = Append(@, st)]
    /\ Goto(s, FirstStep(st))
    /\ UNCHANGED <<dataVars, ccVars, entry, next, failed, err, cancelled, own, before, scripts>>

\* A statement that does not analyze, or a query or DML statement that
\* fails: it has no Cleanup.  (One that succeeds changes nothing here.)
FailStmt(s) ==
    /\ phase[s] = "next"
    /\ Len(acts[s]) < MaxStmts
    /\ Unwind(s)
    /\ UNCHANGED <<dataVars, ccVars>>

\* The analyzer or the formatter panics on the next statement.  The deferred
\* Cleanup of ExecContext runs.  That of QueryContext looks at e, which is
\* still nil: it gives the actions to the Rows of an earlier statement, and
\* recoverPanicAsError returns an error in their place.
Panic(s) ==
    /\ phase[s] = "next"
    /\ Len(acts[s]) < MaxStmts
    /\ Goto(s, IF entry[s] = "exec" THEN "clean" ELSE "idle")
    /\ failed' = [failed EXCEPT ![s] = TRUE]
    /\ err' = [err EXCEPT ![s] = TRUE]
    /\ UNCHANGED <<dataVars, ccVars, entry, acts, next, cancelled, own, before, scripts>>

\* Mutant: QueryContext drops the TEMP tables before the Rows are read.
FinishEager(s) ==
    /\ phase[s] = "next"
    /\ Goto(s, IF entry[s] = "exec" THEN "clean" ELSE "rows")
    /\ db' = [n \in Names |-> IF db[n] # NoObj /\ db[n].temp THEN NoObj ELSE db[n]]
    /\ UNCHANGED <<cat, rows, fresh, wiped, ccVars, ctlVars>>

\* The last statement is done.  ExecContext cleans up now, QueryContext
\* leaves it to the Rows it returns.
Finish(s) ==
    /\ phase[s] = "next"
    /\ Goto(s, IF entry[s] = "exec" THEN "clean" ELSE "rows")
    /\ UNCHANGED <<dataVars, ccVars, ctlVars>>

\* Rows.Close, by the caller or by database/sql when the context is done:
\* its Cleanup uses context.Background().
CloseRows(s) ==
    /\ phase[s] = "rows"
    /\ Goto(s, "clean")
    /\ own' = [own EXCEPT ![s] = TRUE]
    /\ UNCHANGED <<dataVars, ccVars, entry, acts, next, failed, err, cancelled, before, scripts>>

\* The caller's context is done.
Cancel(s) ==
    /\ phase[s] # "idle"
    /\ ~cancelled[s]
    /\ cancelled' = [cancelled EXCEPT ![s] = TRUE]
    /\ UNCHANGED <<dataVars, ccVars, phase, entry, acts, next, failed, err, own, before, scripts>>

-----------------------------------------------------------------------------
(* One statement.                                                          *)

ObjectOf(s, st) == [kind |-> st.kind, body |-> st.body, temp |-> st.temp, by |-> s]

\* DROP TABLE IF EXISTS or DROP VIEW IF EXISTS can run: SQLite refuses to
\* drop a view as a table and the other way round.
Droppable(st) == db[st.name] # NoObj => db[st.name].kind = st.kind

\* DROP TABLE IF EXISTS or DROP VIEW IF EXISTS, before the CREATE and
\* committed on its own.
StepDrop(s) ==
    LET st == Last(s) IN
    /\ phase[s] = "drop"
    /\ \/ /\ ~cancelled[s] /\ Droppable(st)
          /\ db' = [db EXCEPT ![st.name] = NoObj]
          /\ wiped' = wiped \cup {st.name}
          /\ Goto(s, "create")
          /\ UNCHANGED ctlVars
       \/ /\ Unwind(s)
          /\ UNCHANGED <<db, wiped>>
    /\ UNCHANGED <<cat, rows, fresh, ccVars>>

\* CREATE TABLE, CREATE VIEW: with IF NOT EXISTS, SQLite leaves what exists.
\* The statement may fail for a reason of its own (the query of CREATE TABLE
\* AS SELECT); what its DROP removed stays removed.
StepCreate(s) ==
    LET st == Last(s) IN
    /\ phase[s] = "create"
    /\ \/ /\ ~cancelled[s]
          /\ db[st.name] = NoObj \/ st.mode = "ifNotExists"
          /\ db' = IF db[st.name] = NoObj
                   THEN [db EXCEPT ![st.name] = ObjectOf(s, st)]
                   ELSE db
          /\ wiped' = wiped \ {st.name}
          /\ Goto(s, "add")
          /\ UNCHANGED ctlVars
       \/ /\ Unwind(s)
          /\ UNCHANGED <<db, wiped>>
    /\ UNCHANGED <<cat, rows, fresh, ccVars>>

Note(s, o) ==
    /\ added' = [added EXCEPT ![s] = @ \cup {o}]
    /\ deleted' = [deleted EXCEPT ![s] = @ \ {o}]

\* Mutant: the spec is looked up after the catalog has forgotten it.
NoteDeletedNil(s, o) ==
    /\ added' = [added EXCEPT ![s] = @ \ {o}]
    /\ deleted' = [deleted EXCEPT ![s] = @ \cup {NoObj}]

NoteDeleted(s, o) ==
    /\ added' = [added EXCEPT ![s] = @ \ {o}]
    /\ deleted' = [deleted EXCEPT ![s] = @ \cup {o}]

\* upsertCatalogQuery: rows are keyed by name alone, and the kind column of a
\* row that exists stays.  (A TableSpec says itself whether it is a view.)
Upsert(row, spec) ==
    IF row # NoObj /\ Space(row.kind) # Space(spec.kind)
    THEN [spec EXCEPT !.kind = row.kind] ELSE spec

\* Mutant: TEMP tables are noted as added too.
StepAddNoted(s) ==
    LET st == Last(s)
        o == <<Space(st.kind), st.name>>
    IN
    /\ phase[s] = "add"
    /\ cat' = [cat EXCEPT ![o[1]][o[2]] = ObjectOf(s, st)]
    /\ rows' = IF st.temp THEN rows
               ELSE [rows EXCEPT ![st.name] = Upsert(@, ObjectOf(s, st))]
    /\ fresh' = IF st.temp THEN fresh ELSE fresh \cup {st.name}
    /\ IF st.kind = "view" THEN UNCHANGED ccVars ELSE Note(s, o)
    /\ Goto(s, "next")
    /\ UNCHANGED <<db, wiped, ctlVars>>

\* AddNewTableSpec, AddNewFunctionSpec, AddNewTVFSpec: memory, then the row.
\* A table that is not TEMP, and every function, is noted as added; a view is
\* noted by its Cleanup.
StepAdd(s) ==
    LET st == Last(s)
        o == <<Space(st.kind), st.name>>
    IN
    /\ phase[s] = "add"
    /\ cat' = [cat EXCEPT ![o[1]][o[2]] = ObjectOf(s, st)]
    /\ IF cancelled[s] /\ ~st.temp
       THEN /\ Unwind(s)
            /\ UNCHANGED <<rows, fresh, ccVars>>
       ELSE /\ rows' = IF st.temp THEN rows
                       ELSE [rows EXCEPT ![st.name] = Upsert(@, ObjectOf(s, st))]
            /\ fresh' = IF st.temp THEN fresh ELSE fresh \cup {st.name}
            /\ IF st.kind = "view" \/ (st.kind = "table" /\ st.temp)
               THEN UNCHANGED ccVars
               ELSE Note(s, o)
            /\ Goto(s, "next")
            /\ UNCHANGED ctlVars
    /\ UNCHANGED <<db, wiped>>

\* DropStmtAction on a table or view: SQLite first.
StepDropObject(s) ==
    LET st == Last(s) IN
    /\ phase[s] = "dropObject"
    /\ \/ /\ ~cancelled[s] /\ Droppable(st) /\ (db[st.name] # NoObj \/ st.ifExists)
          /\ db' = [db EXCEPT ![st.name] = NoObj]
          /\ Goto(s, "forget")
          /\ UNCHANGED ctlVars
       \/ /\ Unwind(s)
          /\ UNCHANGED db
    /\ UNCHANGED <<cat, rows, fresh, wiped, ccVars>>

\* Mutant: IF EXISTS returns early although the catalog has the spec.
StepForgetEarly(s) ==
    LET st == Last(s)
        o == <<Space(st.kind), st.name>>
    IN
    /\ phase[s] = "forget"
    /\ IF st.ifExists
       THEN /\ Goto(s, "next")
            /\ UNCHANGED <<cat, rows, ccVars, ctlVars>>
       ELSE /\ cat' = [cat EXCEPT ![o[1]][o[2]] = NoObj]
            /\ rows' = [rows EXCEPT ![st.name] = NoObj]
            /\ NoteDeleted(s, o)
            /\ Goto(s, "next")
            /\ UNCHANGED ctlVars
    /\ UNCHANGED <<db, fresh, wiped>>

\* Mutant: the row is not deleted.
StepForgetMemory(s) ==
    LET st == Last(s)
        o == <<Space(st.kind), st.name>>
    IN
    /\ phase[s] = "forget"
    /\ cat' = [cat EXCEPT ![o[1]][o[2]] = NoObj]
    /\ NoteDeleted(s, o)
    /\ Goto(s, "next")
    /\ UNCHANGED <<db, rows, fresh, wiped, ctlVars>>

\* Then the catalog, memory before row; IF EXISTS excuses a missing spec.
StepForget(s) ==
    LET st == Last(s)
        o == <<Space(st.kind), st.name>>
    IN
    /\ phase[s] = "forget"
    /\ IF cat[o[1]][o[2]] = NoObj
       THEN /\ IF st.ifExists THEN Goto(s, "next") /\ UNCHANGED ctlVars ELSE Unwind(s)
            /\ UNCHANGED <<cat, rows, ccVars>>
       ELSE /\ cat' = [cat EXCEPT ![o[1]][o[2]] = NoObj]
            /\ IF cancelled[s]
               THEN /\ Unwind(s)
                    /\ UNCHANGED <<rows, ccVars>>
               ELSE /\ rows' = [rows EXCEPT ![st.name] = NoObj]
                    /\ NoteDeleted(s, o)
                    /\ Goto(s, "next")
                    /\ UNCHANGED ctlVars
    /\ UNCHANGED <<db, fresh, wiped>>

\* The row of an object cannot be saved or deleted (a full disk, another
\* process's lock) after the catalog in memory has changed.
RowFail(s) ==
    LET st == Last(s)
        o == <<Space(st.kind), st.name>>
    IN
    /\ \/ /\ phase[s] = "add" /\ ~st.temp
          /\ cat' = [cat EXCEPT ![o[1]][o[2]] = ObjectOf(s, st)]
       \/ /\ phase[s] = "forget" /\ cat[o[1]][o[2]] # NoObj
          /\ cat' = [cat EXCEPT ![o[1]][o[2]] = NoObj]
    /\ Unwind(s)
    /\ UNCHANGED <<db, rows, fresh, wiped, ccVars>>

-----------------------------------------------------------------------------
(* Cleanup, action by action; an error is collected and the next runs.     *)

Blocked(s) == cancelled[s] /\ ~own[s]

\* Mutant: Cleanup stops at the first error and waits there.
CleanupDoneStuck(s, ok) ==
    /\ Goto(s, "clean")
    /\ next' = [next EXCEPT ![s] = IF ok THEN @ + 1 ELSE @]
    /\ err' = [err EXCEPT ![s] = @ \/ ~ok]
    /\ UNCHANGED <<entry, acts, failed, cancelled, own, before, scripts>>

CleanupDone(s, ok) ==
    /\ Goto(s, "clean")
    /\ next' = [next EXCEPT ![s] = @ + 1]
    /\ err' = [err EXCEPT ![s] = @ \/ ~ok]
    /\ UNCHANGED <<entry, acts, failed, cancelled, own, before, scripts>>

\* An action without TEMP has nothing to undo; that of a view notes the view
\* as added, here, whether or not its statement succeeded.
CleanNothing(s) ==
    /\ phase[s] = "clean"
    /\ next[s] <= Len(acts[s])
    /\ LET st == acts[s][next[s]] IN
       /\ ~(st.do = "create" /\ st.temp)
       /\ IF st.do = "create" /\ st.kind = "view"
          THEN Note(s, <<"relation", st.name>>)
          ELSE UNCHANGED ccVars
    /\ CleanupDone(s, TRUE)
    /\ UNCHANGED dataVars

\* Mutant: Cleanup does not ask whether the object is TEMP.
CleanDropAll(s) ==
    /\ phase[s] = "clean"
    /\ next[s] <= Len(acts[s])
    /\ LET st == acts[s][next[s]] IN
       /\ st.do = "create"
       /\ db' = IF Space(st.kind) = "relation" THEN [db EXCEPT ![st.name] = NoObj] ELSE db
    /\ Goto(s, "cleanForget")
    /\ UNCHANGED <<cat, rows, fresh, wiped, ccVars, ctlVars>>

\* DROP TABLE IF EXISTS or DROP VIEW IF EXISTS of a TEMP table or view.
CleanDrop(s) ==
    /\ phase[s] = "clean"
    /\ next[s] <= Len(acts[s])
    /\ LET st == acts[s][next[s]] IN
       /\ st.do = "create" /\ st.temp
       /\ IF Space(st.kind) # "relation"
          THEN /\ Goto(s, "cleanForget")
               /\ UNCHANGED <<db, ctlVars>>
          ELSE IF ~Blocked(s) /\ Droppable(st)
               THEN /\ db' = [db EXCEPT ![st.name] = NoObj]
                    /\ Goto(s, "cleanForget")
                    /\ UNCHANGED ctlVars
               ELSE /\ CleanupDone(s, FALSE)
                    /\ UNCHANGED db
    /\ UNCHANGED <<cat, rows, fresh, wiped, ccVars>>

\* Mutant: a spec that is gone is always an error.
CleanForgetStrict(s) ==
    LET st == acts[s][next[s]]
        sp == Space(st.kind)
    IN
    /\ phase[s] = "cleanForget"
    /\ cat' = [cat EXCEPT ![sp][st.name] = NoObj]
    /\ rows' = IF cat[sp][st.name] = NoObj THEN rows ELSE [rows EXCEPT ![st.name] = NoObj]
    /\ CleanupDone(s, cat[sp][st.name] # NoObj)
    /\ UNCHANGED <<db, fresh, wiped, ccVars>>

\* DeleteTableSpec, DeleteFunctionSpec, DeleteTVFSpec.  A spec that is gone
\* is an error, except for a table.  (For a table hasTableSpec and
\* DeleteTableSpec lock c.mu one after the other; here they are one step.)
CleanForget(s) ==
    LET st == acts[s][next[s]]
        sp == Space(st.kind)
    IN
    /\ phase[s] = "cleanForget"
    /\ IF cat[sp][st.name] = NoObj
       THEN /\ CleanupDone(s, st.kind = "table")
            /\ UNCHANGED <<cat, rows>>
       ELSE /\ cat' = [cat EXCEPT ![sp][st.name] = NoObj]
            /\ rows' = IF Blocked(s) THEN rows ELSE [rows EXCEPT ![st.name] = NoObj]
            /\ CleanupDone(s, ~Blocked(s))
    /\ UNCHANGED <<db, fresh, wiped, ccVars>>

EndScript(s) ==
    /\ phase[s] = "clean"
    /\ next[s] > Len(acts[s])
    /\ Goto(s, "idle")
    /\ UNCHANGED <<dataVars, ccVars, ctlVars>>

-----------------------------------------------------------------------------

Next ==
    \E s \in Sessions :
        \/ \E e \in {"exec", "query"} : StartScript(s, e)
        \/ \E st \in Stmt : Issue(s, st)
        \/ FailStmt(s) \/ Finish(s) \/ CloseRows(s)
        \/ StepDrop(s) \/ StepCreate(s) \/ StepAdd(s)
        \/ StepDropObject(s) \/ StepForget(s)
        \/ CleanNothing(s) \/ CleanDrop(s) \/ CleanForget(s) \/ EndScript(s)

\* What may happen to a script from outside: a panic in the analyzer, the end
\* of its context, a row that cannot be written.
Disturb == \E s \in Sessions : Panic(s) \/ Cancel(s) \/ RowFail(s)

\* The goroutine that runs a script does not stop in the middle of it, and
\* the caller closes its Rows.
Step(s) ==
    \/ Finish(s) \/ CloseRows(s)
    \/ StepDrop(s) \/ StepCreate(s) \/ StepAdd(s)
    \/ StepDropObject(s) \/ StepForget(s)
    \/ CleanNothing(s) \/ CleanDrop(s) \/ CleanForget(s) \/ EndScript(s)

Spec == Init /\ [][Next]_vars

DisturbedSpec == Init /\ [][Next \/ Disturb]_vars

FairSpec == DisturbedSpec /\ \A s \in Sessions : WF_vars(Step(s))

-----------------------------------------------------------------------------

IdleAll == \A s \in Sessions : phase[s] = "idle"

\* No TEMP object outlives its script, in SQLite or in the catalog, whether
\* the script succeeds or fails, through either entry point
\* (driver.go:524-533, 566-588; temp_table_scope_test.go:9-12).
TempGone ==
    \A s \in Sessions : phase[s] = "idle" =>
        /\ \A n \in Names : db[n] # NoObj => ~(db[n].temp /\ db[n].by = s)
        /\ \A sp \in Spaces, n \in Names :
              cat[sp][n] # NoObj => ~(cat[sp][n].temp /\ cat[sp][n].by = s)

\* A script all of whose statements succeeded reports success: the Cleanup of
\* a TEMP table copes with what the script itself dropped or created again
\* (temp_table_drop_test.go:11-16).  That of a TEMP view, function or TVF
\* does not, and is not promised to.
CleanExit ==
    \A s \in Sessions :
        /\ phase[s] = "idle" /\ ~failed[s] /\ ~cancelled[s]
        /\ \A i \in 1..Len(acts[s]) :
              acts[s][i].do = "create" /\ acts[s][i].temp => acts[s][i].kind = "table"
        => ~err[s]

\* Between scripts SQLite has the tables and views that the catalog has, with
\* the same definition, but for those a CREATE dropped and then failed to
\* make: CREATE OR REPLACE TABLE t AS SELECT 1 / 0 leaves the spec of t and
\* no table (stmt_action.go:85-97).
SchemaAgrees ==
    IdleAll /\ "relation" \in Spaces =>
        \A n \in Names :
            LET c == cat["relation"][n] IN
            /\ db[n] = NoObj <=> c = NoObj \/ n \in wiped
            /\ db[n] # NoObj => c.kind = db[n].kind /\ c.body = db[n].body

\* Between scripts googlesqlite_catalog holds the persistent objects, so a
\* process that starts now loads the catalog this one has
\* (regression_test.go:845-847: "file-backed catalogs survive a process
\* restart").
RestartExact ==
    IdleAll =>
        /\ Persistent = {<<Space(rows[n].kind), n>> : n \in {m \in Names : rows[m] # NoObj}}
        /\ \A o \in Persistent : cat[o[1]][o[2]] = rows[o[2]]

\* Replaying the ChangedCatalog of a successful script into a copy of the
\* catalog gives the catalog (driver_test.go:625-629: a consumer "can replay
\* the change into its per-project storage").  Scripts that touch views are
\* exempt: a view is noted by its Cleanup, after a DROP of it was noted.
ReplayExact ==
    \A s \in Sessions :
        /\ phase[s] = "idle" /\ ~err[s] /\ scripts[s] > 0
        /\ \A i \in 1..Len(acts[s]) : acts[s][i].kind # "view"
        => (before[s] \ deleted[s]) \cup added[s] = Persistent

\* A script takes a persistent object out of the catalog only by a DROP that
\* names it.
PersistentSurvives ==
    \A s \in Sessions :
        phase[s] = "idle" =>
            \A o \in before[s] \ Persistent :
                \E i \in 1..Len(acts[s]) :
                    acts[s][i].do = "drop" /\ o = <<Space(acts[s][i].kind), acts[s][i].name>>

\* The TEMP table or view a script made last under a name, and has not
\* dropped, is there, the script's own, until the script ends
\* (temp_table_scope_test.go:10: "BigQuery scopes temp tables to their
\* script").
TempHeld ==
    \A s \in Sessions :
        phase[s] \in {"next", "rows"} =>
            \A i \in 1..Len(acts[s]) :
                /\ acts[s][i].do = "create"
                /\ acts[s][i].temp
                /\ Space(acts[s][i].kind) = "relation"
                /\ \A j \in (i + 1)..Len(acts[s]) : acts[s][j].name # acts[s][i].name
                => db[acts[s][i].name] # NoObj /\ db[acts[s][i].name].by = s

\* Every script ends: no mix of failures, cancellation and Cleanup errors
\* leaves a session in the middle of one.
ScriptEnds == \A s \in Sessions : phase[s] # "idle" ~> phase[s] = "idle"

\* Property: a TEMP object is there for the rest of its script and for nothing
\* after it.
TempScoped == TempHeld /\ TempGone

\* Property: between scripts, whichever statements failed, the catalog in
\* memory and the stored rows tell the same, and so does SQLite's schema
\* except for the names whose last CREATE failed after its own DROP.
StoresAgree == SchemaAgrees /\ RestartExact
=============================================================================
