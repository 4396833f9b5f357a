--------------------------- MODULE SessionsProofs ---------------------------
(***************************************************************************)
(* Proofs about the sessions that share a catalog and a database file, for *)
(* any sessions, tables, columns and statements.                           *)
(***************************************************************************)
EXTENDS Sessions, SequenceTheorems, TLAPS

USE ParameterAssumption

\* Where an ALTER TABLE is past its analysis, and past its first read.
Altering == {"add", "drop", "reset", "unsave", "readd", "save"}
AlterAt == Altering \cup {"alter"}

\* A session inside a call, or with the RESERVED lock, has a statement.
StmtOK ==
    \A s \in Sessions :
        /\ at[s] # "idle" \/ writer = s => stmt[s] \in Statements[s]
        /\ at[s] \in AlterAt => stmt[s].kind = "alter"

TypeInv == TypeOK /\ StmtOK

-----------------------------------------------------------------------------

\* c.mu is held across the rebuild of the catalog and the SQL statements of
\* Sync, DeleteTableSpec and AddNewTableSpec.
Held == {"sync", "reset", "unsave", "save"}
MuOK == \A s \in Sessions : at[s] \in Held => mu = s

\* A table that nobody alters keeps its row, and its spec but for the session
\* that rebuilds the catalog.
RowsThere ==
    \A t \in Tables \ Altered : disk.row[t] # None /\ (writer # None => work.row[t] # None)

SpecsThere ==
    \A t \in Tables \ Altered :
        map[t] # None \/ \E s \in Sessions : at[s] = "reset" /\ todo[s][t] # None

InfoInv == TypeInv /\ MuOK /\ RowsThere /\ SpecsThere /\ InfoComplete

-----------------------------------------------------------------------------

NoDdlTx == "ddlTx" \notin Environment

\* ALTER TABLE runs outside a Tx.
TxOK ==
    \A s \in Sessions :
        at[s] \notin {"idle", "commit"} /\ stmt[s].kind = "alter" => s \notin tx

\* The writer is inside a Tx, or waits to commit the SQL statement it is at.
WriterOK ==
    \A w \in Sessions : writer = w /\ w \notin tx =>
        \/ at[w] = "run" /\ stmt[w].kind = "dml"
        \/ at[w] = "add" /\ left[w] # <<>> /\ Head(left[w]) \notin copy[w]
        \/ at[w] \in {"unsave", "save"}

AddsTo(w, t) == w \in Sessions /\ w \notin tx /\ at[w] = "add" /\ Tbl(w) = t
RowOf(w, t) == w \in Sessions /\ w \notin tx /\ at[w] \in {"unsave", "save"} /\ Tbl(w) = t

\* What the writer's view has that the file has not: the one change of an
\* ALTER TABLE.
WorkIs(t) ==
    /\ work.cols[t] = IF AddsTo(writer, t)
                      THEN disk.cols[t] \cup {Head(left[writer])} ELSE disk.cols[t]
    /\ IF RowOf(writer, t)
       THEN IF at[writer] = "unsave" THEN work.row[t] = None /\ t \notin work.recent
            ELSE work.row[t] = copy[writer]
       ELSE work.row[t] = disk.row[t] /\ (t \in work.recent => t \in disk.recent)

WorkOK == writer # None => \A t \in Tables : WorkIs(t)

Alters(s, t) == at[s] \in Altering /\ Tbl(s) = t

\* SpecWithinTable, for the specs under way too.
Within(spec, t) == spec # None => spec \subseteq disk.cols[t]

SessionWithin(s) ==
    /\ at[s] = "run" => Within(seen[s], Tbl(s))
    /\ at[s] = "reset" => \A t \in Tables : Within(todo[s][t], t)
    /\ at[s] \in Altering => Within(copy[s], Tbl(s))

WithinOK ==
    /\ \A t \in Tables : Within(map[t], t) /\ Within(res[t], t) /\ Within(disk.row[t], t)
    /\ \A s \in Sessions : SessionWithin(s)

WithinInv == TypeInv /\ TxOK /\ WriterOK /\ WorkOK /\ WithinOK

-----------------------------------------------------------------------------

\* Each table is altered by one session: AlterTableStmtAction.exec builds the
\* new spec from a copy that another ALTER TABLE may overtake.
OneAlterer ==
    \A s, u \in Sessions : \A p \in Statements[s], q \in Statements[u] :
        p.kind = "alter" /\ q.kind = "alter" /\ p.table = q.table => s = u

\* changed[s] says whether the statement has added a column.
ChangedOK ==
    \A s \in Sessions :
        /\ at[s] \in {"wasm", "mu", "sync", "resolve", "alter"} => ~changed[s]
        /\ at[s] \in Altering \ {"add"} => changed[s]

\* What resetCatalog has still to add is not in the catalog.
TodoOK ==
    \A s \in Sessions, t \in Tables : at[s] = "reset" /\ todo[s][t] # None => map[t] = None

\* No ALTER TABLE has changed the table and is not done with it: its columns
\* are the same everywhere, but for a rebuild of the catalog.
Settled(t) == \A s \in Sessions : Alters(s, t) => at[s] = "add" /\ ~changed[s]

TableSettled(t) ==
    /\ disk.row[t] = disk.cols[t]
    /\ res[t] = map[t]
    /\ \/ map[t] = disk.cols[t]
       \/ map[t] = None /\ \E u \in Sessions : at[u] = "reset" /\ todo[u][t] = disk.cols[t]

\* How far the ALTER TABLE of session s is with table t.
TableAltered(s, t) ==
    /\ copy[s] = disk.cols[t]
    /\ at[s] \in {"reset", "unsave", "readd"} =>
          /\ map[t] = None /\ res[t] = None
          /\ \A u \in Sessions : at[u] = "reset" => todo[u][t] = None
    /\ at[s] = "readd" => disk.row[t] = None /\ t \notin disk.recent
    /\ at[s] = "save" => map[t] = disk.cols[t] /\ res[t] = disk.cols[t]

TableOK(t) ==
    /\ Settled(t) => TableSettled(t)
    /\ \A s \in Sessions : Alters(s, t) => TableAltered(s, t)

AppliedInv == WithinInv /\ MuOK /\ ChangedOK /\ TodoOK /\ \A t \in Tables \ torn : TableOK(t)

-----------------------------------------------------------------------------
(* What an SQL statement that writes does.                                 *)

WritesInTx(s, new) ==
    /\ s \in tx /\ CanReserve(s)
    /\ writer' = s /\ work' = new
    /\ Reading(s)
    /\ UNCHANGED <<flushing, disk>>

Reserves(s, new) ==
    /\ s \notin tx /\ writer # s /\ CanReserve(s)
    /\ writer' = s /\ work' = new /\ flushing' = TRUE
    /\ UNCHANGED <<reading, disk, lockVars, catalogVars, at, alterVars, torn>>

Flushes(s) ==
    /\ s \notin tx /\ CanFlush(s)
    /\ disk' = work /\ writer' = None /\ flushing' = FALSE
    /\ UNCHANGED <<reading, work>>

ColAdded(D, t, h) == [D EXCEPT !.cols[t] = @ \cup {h}]
RowGone(D, t) == [D EXCEPT !.row[t] = None, !.recent = @ \ {t}]
RowSet(D, t, r) == [D EXCEPT !.row[t] = r, !.recent = @ \cup {t}]

WithColumn(s) == ColAdded(View(s), Tbl(s), Head(left[s]))
WithoutRow(s) == RowGone(View(s), Tbl(s))
WithRow(s) == RowSet(View(s), Tbl(s), copy[s])

LEMMA DmlSteps ==
    ASSUME NEW s, Dml(s)
    PROVE  /\ UNCHANGED <<lockVars, catalogVars, alterVars, torn>>
           /\ \/ WritesInTx(s, View(s)) /\ Goto(s, "idle")
              \/ Reserves(s, View(s))
              \/ Flushes(s) /\ Goto(s, "idle")
BY DEF Dml, Write, WritesInTx, Reserves, Flushes

LEMMA AddColumnSteps ==
    ASSUME NEW s, AddColumn(s)
    PROVE  \/ WritesInTx(s, WithColumn(s)) /\ AddedColumn(s)
           \/ Reserves(s, WithColumn(s))
           \/ Flushes(s) /\ AddedColumn(s)
BY DEF AddColumn, Write, WritesInTx, Reserves, Flushes, WithColumn, ColAdded

LEMMA DeleteRowSteps ==
    ASSUME NEW s, DeleteRow(s)
    PROVE  /\ UNCHANGED <<wasm, catalogVars, alterVars, torn>>
           /\ \/ WritesInTx(s, WithoutRow(s)) /\ Goto(s, "readd") /\ mu' = None
              \/ Reserves(s, WithoutRow(s))
              \/ Flushes(s) /\ Goto(s, "readd") /\ mu' = None
BY DEF DeleteRow, Write, WritesInTx, Reserves, Flushes, WithoutRow, RowGone, lockVars

LEMMA SaveRowSteps ==
    ASSUME NEW s, SaveRow(s)
    PROVE  /\ UNCHANGED <<wasm, catalogVars, alterVars, torn>>
           /\ \/ WritesInTx(s, WithRow(s)) /\ Goto(s, "idle") /\ mu' = None
              \/ Reserves(s, WithRow(s))
              \/ Flushes(s) /\ Goto(s, "idle") /\ mu' = None
BY DEF SaveRow, Write, WritesInTx, Reserves, Flushes, WithRow, RowSet, lockVars

-----------------------------------------------------------------------------
(* Databases.                                                              *)

LEMMA ColAddedIs ==
    ASSUME NEW D \in Database, NEW t \in Tables, NEW h \in Columns
    PROVE  /\ ColAdded(D, t, h) \in Database
           /\ ColAdded(D, t, h).row = D.row /\ ColAdded(D, t, h).recent = D.recent
           /\ ColAdded(D, t, h).cols = [D.cols EXCEPT ![t] = @ \cup {h}]
<1>1. [D.cols EXCEPT ![t] = @ \cup {h}] \in [Tables -> SUBSET Columns]
  BY DEF Database
<1> QED
  BY <1>1 DEF Database, ColAdded

LEMMA RowGoneIs ==
    ASSUME NEW D \in Database, NEW t \in Tables
    PROVE  /\ RowGone(D, t) \in Database
           /\ RowGone(D, t).cols = D.cols /\ RowGone(D, t).recent = D.recent \ {t}
           /\ RowGone(D, t).row = [D.row EXCEPT ![t] = None]
<1> DEFINE e == [D EXCEPT !.row[t] = None]
<1>1. [D.row EXCEPT ![t] = None] \in [Tables -> Specs]
  BY DEF Database, Specs
<1>2. e \in Database /\ e.cols = D.cols /\ e.recent = D.recent /\ e.row = [D.row EXCEPT ![t] = None]
  BY <1>1 DEF Database
<1> HIDE DEF e
<1>3. LET d == [e EXCEPT !.recent = @ \ {t}]
      IN  d \in Database /\ d.cols = e.cols /\ d.recent = e.recent \ {t} /\ d.row = e.row
  BY <1>2 DEF Database
<1> QED
  BY <1>2, <1>3 DEF e, RowGone

LEMMA RowSetIs ==
    ASSUME NEW D \in Database, NEW t \in Tables, NEW r \in Specs
    PROVE  /\ RowSet(D, t, r) \in Database
           /\ RowSet(D, t, r).cols = D.cols /\ RowSet(D, t, r).recent = D.recent \cup {t}
           /\ RowSet(D, t, r).row = [D.row EXCEPT ![t] = r]
<1> DEFINE e == [D EXCEPT !.row[t] = r]
<1>1. [D.row EXCEPT ![t] = r] \in [Tables -> Specs]
  BY DEF Database
<1>2. e \in Database /\ e.cols = D.cols /\ e.recent = D.recent /\ e.row = [D.row EXCEPT ![t] = r]
  BY <1>1 DEF Database
<1> HIDE DEF e
<1>3. LET d == [e EXCEPT !.recent = @ \cup {t}]
      IN  d \in Database /\ d.cols = e.cols /\ d.recent = e.recent \cup {t} /\ d.row = e.row
  BY <1>2 DEF Database
<1> QED
  BY <1>2, <1>3 DEF e, RowSet

LEMMA ClearRecent ==
    ASSUME NEW D \in Database
    PROVE  LET d == [D EXCEPT !.recent = {}]
           IN  d \in Database /\ d.cols = D.cols /\ d.row = D.row /\ d.recent = {}
BY DEF Database

LEMMA ViewType ==
    ASSUME TypeOK, NEW s \in Sessions
    PROVE  View(s) \in Database
BY DEF TypeOK, View

\* The databases that the SQL statements of ALTER TABLE make.
LEMMA WithType ==
    ASSUME TypeInv, NEW s \in Sessions, at[s] \in AlterAt
    PROVE  /\ Tbl(s) \in Tables
           /\ left[s] # <<>> =>
                 /\ Head(left[s]) \in Columns /\ Tail(left[s]) \in Seq(Columns)
                 /\ WithColumn(s) \in Database
                 /\ WithColumn(s).row = View(s).row /\ WithColumn(s).recent = View(s).recent
                 /\ WithColumn(s).cols = [View(s).cols EXCEPT ![Tbl(s)] = @ \cup {Head(left[s])}]
           /\ WithoutRow(s) \in Database
           /\ WithoutRow(s).cols = View(s).cols /\ WithoutRow(s).recent = View(s).recent \ {Tbl(s)}
           /\ WithoutRow(s).row = [View(s).row EXCEPT ![Tbl(s)] = None]
           /\ WithRow(s) \in Database
           /\ WithRow(s).cols = View(s).cols /\ WithRow(s).recent = View(s).recent \cup {Tbl(s)}
           /\ WithRow(s).row = [View(s).row EXCEPT ![Tbl(s)] = copy[s]]
<1>1. stmt[s] \in Statement
  BY DEF TypeInv, StmtOK, AlterAt, Altering
<1>2. Tbl(s) \in Tables
  BY <1>1 DEF Tbl, Statement
<1>3. View(s) \in Database /\ View(s).recent \subseteq Tables
  BY ViewType DEF TypeInv, Database
<1>4. left[s] # <<>> => Head(left[s]) \in Columns /\ Tail(left[s]) \in Seq(Columns)
  BY DEF TypeInv, TypeOK
<1>5. None \in Specs /\ copy[s] \in Specs
  BY DEF TypeInv, TypeOK, Specs
<1>6. left[s] # <<>> =>
        /\ WithColumn(s) \in Database
        /\ WithColumn(s).row = View(s).row /\ WithColumn(s).recent = View(s).recent
        /\ WithColumn(s).cols = [View(s).cols EXCEPT ![Tbl(s)] = @ \cup {Head(left[s])}]
  BY <1>2, <1>3, <1>4, ColAddedIs DEF WithColumn
<1>7. /\ WithoutRow(s) \in Database
      /\ WithoutRow(s).cols = View(s).cols /\ WithoutRow(s).recent = View(s).recent \ {Tbl(s)}
      /\ WithoutRow(s).row = [View(s).row EXCEPT ![Tbl(s)] = None]
  BY <1>2, <1>3, RowGoneIs DEF WithoutRow
<1>8. /\ WithRow(s) \in Database
      /\ WithRow(s).cols = View(s).cols /\ WithRow(s).recent = View(s).recent \cup {Tbl(s)}
      /\ WithRow(s).row = [View(s).row EXCEPT ![Tbl(s)] = copy[s]]
  BY <1>2, <1>3, <1>5, RowSetIs DEF WithRow
<1> QED
  BY <1>2, <1>4, <1>6, <1>7, <1>8

LEMMA WriteType ==
    ASSUME TypeInv, NEW s \in Sessions, NEW new \in Database,
           WritesInTx(s, new) \/ Reserves(s, new) \/ Flushes(s)
    PROVE  /\ reading' \subseteq Sessions
           /\ writer' \in {s, None}
           /\ flushing' \in BOOLEAN /\ (flushing' => writer' # None)
           /\ disk' \in Database /\ work' \in Database
BY DEF TypeInv, TypeOK, WritesInTx, Reserves, Flushes, Reading

-----------------------------------------------------------------------------
(* Type correctness.                                                       *)

Places == {"idle", "rows", "reset"} \cup AtMutex \cup AtSQL

LEMMA GotoIs ==
    ASSUME TypeOK, NEW s \in Sessions, NEW p \in Places, Goto(s, p)
    PROVE  /\ at' \in [Sessions -> Places] /\ at'[s] = p
           /\ \A u \in Sessions : u # s => at'[u] = at[u]
BY DEF TypeOK, Goto, Places

\* A session goes on with its statement.
LEMMA StmtStep ==
    ASSUME TypeInv, NEW s \in Sessions, UNCHANGED stmt, writer' \in {writer, s, None},
           at[s] # "idle" \/ writer = s,
           \A u \in Sessions : u # s => at'[u] = at[u],
           at'[s] \in AlterAt => stmt[s].kind = "alter"
    PROVE  StmtOK'
BY DEF TypeInv, TypeOK, StmtOK

\* Or it is between two statements.
LEMMA StmtIdle ==
    ASSUME TypeInv, NEW s \in Sessions, UNCHANGED stmt, writer' \in {writer, None},
           \A u \in Sessions : u # s => at'[u] = at[u], at'[s] = "idle"
    PROVE  StmtOK'
BY DEF TypeInv, TypeOK, StmtOK, AlterAt, Altering

\* The statement of a session inside a call.
LEMMA StmtType ==
    ASSUME TypeInv, NEW s \in Sessions, at[s] # "idle" \/ writer = s
    PROVE  /\ stmt[s] \in Statements[s] /\ stmt[s] \in Statement
           /\ Tbl(s) \in Tables /\ stmt[s].adds \in Seq(Columns)
           /\ stmt[s].kind \in {"select", "dml", "info", "alter"}
<1>1. stmt[s] \in Statements[s] /\ stmt[s] \in Statement
  BY DEF TypeInv, StmtOK
<1> QED
  BY <1>1 DEF Statement, Tbl

LEMMA EndTxType ==
    ASSUME TypeInv, NEW s \in Sessions, NEW db \in Database, EndTx(s, db)
    PROVE  /\ tx' \subseteq Sessions /\ reading' \subseteq Sessions
           /\ writer' \in {writer, None} /\ writer' # s
           /\ flushing' \in BOOLEAN /\ (flushing' => writer' # None)
           /\ disk' = db /\ disk' \in Database /\ work' = work /\ work' \in Database
           /\ at' \in [Sessions -> Places] /\ at'[s] = "idle"
           /\ \A u \in Sessions : u # s => at'[u] = at[u]
<1>1. Goto(s, "idle") /\ "idle" \in Places
  BY DEF EndTx, Goto, Places
<1>2. /\ at' \in [Sessions -> Places] /\ at'[s] = "idle"
      /\ \A u \in Sessions : u # s => at'[u] = at[u]
  BY <1>1, GotoIs DEF TypeInv
<1> QED
  BY <1>2 DEF EndTx, TypeInv, TypeOK

\* The part of the state that is typed by itself.
SQLType == /\ reading \subseteq Sessions
           /\ writer \in Sessions \cup {None}
           /\ flushing \in BOOLEAN /\ (flushing => writer # None)
           /\ disk \in Database /\ work \in Database
CatType == map \in [Tables -> Specs] /\ res \in [Tables -> Specs]
LockType == wasm \in Sessions \cup {None} /\ mu \in Sessions \cup {None}
AlterType == /\ left \in [Sessions -> Seq(Columns)]
             /\ copy \in [Sessions -> SUBSET Columns]
             /\ changed \in [Sessions -> BOOLEAN]
             /\ todo \in [Sessions -> [Tables -> Specs]]
CallType == /\ stmt \in [Sessions -> {None} \cup Statement]
            /\ \A s \in Sessions : stmt[s] \in {None} \cup Statements[s]
            /\ seen \in [Sessions -> Specs]
            /\ count \in [Sessions -> Nat] /\ \A s \in Sessions : count[s] <= MaxStmts[s]
GhostType == torn \subseteq Tables /\ missed \subseteq Tables /\ hidden \subseteq Tables
AtType == at \in [Sessions -> Places]
TxType == tx \subseteq Sessions

LEMMA TypeParts ==
    TypeOK <=> /\ SQLType /\ CatType /\ LockType /\ AlterType
               /\ CallType /\ GhostType /\ AtType /\ TxType
BY DEF TypeOK, SQLType, CatType, LockType, AlterType, CallType, GhostType, AtType, TxType, Places

LEMMA TypePartsNext ==
    TypeOK' <=> /\ SQLType' /\ CatType' /\ LockType' /\ AlterType'
                /\ CallType' /\ GhostType' /\ AtType' /\ TxType'
BY DEF TypeOK, SQLType, CatType, LockType, AlterType, CallType, GhostType, AtType, TxType, Places

LEMMA TypeSame ==
    ASSUME TypeOK
    PROVE  /\ UNCHANGED sqliteVars => SQLType'
           /\ UNCHANGED catalogVars => CatType'
           /\ UNCHANGED lockVars => LockType'
           /\ UNCHANGED alterVars => AlterType'
           /\ UNCHANGED callVars => CallType'
           /\ UNCHANGED ghostVars => GhostType'
           /\ UNCHANGED at => AtType'
           /\ UNCHANGED tx => TxType'
BY TypeParts DEF SQLType, CatType, LockType, AlterType, CallType, GhostType, AtType, TxType,
                 sqliteVars, catalogVars, lockVars, alterVars, callVars, ghostVars

LEMMA TornType ==
    ASSUME TypeInv, NEW s \in Sessions, Torn(s), UNCHANGED <<missed, hidden>>, at[s] # "idle"
    PROVE  GhostType'
BY StmtType DEF Torn, TypeInv, TypeOK, GhostType

LEMMA TypeFails ==
    ASSUME TypeInv, NEW s \in Sessions, SQLFails(s)
    PROVE  TypeInv'
<1> USE TypePartsNext, TypeSame DEF TypeInv
<1>t. /\ SQLType /\ CatType /\ LockType /\ AlterType
      /\ CallType /\ GhostType /\ AtType /\ TxType
  BY TypeParts
<1>1. at[s] # "idle" /\ "idle" \in Places
  BY DEF SQLFails, AtSQL, Places
<1>2. LockType'
  BY <1>t DEF SQLFails, UnlockAll, LockType
<1>3. GhostType'
  BY <1>1, TornType DEF SQLFails
<1>4. CASE EndTx(s, disk)
  <2>1. disk \in Database
    BY <1>t DEF SQLType
  <2>2. SQLType' /\ AtType' /\ TxType' /\ StmtOK'
    BY <1>t, <1>4, <2>1, EndTxType, StmtIdle DEF SQLFails, callVars, SQLType, AtType, TxType
  <2> QED
    BY <1>2, <1>3, <2>2 DEF SQLFails
<1>5. CASE Goto(s, "idle") /\ UNCHANGED <<tx, reading, writer, flushing, disk, work>>
  <2>1. AtType' /\ StmtOK'
    BY <1>1, <1>5, GotoIs, StmtIdle DEF SQLFails, callVars, AtType
  <2> QED
    BY <1>2, <1>3, <1>5, <2>1 DEF SQLFails, sqliteVars
<1> QED
  BY <1>4, <1>5 DEF SQLFails

LEMMA TypeNextStep ==
    ASSUME TypeInv, NEW s \in Sessions, Step(s)
    PROVE  TypeInv'
<1> USE TypePartsNext, TypeSame DEF TypeInv
<1>t. /\ SQLType /\ CatType /\ LockType /\ AlterType
      /\ CallType /\ GhostType /\ AtType /\ TxType
  BY TypeParts
<1>g. ASSUME NEW p \in Places, Goto(s, p), at[s] # "idle", UNCHANGED stmt,
             writer' \in {writer, s, None}, p \in AlterAt => stmt[s].kind = "alter"
      PROVE  AtType' /\ StmtOK'
  BY <1>g, GotoIs, StmtStep DEF AtType
<1>p. /\ {"idle", "mu", "sync", "resolve", "run", "rows", "scan", "alter"} \subseteq Places
      /\ AlterAt \subseteq Places
      /\ {"idle", "mu", "sync", "resolve", "run", "rows", "scan"} \cap AlterAt = {}
  BY DEF Places, AtMutex, AtSQL, AlterAt, Altering
<1>a. at[s] \in AlterAt => stmt[s].kind = "alter"
  BY DEF StmtOK
<1>1. ASSUME LockWasm(s) PROVE TypeInv'
  <2>1. AtType' /\ StmtOK'
    BY <1>1, <1>g, <1>p DEF LockWasm, sqliteVars, callVars
  <2>2. LockType'
    BY <1>1, <1>t DEF LockWasm, LockType
  <2> QED
    BY <1>1, <2>1, <2>2 DEF LockWasm
<1>2. ASSUME LockMu(s) PROVE TypeInv'
  <2>1. AtType' /\ StmtOK'
    BY <1>2, <1>g, <1>p DEF LockMu, sqliteVars, callVars
  <2>2. LockType'
    BY <1>2, <1>t DEF LockMu, LockType
  <2> QED
    BY <1>2, <2>1, <2>2 DEF LockMu
<1>3. ASSUME Sync(s) PROVE TypeInv'
  <2>1. AtType' /\ StmtOK'
    BY <1>3, <1>g, <1>p DEF Sync, callVars
  <2>2. LockType'
    BY <1>3 DEF Sync, LockType
  <2>3. SQLType'
    BY <1>3, <1>t, ClearRecent DEF Sync, SQLType, Reading
  <2>4. View(s) \in Database
    BY ViewType
  <2>5. CatType'
    BY <1>3, <1>t, <2>4 DEF Sync, CatType, Loaded, Registered, Database
  <2> QED
    BY <1>3, <2>1, <2>2, <2>3, <2>5 DEF Sync
<1>4. ASSUME Resolve(s) PROVE TypeInv'
  <2>0. Tbl(s) \in Tables
    BY <1>4, StmtType DEF Resolve
  <2>1. CASE Found(s)
    <3>1. AtType' /\ StmtOK'
      BY <1>4, <2>1, <1>g, <1>p DEF Resolve, sqliteVars
    <3>2. seen' \in [Sessions -> Specs]
      BY <1>4, <2>0, <2>1, <1>t DEF Resolve, CatType, CallType, Specs, Tbl
    <3>3. CallType'
      BY <1>4, <3>2, <1>t DEF Resolve, CallType
    <3>4. GhostType'
      BY <1>4, <2>1, <1>t DEF Resolve, GhostType
    <3> QED
      BY <1>4, <3>1, <3>3, <3>4 DEF Resolve
  <2>2. CASE ~Found(s)
    <3>1. AtType' /\ StmtOK'
      BY <1>4, <2>2, <1>g, <1>p DEF Resolve, sqliteVars
    <3>2. CallType'
      BY <1>4, <2>2, <1>t DEF Resolve, CallType
    <3>3. GhostType'
      BY <1>4, <2>0, <2>2, <1>t DEF Resolve, GhostType, Tbl
    <3> QED
      BY <1>4, <3>1, <3>2, <3>3 DEF Resolve
  <2> QED
    BY <2>1, <2>2
<1>5. ASSUME Select(s) PROVE TypeInv'
  <2>1. AtType' /\ StmtOK'
    BY <1>5, <1>g, <1>p DEF Select, callVars
  <2>2. SQLType'
    BY <1>5, <1>t DEF Select, SQLType
  <2> QED
    BY <1>5, <2>1, <2>2 DEF Select
<1>6. ASSUME OpenScan(s) PROVE TypeInv'
  <2>1. AtType' /\ StmtOK'
    BY <1>6, <1>g, <1>p DEF OpenScan, callVars
  <2>2. SQLType'
    BY <1>6, <1>t DEF OpenScan, SQLType
  <2> QED
    BY <1>6, <2>1, <2>2 DEF OpenScan
<1>7. ASSUME Filter(s) PROVE TypeInv'
  <2>1. AtType' /\ StmtOK'
    BY <1>7, <1>g, <1>p DEF Filter, sqliteVars, callVars
  <2>2. GhostType'
    BY <1>7, <1>t DEF Filter, GhostType
  <2> QED
    BY <1>7, <2>1, <2>2 DEF Filter
\* SQL statements that write.
<1>w. ASSUME NEW new \in Database, WritesInTx(s, new) \/ Reserves(s, new) \/ Flushes(s)
      PROVE  SQLType' /\ writer' \in {s, None}
  BY <1>w, WriteType DEF SQLType
<1>8. ASSUME Dml(s) PROVE TypeInv'
  <2>1. View(s) \in Database
    BY ViewType
  <2>2. SQLType' /\ writer' \in {s, None}
    BY <1>8, <1>w, <2>1, DmlSteps
  <2>3. UNCHANGED <<lockVars, catalogVars, tx, callVars, alterVars, ghostVars>> /\ at[s] = "run"
    BY <1>8, DmlSteps DEF Dml, ghostVars
  <2>4. AtType' /\ StmtOK'
    <3>1. Goto(s, "idle") \/ UNCHANGED at
      BY <1>8, DmlSteps DEF Reserves
    <3> QED
      BY <3>1, <2>2, <2>3, <1>g, <1>p, <1>a, StmtStep DEF callVars
  <2> QED
    BY <2>2, <2>3, <2>4
<1>9. ASSUME AlterRead(s) PROVE TypeInv'
  <2>1. AtType' /\ StmtOK'
    BY <1>9, <1>g, <1>p, <1>a DEF AlterRead, sqliteVars, callVars, AlterAt, Altering
  <2>2. Tbl(s) \in Tables /\ stmt[s].adds \in Seq(Columns)
    BY <1>9, StmtType DEF AlterRead
  <2>3. AlterType'
    BY <1>9, <1>t, <2>2 DEF AlterRead, AlterType, CatType, Specs
  <2> QED
    BY <1>9, <2>1, <2>3 DEF AlterRead
<1>10. ASSUME AddPresent(s) PROVE TypeInv'
  <2>1. AtType' /\ StmtOK'
    <3>1. Goto(s, "idle") \/ UNCHANGED at
      BY <1>10 DEF AddPresent
    <3>2. at[s] = "add" /\ UNCHANGED <<stmt, writer>>
      BY <1>10 DEF AddPresent, callVars, sqliteVars
    <3> QED
      BY <3>1, <3>2, <1>g, <1>p, <1>a, StmtStep
  <2>2. left[s] # <<>> => Tail(left[s]) \in Seq(Columns)
    BY <1>t DEF AlterType
  <2>3. AlterType'
    BY <1>10, <1>t, <2>2 DEF AddPresent, AlterType
  <2>4. GhostType'
    BY <1>10, <1>t, TornType DEF AddPresent, GhostType
  <2> QED
    BY <1>10, <2>1, <2>3, <2>4 DEF AddPresent
<1>11. ASSUME AddColumn(s) PROVE TypeInv'
  <2>1. at[s] = "add" /\ left[s] # <<>> /\ UNCHANGED <<tx, callVars, missed, hidden>>
    BY <1>11 DEF AddColumn
  <2>2. WithColumn(s) \in Database /\ Head(left[s]) \in Columns /\ Tail(left[s]) \in Seq(Columns)
    BY <2>1, WithType DEF AlterAt, Altering
  <2>3. SQLType' /\ writer' \in {s, None}
    BY <1>11, <1>w, <2>2, AddColumnSteps
  <2>4. UNCHANGED <<lockVars, catalogVars, at, todo, torn>> /\ (AddedColumn(s) \/ UNCHANGED alterVars)
    BY <1>11, AddColumnSteps DEF Reserves, AddedColumn, alterVars
  <2>5. AlterType'
    <3>1. CASE AddedColumn(s)
      <4>1. left' \in [Sessions -> Seq(Columns)] /\ changed' \in [Sessions -> BOOLEAN]
        BY <1>t, <2>2, <3>1 DEF AddedColumn, AlterType
      <4>2. copy[s] \cup {Head(left[s])} \subseteq Columns
        BY <1>t, <2>2 DEF AlterType
      <4>3. copy' \in [Sessions -> SUBSET Columns]
        BY <1>t, <3>1, <4>2 DEF AddedColumn, AlterType
      <4> QED
        BY <1>t, <2>4, <4>1, <4>3 DEF AlterType
    <3>2. CASE UNCHANGED alterVars
      BY <3>2
    <3> QED
      BY <2>4, <3>1, <3>2
  <2>6. StmtOK'
    BY <2>1, <2>3, <2>4, <1>a, StmtStep DEF callVars
  <2> QED
    BY <2>1, <2>3, <2>4, <2>5, <2>6 DEF ghostVars
<1>12. ASSUME AddDuplicate(s) PROVE TypeInv'
  <2>1. AtType' /\ StmtOK'
    BY <1>12, <1>g, <1>p DEF AddDuplicate, callVars
  <2>2. SQLType'
    BY <1>12, <1>t DEF AddDuplicate, SQLType, Reading
  <2>3. GhostType'
    BY <1>12, TornType DEF AddDuplicate
  <2> QED
    BY <1>12, <2>1, <2>2, <2>3 DEF AddDuplicate
<1>13. ASSUME AddedAll(s) PROVE TypeInv'
  <2>1. AtType' /\ StmtOK'
    BY <1>13, <1>g, <1>p, <1>a DEF AddedAll, sqliteVars, callVars, AlterAt, Altering
  <2> QED
    BY <1>13, <2>1 DEF AddedAll
<1>14. ASSUME ResetStart(s) PROVE TypeInv'
  <2>1. AtType' /\ StmtOK'
    BY <1>14, <1>g, <1>p, <1>a DEF ResetStart, sqliteVars, callVars, AlterAt, Altering
  <2>2. LockType'
    BY <1>14, <1>t DEF ResetStart, LockType
  <2>3. CatType'
    BY <1>14, <1>t DEF ResetStart, CatType, NoSpecs, Specs, catalogVars
  <2>4. [map EXCEPT ![Tbl(s)] = None] \in [Tables -> Specs]
    BY <1>t DEF CatType, Specs
  <2>5. AlterType'
    BY <1>14, <1>t, <2>4 DEF ResetStart, AlterType
  <2>6. GhostType'
    BY <1>14, <1>t, TornType DEF ResetStart, GhostType
  <2> QED
    BY <1>14, <2>1, <2>2, <2>3, <2>5, <2>6 DEF ResetStart
<1>15. ASSUME ResetEnd(s) PROVE TypeInv'
  <2>1. AtType' /\ StmtOK'
    BY <1>15, <1>g, <1>p, <1>a DEF ResetEnd, sqliteVars, callVars, AlterAt, Altering
  <2> QED
    BY <1>15, <2>1 DEF ResetEnd
<1>16. ASSUME NEW t \in Tables, ResetAdd(s, t) PROVE TypeInv'
  <2>1. todo[s] \in [Tables -> Specs] /\ todo[s][t] \in Specs
    BY <1>t DEF AlterType
  <2>2. CatType'
    BY <1>16, <1>t, <2>1 DEF ResetAdd, CatType
  <2>3. [todo[s] EXCEPT ![t] = None] \in [Tables -> Specs]
    BY <2>1 DEF Specs
  <2>4. AlterType'
    BY <1>16, <1>t, <2>3 DEF ResetAdd, AlterType
  <2>5. StmtOK'
    BY <1>16, <1>a, StmtStep DEF ResetAdd, callVars, sqliteVars
  <2> QED
    BY <1>16, <2>2, <2>4, <2>5 DEF ResetAdd
<1>17. ASSUME DeleteRow(s) \/ SaveRow(s) PROVE TypeInv'
  <2>1. at[s] \in {"unsave", "save"} /\ UNCHANGED <<tx, callVars, missed, hidden>>
    BY <1>17 DEF DeleteRow, SaveRow
  <2>2. WithoutRow(s) \in Database /\ WithRow(s) \in Database
    BY <2>1, WithType DEF AlterAt, Altering
  <2>3. SQLType' /\ writer' \in {s, None}
    BY <1>17, <1>w, <2>2, DeleteRowSteps, SaveRowSteps
  <2>4. UNCHANGED <<wasm, catalogVars, alterVars, torn>> /\ mu' \in {mu, None}
    BY <1>17, DeleteRowSteps, SaveRowSteps DEF Reserves, lockVars
  <2>5. AtType' /\ StmtOK'
    <3>1. Goto(s, "idle") \/ Goto(s, "readd") \/ UNCHANGED at
      BY <1>17, DeleteRowSteps, SaveRowSteps DEF Reserves
    <3>2. "readd" \in AlterAt /\ at[s] # "idle" /\ stmt[s].kind = "alter"
      BY <2>1, <1>a DEF AlterAt, Altering
    <3> QED
      BY <3>1, <3>2, <2>1, <2>3, <1>g, <1>p, StmtStep DEF callVars
  <2>6. LockType'
    BY <1>t, <2>4 DEF LockType
  <2> QED
    BY <2>1, <2>3, <2>4, <2>5, <2>6 DEF ghostVars
<1>18. ASSUME Readd(s) PROVE TypeInv'
  <2>1. AtType' /\ StmtOK'
    BY <1>18, <1>g, <1>p, <1>a DEF Readd, sqliteVars, callVars, AlterAt, Altering
  <2>2. copy[s] \in Specs
    BY <1>t DEF AlterType, Specs
  <2>3. CatType'
    BY <1>18, <1>t, <2>2 DEF Readd, CatType
  <2>4. LockType'
    BY <1>18, <1>t DEF Readd, LockType
  <2> QED
    BY <1>18, <2>1, <2>3, <2>4 DEF Readd
<1>19. ASSUME Commit(s) PROVE TypeInv'
  <2>1. work \in Database
    BY <1>t DEF SQLType
  <2>2. SQLType' /\ AtType' /\ TxType'
    BY <1>19, <1>t, <2>1, EndTxType DEF Commit, SQLType, AtType, TxType
  <2>3. StmtOK'
    BY <1>19, <2>1, EndTxType, StmtIdle DEF Commit, callVars
  <2> QED
    BY <1>19, <2>2, <2>3 DEF Commit
<1>20. ASSUME BusyTimeout(s) PROVE TypeInv'
  BY <1>20, TypeFails DEF BusyTimeout
<1> QED
  BY <1>1, <1>2, <1>3, <1>4, <1>5, <1>6, <1>7, <1>8, <1>9, <1>10, <1>11, <1>12, <1>13, <1>14,
     <1>15, <1>16, <1>17, <1>18, <1>19, <1>20 DEF Step

LEMMA TypeNextApplication ==
    ASSUME TypeInv, NEW s \in Sessions, Application(s)
    PROVE  TypeInv'
<1> USE TypePartsNext, TypeSame DEF TypeInv
<1>t. /\ SQLType /\ CatType /\ LockType /\ AlterType
      /\ CallType /\ GhostType /\ AtType /\ TxType
  BY TypeParts
<1>p. {"idle", "wasm", "commit"} \subseteq Places /\ {"idle", "wasm", "commit"} \cap AlterAt = {}
  BY DEF Places, AtMutex, AtSQL, AlterAt, Altering
<1>1. ASSUME NEW st \in Statements[s], Start(s, st) PROVE TypeInv'
  <2>1. at'[s] = "wasm" /\ AtType' /\ \A u \in Sessions : u # s => at'[u] = at[u]
    BY <1>1, <1>p, GotoIs DEF Start, AtType
  <2>2. st \in Statement
    OBVIOUS
  <2>3. stmt' \in [Sessions -> {None} \cup Statement] /\ stmt'[s] = st /\ \A u \in Sessions : u # s => stmt'[u] = stmt[u]
    BY <1>1, <1>t, <2>2 DEF Start, CallType
  <2>4. seen' \in [Sessions -> Specs]
    BY <1>1, <1>t DEF Start, CallType, Specs
  <2>5. count' \in [Sessions -> Nat] /\ \A u \in Sessions : count'[u] <= MaxStmts[u]
    BY <1>1, <1>t DEF Start, CallType
  <2>6. CallType'
    BY <1>t, <2>3, <2>4, <2>5 DEF CallType
  <2>7. AlterType'
    BY <1>1, <1>t DEF Start, AlterType
  <2>8. StmtOK'
    BY <1>1, <1>p, <2>1, <2>3 DEF Start, StmtOK, sqliteVars
  <2> QED
    BY <1>1, <2>1, <2>6, <2>7, <2>8 DEF Start
<1>2. ASSUME BeginTx(s) PROVE TypeInv'
  <2>1. TxType' /\ StmtOK'
    BY <1>2, <1>t DEF BeginTx, TxType, StmtOK, sqliteVars, callVars
  <2> QED
    BY <1>2, <2>1 DEF BeginTx
<1>3. ASSUME EndTx(s, disk), UNCHANGED <<lockVars, catalogVars, callVars, alterVars, ghostVars>>
      PROVE  TypeInv'
  <2>1. disk \in Database
    BY <1>t DEF SQLType
  <2>2. SQLType' /\ AtType' /\ TxType' /\ StmtOK'
    BY <1>3, <1>t, <2>1, EndTxType, StmtIdle DEF callVars, SQLType, AtType, TxType
  <2> QED
    BY <1>3, <2>2
<1>4. ASSUME CommitStart(s), writer = s PROVE TypeInv'
  <2>1. Goto(s, "commit")
    BY <1>4 DEF CommitStart, Goto
  <2>2. AtType' /\ StmtOK'
    BY <1>4, <1>p, <2>1, GotoIs, StmtStep DEF CommitStart, callVars, AtType
  <2>3. SQLType' /\ TxType'
    BY <1>4, <1>t DEF CommitStart, SQLType, TxType
  <2> QED
    BY <1>4, <2>2, <2>3 DEF CommitStart
<1>5. ASSUME CloseRows(s) PROVE TypeInv'
  <2>1. AtType' /\ StmtOK'
    BY <1>5, <1>p, GotoIs, StmtIdle DEF CloseRows, callVars, AtType
  <2>2. SQLType'
    BY <1>5, <1>t DEF CloseRows, SQLType
  <2> QED
    BY <1>5, <2>1, <2>2 DEF CloseRows
<1> QED
  BY <1>1, <1>2, <1>3, <1>4, <1>5, TypeFails DEF Application, Rollback, CommitStart, Cancel

LEMMA TypeNext == TypeInv /\ [Next]_vars => TypeInv'
<1> SUFFICES ASSUME TypeInv, [Next]_vars PROVE TypeInv'
  OBVIOUS
<1>1. CASE UNCHANGED vars
  <2>1. TypeOK'
    BY <1>1, TypeSame, TypePartsNext DEF vars, TypeInv
  <2> QED
    BY <1>1, <2>1 DEF vars, TypeInv, StmtOK, sqliteVars, callVars
<1>2. CASE Next
  BY <1>2, TypeNextStep, TypeNextApplication DEF Next
<1> QED
  BY <1>1, <1>2

LEMMA TypeInit == Init => TypeInv
<1> SUFFICES ASSUME Init PROVE TypeInv
  OBVIOUS
<1>1. {} \in Specs /\ None \in Specs
  BY DEF Specs
<1>2. disk \in Database
  BY <1>1 DEF Init, Database
<1>3. <<>> \in Seq(Columns)
  OBVIOUS
<1>4. TypeOK
  <2>1. SQLType /\ LockType /\ GhostType /\ TxType /\ CatType
    BY <1>1, <1>2 DEF Init, SQLType, LockType, GhostType, TxType, CatType
  <2>2. AlterType
    <3>1. NoSpecs \in [Tables -> Specs]
      BY <1>1 DEF NoSpecs
    <3> QED
      BY <1>3, <3>1 DEF Init, AlterType
  <2>3. AtType
    BY DEF Init, AtType, Places
  <2>4. CallType
    BY <1>1 DEF Init, CallType
  <2> QED
    BY <2>1, <2>2, <2>3, <2>4, TypeParts
<1> QED
  BY <1>4 DEF Init, TypeInv, StmtOK, AlterAt, Altering

\* Type correctness: whatever the sessions run, cancel and wait for, every
\* spec and row is a set of columns of a known table, and a file that keeps
\* readers out has a writer (analyzer.go, catalog.go, stmt_action_alter.go).
THEOREM SessionsTypeCorrect == Spec => []TypeOK
<1>1. TypeInv => TypeOK
  BY DEF TypeInv
<1> QED
  BY <1>1, TypeInit, TypeNext, PTL DEF Spec

-----------------------------------------------------------------------------
(* The lock of the catalog.                                                *)

\* Where a session goes in each of its steps.
LEMMA AtStep ==
    ASSUME TypeInv, NEW s \in Sessions, Step(s) \/ Application(s)
    PROVE  \A u \in Sessions : u # s => at'[u] = at[u]
<1>1. at' = at \/ \E p : at' = [at EXCEPT ![s] = p]
  <2>1. ASSUME Dml(s) \/ AddColumn(s) \/ DeleteRow(s) \/ SaveRow(s) PROVE at' = at \/ \E p : Goto(s, p)
    BY <2>1, DmlSteps, AddColumnSteps, DeleteRowSteps, SaveRowSteps DEF Reserves, AddedColumn
  <2>2. ASSUME SQLFails(s) PROVE \E p : Goto(s, p)
    BY <2>2 DEF SQLFails, EndTx, Goto
  <2>3. ASSUME Application(s), ~SQLFails(s) PROVE at' = at \/ \E p : at' = [at EXCEPT ![s] = p]
    BY <2>3 DEF Application, Start, BeginTx, CommitStart, Rollback, EndTx, CloseRows, Cancel, Goto
  <2>4. ASSUME Step(s), ~SQLFails(s), ~(Dml(s) \/ AddColumn(s) \/ DeleteRow(s) \/ SaveRow(s))
        PROVE  at' = at \/ \E p : at' = [at EXCEPT ![s] = p]
    BY <2>4 DEF Step, LockWasm, LockMu, Sync, Resolve, Select, OpenScan, Filter, AlterRead,
                AddPresent, AddDuplicate, AddedAll, ResetStart, ResetEnd, ResetAdd, Readd,
                Commit, EndTx, BusyTimeout, Goto
  <2> QED
    BY <2>1, <2>2, <2>3, <2>4 DEF Goto
<1> QED
  BY <1>1 DEF TypeInv, TypeOK

LEMMA MuNext ==
    ASSUME TypeInv, MuOK, NEW s \in Sessions, Step(s) \/ Application(s)
    PROVE  MuOK'
<1>a. /\ \A u \in Sessions : u # s => at'[u] = at[u]
      /\ at \in [Sessions -> Places]
  BY AtStep, TypeParts DEF TypeInv, AtType
<1>1. ASSUME mu' = mu \/ mu \in {None, s}, at'[s] \in Held => mu' = s PROVE MuOK'
  BY <1>a, <1>1 DEF MuOK
<1>2. ASSUME Dml(s) \/ AddColumn(s) PROVE MuOK'
  <2>1. mu' = mu /\ (at' = at \/ at' = [at EXCEPT ![s] = "idle"])
    BY <1>2, DmlSteps, AddColumnSteps DEF Reserves, AddedColumn, lockVars, Goto
  <2> QED
    BY <1>1, <1>a, <2>1 DEF MuOK, Held
<1>3. ASSUME DeleteRow(s) \/ SaveRow(s) PROVE MuOK'
  <2>1. mu = s
    BY <1>3 DEF DeleteRow, SaveRow, MuOK, Held
  <2>2. \/ at' = at /\ mu' = mu
        \/ at' = [at EXCEPT ![s] = "idle"] \/ at' = [at EXCEPT ![s] = "readd"]
    BY <1>3, DeleteRowSteps, SaveRowSteps DEF Reserves, lockVars, Goto
  <2> QED
    BY <1>1, <1>a, <2>1, <2>2 DEF Held
<1>4. ASSUME SQLFails(s) PROVE MuOK'
  <2>1. at' = [at EXCEPT ![s] = "idle"] /\ mu' = IF mu = s THEN None ELSE mu
    BY <1>4 DEF SQLFails, UnlockAll, EndTx, Goto
  <2> QED
    BY <1>1, <1>a, <2>1 DEF Held
<1>5. ASSUME Application(s), ~SQLFails(s) PROVE MuOK'
  <2>1. mu' = mu /\ (at' = at \/ \E p \in {"wasm", "commit", "idle"} : at' = [at EXCEPT ![s] = p])
    BY <1>5 DEF Application, Start, BeginTx, CommitStart, Rollback, EndTx, CloseRows, Cancel, Goto, lockVars
  <2> QED
    BY <1>1, <1>a, <2>1 DEF MuOK, Held
<1>6. ASSUME LockWasm(s) \/ Resolve(s) \/ Select(s) \/ OpenScan(s) \/ Filter(s) \/ AlterRead(s)
             \/ AddPresent(s) \/ AddDuplicate(s) \/ AddedAll(s)
      PROVE  MuOK'
  <2>1. /\ mu' = mu
        /\ \/ at' = at
           \/ \E p \in {"mu", "alter", "run", "idle", "rows", "scan", "add", "drop"} : at' = [at EXCEPT ![s] = p]
    BY <1>6 DEF LockWasm, Resolve, Select, OpenScan, Filter, AlterRead, AddPresent, AddDuplicate, AddedAll, Goto, lockVars
  <2> QED
    BY <1>1, <1>a, <2>1 DEF MuOK, Held
<1>7. ASSUME LockMu(s) \/ Sync(s) \/ ResetStart(s) \/ Readd(s) PROVE MuOK'
  <2>1. /\ mu \in {None, s}
        /\ mu' = s \/ \E p \in {"resolve", "idle"} : at' = [at EXCEPT ![s] = p]
    BY <1>7 DEF LockMu, Sync, ResetStart, Readd, Goto, MuOK, Held
  <2> QED
    BY <1>1, <1>a, <2>1 DEF Held
<1>8. ASSUME ResetEnd(s) \/ \E t \in Tables : ResetAdd(s, t) PROVE MuOK'
  <2>1. at[s] \in Held /\ mu' = mu
    BY <1>8 DEF ResetEnd, ResetAdd, lockVars, Held
  <2> QED
    BY <1>1, <2>1 DEF MuOK
<1>9. ASSUME Commit(s) PROVE MuOK'
  BY <1>1, <1>a, <1>9 DEF Commit, EndTx, lockVars, Held
<1> QED
  BY <1>2, <1>3, <1>4, <1>5, <1>6, <1>7, <1>8, <1>9 DEF Step, BusyTimeout

-----------------------------------------------------------------------------
(* Tables that nobody alters.                                              *)

LEMMA AlterTbl ==
    ASSUME TypeInv, NEW s \in Sessions, at[s] \in AlterAt
    PROVE  Tbl(s) \in Altered
<1>1. stmt[s] \in Statements[s] /\ stmt[s].kind = "alter"
  BY DEF TypeInv, StmtOK, AlterAt, Altering
<1>2. stmt[s] \in {x \in UNION {Statements[u] : u \in Sessions} : x.kind = "alter"}
  BY <1>1
<1> QED
  BY <1>2 DEF Altered, Tbl

LEMMA RowsWrite ==
    ASSUME TypeInv, RowsThere, NEW s \in Sessions, NEW new,
           \A t \in Tables \ Altered : new.row[t] = View(s).row[t],
           WritesInTx(s, new) \/ Reserves(s, new) \/ Flushes(s)
    PROVE  RowsThere'
BY DEF RowsThere, WritesInTx, Reserves, Flushes, View, CanFlush, Altered

LEMMA RowsNext ==
    ASSUME TypeInv, RowsThere, NEW s \in Sessions, Step(s) \/ Application(s)
    PROVE  RowsThere'
<1>d. disk \in Database /\ work \in Database /\ View(s) \in Database
  BY ViewType DEF TypeInv, TypeOK
<1>1. ASSUME Dml(s) PROVE RowsThere'
  BY <1>1, DmlSteps, RowsWrite
<1>2. ASSUME AddColumn(s) PROVE RowsThere'
  <2>1. WithColumn(s).row = View(s).row
    BY <1>2, WithType DEF AddColumn, AlterAt, Altering
  <2> QED
    BY <1>2, <2>1, AddColumnSteps, RowsWrite
<1>3. ASSUME DeleteRow(s) \/ SaveRow(s) PROVE RowsThere'
  <2>1. at[s] \in AlterAt
    BY <1>3 DEF DeleteRow, SaveRow, AlterAt, Altering
  <2>2. Tbl(s) \in Altered
    BY <2>1, AlterTbl
  <2>3. View(s).row \in [Tables -> Specs]
    BY <1>d DEF Database
  <2>4. \A t \in Tables \ Altered : WithoutRow(s).row[t] = View(s).row[t] /\ WithRow(s).row[t] = View(s).row[t]
    BY <2>1, <2>2, <2>3, WithType
  <2> QED
    BY <1>3, <2>4, DeleteRowSteps, SaveRowSteps, RowsWrite
<1>4. ASSUME EndTx(s, disk) PROVE RowsThere'
  BY <1>4 DEF RowsThere, EndTx, Altered
<1>5. ASSUME UNCHANGED <<writer, disk, work>> PROVE RowsThere'
  BY <1>5 DEF RowsThere, Altered
<1>6. ASSUME SQLFails(s) PROVE RowsThere'
  BY <1>4, <1>5, <1>6 DEF SQLFails
<1>7. ASSUME Commit(s) PROVE RowsThere'
  BY <1>7 DEF RowsThere, Commit, CanFlush, EndTx, Altered
<1>8. ASSUME Sync(s) PROVE RowsThere'
  <2>1. disk'.row = disk.row /\ work'.row = work.row /\ writer' = writer
    BY <1>8, <1>d, ClearRecent DEF Sync
  <2> QED
    BY <2>1 DEF RowsThere, Altered
<1>9. ASSUME Application(s), ~SQLFails(s) PROVE RowsThere'
  <2>1. EndTx(s, disk) \/ UNCHANGED <<writer, disk, work>>
    BY <1>9 DEF Application, Start, BeginTx, CommitStart, Rollback, CloseRows, Cancel, sqliteVars
  <2> QED
    BY <1>4, <1>5, <2>1
<1>10. ASSUME \/ LockWasm(s) \/ LockMu(s) \/ Resolve(s) \/ Select(s) \/ OpenScan(s) \/ Filter(s)
              \/ AlterRead(s) \/ AddPresent(s) \/ AddDuplicate(s) \/ AddedAll(s)
              \/ ResetStart(s) \/ ResetEnd(s) \/ Readd(s) \/ \E t \in Tables : ResetAdd(s, t)
       PROVE  RowsThere'
  <2>1. UNCHANGED <<writer, disk, work>>
    BY <1>10 DEF LockWasm, LockMu, Resolve, Select, OpenScan, Filter, AlterRead, AddPresent,
                 AddDuplicate, AddedAll, ResetStart, ResetEnd, Readd, ResetAdd, sqliteVars
  <2> QED
    BY <1>5, <2>1
<1> QED
  BY <1>1, <1>2, <1>3, <1>6, <1>7, <1>8, <1>9, <1>10 DEF Step, BusyTimeout

LEMMA SpecsNext ==
    ASSUME TypeInv, MuOK, RowsThere, SpecsThere, NEW s \in Sessions, Step(s) \/ Application(s)
    PROVE  SpecsThere'
<1>a. /\ \A u \in Sessions : u # s => at'[u] = at[u]
      /\ at \in [Sessions -> Places] /\ map \in [Tables -> Specs]
      /\ todo \in [Sessions -> [Tables -> Specs]]
  BY AtStep, TypeParts DEF TypeInv, AtType, CatType, AlterType
<1>m. ASSUME mu \in {None, s}, at[s] # "reset", NEW t \in Tables \ Altered PROVE map[t] # None
  BY <1>m DEF SpecsThere, MuOK, Held
<1>1. ASSUME UNCHANGED <<map, todo>>, at[s] # "reset" PROVE SpecsThere'
  <2>1. ASSUME NEW t \in Tables \ Altered, map[t] = None
        PROVE  \E u \in Sessions : at'[u] = "reset" /\ todo[u][t] # None
    <3>1. PICK u \in Sessions : at[u] = "reset" /\ todo[u][t] # None
      BY <2>1 DEF SpecsThere
    <3> QED
      BY <1>a, <1>1, <3>1
  <2> QED
    BY <1>1, <2>1 DEF SpecsThere, Altered
<1>2. ASSUME Sync(s) PROVE SpecsThere'
  <2>1. mu = s /\ at[s] # "reset"
    BY <1>2 DEF Sync, MuOK, Held
  <2>2. ASSUME NEW t \in Tables \ Altered PROVE map'[t] # None
    BY <1>2, <1>m, <2>1, <2>2 DEF Sync, Loaded, RowsThere, View
  <2> QED
    BY <2>2 DEF SpecsThere, Altered
<1>3. ASSUME ResetStart(s) PROVE SpecsThere'
  <2>1. CASE map[Tbl(s)] = None
    BY <1>1, <1>3, <2>1 DEF ResetStart, catalogVars
  <2>2. CASE map[Tbl(s)] # None
    <3>1. Tbl(s) \in Altered /\ at'[s] = "reset"
      BY <1>3, <2>2, <1>a, AlterTbl DEF ResetStart, AlterAt, Altering, Goto
    <3>2. todo'[s] = [map EXCEPT ![Tbl(s)] = None]
      BY <1>3, <2>2, <1>a DEF ResetStart
    <3>3. ASSUME NEW t \in Tables \ Altered PROVE todo'[s][t] # None
      BY <1>3, <1>a, <1>m, <3>1, <3>2, <3>3 DEF ResetStart
    <3> QED
      BY <3>1, <3>3 DEF SpecsThere, Altered
  <2> QED
    BY <2>1, <2>2
<1>4. ASSUME NEW t \in Tables, ResetAdd(s, t) PROVE SpecsThere'
  <2>1. /\ map'[t] = todo[s][t] /\ todo[s][t] # None /\ at' = at
        /\ \A v \in Tables : v # t => map'[v] = map[v]
        /\ \A u \in Sessions : \A v \in Tables : v # t => todo'[u][v] = todo[u][v]
    BY <1>4, <1>a DEF ResetAdd
  <2> QED
    BY <2>1 DEF SpecsThere, Altered
<1>5. ASSUME ResetEnd(s) PROVE SpecsThere'
  <2>1. ASSUME NEW t \in Tables \ Altered PROVE map[t] # None
    <3>1. ASSUME NEW u \in Sessions, at[u] = "reset" PROVE u = s
      BY <1>5, <3>1 DEF ResetEnd, MuOK, Held
    <3> QED
      BY <1>5, <3>1 DEF ResetEnd, SpecsThere, NoSpecs
  <2> QED
    BY <1>5, <2>1 DEF ResetEnd, SpecsThere, Altered, catalogVars
<1>6. ASSUME Readd(s) PROVE SpecsThere'
  <2>1. Tbl(s) \in Altered
    BY <1>6, AlterTbl DEF Readd, AlterAt, Altering
  <2>2. ASSUME NEW t \in Tables \ Altered PROVE map'[t] # None
    BY <1>6, <1>a, <1>m, <2>1, <2>2 DEF Readd
  <2> QED
    BY <2>2 DEF SpecsThere, Altered
<1>7. ASSUME Dml(s) \/ AddColumn(s) \/ DeleteRow(s) \/ SaveRow(s) PROVE SpecsThere'
  <2>1. UNCHANGED <<map, todo>>
    BY <1>7, DmlSteps, AddColumnSteps, DeleteRowSteps, SaveRowSteps
       DEF Reserves, AddedColumn, catalogVars, alterVars
  <2>2. at[s] # "reset"
    BY <1>7 DEF Dml, AddColumn, DeleteRow, SaveRow
  <2> QED
    BY <1>1, <2>1, <2>2
<1>8. ASSUME SQLFails(s) PROVE SpecsThere'
  BY <1>1, <1>8 DEF SQLFails, catalogVars, alterVars, AtSQL
<1>9. ASSUME Application(s), ~SQLFails(s) PROVE SpecsThere'
  <2>1. UNCHANGED <<map, todo>> /\ at[s] # "reset"
    BY <1>9 DEF Application, Start, BeginTx, CommitStart, Rollback, CloseRows, Cancel, catalogVars, alterVars
  <2> QED
    BY <1>1, <2>1
<1>10. ASSUME \/ LockWasm(s) \/ LockMu(s) \/ Resolve(s) \/ Select(s) \/ OpenScan(s) \/ Filter(s)
              \/ AlterRead(s) \/ AddPresent(s) \/ AddDuplicate(s) \/ AddedAll(s) \/ Commit(s)
       PROVE  SpecsThere'
  <2>1. UNCHANGED <<map, todo>> /\ at[s] # "reset"
    BY <1>10 DEF LockWasm, LockMu, Resolve, Select, OpenScan, Filter, AlterRead, AddPresent,
                 AddDuplicate, AddedAll, Commit, catalogVars, alterVars
  <2> QED
    BY <1>1, <2>1
<1> QED
  BY <1>2, <1>3, <1>4, <1>5, <1>6, <1>7, <1>8, <1>9, <1>10 DEF Step, BusyTimeout

LEMMA HiddenNext ==
    ASSUME TypeInv, MuOK, SpecsThere, InfoComplete, NEW s \in Sessions, Step(s) \/ Application(s)
    PROVE  InfoComplete'
<1>1. ASSUME Filter(s) PROVE InfoComplete'
  <2>1. ASSUME NEW t \in Tables \ Altered PROVE map[t] # None
    BY <1>1, <2>1 DEF Filter, SpecsThere, MuOK, Held
  <2> QED
    BY <1>1, <2>1 DEF Filter, InfoComplete, Altered
<1>2. ASSUME hidden' = hidden PROVE InfoComplete'
  BY <1>2 DEF InfoComplete, Altered
<1>3. ~Filter(s) => hidden' = hidden
  BY DEF Step, Application, LockWasm, LockMu, Sync, Resolve, Select, OpenScan, Dml, AlterRead,
         AddPresent, AddColumn, AddDuplicate, AddedAll, ResetStart, ResetEnd, ResetAdd, DeleteRow,
         Readd, SaveRow, Commit, BusyTimeout, Cancel, SQLFails, Start, BeginTx, CommitStart,
         Rollback, CloseRows, ghostVars
<1> QED
  BY <1>1, <1>2, <1>3

\* A scan of INFORMATION_SCHEMA (infoSchemaCursor.Filter) lists every table
\* that no statement alters, whichever sessions rebuild the catalog, fail
\* half way or wait, also when ALTER TABLE runs inside a Tx: c.mu covers the
\* whole of resetCatalog (info_schema_vtab.go:144-146).
THEOREM ScansComplete == Spec => []InfoComplete
<1>1. Init => InfoInv
  <2> SUFFICES ASSUME Init PROVE InfoInv
    OBVIOUS
  <2>1. {} # None
    OBVIOUS
  <2>2. RowsThere /\ SpecsThere
    BY <2>1 DEF Init, RowsThere, SpecsThere
  <2> QED
    BY <2>2, TypeInit DEF InfoInv, Init, MuOK, Held, InfoComplete
<1>2. InfoInv /\ [Next]_vars => InfoInv'
  <2> SUFFICES ASSUME InfoInv, [Next]_vars PROVE InfoInv'
    OBVIOUS
  <2>1. TypeInv'
    BY TypeNext DEF InfoInv
  <2>2. CASE UNCHANGED vars
    <3>1. UNCHANGED <<mu, disk, work, writer, map, at, todo, hidden>>
      BY <2>2 DEF vars, lockVars, sqliteVars, catalogVars, alterVars, ghostVars
    <3> QED
      BY <2>1, <3>1 DEF InfoInv, MuOK, RowsThere, SpecsThere, InfoComplete, Altered
  <2>3. CASE Next
    <3>1. PICK s \in Sessions : Step(s) \/ Application(s)
      BY <2>3 DEF Next
    <3> QED
      BY <2>1, <3>1, MuNext, RowsNext, SpecsNext, HiddenNext DEF InfoInv
  <2> QED
    BY <2>2, <2>3
<1>3. InfoInv => InfoComplete
  BY DEF InfoInv
<1> QED
  BY <1>1, <1>2, <1>3, PTL DEF Spec

-----------------------------------------------------------------------------
(* ALTER TABLE outside a Tx.                                               *)

\* A step leaves the other sessions where they are.
OthersSame(s) ==
    \A u \in Sessions : u # s =>
        /\ at'[u] = at[u] /\ stmt'[u] = stmt[u] /\ seen'[u] = seen[u]
        /\ left'[u] = left[u] /\ copy'[u] = copy[u]
        /\ changed'[u] = changed[u] /\ todo'[u] = todo[u]
        /\ (u \in tx' <=> u \in tx)

LEMMA OthersStep ==
    ASSUME TypeInv, NEW s \in Sessions, Step(s) \/ Application(s)
    PROVE  OthersSame(s)
<1>t. AlterType /\ CallType
  BY TypeParts DEF TypeInv
<1>1. stmt' = stmt \/ \E x : stmt' = [stmt EXCEPT ![s] = x]
  BY DEF Step, Application, LockWasm, LockMu, Sync, Resolve, Select, OpenScan, Filter, Dml, AlterRead,
         AddPresent, AddColumn, AddDuplicate, AddedAll, ResetStart, ResetEnd, ResetAdd, DeleteRow,
         Readd, SaveRow, Commit, BusyTimeout, Cancel, SQLFails, Start, BeginTx, CommitStart,
         Rollback, CloseRows, callVars
<1>2. seen' = seen \/ \E x : seen' = [seen EXCEPT ![s] = x]
  BY DEF Step, Application, LockWasm, LockMu, Sync, Resolve, Select, OpenScan, Filter, Dml, AlterRead,
         AddPresent, AddColumn, AddDuplicate, AddedAll, ResetStart, ResetEnd, ResetAdd, DeleteRow,
         Readd, SaveRow, Commit, BusyTimeout, Cancel, SQLFails, Start, BeginTx, CommitStart,
         Rollback, CloseRows, callVars
<1>3. tx' = tx \/ tx' = tx \cup {s} \/ tx' = tx \ {s}
  BY DEF Step, Application, LockWasm, LockMu, Sync, Resolve, Select, OpenScan, Filter, Dml, AlterRead,
         AddPresent, AddColumn, AddDuplicate, AddedAll, ResetStart, ResetEnd, ResetAdd, DeleteRow,
         Readd, SaveRow, Commit, BusyTimeout, Cancel, SQLFails, Start, BeginTx, CommitStart,
         Rollback, CloseRows, EndTx
<1>4. /\ left' = left \/ \E x : left' = [left EXCEPT ![s] = x]
      /\ copy' = copy \/ \E x : copy' = [copy EXCEPT ![s] = x]
      /\ changed' = changed \/ \E x : changed' = [changed EXCEPT ![s] = x]
      /\ todo' = todo \/ \E x : todo' = [todo EXCEPT ![s] = x]
  <2>1. ASSUME Dml(s) \/ DeleteRow(s) \/ SaveRow(s) PROVE UNCHANGED alterVars
    BY <2>1, DmlSteps, DeleteRowSteps, SaveRowSteps
  <2>2. ASSUME AddColumn(s) PROVE UNCHANGED alterVars \/ AddedColumn(s)
    BY <2>2, AddColumnSteps DEF Reserves
  <2>3. ASSUME AlterRead(s) \/ AddPresent(s) \/ AddedColumn(s) \/ ResetStart(s) \/ UNCHANGED alterVars
               \/ (\E st : Start(s, st)) \/ \E t \in Tables : ResetAdd(s, t)
        PROVE  <1>4!1 /\ <1>4!2 /\ <1>4!3 /\ <1>4!4
    BY <2>3 DEF AlterRead, AddPresent, AddedColumn, ResetStart, Start, ResetAdd, alterVars
  <2>4. ASSUME \/ LockWasm(s) \/ LockMu(s) \/ Resolve(s) \/ Select(s) \/ OpenScan(s) \/ Filter(s) \/ Sync(s)
               \/ AddDuplicate(s) \/ AddedAll(s) \/ Commit(s) \/ ResetEnd(s) \/ Readd(s) \/ SQLFails(s)
               \/ BeginTx(s) \/ CommitStart(s) \/ Rollback(s) \/ CloseRows(s)
        PROVE  UNCHANGED alterVars
    BY <2>4 DEF LockWasm, LockMu, Sync, Resolve, Select, OpenScan, Filter,
         AddDuplicate, AddedAll, ResetEnd, Readd, Commit, SQLFails, BeginTx, CommitStart, Rollback, CloseRows
  <2> QED
    BY <2>1, <2>2, <2>3, <2>4 DEF Step, Application, BusyTimeout, Cancel
<1> QED
  BY <1>t, <1>1, <1>2, <1>3, <1>4, AtStep DEF OthersSame, AlterType, CallType

\* The writer outside a Tx has its SQL statement committed or undone.
LEMMA WriterMoves ==
    ASSUME TypeInv, WriterOK, NEW s \in Sessions, Step(s) \/ Application(s), writer = s, s \notin tx
    PROVE  writer' = None /\ (Flushes(s) \/ EndTx(s, disk))
<1>1. \/ at[s] = "run" /\ stmt[s].kind = "dml"
      \/ at[s] = "add" /\ left[s] # <<>> /\ Head(left[s]) \notin copy[s]
      \/ at[s] \in {"unsave", "save"}
  BY DEF WriterOK
<1>2. ASSUME SQLFails(s) PROVE EndTx(s, disk)
  BY <1>2 DEF SQLFails
<1>3. ASSUME EndTx(s, disk) \/ Flushes(s) PROVE writer' = None
  BY <1>3 DEF EndTx, Flushes
<1>4. ASSUME Dml(s) \/ AddColumn(s) \/ DeleteRow(s) \/ SaveRow(s) PROVE Flushes(s)
  BY <1>4, DmlSteps, AddColumnSteps, DeleteRowSteps, SaveRowSteps DEF WritesInTx, Reserves
<1>5. ~Application(s) \/ SQLFails(s)
  BY <1>1 DEF Application, Start, BeginTx, CommitStart, Rollback, CloseRows, Cancel
<1>6. Step(s) => SQLFails(s) \/ Dml(s) \/ AddColumn(s) \/ DeleteRow(s) \/ SaveRow(s)
  BY <1>1 DEF Step, LockWasm, LockMu, Sync, Resolve, Select, OpenScan, Filter, AlterRead,
              AddPresent, AddDuplicate, AddedAll, ResetStart, ResetEnd, ResetAdd, Readd,
              Commit, BusyTimeout
<1> QED
  BY <1>2, <1>3, <1>4, <1>5, <1>6

LEMMA TxNext ==
    ASSUME NoDdlTx, TypeInv, TxOK, NEW s \in Sessions, Step(s) \/ Application(s)
    PROVE  TxOK'
<1>o. OthersSame(s)
  BY OthersStep
<1>a. at \in [Sessions -> Places] /\ stmt \in [Sessions -> {None} \cup Statement]
  BY TypeParts DEF TypeInv, AtType, CallType
<1>1. ASSUME at'[s] \notin {"idle", "commit"} /\ stmt'[s].kind = "alter" => s \notin tx' PROVE TxOK'
  BY <1>1, <1>o DEF TxOK, OthersSame
<1>2. ASSUME stmt' = stmt, tx' \subseteq tx, at[s] \in {"idle", "commit"} => at'[s] \in {"idle", "commit"}
      PROVE  TxOK'
  BY <1>1, <1>2 DEF TxOK
<1>3. ASSUME NEW st \in Statements[s], Start(s, st) PROVE TxOK'
  BY <1>1, <1>3, <1>a DEF Start, MayRun, NoDdlTx
<1>4. ASSUME BeginTx(s) PROVE TxOK'
  BY <1>1, <1>4 DEF BeginTx
<1>5. ASSUME SQLFails(s) \/ Commit(s) \/ CommitStart(s) \/ Rollback(s) \/ CloseRows(s) PROVE TxOK'
  <2>1. stmt' = stmt /\ tx' \subseteq tx /\ \E p \in {"idle", "commit"} : at' = [at EXCEPT ![s] = p]
    BY <1>5 DEF SQLFails, Commit, CommitStart, Rollback, CloseRows, EndTx, Goto, callVars
  <2> QED
    BY <1>2, <1>a, <2>1
<1>6. ASSUME Step(s), ~SQLFails(s), ~Commit(s) PROVE TxOK'
  <2>1. stmt' = stmt /\ tx' = tx /\ at[s] \notin {"idle", "commit"}
    BY <1>6 DEF Step, LockWasm, LockMu, Sync, Resolve, Select, OpenScan, Filter, Dml, AlterRead,
         AddPresent, AddColumn, AddDuplicate, AddedAll, ResetStart, ResetEnd, ResetAdd, DeleteRow,
         Readd, SaveRow, BusyTimeout, callVars
  <2> QED
    BY <1>2, <2>1
<1> QED
  BY <1>3, <1>4, <1>5, <1>6 DEF Application, Cancel

\* How a step changes the database.
LEMMA SQLSteps ==
    ASSUME TypeInv, TxOK, NEW s \in Sessions, Step(s) \/ Application(s)
    PROVE  \/ UNCHANGED <<writer, disk, work>>
           \/ Sync(s)
           \/ EndTx(s, disk)
           \/ Commit(s)
           \/ Dml(s) /\ (WritesInTx(s, View(s)) \/ Reserves(s, View(s)) \/ Flushes(s))
           \/ AddColumn(s) /\ (Reserves(s, WithColumn(s)) \/ (Flushes(s) /\ AddedColumn(s)))
           \/ DeleteRow(s) /\ (Reserves(s, WithoutRow(s)) \/ Flushes(s))
           \/ SaveRow(s) /\ (Reserves(s, WithRow(s)) \/ Flushes(s))
<1>1. ASSUME AddColumn(s) \/ DeleteRow(s) \/ SaveRow(s) PROVE s \notin tx
  BY <1>1 DEF AddColumn, DeleteRow, SaveRow, TxOK, TypeInv, StmtOK, AlterAt, Altering
<1>2. ASSUME AddColumn(s) PROVE Reserves(s, WithColumn(s)) \/ (Flushes(s) /\ AddedColumn(s))
  BY <1>1, <1>2, AddColumnSteps DEF WritesInTx
<1>3. ASSUME DeleteRow(s) PROVE Reserves(s, WithoutRow(s)) \/ Flushes(s)
  BY <1>1, <1>3, DeleteRowSteps DEF WritesInTx
<1>4. ASSUME SaveRow(s) PROVE Reserves(s, WithRow(s)) \/ Flushes(s)
  BY <1>1, <1>4, SaveRowSteps DEF WritesInTx
<1>5. ASSUME SQLFails(s) PROVE EndTx(s, disk) \/ UNCHANGED <<writer, disk, work>>
  BY <1>5 DEF SQLFails
<1>6. ASSUME Application(s), ~SQLFails(s) PROVE EndTx(s, disk) \/ UNCHANGED <<writer, disk, work>>
  BY <1>6 DEF Application, Start, BeginTx, CommitStart, Rollback, CloseRows, Cancel, sqliteVars
<1>7. ASSUME \/ LockWasm(s) \/ LockMu(s) \/ Resolve(s) \/ Select(s) \/ OpenScan(s) \/ Filter(s)
              \/ AlterRead(s) \/ AddPresent(s) \/ AddDuplicate(s) \/ AddedAll(s)
              \/ ResetStart(s) \/ ResetEnd(s) \/ Readd(s) \/ \E t \in Tables : ResetAdd(s, t)
      PROVE  UNCHANGED <<writer, disk, work>>
  BY <1>7 DEF LockWasm, LockMu, Resolve, Select, OpenScan, Filter, AlterRead, AddPresent,
              AddDuplicate, AddedAll, ResetStart, ResetEnd, Readd, ResetAdd, sqliteVars
<1> QED
  BY <1>2, <1>3, <1>4, <1>5, <1>6, <1>7, DmlSteps DEF Step, BusyTimeout

LEMMA TxLeave ==
    ASSUME NEW s \in Sessions, Step(s) \/ Application(s), s \in tx, s \notin tx'
    PROVE  writer' # s /\ writer' \in {writer, None}
<1>1. EndTx(s, disk) \/ EndTx(s, work)
  BY DEF Step, Application, LockWasm, LockMu, Sync, Resolve, Select, OpenScan, Filter, Dml, AlterRead,
         AddPresent, AddColumn, AddDuplicate, AddedAll, ResetStart, ResetEnd, ResetAdd, DeleteRow,
         Readd, SaveRow, Commit, BusyTimeout, Cancel, SQLFails, Start, BeginTx, CommitStart,
         Rollback, CloseRows
<1> QED
  BY <1>1 DEF EndTx

\* A session becomes the writer inside a Tx, or at the SQL statement that it
\* then waits to commit.
LEMMA WriterSteps ==
    ASSUME TypeInv, TxOK, WriterOK, NEW s \in Sessions, Step(s) \/ Application(s)
    PROVE  /\ writer' \in {writer, None, s}
           /\ writer' = s => \/ s \in tx /\ s \in tx'
                             \/ Reserves(s, View(s)) /\ Dml(s)
                             \/ Reserves(s, WithColumn(s)) /\ AddColumn(s)
                             \/ Reserves(s, WithoutRow(s)) /\ DeleteRow(s)
                             \/ Reserves(s, WithRow(s)) /\ SaveRow(s)
<1>1. writer' \in {writer, None, s}
  BY SQLSteps DEF Sync, EndTx, Commit, WritesInTx, Reserves, Flushes
<1>2. writer' = s /\ s \in tx => s \in tx'
  BY TxLeave
<1>3. ASSUME writer' = s, s \notin tx PROVE writer # s
  BY <1>3, WriterMoves
<1>4. ASSUME writer' = s, s \notin tx
      PROVE  ~UNCHANGED <<writer, disk, work>> /\ ~Sync(s) /\ ~EndTx(s, disk) /\ ~Commit(s)
             /\ ~Flushes(s) /\ ~WritesInTx(s, View(s))
  BY <1>3, <1>4 DEF Sync, EndTx, Commit, CanFlush, Flushes, WritesInTx
<1> QED
  BY <1>1, <1>2, <1>4, SQLSteps

LEMMA WriterNext ==
    ASSUME TypeInv, TxOK, WriterOK, NEW s \in Sessions, Step(s) \/ Application(s)
    PROVE  WriterOK'
<1> SUFFICES ASSUME NEW w \in Sessions, writer' = w, w \notin tx'
             PROVE  \/ at'[w] = "run" /\ stmt'[w].kind = "dml"
                    \/ at'[w] = "add" /\ left'[w] # <<>> /\ Head(left'[w]) \notin copy'[w]
                    \/ at'[w] \in {"unsave", "save"}
  BY DEF WriterOK
<1>1. CASE w # s
  BY <1>1, OthersStep, WriterSteps DEF OthersSame, WriterOK
<1>2. CASE w = s
  <2>1. \/ Reserves(s, View(s)) /\ Dml(s)
        \/ Reserves(s, WithColumn(s)) /\ AddColumn(s)
        \/ Reserves(s, WithoutRow(s)) /\ DeleteRow(s)
        \/ Reserves(s, WithRow(s)) /\ SaveRow(s)
    BY <1>2, WriterSteps
  <2> QED
    BY <1>2, <2>1 DEF Reserves, Dml, AddColumn, DeleteRow, SaveRow, alterVars, callVars
<1> QED
  BY <1>1, <1>2

LEMMA WorkSame ==
    ASSUME WorkOK, NEW s, OthersSame(s), writer \in Sessions \cup {None},
           writer' = writer, writer = s => s \in tx /\ s \in tx',
           disk'.cols = disk.cols, disk'.row = disk.row, work'.cols = work.cols, work'.row = work.row,
           \/ disk'.recent = disk.recent /\ work'.recent = work.recent
           \/ work'.recent = {}
    PROVE  WorkOK'
<1> SUFFICES ASSUME writer' # None, NEW t \in Tables PROVE WorkIs(t)'
  BY DEF WorkOK
<1>1. WorkIs(t) /\ writer \in Sessions
  BY DEF WorkOK
<1>2. CASE writer = s
  <2>1. ~AddsTo(writer, t) /\ ~AddsTo(writer, t)' /\ ~RowOf(writer, t) /\ ~RowOf(writer, t)'
    BY <1>2 DEF AddsTo, RowOf
  <2> QED
    BY <1>1, <2>1 DEF WorkIs
<1>3. CASE writer # s
  <2>1. /\ AddsTo(writer, t)' <=> AddsTo(writer, t)
        /\ RowOf(writer, t)' <=> RowOf(writer, t)
        /\ at'[writer] = at[writer] /\ left'[writer] = left[writer] /\ copy'[writer] = copy[writer]
    BY <1>1, <1>3 DEF AddsTo, RowOf, OthersSame, Tbl
  <2> QED
    BY <1>1, <2>1 DEF WorkIs
<1> QED
  BY <1>2, <1>3

LEMMA WorkNext ==
    ASSUME TypeInv, TxOK, WriterOK, WorkOK, NEW s \in Sessions, Step(s) \/ Application(s)
    PROVE  WorkOK'
<1>t. /\ disk \in Database /\ work \in Database /\ writer \in Sessions \cup {None}
      /\ disk.cols \in [Tables -> SUBSET Columns] /\ disk.row \in [Tables -> Specs]
  BY DEF TypeInv, TypeOK, Database
<1>o. OthersSame(s)
  BY OthersStep
<1>w. writer' = writer /\ writer = s => s \in tx /\ s \in tx'
  BY WriterSteps DEF Reserves
<1>1. ASSUME UNCHANGED <<writer, disk, work>> PROVE WorkOK'
  BY <1>1, <1>t, <1>o, <1>w, WorkSame
<1>2. ASSUME Sync(s) PROVE WorkOK'
  <2>1. /\ disk'.cols = disk.cols /\ disk'.row = disk.row
        /\ work'.cols = work.cols /\ work'.row = work.row /\ work'.recent = {} /\ writer' = writer
    BY <1>2, <1>t, ClearRecent DEF Sync
  <2> QED
    BY <2>1, <1>t, <1>o, <1>w, WorkSame
<1>3. ASSUME EndTx(s, disk) PROVE WorkOK'
  <2>1. writer' = None \/ UNCHANGED <<writer, disk, work>>
    BY <1>3 DEF EndTx
  <2> QED
    BY <1>1, <2>1 DEF WorkOK
<1>4. ASSUME Commit(s) \/ Flushes(s) PROVE WorkOK'
  BY <1>4 DEF Commit, CanFlush, EndTx, Flushes, WorkOK
<1>5. ASSUME Dml(s), WritesInTx(s, View(s)) PROVE WorkOK'
  <2>1. writer' = s /\ s \in tx /\ s \in tx' /\ disk' = disk
    BY <1>5 DEF WritesInTx, Dml
  <2>2. CASE writer = s
    BY <1>1, <1>5, <2>1, <2>2 DEF WritesInTx, View
  <2>3. CASE writer # s
    <3>1. work' = disk
      BY <1>5, <2>3 DEF WritesInTx, View
    <3>2. ASSUME NEW t \in Tables PROVE WorkIs(t)'
      BY <2>1, <3>1 DEF WorkIs, AddsTo, RowOf
    <3> QED
      BY <3>2 DEF WorkOK
  <2> QED
    BY <2>2, <2>3
<1>r. ASSUME NEW new, Reserves(s, new), \A t \in Tables : WorkIs(t)' PROVE WorkOK'
  BY <1>r DEF WorkOK
<1>v. ASSUME NEW new, Reserves(s, new)
      PROVE  /\ View(s) = disk /\ disk' = disk /\ work' = new /\ writer' = s
             /\ at' = at /\ left' = left /\ copy' = copy /\ s \notin tx
  BY <1>v DEF Reserves, View, CanReserve, alterVars
<1>6. ASSUME Dml(s), Reserves(s, View(s)) PROVE WorkOK'
  <2>1. ASSUME NEW t \in Tables PROVE WorkIs(t)'
    <3>1. ~AddsTo(writer, t)' /\ ~RowOf(writer, t)'
      BY <1>6, <1>v DEF AddsTo, RowOf, Dml
    <3> QED
      BY <1>6, <1>v, <3>1 DEF WorkIs
  <2> QED
    BY <1>6, <2>1, <1>r
<1>7. ASSUME AddColumn(s), Reserves(s, WithColumn(s)) PROVE WorkOK'
  <2>1. at[s] = "add" /\ left[s] # <<>> /\ stmt' = stmt /\ tx' = tx
    BY <1>7 DEF AddColumn, callVars
  <2>2. /\ work'.row = disk.row /\ work'.recent = disk.recent
        /\ work'.cols = [disk.cols EXCEPT ![Tbl(s)] = @ \cup {Head(left[s])}]
    <3>1. at[s] \in AlterAt /\ View(s) = disk /\ work' = WithColumn(s)
      BY <1>7, <1>v, <2>1 DEF AlterAt, Altering
    <3> QED
      BY <2>1, <3>1, WithType
  <2>3. ASSUME NEW t \in Tables PROVE WorkIs(t)'
    <3>1. ~RowOf(writer, t)' /\ (AddsTo(writer, t)' <=> t = Tbl(s))
      BY <1>7, <1>v, <2>1 DEF AddsTo, RowOf, Tbl
    <3>2. work'.cols[t] = IF t = Tbl(s) THEN disk.cols[t] \cup {Head(left[s])} ELSE disk.cols[t]
      BY <1>t, <2>2
    <3> QED
      BY <1>7, <1>v, <2>2, <3>1, <3>2 DEF WorkIs
  <2> QED
    BY <1>7, <2>3, <1>r
<1>8. ASSUME DeleteRow(s), Reserves(s, WithoutRow(s)) PROVE WorkOK'
  <2>1. at[s] = "unsave" /\ stmt' = stmt /\ tx' = tx
    BY <1>8 DEF DeleteRow, callVars
  <2>2. /\ work'.cols = disk.cols /\ work'.recent = disk.recent \ {Tbl(s)}
        /\ work'.row = [disk.row EXCEPT ![Tbl(s)] = None]
    <3>1. at[s] \in AlterAt /\ View(s) = disk /\ work' = WithoutRow(s)
      BY <1>8, <1>v, <2>1 DEF AlterAt, Altering
    <3> QED
      BY <2>1, <3>1, WithType
  <2>3. ASSUME NEW t \in Tables PROVE WorkIs(t)'
    <3>1. ~AddsTo(writer, t)' /\ (RowOf(writer, t)' <=> t = Tbl(s))
      BY <1>8, <1>v, <2>1 DEF AddsTo, RowOf, Tbl
    <3>2. work'.row[t] = IF t = Tbl(s) THEN None ELSE disk.row[t]
      BY <1>t, <2>2
    <3> QED
      BY <1>8, <1>v, <2>1, <2>2, <3>1, <3>2 DEF WorkIs
  <2> QED
    BY <1>8, <2>3, <1>r
<1>9. ASSUME SaveRow(s), Reserves(s, WithRow(s)) PROVE WorkOK'
  <2>1. at[s] = "save" /\ stmt' = stmt /\ tx' = tx
    BY <1>9 DEF SaveRow, callVars
  <2>2. /\ work'.cols = disk.cols /\ work'.recent = disk.recent \cup {Tbl(s)}
        /\ work'.row = [disk.row EXCEPT ![Tbl(s)] = copy[s]]
    <3>1. at[s] \in AlterAt /\ View(s) = disk /\ work' = WithRow(s)
      BY <1>9, <1>v, <2>1 DEF AlterAt, Altering
    <3> QED
      BY <2>1, <3>1, WithType
  <2>3. ASSUME NEW t \in Tables PROVE WorkIs(t)'
    <3>1. ~AddsTo(writer, t)' /\ (RowOf(writer, t)' <=> t = Tbl(s))
      BY <1>9, <1>v, <2>1 DEF AddsTo, RowOf, Tbl
    <3>2. work'.row[t] = IF t = Tbl(s) THEN copy[s] ELSE disk.row[t]
      BY <1>t, <2>2
    <3> QED
      BY <1>9, <1>v, <2>1, <2>2, <3>1, <3>2 DEF WorkIs
  <2> QED
    BY <1>9, <2>3, <1>r
<1> QED
  BY <1>1, <1>2, <1>3, <1>4, <1>5, <1>6, <1>7, <1>8, <1>9, SQLSteps

SameInFile(t) ==
    /\ disk'.cols[t] = disk.cols[t] /\ disk'.row[t] = disk.row[t]
    /\ t \in disk'.recent => t \in disk.recent

\* How a step changes the file.
FileColumn(s) ==
    /\ AddColumn(s) /\ AddedColumn(s) /\ Flushes(s)
    /\ disk'.cols[Tbl(s)] = disk.cols[Tbl(s)] \cup {Head(left[s])}
    /\ disk'.row[Tbl(s)] = disk.row[Tbl(s)]
    /\ Tbl(s) \in disk'.recent => Tbl(s) \in disk.recent

FileNoRow(s) ==
    /\ DeleteRow(s) /\ Flushes(s)
    /\ disk'.cols[Tbl(s)] = disk.cols[Tbl(s)]
    /\ disk'.row[Tbl(s)] = None /\ Tbl(s) \notin disk'.recent

FileRow(s) ==
    /\ SaveRow(s) /\ Flushes(s)
    /\ disk'.cols[Tbl(s)] = disk.cols[Tbl(s)]
    /\ disk'.row[Tbl(s)] = copy[s]

LEMMA DiskSteps ==
    ASSUME TypeInv, TxOK, WorkOK, NEW s \in Sessions, Step(s) \/ Application(s)
    PROVE  \/ \A t \in Tables : SameInFile(t)
           \/ /\ FileColumn(s) \/ FileNoRow(s) \/ FileRow(s)
              /\ Tbl(s) \in Tables
              /\ \A t \in Tables : t # Tbl(s) => SameInFile(t)
<1>t. disk \in Database /\ work \in Database
  BY DEF TypeInv, TypeOK
<1>1. ASSUME disk' = disk PROVE \A t \in Tables : SameInFile(t)
  BY <1>1 DEF SameInFile
<1>2. ASSUME Sync(s) PROVE \A t \in Tables : SameInFile(t)
  <2>1. disk'.cols = disk.cols /\ disk'.row = disk.row /\ disk'.recent = {}
    BY <1>2, <1>t, ClearRecent DEF Sync
  <2> QED
    BY <2>1 DEF SameInFile
<1>w. ASSUME Commit(s) \/ Flushes(s) PROVE disk' = work /\ \A t \in Tables : WorkIs(t)
  BY <1>w DEF Commit, CanFlush, EndTx, Flushes, WorkOK
<1>n. writer = s /\ (Commit(s) \/ Flushes(s)) <=> Commit(s) \/ Flushes(s)
  BY DEF Commit, CanFlush, Flushes
<1>3. ASSUME Commit(s) \/ (Dml(s) /\ Flushes(s)) PROVE \A t \in Tables : SameInFile(t)
  <2> SUFFICES ASSUME NEW t \in Tables PROVE SameInFile(t)
    OBVIOUS
  <2>1. ~AddsTo(writer, t) /\ ~RowOf(writer, t)
    BY <1>3, <1>n DEF AddsTo, RowOf, Commit, Dml
  <2> QED
    BY <1>3, <1>w, <2>1 DEF WorkIs, SameInFile
<1>4. ASSUME Flushes(s), NEW t \in Tables, AddColumn(s) \/ DeleteRow(s) \/ SaveRow(s)
      PROVE  /\ AddsTo(writer, t) <=> AddColumn(s) /\ t = Tbl(s)
             /\ RowOf(writer, t) <=> (DeleteRow(s) \/ SaveRow(s)) /\ t = Tbl(s)
             /\ at[writer] = "unsave" <=> DeleteRow(s)
  BY <1>4, <1>n DEF AddsTo, RowOf, Flushes, AddColumn, DeleteRow, SaveRow
<1>5. ASSUME Flushes(s), AddColumn(s) \/ DeleteRow(s) \/ SaveRow(s), NEW t \in Tables, t # Tbl(s)
      PROVE  SameInFile(t)
  BY <1>4, <1>5, <1>w DEF WorkIs, SameInFile
<1>6. ASSUME AddColumn(s) \/ DeleteRow(s) \/ SaveRow(s) PROVE Tbl(s) \in Tables
  BY <1>6, WithType DEF AddColumn, DeleteRow, SaveRow, AlterAt, Altering
<1>7. ASSUME Flushes(s), AddColumn(s), AddedColumn(s) PROVE FileColumn(s)
  <2>1. AddsTo(writer, Tbl(s)) /\ ~RowOf(writer, Tbl(s)) /\ WorkIs(Tbl(s)) /\ writer = s
    BY <1>4, <1>6, <1>7, <1>w, <1>n DEF RowOf, AddColumn
  <2> QED
    BY <1>7, <1>w, <2>1 DEF WorkIs, FileColumn
<1>8. ASSUME Flushes(s), DeleteRow(s) PROVE FileNoRow(s)
  <2>1. ~AddsTo(writer, Tbl(s)) /\ RowOf(writer, Tbl(s)) /\ WorkIs(Tbl(s)) /\ at[writer] = "unsave"
    BY <1>4, <1>6, <1>8, <1>w DEF AddsTo, RowOf, DeleteRow
  <2> QED
    BY <1>8, <1>w, <2>1 DEF WorkIs, FileNoRow
<1>9. ASSUME Flushes(s), SaveRow(s) PROVE FileRow(s)
  <2>1. ~AddsTo(writer, Tbl(s)) /\ RowOf(writer, Tbl(s)) /\ WorkIs(Tbl(s)) /\ writer = s /\ at[s] = "save"
    BY <1>4, <1>6, <1>9, <1>w, <1>n DEF AddsTo, RowOf, SaveRow
  <2> QED
    BY <1>9, <1>w, <2>1 DEF WorkIs, FileRow
<1> QED
  BY <1>1, <1>2, <1>3, <1>5, <1>6, <1>7, <1>8, <1>9, SQLSteps DEF EndTx, WritesInTx, Reserves

\* The steps that change the catalog in memory.
LEMMA CatalogSteps ==
    ASSUME NEW s, Step(s) \/ Application(s)
    PROVE  \/ UNCHANGED <<map, res>>
           \/ Sync(s) \/ Readd(s)
           \/ ResetStart(s) /\ map[Tbl(s)] # None
           \/ \E t \in Tables : ResetAdd(s, t)
<1>1. ASSUME Dml(s) \/ AddColumn(s) \/ DeleteRow(s) \/ SaveRow(s) PROVE UNCHANGED <<map, res>>
  BY <1>1, DmlSteps, AddColumnSteps, DeleteRowSteps, SaveRowSteps DEF Reserves, AddedColumn, catalogVars
<1>2. ASSUME SQLFails(s) PROVE UNCHANGED <<map, res>>
  BY <1>2 DEF SQLFails, catalogVars
<1> QED
  BY <1>1, <1>2 DEF Step, Application, LockWasm, LockMu, Resolve, Select, OpenScan, Filter, AlterRead,
         AddPresent, AddDuplicate, AddedAll, ResetStart, ResetEnd, Commit, BusyTimeout, Cancel,
         Start, BeginTx, CommitStart, Rollback, CloseRows, catalogVars

\* Where ALTER TABLE and a resolved statement go.
LEMMA PlaceSteps ==
    ASSUME TypeInv, NEW s \in Sessions, Step(s) \/ Application(s)
    PROVE  \/ at'[s] \notin Altering \cup {"run"}
           \/ Resolve(s) /\ at'[s] = "run"
           \/ AlterRead(s) \/ AddPresent(s) \/ AddColumn(s) \/ AddedAll(s)
           \/ ResetStart(s) /\ map[Tbl(s)] # None
           \/ (\E t \in Tables : ResetAdd(s, t)) \/ ResetEnd(s) \/ DeleteRow(s) \/ Readd(s)
           \/ UNCHANGED <<at, stmt, seen, todo, copy, changed, left>> /\ (Dml(s) \/ SaveRow(s))
<1>t. at \in [Sessions -> Places]
  BY TypeParts DEF TypeInv, AtType
<1>1. ASSUME Dml(s) PROVE at'[s] = "idle" \/ UNCHANGED <<at, stmt, seen, todo, copy, changed, left>>
  BY <1>1, <1>t, DmlSteps DEF Dml, Reserves, Goto, callVars, alterVars
<1>2. ASSUME SaveRow(s) PROVE at'[s] = "idle" \/ UNCHANGED <<at, stmt, seen, todo, copy, changed, left>>
  <2>1. UNCHANGED callVars
    BY <1>2 DEF SaveRow
  <2> QED
    BY <1>2, <1>t, <2>1, SaveRowSteps DEF Reserves, Goto, callVars, alterVars
<1>3. ASSUME SQLFails(s) PROVE at'[s] = "idle"
  BY <1>3, <1>t DEF SQLFails, EndTx, Goto
<1>4. ASSUME Application(s), ~SQLFails(s) PROVE at'[s] \in {"idle", "wasm", "commit"}
  BY <1>4, <1>t DEF Application, Start, BeginTx, CommitStart, Rollback, CloseRows, EndTx, Cancel, Goto
<1>5. ASSUME LockWasm(s) \/ LockMu(s) \/ Sync(s) \/ Select(s) \/ OpenScan(s) \/ Filter(s) \/ AddDuplicate(s)
             \/ Commit(s) \/ (ResetStart(s) /\ map[Tbl(s)] = None)
      PROVE  at'[s] \in {"mu", "sync", "resolve", "rows", "scan", "idle"}
  BY <1>5, <1>t DEF LockWasm, LockMu, Sync, Select, OpenScan, Filter, AddDuplicate, Commit, EndTx, ResetStart, Goto
<1>6. ASSUME Resolve(s) PROVE at'[s] \in {"run", "alter", "idle"}
  BY <1>6, <1>t DEF Resolve, Goto
<1> QED
  BY <1>1, <1>2, <1>3, <1>4, <1>5, <1>6 DEF Step, BusyTimeout, Altering

LEMMA WithinNext ==
    ASSUME WithinInv, NEW s \in Sessions, Step(s) \/ Application(s)
    PROVE  WithinOK'
<1>t. /\ TypeInv /\ TxOK /\ WriterOK /\ WorkOK /\ WithinOK
      /\ at \in [Sessions -> Places] /\ map \in [Tables -> Specs] /\ res \in [Tables -> Specs]
      /\ AlterType /\ CallType
  BY TypeParts DEF WithinInv, TypeInv, AtType, CatType
<1>d. \/ \A t \in Tables : SameInFile(t)
      \/ /\ FileColumn(s) \/ FileNoRow(s) \/ FileRow(s)
         /\ Tbl(s) \in Tables
         /\ \A t \in Tables : t # Tbl(s) => SameInFile(t)
  BY <1>t, DiskSteps
<1>g. \A t \in Tables : disk.cols[t] \subseteq disk'.cols[t]
  BY <1>d DEF SameInFile, FileColumn, FileNoRow, FileRow
<1>w. ASSUME NEW t \in Tables, NEW c, Within(c, t) PROVE Within(c, t)'
  BY <1>g, <1>w DEF Within
<1>o. OthersSame(s)
  BY <1>t, OthersStep
<1>1. ASSUME NEW t \in Tables PROVE Within(disk.row[t], t)'
  <2>1. Within(disk.row[t], t)
    BY <1>t DEF WithinOK
  <2>2. CASE disk'.row[t] = disk.row[t] \/ disk'.row[t] = None
    BY <1>g, <2>1, <2>2 DEF Within
  <2>3. CASE FileRow(s) /\ t = Tbl(s)
    <3>1. Within(copy[s], t)
      BY <1>t, <2>3 DEF FileRow, SaveRow, WithinOK, SessionWithin, Altering
    <3> QED
      BY <1>g, <2>3, <3>1 DEF FileRow, Within
  <2> QED
    BY <1>d, <2>2, <2>3 DEF SameInFile, FileColumn, FileNoRow
<1>2. ASSUME NEW t \in Tables PROVE Within(map[t], t)' /\ Within(res[t], t)'
  <2>1. Within(map[t], t) /\ Within(res[t], t) /\ Within(disk.row[t], t)
    BY <1>t DEF WithinOK
  <2>2. CASE UNCHANGED <<map, res>>
    BY <1>g, <2>1, <2>2 DEF Within
  <2>3. CASE Sync(s)
    <3>1. View(s).row[t] = disk.row[t]
      <4>1. CASE writer = s
        <5>1. WorkIs(t) /\ ~RowOf(writer, t)
          BY <1>t, <2>3, <4>1 DEF WorkOK, RowOf, Sync
        <5> QED
          BY <4>1, <5>1 DEF WorkIs, View
      <4> QED
        BY <4>1 DEF View
    <3>2. map'[t] \in {map[t], disk.row[t]} /\ res'[t] \in {res[t], disk.row[t]}
      BY <2>3, <3>1 DEF Sync, Loaded, Registered
    <3> QED
      BY <1>g, <2>1, <3>2 DEF Within
  <2>4. CASE Readd(s)
    <3>1. Tbl(s) = t => Within(copy[s], t)
      BY <1>t, <2>4 DEF Readd, WithinOK, SessionWithin, Altering
    <3>2. /\ map'[t] = map[t] \/ (Tbl(s) = t /\ map'[t] = copy[s])
          /\ res'[t] = res[t] \/ (Tbl(s) = t /\ res'[t] = copy[s])
      BY <1>t, <2>4 DEF Readd
    <3> QED
      BY <1>g, <2>1, <3>1, <3>2 DEF Within
  <2>5. CASE ResetStart(s) /\ map[Tbl(s)] # None
    BY <2>5 DEF ResetStart, NoSpecs, Within
  <2>6. CASE \E v \in Tables : ResetAdd(s, v)
    <3>1. PICK v \in Tables : ResetAdd(s, v)
      BY <2>6
    <3>2. Within(todo[s][v], v)
      BY <1>t, <3>1 DEF ResetAdd, WithinOK, SessionWithin
    <3>3. /\ map'[t] = map[t] \/ (v = t /\ map'[t] = todo[s][v])
          /\ res'[t] = res[t] \/ (v = t /\ res'[t] = todo[s][v])
      BY <1>t, <3>1 DEF ResetAdd
    <3> QED
      BY <1>g, <2>1, <3>2, <3>3 DEF Within
  <2> QED
    BY <2>2, <2>3, <2>4, <2>5, <2>6, CatalogSteps
<1>3. ASSUME NEW u \in Sessions, at'[u] # "idle" PROVE u # s => SessionWithin(u)'
  <2> SUFFICES ASSUME u # s PROVE SessionWithin(u)'
    OBVIOUS
  <2>1. /\ at'[u] = at[u] /\ seen'[u] = seen[u] /\ todo'[u] = todo[u] /\ copy'[u] = copy[u]
        /\ Tbl(u)' = Tbl(u)
    BY <1>o DEF OthersSame, Tbl
  <2>2. SessionWithin(u) /\ Tbl(u) \in Tables
    BY <1>t, <1>3, <2>1, StmtType DEF WithinOK
  <2> QED
    BY <1>g, <2>1, <2>2 DEF SessionWithin, Within
<1>4. ASSUME at'[s] \in Altering \cup {"run"} PROVE SessionWithin(s)'
  <2>a. at[s] # "idle"
    <3>1. ASSUME AddColumn(s) \/ DeleteRow(s) \/ Dml(s) \/ SaveRow(s) PROVE at[s] # "idle"
      BY <3>1 DEF AddColumn, DeleteRow, Dml, SaveRow
    <3>2. ASSUME Resolve(s) \/ AlterRead(s) \/ AddPresent(s) \/ AddedAll(s) \/ ResetStart(s) \/ ResetEnd(s)
                 \/ Readd(s) \/ \E t \in Tables : ResetAdd(s, t)
          PROVE  at[s] # "idle"
      BY <3>2 DEF Resolve, AlterRead, AddPresent, AddedAll, ResetStart, ResetAdd, ResetEnd, Readd
    <3> QED
      BY <1>t, <1>4, <3>1, <3>2, PlaceSteps
  <2>b. Tbl(s) \in Tables /\ SessionWithin(s)
    BY <1>t, <2>a, StmtType DEF WithinOK
  <2>c. ASSUME stmt' = stmt, copy'[s] = copy[s], at[s] \in Altering, at'[s] \in Altering \ {"reset"}
        PROVE  SessionWithin(s)'
    BY <1>w, <2>b, <2>c DEF SessionWithin, Within, Tbl, Altering
  <2>1. CASE Resolve(s) /\ at'[s] = "run"
    <3>1. stmt' = stmt /\ seen'[s] \in {None, res[Tbl(s)], seen[s]} /\ (seen'[s] = seen[s] => at'[s] # "run" \/ seen'[s] \in {None, res[Tbl(s)]})
      BY <1>t, <2>1 DEF Resolve, Goto, CallType, Tbl
    <3>2. Within(res[Tbl(s)], Tbl(s))
      BY <1>t, <2>b DEF WithinOK
    <3> QED
      BY <1>g, <2>1, <2>b, <3>1, <3>2 DEF SessionWithin, Within, Tbl, Altering
  <2>2. CASE AlterRead(s)
    <3>1. stmt' = stmt /\ at'[s] = "add" /\ copy'[s] = map[Tbl(s)]
      BY <1>t, <1>4, <2>2 DEF AlterRead, Goto, Altering, AlterType, callVars
    <3>2. Within(map[Tbl(s)], Tbl(s))
      BY <1>t, <2>b DEF WithinOK
    <3> QED
      BY <1>g, <2>b, <3>1, <3>2 DEF SessionWithin, Within, Tbl
  <2>3. CASE AddColumn(s)
    <3>1. CASE Reserves(s, WithColumn(s))
      BY <2>c, <2>3, <3>1 DEF AddColumn, Reserves, callVars, alterVars, Altering
    <3>2. CASE Flushes(s) /\ AddedColumn(s)
      <4>1. copy'[s] = copy[s] \cup {Head(left[s])} /\ at' = at /\ at[s] = "add" /\ stmt' = stmt
        BY <1>t, <2>3, <3>2 DEF AddedColumn, AddColumn, AlterType, callVars
      <4>2. WorkIs(Tbl(s)) /\ AddsTo(writer, Tbl(s)) /\ disk' = work /\ writer = s
        BY <1>t, <2>b, <3>2, <4>1 DEF WorkOK, Flushes, CanFlush, AddsTo
      <4>3. disk'.cols[Tbl(s)] = disk.cols[Tbl(s)] \cup {Head(left[s])}
        BY <4>2 DEF WorkIs
      <4>4. copy[s] \in SUBSET Columns /\ Within(copy[s], Tbl(s))
        BY <1>t, <2>b, <4>1 DEF AlterType, SessionWithin, Altering
      <4> QED
        BY <4>1, <4>3, <4>4 DEF SessionWithin, Within, Tbl, Altering
    <3> QED
      BY <1>t, <2>3, <3>1, <3>2, SQLSteps, AddColumnSteps DEF WritesInTx, AddColumn, TxOK, TypeInv, StmtOK, AlterAt, Altering
  <2>4. CASE AddPresent(s) \/ AddedAll(s) \/ ResetEnd(s) \/ Readd(s)
    <3>1. stmt' = stmt /\ copy' = copy /\ at[s] \in Altering /\ at'[s] \in Altering \ {"reset"}
      BY <1>t, <1>4, <2>4 DEF AddPresent, AddedAll, ResetEnd, Readd, Goto, callVars, alterVars, Altering
    <3> QED
      BY <2>c, <3>1
  <2>5. CASE DeleteRow(s)
    <3>1. stmt' = stmt /\ copy' = copy /\ at[s] = "unsave" /\ (at' = at \/ Goto(s, "readd"))
      <4>1. UNCHANGED callVars /\ at[s] = "unsave"
        BY <2>5 DEF DeleteRow
      <4> QED
        BY <2>5, <4>1, DeleteRowSteps DEF Reserves, callVars, alterVars
    <3>2. at'[s] \in {"unsave", "readd"}
      BY <1>t, <3>1 DEF Goto
    <3> QED
      BY <2>c, <3>1, <3>2 DEF Altering
  <2>6. CASE ResetStart(s) /\ map[Tbl(s)] # None
    <3>1. /\ stmt' = stmt /\ copy' = copy /\ at[s] = "drop" /\ at'[s] = "reset"
          /\ todo'[s] = [map EXCEPT ![Tbl(s)] = None]
      BY <1>t, <2>6 DEF ResetStart, Goto, callVars, AlterType
    <3>2. ASSUME NEW t \in Tables PROVE Within(todo[s][t], t)'
      <4>1. todo'[s][t] \in {None, map[t]} /\ Within(map[t], t)
        BY <1>t, <3>1 DEF WithinOK
      <4> QED
        BY <1>g, <4>1 DEF Within
    <3>3. Within(copy[s], Tbl(s))'
      BY <1>g, <2>b, <3>1 DEF SessionWithin, Within, Tbl, Altering
    <3> QED
      BY <3>1, <3>2, <3>3 DEF SessionWithin
  <2>7. CASE \E v \in Tables : ResetAdd(s, v)
    <3>1. PICK v \in Tables : ResetAdd(s, v)
      BY <2>7
    <3>2. stmt' = stmt /\ copy' = copy /\ at' = at /\ at[s] = "reset"
      BY <3>1 DEF ResetAdd, callVars
    <3>3. ASSUME NEW t \in Tables PROVE Within(todo[s][t], t)'
      <4>1. todo'[s][t] \in {None, todo[s][t]} /\ Within(todo[s][t], t)
        BY <1>t, <2>b, <3>1, <3>2 DEF ResetAdd, SessionWithin, AlterType
      <4> QED
        BY <1>g, <4>1 DEF Within
    <3>4. Within(copy[s], Tbl(s))'
      BY <1>g, <2>b, <3>2 DEF SessionWithin, Within, Tbl, Altering
    <3> QED
      BY <3>2, <3>3, <3>4 DEF SessionWithin
  <2>8. CASE UNCHANGED <<at, stmt, seen, todo, copy, changed, left>>
    BY <1>g, <2>b, <2>8 DEF SessionWithin, Within, Tbl
  <2> QED
    BY <1>t, <1>4, <2>1, <2>2, <2>3, <2>4, <2>5, <2>6, <2>7, <2>8, PlaceSteps
<1>5. ASSUME NEW u \in Sessions PROVE SessionWithin(u)'
  <2>1. at'[u] \notin Altering \cup {"run"} => SessionWithin(u)'
    BY DEF SessionWithin, Altering
  <2>2. "idle" \notin Altering \cup {"run"}
    BY DEF Altering
  <2> QED
    BY <1>3, <1>4, <2>1, <2>2
<1> QED
  BY <1>1, <1>2, <1>5 DEF WithinOK

LEMMA WithinInit == Init => WithinInv
<1> SUFFICES ASSUME Init PROVE WithinInv
  OBVIOUS
<1>1. TxOK /\ WriterOK /\ WorkOK
  BY DEF Init, TxOK, WriterOK, WorkOK
<1>2. \A t \in Tables : Within(map[t], t) /\ Within(res[t], t) /\ Within(disk.row[t], t)
  BY DEF Init, Within
<1>3. \A s \in Sessions : SessionWithin(s)
  <2>1. \A s \in Sessions : at[s] = "idle"
    BY DEF Init
  <2> QED
    BY <2>1 DEF SessionWithin, Altering
<1> QED
  BY <1>1, <1>2, <1>3, TypeInit DEF WithinInv, WithinOK

LEMMA WithinInvNext ==
    ASSUME NoDdlTx, WithinInv, NEW s \in Sessions, Step(s) \/ Application(s)
    PROVE  WithinInv'
<1>1. Next
  BY DEF Next
<1> QED
  BY <1>1, TypeNext, TxNext, WriterNext, WorkNext, WithinNext DEF WithinInv

LEMMA WithinSame ==
    ASSUME WithinInv, UNCHANGED vars
    PROVE  WithinInv'
<1>1. UNCHANGED <<writer, disk, work, map, res, tx, at, stmt, seen, left, copy, todo>>
  BY DEF vars, lockVars, sqliteVars, catalogVars, alterVars, callVars, ghostVars
<1>2. TypeInv'
  BY TypeNext DEF WithinInv
<1>3. TxOK'
  BY <1>1 DEF WithinInv, TxOK
<1>4. WriterOK'
  BY <1>1 DEF WithinInv, WriterOK
<1>5. WorkOK'
  BY <1>1 DEF WithinInv, WorkOK, WorkIs, AddsTo, RowOf, Tbl
<1>6. WithinOK'
  BY <1>1 DEF WithinInv, WithinOK, SessionWithin, Within, Tbl
<1> QED
  BY <1>2, <1>3, <1>4, <1>5, <1>6 DEF WithinInv

\* ALTER TABLE outside a Tx adds the columns to the SQLite table before any
\* spec or row has them, and never takes one away: whatever the interleaving,
\* and wherever a statement of it fails, no session reads a column that the
\* table lacks (stmt_action_alter.go:86-108).
THEOREM ReadersFindColumns == NoDdlTx => (Spec => []SpecWithinTable)
<1> SUFFICES ASSUME NoDdlTx PROVE Spec => []SpecWithinTable
  OBVIOUS
<1>1. WithinInv /\ [Next]_vars => WithinInv'
  BY WithinInvNext, WithinSame DEF Next
<1>2. WithinInv => SpecWithinTable
  BY DEF WithinInv, WithinOK, SessionWithin, Within, SpecWithinTable
<1> QED
  BY <1>1, <1>2, WithinInit, PTL DEF Spec

-----------------------------------------------------------------------------
(* ALTER TABLE of one session.                                             *)

LEMMA ChangedNext ==
    ASSUME TypeInv, ChangedOK, NEW s \in Sessions, Step(s) \/ Application(s)
    PROVE  ChangedOK'
<1>o. OthersSame(s)
  BY OthersStep
<1>t. at \in [Sessions -> Places] /\ changed \in [Sessions -> BOOLEAN]
  BY TypeParts DEF TypeInv, AtType, AlterType
<1>1. ASSUME /\ at'[s] \in {"wasm", "mu", "sync", "resolve", "alter"} => ~changed'[s]
             /\ at'[s] \in Altering \ {"add"} => changed'[s]
      PROVE  ChangedOK'
  BY <1>o, <1>1 DEF ChangedOK, OthersSame
<1>2. ASSUME at'[s] \in {"idle", "rows", "run", "scan", "add", "commit"} PROVE ChangedOK'
  BY <1>1, <1>2 DEF Altering
<1>3. ASSUME UNCHANGED <<at, changed>> PROVE ChangedOK'
  BY <1>1, <1>3 DEF ChangedOK
<1>4. ASSUME Dml(s) \/ DeleteRow(s) \/ SaveRow(s) PROVE ChangedOK'
  <2>1. changed' = changed /\ (at' = at \/ Goto(s, "idle") \/ (Goto(s, "readd") /\ at[s] = "unsave"))
    <3>1. DeleteRow(s) => at[s] = "unsave"
      BY DEF DeleteRow
    <3> QED
      BY <1>4, <3>1, DmlSteps, DeleteRowSteps, SaveRowSteps DEF Reserves, alterVars
  <2>2. CASE Goto(s, "readd") /\ at[s] = "unsave"
    BY <1>1, <1>t, <2>1, <2>2 DEF Goto, ChangedOK, Altering
  <2> QED
    BY <1>2, <1>3, <1>t, <2>1, <2>2 DEF Goto
<1>5. ASSUME AddColumn(s) PROVE ChangedOK'
  <2>1. at' = at /\ at[s] = "add"
    <3>1. at[s] = "add"
      BY <1>5 DEF AddColumn
    <3> QED
      BY <1>5, <3>1, AddColumnSteps DEF Reserves, AddedColumn
  <2> QED
    BY <1>2, <2>1
<1>6. ASSUME SQLFails(s) \/ Commit(s) \/ CommitStart(s) \/ Rollback(s) \/ CloseRows(s) \/ Select(s) \/ OpenScan(s)
             \/ Filter(s) \/ AlterRead(s) \/ AddPresent(s) \/ AddDuplicate(s)
      PROVE  ChangedOK'
  <2>1. at'[s] \in {"idle", "rows", "run", "scan", "add", "commit"}
    BY <1>6, <1>t DEF SQLFails, Commit, CommitStart, Rollback, CloseRows, EndTx, Select, OpenScan, Filter,
                      AlterRead, AddPresent, AddDuplicate, Goto
  <2> QED
    BY <1>2, <2>1
<1>7. ASSUME BeginTx(s) \/ \E t \in Tables : ResetAdd(s, t) PROVE ChangedOK'
  BY <1>3, <1>7 DEF BeginTx, ResetAdd, alterVars
<1>8. ASSUME NEW st, Start(s, st) PROVE ChangedOK'
  BY <1>1, <1>8, <1>t DEF Start, Goto, Altering
<1>9. ASSUME LockWasm(s) \/ LockMu(s) \/ Sync(s) \/ Resolve(s) PROVE ChangedOK'
  <2>1. /\ changed' = changed /\ at[s] \in {"wasm", "mu", "sync", "resolve"}
        /\ at'[s] \in {"mu", "sync", "resolve", "alter", "run", "idle"}
    BY <1>9, <1>t DEF LockWasm, LockMu, Sync, Resolve, Goto, alterVars
  <2> QED
    BY <1>1, <2>1 DEF ChangedOK, Altering
<1>10. ASSUME AddedAll(s) PROVE ChangedOK'
  BY <1>1, <1>10, <1>t DEF AddedAll, Goto, alterVars, Altering
<1>11. ASSUME ResetStart(s) \/ ResetEnd(s) \/ Readd(s) PROVE ChangedOK'
  <2>1. /\ changed' = changed /\ at[s] \in {"drop", "reset", "readd"}
        /\ at'[s] \in {"reset", "unsave", "save", "idle"}
    BY <1>11, <1>t DEF ResetStart, ResetEnd, Readd, Goto, alterVars
  <2> QED
    BY <1>1, <2>1 DEF ChangedOK, Altering
<1> QED
  BY <1>4, <1>5, <1>6, <1>7, <1>8, <1>9, <1>10, <1>11 DEF Step, Application, BusyTimeout, Cancel

\* The steps that change what resetCatalog has still to add.
LEMMA TodoSteps ==
    ASSUME TypeInv, NEW s \in Sessions, Step(s) \/ Application(s)
    PROVE  \/ (todo' = todo /\ at[s] # "reset" /\ at'[s] # "reset")
           \/ ResetStart(s) /\ map[Tbl(s)] # None
           \/ (\E t \in Tables : ResetAdd(s, t)) \/ ResetEnd(s)
<1>t. at \in [Sessions -> Places]
  BY TypeParts DEF TypeInv, AtType
<1>1. ASSUME Dml(s) \/ AddColumn(s) \/ DeleteRow(s) \/ SaveRow(s)
      PROVE  todo' = todo /\ at[s] # "reset" /\ at'[s] # "reset"
  <2>1. at[s] # "reset"
    BY <1>1 DEF Dml, AddColumn, DeleteRow, SaveRow
  <2>2. todo' = todo /\ (at' = at \/ Goto(s, "idle") \/ Goto(s, "readd"))
    BY <1>1, DmlSteps, AddColumnSteps, DeleteRowSteps, SaveRowSteps DEF Reserves, AddedColumn, alterVars
  <2> QED
    BY <1>t, <2>1, <2>2 DEF Goto
<1>2. ASSUME SQLFails(s) PROVE todo' = todo /\ at[s] # "reset" /\ at'[s] # "reset"
  BY <1>2, <1>t DEF SQLFails, EndTx, Goto, alterVars, AtSQL
<1>3. ASSUME Application(s), ~SQLFails(s) PROVE todo' = todo /\ at[s] # "reset" /\ at'[s] # "reset"
  BY <1>3, <1>t DEF Application, Start, BeginTx, CommitStart, Rollback, CloseRows, EndTx, Cancel, Goto, alterVars
<1>4. ASSUME \/ LockWasm(s) \/ LockMu(s) \/ Sync(s) \/ Resolve(s) \/ Select(s) \/ OpenScan(s) \/ Filter(s)
             \/ AlterRead(s) \/ AddPresent(s) \/ AddDuplicate(s) \/ AddedAll(s) \/ Commit(s) \/ Readd(s)
             \/ (ResetStart(s) /\ map[Tbl(s)] = None)
      PROVE  todo' = todo /\ at[s] # "reset" /\ at'[s] # "reset"
  BY <1>4, <1>t DEF LockWasm, LockMu, Sync, Resolve, Select, OpenScan, Filter, AlterRead, AddPresent,
                    AddDuplicate, AddedAll, Commit, EndTx, Readd, ResetStart, Goto, alterVars
<1> QED
  BY <1>1, <1>2, <1>3, <1>4 DEF Step, BusyTimeout

LEMMA TodoNext ==
    ASSUME TypeInv, MuOK, TodoOK, NEW s \in Sessions, Step(s) \/ Application(s)
    PROVE  TodoOK'
<1>t. /\ at \in [Sessions -> Places] /\ map \in [Tables -> Specs]
      /\ todo \in [Sessions -> [Tables -> Specs]]
  BY TypeParts DEF TypeInv, AtType, CatType, AlterType
<1>o. OthersSame(s)
  BY OthersStep
<1>1. CASE ResetStart(s) /\ map[Tbl(s)] # None
  BY <1>1 DEF ResetStart, TodoOK, NoSpecs
<1>2. CASE \E t \in Tables : ResetAdd(s, t)
  <2>1. PICK v \in Tables : ResetAdd(s, v)
    BY <1>2
  <2>2. \A u \in Sessions : at[u] = "reset" => u = s
    BY <2>1 DEF MuOK, Held, ResetAdd
  <2>3. /\ at' = at /\ todo'[s][v] = None
        /\ \A t \in Tables : t # v => todo'[s][t] = todo[s][t] /\ map'[t] = map[t]
    BY <1>t, <2>1 DEF ResetAdd
  <2> QED
    BY <2>2, <2>3 DEF TodoOK
<1>3. CASE ResetEnd(s)
  <2>1. map' = map /\ todo' = todo /\ at'[s] = "unsave"
    BY <1>3, <1>t DEF ResetEnd, Goto, catalogVars, alterVars
  <2> QED
    BY <1>o, <2>1 DEF TodoOK, OthersSame
<1>4. CASE todo' = todo /\ at[s] # "reset" /\ at'[s] # "reset"
  <2>1. CASE map' = map
    BY <1>o, <1>4, <2>1 DEF TodoOK, OthersSame
  <2>2. CASE Sync(s) \/ Readd(s)
    <3>1. \A u \in Sessions : at[u] # "reset"
      BY <1>4, <2>2 DEF Sync, Readd, MuOK, Held
    <3> QED
      BY <1>o, <1>4, <3>1 DEF TodoOK, OthersSame
  <2> QED
    BY <1>1, <1>2, <2>1, <2>2, CatalogSteps
<1> QED
  BY <1>1, <1>2, <1>3, <1>4, TodoSteps

\* A table that session s does not alter.
Mine(s, t) == at[s] \in AlterAt /\ Tbl(s) = t

LEMMA MineAlone ==
    ASSUME OneAlterer, TypeInv, NEW s \in Sessions, NEW t, Mine(s, t),
           NEW u \in Sessions, Alters(u, t)
    PROVE  u = s
<1>1. /\ stmt[s] \in Statements[s] /\ stmt[s].kind = "alter"
      /\ stmt[u] \in Statements[u] /\ stmt[u].kind = "alter"
  BY DEF TypeInv, StmtOK, Mine, Alters, AlterAt, Altering
<1> QED
  BY <1>1 DEF OneAlterer, Mine, Alters, Tbl

LEMMA MineSteps ==
    ASSUME TypeInv, NEW s \in Sessions, Step(s) \/ Application(s), at'[s] \in Altering
    PROVE  at[s] \in AlterAt /\ stmt' = stmt
<1>1. ASSUME AddColumn(s) \/ DeleteRow(s) \/ SaveRow(s) PROVE at[s] \in AlterAt /\ stmt' = stmt
  BY <1>1 DEF AddColumn, DeleteRow, SaveRow, AlterAt, Altering, callVars
<1>2. ASSUME AlterRead(s) \/ AddPresent(s) \/ AddedAll(s) \/ ResetStart(s) \/ ResetEnd(s) \/ Readd(s)
             \/ \E t \in Tables : ResetAdd(s, t)
      PROVE  at[s] \in AlterAt /\ stmt' = stmt
  BY <1>2 DEF AlterRead, AddPresent, AddedAll, ResetStart, ResetEnd, Readd, ResetAdd, AlterAt, Altering, callVars
<1>3. "run" \notin Altering
  BY DEF Altering
<1> QED
  BY <1>1, <1>2, <1>3, PlaceSteps DEF Dml, AlterAt

LEMMA NotMine ==
    ASSUME TypeInv, NEW s \in Sessions, Step(s) \/ Application(s), NEW t, ~Mine(s, t)
    PROVE  /\ Settled(t)' => Settled(t)
           /\ \A a \in Sessions : Alters(a, t)' =>
                 a # s /\ Alters(a, t) /\ at'[a] = at[a] /\ copy'[a] = copy[a]
<1>1. ~Alters(s, t) /\ ~Alters(s, t)'
  BY MineSteps DEF Mine, Alters, AlterAt, Tbl
<1>2. ASSUME NEW a \in Sessions, a # s
      PROVE  /\ Alters(a, t)' <=> Alters(a, t)
             /\ at'[a] = at[a] /\ copy'[a] = copy[a] /\ changed'[a] = changed[a]
  BY <1>2, OthersStep DEF OthersSame, Alters, Tbl
<1> QED
  BY <1>1, <1>2 DEF Settled

LEMMA MineIs ==
    ASSUME OneAlterer, TypeInv, NEW s \in Sessions, Step(s) \/ Application(s), NEW t, Mine(s, t),
           Alters(s, t)' => TableAltered(s, t)',
           (Alters(s, t)' => at'[s] = "add" /\ ~changed'[s]) => TableSettled(t)'
    PROVE  TableOK(t)'
<1>1. ASSUME NEW a \in Sessions, a # s PROVE ~Alters(a, t)'
  BY <1>1, MineAlone, OthersStep DEF OthersSame, Alters, Tbl
<1> QED
  BY <1>1 DEF TableOK, Settled

LEMMA MineSettled ==
    ASSUME OneAlterer, TypeInv, NEW s \in Sessions, NEW t, Mine(s, t), TableOK(t),
           at[s] \in {"alter", "add"}, at[s] = "add" => ~changed[s]
    PROVE  TableSettled(t)
<1>1. ASSUME NEW u \in Sessions, Alters(u, t) PROVE at[u] = "add" /\ ~changed[u]
  <2>1. u = s /\ at[s] \in Altering
    BY <1>1, MineAlone DEF Alters
  <2> QED
    BY <2>1 DEF Altering
<1> QED
  BY <1>1 DEF TableOK, Settled

\* What keeps a table as it was.
CatalogKept(t) ==
    /\ map'[t] = map[t] /\ res'[t] = res[t]
    /\ \A u \in Sessions : at[u] = "reset" <=> at'[u] = "reset"
    /\ \A u \in Sessions : at[u] = "reset" => todo'[u][t] = todo[u][t]

LEMMA KeptSettled ==
    ASSUME NEW t, CatalogKept(t), disk'.cols[t] = disk.cols[t], disk'.row[t] = disk.row[t], TableSettled(t)
    PROVE  TableSettled(t)'
BY DEF CatalogKept, TableSettled

LEMMA KeptAltered ==
    ASSUME NEW t, CatalogKept(t), SameInFile(t), NEW a,
           at'[a] = at[a], copy'[a] = copy[a], TableAltered(a, t)
    PROVE  TableAltered(a, t)'
BY DEF CatalogKept, SameInFile, TableAltered

LEMMA KeptTable ==
    ASSUME TypeInv, NEW s \in Sessions, Step(s) \/ Application(s), NEW t, ~Mine(s, t),
           CatalogKept(t), SameInFile(t), TableOK(t)
    PROVE  TableOK(t)'
<1>1. Settled(t)' => TableSettled(t)'
  BY NotMine, KeptSettled DEF TableOK, SameInFile
<1>2. ASSUME NEW a \in Sessions, Alters(a, t)' PROVE TableAltered(a, t)'
  BY <1>2, NotMine, KeptAltered DEF TableOK
<1> QED
  BY <1>1, <1>2 DEF TableOK

\* A step that leaves the catalog in memory alone.
LEMMA QuietCatalog ==
    ASSUME TypeInv, NEW s \in Sessions, Step(s) \/ Application(s), UNCHANGED <<map, res, todo>>,
           at[s] # "reset", at'[s] # "reset", NEW t
    PROVE  CatalogKept(t)
BY OthersStep DEF OthersSame, CatalogKept

LEMMA FileElsewhere ==
    ASSUME TypeInv, TxOK, WorkOK, NEW s \in Sessions, Step(s) \/ Application(s), NEW t \in Tables, ~Mine(s, t)
    PROVE  SameInFile(t)
<1>1. FileColumn(s) \/ FileNoRow(s) \/ FileRow(s) => Mine(s, Tbl(s))
  BY DEF FileColumn, FileNoRow, FileRow, AddColumn, DeleteRow, SaveRow, Mine, AlterAt, Altering
<1> QED
  BY <1>1, DiskSteps

LEMMA FileQuiet ==
    ASSUME TypeInv, TxOK, WorkOK, NEW s \in Sessions, Step(s) \/ Application(s),
           ~Flushes(s), NEW t \in Tables
    PROVE  SameInFile(t)
BY DiskSteps DEF FileColumn, FileNoRow, FileRow

\* Sync sees the rows of the file.
LEMMA SyncView ==
    ASSUME TypeInv, WorkOK, NEW s \in Sessions, at[s] = "sync", NEW t \in Tables
    PROVE  View(s).row[t] = disk.row[t] /\ (t \in View(s).recent => t \in disk.recent)
<1>1. CASE writer = s
  <2>1. WorkIs(t) /\ ~RowOf(writer, t)
    BY <1>1 DEF WorkOK, RowOf
  <2> QED
    BY <1>1, <2>1 DEF WorkIs, View
<1> QED
  BY <1>1 DEF View

LEMMA NotMineTable ==
    ASSUME AppliedInv, NEW s \in Sessions, Step(s) \/ Application(s),
           NEW t \in Tables \ torn, ~Mine(s, t)
    PROVE  TableOK(t)'
<1>t. /\ TypeInv /\ TxOK /\ WorkOK /\ MuOK /\ TodoOK /\ TableOK(t)
      /\ at \in [Sessions -> Places] /\ map \in [Tables -> Specs] /\ res \in [Tables -> Specs]
      /\ todo \in [Sessions -> [Tables -> Specs]]
  BY TypeParts DEF AppliedInv, WithinInv, TypeInv, AtType, CatType, AlterType
<1>f. SameInFile(t)
  BY <1>t, FileElsewhere
<1>n. /\ Settled(t)' => Settled(t)
      /\ \A a \in Sessions : Alters(a, t)' =>
            a # s /\ Alters(a, t) /\ at'[a] = at[a] /\ copy'[a] = copy[a]
  BY <1>t, NotMine
<1>o. OthersSame(s)
  BY <1>t, OthersStep
<1>c. disk.cols[t] # None
  <2>1. disk.cols[t] \in SUBSET Columns
    BY <1>t DEF TypeInv, TypeOK, Database
  <2> QED
    BY <2>1
<1>1. ASSUME UNCHANGED <<map, res, todo>>, at[s] # "reset", at'[s] # "reset" PROVE TableOK(t)'
  BY <1>1, <1>t, <1>f, QuietCatalog, KeptTable
\* Nobody rebuilds the catalog.
<1>m. ASSUME mu \in {None, s}, at[s] # "reset"
      PROVE  /\ \A u \in Sessions : at[u] # "reset"
             /\ Settled(t)' => map[t] = disk.cols[t] /\ res[t] = disk.cols[t] /\ disk.row[t] = disk.cols[t]
  BY <1>m, <1>t, <1>n DEF MuOK, Held, TableOK, TableSettled
<1>2. CASE Sync(s)
  <2>1. mu = s /\ at[s] = "sync" /\ at'[s] = "resolve"
    BY <1>2, <1>t DEF Sync, MuOK, Held, Goto
  <2>2. View(s).row[t] = disk.row[t] /\ (t \in View(s).recent => t \in disk.recent)
    BY <1>t, <2>1, SyncView
  <2>3. ASSUME Settled(t)' PROVE TableSettled(t)'
    <3>1. map[t] = disk.cols[t] /\ res[t] = disk.cols[t] /\ disk.row[t] = disk.cols[t]
      BY <1>m, <2>1, <2>3
    <3>2. map'[t] = disk.cols[t] /\ res'[t] = disk.cols[t]
      BY <1>2, <1>c, <2>2, <3>1 DEF Sync, Loaded, Registered
    <3> QED
      BY <1>f, <3>1, <3>2 DEF TableSettled, SameInFile
  <2>4. ASSUME NEW a \in Sessions, Alters(a, t)' PROVE TableAltered(a, t)'
    <3>1. TableAltered(a, t) /\ at'[a] = at[a] /\ copy'[a] = copy[a] /\ a # s
      BY <1>t, <1>n, <2>4 DEF TableOK
    <3>2. at[a] # "save" /\ \A u \in Sessions : at'[u] # "reset"
      BY <1>m, <1>o, <1>t, <2>1, <3>1 DEF MuOK, Held, OthersSame
    <3>3. at[a] \in {"reset", "unsave", "readd"} => at[a] = "readd"
      BY <1>t, <2>1, <3>1 DEF MuOK, Held
    <3>4. at[a] = "readd" => map'[t] = map[t] /\ res'[t] = res[t]
      BY <1>2, <2>2, <3>1 DEF TableAltered, Sync, Loaded, Registered
    <3> QED
      BY <1>f, <3>1, <3>2, <3>3, <3>4 DEF TableAltered, SameInFile
  <2> QED
    BY <2>3, <2>4 DEF TableOK
<1>3. CASE Readd(s)
  <2>1. t # Tbl(s) /\ mu = None /\ at'[s] = "save"
    BY <1>3, <1>t DEF Readd, Mine, AlterAt, Altering, Goto
  <2>2. map'[t] = map[t] /\ res'[t] = res[t] /\ todo' = todo /\ at[s] # "reset"
    BY <1>3, <1>t, <2>1 DEF Readd, alterVars
  <2>3. CatalogKept(t)
    BY <1>o, <2>1, <2>2 DEF CatalogKept, OthersSame
  <2> QED
    BY <1>t, <1>f, <2>3, KeptTable
<1>4. CASE ResetStart(s) /\ map[Tbl(s)] # None
  <2>1. t # Tbl(s) /\ mu = None /\ at[s] = "drop" /\ at'[s] = "reset"
    BY <1>4, <1>t DEF ResetStart, Mine, AlterAt, Altering, Goto
  <2>2. map'[t] = None /\ res'[t] = None /\ todo'[s][t] = map[t]
    BY <1>4, <1>t, <2>1 DEF ResetStart, NoSpecs
  <2>3. ASSUME Settled(t)' PROVE TableSettled(t)'
    BY <1>m, <1>f, <2>1, <2>2, <2>3 DEF TableSettled, SameInFile
  <2>4. ASSUME NEW a \in Sessions, Alters(a, t)' PROVE TableAltered(a, t)'
    <3>1. TableAltered(a, t) /\ at'[a] = at[a] /\ copy'[a] = copy[a] /\ a # s
      BY <1>t, <1>n, <2>4 DEF TableOK
    <3>2. at[a] \notin {"reset", "unsave", "save"}
      BY <1>t, <2>1, <3>1 DEF MuOK, Held
    <3>3. \A u \in Sessions : at'[u] = "reset" => u = s
      BY <1>m, <1>o, <2>1 DEF OthersSame
    <3> QED
      BY <1>f, <2>2, <3>1, <3>2, <3>3 DEF TableAltered, SameInFile
  <2> QED
    BY <2>3, <2>4 DEF TableOK
<1>5. CASE \E v \in Tables : ResetAdd(s, v)
  <2>1. PICK v \in Tables : ResetAdd(s, v)
    BY <1>5
  <2>2. /\ at' = at /\ at[s] = "reset" /\ mu = s /\ todo[s][v] # None
        /\ \A u \in Sessions : at[u] = "reset" => u = s
    BY <1>t, <2>1 DEF ResetAdd, MuOK, Held
  <2>3. CASE t # v
    <3>1. CatalogKept(t)
      BY <1>t, <2>1, <2>2, <2>3 DEF ResetAdd, CatalogKept
    <3> QED
      BY <1>t, <1>f, <3>1, KeptTable
  <2>4. CASE t = v
    <3>1. map[t] = None /\ map'[t] = todo[s][t] /\ res'[t] = todo[s][t] /\ todo[s][t] # None
      BY <1>t, <2>1, <2>2, <2>4 DEF ResetAdd, TodoOK
    <3>2. ASSUME Settled(t)' PROVE TableSettled(t)'
      BY <1>t, <1>c, <1>f, <1>n, <2>2, <3>1, <3>2 DEF TableOK, TableSettled, SameInFile
    <3>3. ASSUME NEW a \in Sessions, Alters(a, t)' PROVE TableAltered(a, t)'
      <4>1. TableAltered(a, t) /\ at'[a] = at[a] /\ copy'[a] = copy[a] /\ a # s
        BY <1>t, <1>n, <3>3 DEF TableOK
      <4>2. at[a] \notin {"reset", "unsave", "readd", "save"}
        BY <1>t, <2>2, <3>1, <4>1 DEF TableAltered, MuOK, Held
      <4> QED
        BY <1>f, <4>1, <4>2 DEF TableAltered, SameInFile
    <3> QED
      BY <3>2, <3>3 DEF TableOK
  <2> QED
    BY <2>3, <2>4
<1>6. CASE ResetEnd(s)
  <2>1. /\ at[s] = "reset" /\ at'[s] = "unsave" /\ todo[s][t] = None
        /\ UNCHANGED <<map, res, todo>>
        /\ \A u \in Sessions : at[u] = "reset" => u = s
    BY <1>6, <1>t DEF ResetEnd, NoSpecs, Goto, catalogVars, alterVars, MuOK, Held
  <2>2. ASSUME Settled(t)' PROVE TableSettled(t)'
    BY <1>t, <1>c, <1>f, <1>n, <2>1, <2>2 DEF TableOK, TableSettled, SameInFile
  <2>3. ASSUME NEW a \in Sessions, Alters(a, t)' PROVE TableAltered(a, t)'
    <3>1. TableAltered(a, t) /\ at'[a] = at[a] /\ copy'[a] = copy[a] /\ a # s
      BY <1>t, <1>n, <2>3 DEF TableOK
    <3>2. \A u \in Sessions : at'[u] # "reset"
      BY <1>o, <2>1 DEF OthersSame
    <3> QED
      BY <1>f, <2>1, <3>1, <3>2 DEF TableAltered, SameInFile
  <2> QED
    BY <2>2, <2>3 DEF TableOK
<1> QED
  BY <1>t, <1>1, <1>2, <1>3, <1>4, <1>5, <1>6, CatalogSteps, TodoSteps

LEMMA TornGrows ==
    ASSUME NEW s, Step(s) \/ Application(s)
    PROVE  torn \subseteq torn'
<1>1. ASSUME Dml(s) \/ AddColumn(s) \/ DeleteRow(s) \/ SaveRow(s) PROVE torn' = torn
  BY <1>1, DmlSteps, AddColumnSteps, DeleteRowSteps, SaveRowSteps DEF Reserves, AddedColumn
<1> QED
  BY <1>1 DEF Step, Application, LockWasm, LockMu, Sync, Resolve, Select, OpenScan, Filter, AlterRead,
         AddPresent, AddDuplicate, AddedAll, ResetStart, ResetEnd, ResetAdd, Readd, Commit, BusyTimeout,
         Cancel, SQLFails, Start, BeginTx, CommitStart, Rollback, CloseRows, Torn, ghostVars

\* An ALTER TABLE that fails has changed nothing, or the table is torn.
LEMMA MineFails ==
    ASSUME OneAlterer, TypeInv, ChangedOK, NEW s \in Sessions, Step(s) \/ Application(s),
           NEW t \in Tables \ torn', Mine(s, t), TableOK(t),
           at'[s] = "idle", at[s] = "alter" \/ Torn(s) \/ (at[s] = "add" /\ ~changed[s]),
           UNCHANGED <<map, res, todo>>, at[s] # "reset", SameInFile(t)
    PROVE  TableOK(t)'
<1>1. at[s] # "alter" => ~changed[s]
  BY DEF TypeInv, StmtOK, Mine, Torn
<1>2. at[s] \in {"alter", "add"}
  BY <1>1 DEF ChangedOK, Mine, AlterAt
<1>3. TableSettled(t)
  BY <1>1, <1>2, MineSettled
<1>4. TableSettled(t)'
  BY <1>3, QuietCatalog, KeptSettled DEF SameInFile
<1>5. ~Alters(s, t)'
  BY DEF Alters, Altering
<1> QED
  BY <1>4, <1>5, MineIs

LEMMA MineTable ==
    ASSUME OneAlterer, AppliedInv, NEW s \in Sessions, Step(s) \/ Application(s),
           NEW t \in Tables \ torn', Mine(s, t)
    PROVE  TableOK(t)'
<1>t. /\ TypeInv /\ TxOK /\ WorkOK /\ MuOK /\ TodoOK /\ ChangedOK
      /\ at \in [Sessions -> Places] /\ map \in [Tables -> Specs] /\ res \in [Tables -> Specs]
      /\ AlterType
  BY TypeParts DEF AppliedInv, WithinInv, TypeInv, AtType, CatType
<1>k. TableOK(t) /\ Tbl(s) = t /\ at[s] \in AlterAt
  BY TornGrows DEF AppliedInv, Mine
<1>a. at[s] \in Altering => TableAltered(s, t)
  BY <1>k DEF TableOK, Alters
<1>o. OthersSame(s)
  BY <1>t, OthersStep
<1>c. disk.cols[t] # None
  <2>1. disk.cols[t] \in SUBSET Columns
    BY <1>t DEF TypeInv, TypeOK, Database
  <2> QED
    BY <2>1
<1>f. ~Flushes(s) => SameInFile(t)
  BY <1>t, FileQuiet
<1>e. ASSUME Alters(s, t)' => TableAltered(s, t)', at'[s] \in Altering, Tbl(s)' = Tbl(s), changed'[s]
      PROVE  TableOK(t)'
  BY <1>e, <1>t, <1>k, MineIs DEF Alters
<1>1. CASE AlterRead(s)
  <2>1. /\ at[s] = "alter" /\ mu = None /\ UNCHANGED <<map, res, todo>> /\ ~Flushes(s) /\ stmt' = stmt
        /\ changed' = changed /\ ~changed[s]
    BY <1>1, <1>t DEF AlterRead, Flushes, CanFlush, sqliteVars, catalogVars, callVars, ChangedOK
  <2>2. SameInFile(t)
    BY <1>f, <2>1
  <2>3. CASE map[t] = None
    <3>1. at'[s] = "idle"
      BY <1>1, <1>t, <1>k, <2>3 DEF AlterRead, Goto
    <3> QED
      BY <1>t, <1>k, <2>1, <2>2, <3>1, MineFails
  <2>4. CASE map[t] # None
    <3>1. at'[s] = "add" /\ copy'[s] = map[t]
      BY <1>1, <1>t, <1>k, <2>4 DEF AlterRead, Goto, AlterType
    <3>2. TableSettled(t)
      BY <1>t, <1>k, <2>1, MineSettled
    <3>3. TableSettled(t)'
      BY <1>t, <2>1, <2>2, <3>1, <3>2, QuietCatalog, KeptSettled DEF SameInFile
    <3>4. TableAltered(s, t)'
      BY <2>2, <2>4, <3>1, <3>2 DEF TableAltered, TableSettled, SameInFile
    <3> QED
      BY <1>t, <3>3, <3>4, MineIs
  <2> QED
    BY <2>3, <2>4
<1>2. CASE AddPresent(s)
  <2>1. /\ at[s] = "add" /\ UNCHANGED <<map, res, todo>> /\ ~Flushes(s) /\ stmt' = stmt
        /\ changed' = changed /\ copy' = copy
        /\ at' = at \/ (Goto(s, "idle") /\ Torn(s))
    BY <1>2, <1>t DEF AddPresent, Flushes, CanFlush, sqliteVars, catalogVars, callVars
  <2>2. SameInFile(t)
    BY <1>f, <2>1
  <2>3. CASE Goto(s, "idle") /\ Torn(s)
    <3>1. at'[s] = "idle"
      BY <1>t, <2>3 DEF Goto
    <3> QED
      BY <1>t, <1>k, <2>1, <2>2, <2>3, <3>1, MineFails
  <2>4. CASE at' = at
    <3>1. CatalogKept(t)
      BY <1>t, <2>1, <2>4, QuietCatalog
    <3>2. TableAltered(s, t)'
      BY <1>a, <2>1, <2>2, <2>4, <3>1, KeptAltered DEF Altering
    <3>3. ~changed'[s] => TableSettled(t)'
      BY <1>t, <1>k, <2>1, <2>2, <3>1, MineSettled, KeptSettled DEF SameInFile
    <3>4. Alters(s, t)'
      BY <1>k, <2>1, <2>4 DEF Alters, Altering, Tbl
    <3> QED
      BY <1>t, <3>2, <3>3, <3>4, MineIs
  <2> QED
    BY <2>1, <2>3, <2>4
<1>3. CASE AddDuplicate(s) \/ SQLFails(s)
  <2>1. /\ UNCHANGED <<map, res, todo>> /\ at[s] # "reset" /\ Torn(s) /\ Goto(s, "idle")
    BY <1>3 DEF AddDuplicate, SQLFails, EndTx, Goto, AtSQL, catalogVars, alterVars
  <2>2. disk' = disk
    BY <1>3 DEF AddDuplicate, SQLFails, EndTx
  <2>3. at'[s] = "idle" /\ SameInFile(t)
    BY <1>t, <2>1, <2>2 DEF Goto, SameInFile
  <2> QED
    BY <1>t, <1>k, <2>1, <2>3, MineFails
<1>4. CASE AddedAll(s)
  <2>1. /\ at[s] = "add" /\ UNCHANGED <<map, res, todo, stmt, changed, copy>> /\ disk' = disk
        /\ at'[s] = IF changed[s] THEN "drop" ELSE "idle"
    BY <1>4, <1>t DEF AddedAll, Goto, sqliteVars, catalogVars, callVars, alterVars
  <2>2. SameInFile(t)
    BY <2>1 DEF SameInFile
  <2>3. CASE changed[s]
    <3>1. TableAltered(s, t)'
      BY <1>a, <2>1, <2>3 DEF TableAltered, Altering
    <3> QED
      BY <1>e, <2>1, <2>3, <3>1 DEF Altering, Tbl
  <2>4. CASE ~changed[s]
    BY <1>t, <1>k, <2>1, <2>2, <2>4, MineFails
  <2> QED
    BY <2>3, <2>4
<1>5. CASE AddColumn(s)
  <2>1. /\ at[s] = "add" /\ stmt' = stmt /\ s \notin tx
    <3>1. at[s] = "add" /\ stmt' = stmt
      BY <1>5 DEF AddColumn, callVars
    <3> QED
      BY <1>t, <3>1 DEF TxOK, TypeInv, StmtOK, AlterAt, Altering
  <2>2. CASE Reserves(s, WithColumn(s))
    <3>1. UNCHANGED <<disk, map, res, todo, at, copy, changed>>
      BY <2>2 DEF Reserves, catalogVars, alterVars
    <3>2. CatalogKept(t) /\ SameInFile(t)
      BY <1>t, <2>1, <3>1, QuietCatalog DEF SameInFile
    <3>3. TableAltered(s, t)'
      BY <1>a, <2>1, <3>1, <3>2, KeptAltered DEF Altering
    <3>4. ~changed'[s] => TableSettled(t)'
      BY <1>t, <1>k, <2>1, <3>1, <3>2, MineSettled, KeptSettled DEF SameInFile
    <3>5. Alters(s, t)'
      BY <1>k, <2>1, <3>1 DEF Alters, Altering, Tbl
    <3> QED
      BY <1>t, <3>3, <3>4, <3>5, MineIs
  <2>3. CASE Flushes(s) /\ AddedColumn(s)
    <3>1. at' = at /\ copy'[s] = copy[s] \cup {Head(left[s])} /\ changed'[s]
      BY <1>t, <2>3 DEF AddedColumn, AlterType
    <3>2. WorkIs(t) /\ AddsTo(writer, t) /\ disk' = work /\ writer = s
      BY <1>t, <1>k, <2>1, <2>3 DEF WorkOK, Flushes, CanFlush, AddsTo
    <3>3. disk'.cols[t] = disk.cols[t] \cup {Head(left[s])}
      BY <3>2 DEF WorkIs
    <3>4. TableAltered(s, t)'
      BY <1>a, <2>1, <3>1, <3>3 DEF TableAltered, Altering
    <3> QED
      BY <1>e, <2>1, <3>1, <3>4 DEF Altering, Tbl
  <2> QED
    BY <1>5, <2>1, <2>2, <2>3, AddColumnSteps DEF WritesInTx
<1>6. CASE ResetStart(s)
  <2>1. at[s] = "drop" /\ mu = None /\ stmt' = stmt /\ changed' = changed /\ copy' = copy /\ disk' = disk /\ changed[s]
    BY <1>6, <1>t DEF ResetStart, callVars, sqliteVars, ChangedOK, Altering
  <2>2. CASE map[t] = None
    <3>1. UNCHANGED <<map, res, todo>> /\ Torn(s) /\ at'[s] = "idle" /\ SameInFile(t)
      BY <1>6, <1>t, <1>k, <2>1, <2>2 DEF ResetStart, catalogVars, Goto, SameInFile
    <3> QED
      BY <1>t, <1>k, <2>1, <3>1, MineFails
  <2>3. CASE map[t] # None
    <3>1. at'[s] = "reset" /\ map'[t] = None /\ res'[t] = None /\ todo'[s][t] = None
      BY <1>6, <1>t, <1>k, <2>3 DEF ResetStart, Goto, NoSpecs, AlterType
    <3>2. \A u \in Sessions : at'[u] = "reset" => u = s
      BY <1>t, <1>o, <2>1 DEF MuOK, Held, OthersSame
    <3>3. TableAltered(s, t)'
      BY <1>a, <2>1, <3>1, <3>2 DEF TableAltered, Altering
    <3> QED
      BY <1>e, <2>1, <3>1, <3>3 DEF Altering, Tbl
  <2> QED
    BY <2>2, <2>3
<1>7. CASE \E v \in Tables : ResetAdd(s, v)
  <2>1. PICK v \in Tables : ResetAdd(s, v)
    BY <1>7
  <2>2. /\ at[s] = "reset" /\ at' = at /\ UNCHANGED <<stmt, changed, copy, disk>> /\ changed[s]
        /\ todo[s][v] # None
    BY <1>t, <2>1 DEF ResetAdd, callVars, sqliteVars, ChangedOK, Altering
  <2>3. TableAltered(s, t) /\ v # t
    BY <1>a, <2>2 DEF TableAltered, Altering
  <2>4. map'[t] = map[t] /\ res'[t] = res[t] /\ \A u \in Sessions : todo'[u][t] = todo[u][t]
    BY <1>t, <2>1, <2>3 DEF ResetAdd, AlterType
  <2>5. TableAltered(s, t)'
    BY <2>2, <2>3, <2>4 DEF TableAltered
  <2> QED
    BY <1>e, <2>2, <2>5 DEF Altering, Tbl
<1>8. CASE ResetEnd(s)
  <2>1. /\ at[s] = "reset" /\ at'[s] = "unsave" /\ changed[s]
        /\ UNCHANGED <<map, res, todo, stmt, changed, copy, disk>>
    BY <1>8, <1>t DEF ResetEnd, Goto, catalogVars, alterVars, callVars, sqliteVars, ChangedOK, Altering
  <2>2. \A u \in Sessions : at'[u] = "reset" => at[u] = "reset"
    BY <1>o, <2>1 DEF OthersSame
  <2>3. TableAltered(s, t)'
    BY <1>a, <2>1, <2>2 DEF TableAltered, Altering
  <2> QED
    BY <1>e, <2>1, <2>3 DEF Altering, Tbl
<1>9. CASE DeleteRow(s)
  <2>1. at[s] = "unsave" /\ stmt' = stmt /\ s \notin tx /\ changed[s]
    <3>1. at[s] = "unsave" /\ stmt' = stmt
      BY <1>9 DEF DeleteRow, callVars
    <3> QED
      BY <1>t, <3>1 DEF TxOK, TypeInv, StmtOK, AlterAt, Altering, ChangedOK
  <2>2. UNCHANGED <<map, res, todo, changed, copy>>
    BY <1>9, DeleteRowSteps DEF catalogVars, alterVars
  <2>3. CASE Reserves(s, WithoutRow(s))
    <3>1. UNCHANGED <<disk, at>>
      BY <2>3 DEF Reserves
    <3>2. TableAltered(s, t)'
      BY <1>a, <2>1, <2>2, <3>1 DEF TableAltered, Altering
    <3> QED
      BY <1>e, <2>1, <2>2, <3>1, <3>2 DEF Altering, Tbl
  <2>4. CASE Flushes(s) /\ Goto(s, "readd")
    <3>1. at'[s] = "readd" /\ \A u \in Sessions : at'[u] = "reset" => at[u] = "reset"
      BY <1>t, <1>o, <2>4 DEF Goto, OthersSame
    <3>2. WorkIs(t) /\ RowOf(writer, t) /\ ~AddsTo(writer, t) /\ disk' = work /\ at[writer] = "unsave"
      BY <1>t, <1>k, <2>1, <2>4 DEF WorkOK, Flushes, CanFlush, AddsTo, RowOf
    <3>3. disk'.cols[t] = disk.cols[t] /\ disk'.row[t] = None /\ t \notin disk'.recent
      BY <3>2 DEF WorkIs
    <3>4. TableAltered(s, t)'
      BY <1>a, <2>1, <2>2, <3>1, <3>3 DEF TableAltered, Altering
    <3> QED
      BY <1>e, <2>1, <2>2, <3>1, <3>4 DEF Altering, Tbl
  <2> QED
    BY <1>9, <2>1, <2>3, <2>4, DeleteRowSteps DEF WritesInTx
<1>10. CASE Readd(s)
  <2>1. /\ at[s] = "readd" /\ at'[s] = "save" /\ UNCHANGED <<stmt, changed, copy, disk>> /\ changed[s]
    BY <1>10, <1>t DEF Readd, Goto, callVars, alterVars, sqliteVars, ChangedOK, Altering
  <2>2. TableAltered(s, t) /\ map[t] = None /\ copy[s] = disk.cols[t]
    BY <1>a, <2>1 DEF TableAltered, Altering
  <2>3. map'[t] = copy[s] /\ res'[t] = copy[s]
    BY <1>10, <1>t, <1>k, <2>2 DEF Readd
  <2>4. TableAltered(s, t)'
    BY <2>1, <2>2, <2>3 DEF TableAltered
  <2> QED
    BY <1>e, <2>1, <2>4 DEF Altering, Tbl
<1>11. CASE SaveRow(s)
  <2>1. at[s] = "save" /\ stmt' = stmt /\ s \notin tx /\ changed[s]
    <3>1. at[s] = "save" /\ stmt' = stmt
      BY <1>11 DEF SaveRow, callVars
    <3> QED
      BY <1>t, <3>1 DEF TxOK, TypeInv, StmtOK, AlterAt, Altering, ChangedOK
  <2>2. UNCHANGED <<map, res, todo, changed, copy>>
    BY <1>11, SaveRowSteps DEF catalogVars, alterVars
  <2>3. CASE Reserves(s, WithRow(s))
    <3>1. UNCHANGED <<disk, at>>
      BY <2>3 DEF Reserves
    <3>2. TableAltered(s, t)'
      BY <1>a, <2>1, <2>2, <3>1 DEF TableAltered, Altering
    <3> QED
      BY <1>e, <2>1, <2>2, <3>1, <3>2 DEF Altering, Tbl
  <2>4. CASE Flushes(s) /\ Goto(s, "idle")
    <3>1. at'[s] = "idle"
      BY <1>t, <2>4 DEF Goto
    <3>2. WorkIs(t) /\ RowOf(writer, t) /\ ~AddsTo(writer, t) /\ disk' = work /\ writer = s
      BY <1>t, <1>k, <2>1, <2>4 DEF WorkOK, Flushes, CanFlush, AddsTo, RowOf
    <3>3. disk'.cols[t] = disk.cols[t] /\ disk'.row[t] = copy[s]
      BY <2>1, <3>2 DEF WorkIs
    <3>4. TableSettled(t)'
      BY <1>a, <2>1, <2>2, <3>3 DEF TableAltered, TableSettled, Altering
    <3>5. ~Alters(s, t)'
      BY <3>1 DEF Alters, Altering
    <3> QED
      BY <1>t, <3>4, <3>5, MineIs
  <2> QED
    BY <1>11, <2>1, <2>3, <2>4, SaveRowSteps DEF WritesInTx
<1>12. SQLFails(s) \/ ~Application(s)
  BY <1>k DEF Application, Start, BeginTx, CommitStart, Rollback, CloseRows, Cancel, AlterAt, Altering
<1>13. ~LockWasm(s) /\ ~LockMu(s) /\ ~Sync(s) /\ ~Resolve(s) /\ ~Select(s) /\ ~OpenScan(s) /\ ~Filter(s)
       /\ ~Dml(s) /\ ~Commit(s)
  BY <1>k DEF LockWasm, LockMu, Sync, Resolve, Select, OpenScan, Filter, Dml, Commit, AlterAt, Altering
<1> QED
  BY <1>1, <1>2, <1>3, <1>4, <1>5, <1>6, <1>7, <1>8, <1>9, <1>10, <1>11, <1>12, <1>13 DEF Step, BusyTimeout

LEMMA AppliedNext ==
    ASSUME NoDdlTx, OneAlterer, AppliedInv, NEW s \in Sessions, Step(s) \/ Application(s)
    PROVE  AppliedInv'
<1>1. WithinInv' /\ MuOK' /\ ChangedOK' /\ TodoOK'
  BY WithinInvNext, MuNext, ChangedNext, TodoNext DEF AppliedInv, WithinInv
<1>2. ASSUME NEW t \in Tables \ torn' PROVE TableOK(t)'
  BY TornGrows, NotMineTable, MineTable
<1> QED
  BY <1>1, <1>2 DEF AppliedInv

LEMMA AppliedSame ==
    ASSUME AppliedInv, UNCHANGED vars
    PROVE  AppliedInv'
<1>1. UNCHANGED <<mu, disk, map, res, at, stmt, copy, changed, todo, torn>>
  BY DEF vars, lockVars, sqliteVars, catalogVars, alterVars, callVars, ghostVars
<1>2. WithinInv' /\ MuOK' /\ ChangedOK' /\ TodoOK'
  BY <1>1, WithinSame DEF AppliedInv, MuOK, ChangedOK, TodoOK
<1>3. ASSUME NEW t \in Tables \ torn PROVE TableOK(t)'
  BY <1>1 DEF AppliedInv, TableOK, Settled, TableSettled, Alters, TableAltered, Tbl
<1> QED
  BY <1>1, <1>2, <1>3 DEF AppliedInv

LEMMA AppliedInit == Init => AppliedInv
<1> SUFFICES ASSUME Init PROVE AppliedInv
  OBVIOUS
<1>1. ASSUME NEW s \in Sessions PROVE at[s] = "idle"
  BY DEF Init
<1>2. MuOK /\ ChangedOK /\ TodoOK
  BY <1>1 DEF MuOK, Held, ChangedOK, TodoOK, Altering
<1>3. ASSUME NEW t \in Tables PROVE TableOK(t)
  <2>1. TableSettled(t)
    BY DEF Init, TableSettled
  <2>2. ASSUME NEW s \in Sessions PROVE ~Alters(s, t)
    BY <1>1 DEF Alters, Altering
  <2> QED
    BY <2>1, <2>2 DEF TableOK
<1> QED
  BY <1>2, <1>3, WithinInit DEF AppliedInv

\* Where one session alters a table, and outside a Tx, a finished ALTER TABLE
\* leaves the same columns in SQLite, in c.tableMap, in the analyzer's catalog
\* and in the row of googlesqlite_catalog, whatever other sessions load,
\* rebuild, cancel or lose in between; only a table on which an ALTER TABLE
\* failed half way may differ (stmt_action_alter.go:20-24, 86-108).
THEOREM AlterLeavesOne == NoDdlTx /\ OneAlterer => (Spec => []AlterApplied)
<1> SUFFICES ASSUME NoDdlTx, OneAlterer PROVE Spec => []AlterApplied
  OBVIOUS
<1>1. AppliedInv /\ [Next]_vars => AppliedInv'
  BY AppliedNext, AppliedSame DEF Next
<1>2. AppliedInv => AlterApplied
  <2> SUFFICES ASSUME AppliedInv, \A s \in Sessions : at[s] = "idle" \/ stmt[s].kind # "alter",
                      NEW t \in Tables \ torn
               PROVE  map[t] = disk.cols[t] /\ res[t] = disk.cols[t] /\ disk.row[t] = disk.cols[t]
    BY DEF AlterApplied
  <2>1. ASSUME NEW s \in Sessions PROVE at[s] \notin AlterAt
    BY DEF AppliedInv, WithinInv, TypeInv, StmtOK, AlterAt, Altering
  <2>2. TableSettled(t) /\ \A s \in Sessions : at[s] # "reset"
    BY <2>1 DEF AppliedInv, TableOK, Settled, Alters, AlterAt, Altering
  <2> QED
    BY <2>2 DEF TableSettled
<1> QED
  BY <1>1, <1>2, AppliedInit, PTL DEF Spec
=============================================================================
