-------------------------- MODULE TransactionProofs --------------------------
(***************************************************************************)
(* Proofs about transactions, for any set of writes.  Each theorem names   *)
(* the statement forms and faults it excludes: with them the code does not *)
(* have the property, and TLC finds the behaviour.                         *)
(***************************************************************************)
EXTENDS Transaction, TLAPS

NoAssert == "assert" \notin Forms
NoNested == "nested" \notin Environment
NoInterrupt == "interrupt" \notin Environment

-----------------------------------------------------------------------------
(* Without ASSERT_ROWS_MODIFIED no savepoint is ever opened.               *)

NoMarks ==
    /\ marks = <<>>
    /\ at \in {"idle", "write"}
    /\ at = "write" => form # "assert"

LEMMA NoMarksInit == Init => NoMarks
BY DEF Init, NoMarks

LEMMA NoMarksNext == NoAssert /\ NoMarks /\ [Next]_vars => NoMarks'
<1> SUFFICES ASSUME NoAssert, NoMarks, [Next]_vars PROVE NoMarks'
  OBVIOUS
<1> USE DEF NoMarks, NoAssert
<1>1. ASSUME NEW r \in BOOLEAN, BeginTx(r) \/ BeginFail(r) PROVE NoMarks'
  BY <1>1 DEF BeginTx, BeginFail, RollbackAll, callVars
<1>2. ASSUME Commit \/ CommitFail \/ Rollback PROVE NoMarks'
  BY <1>2 DEF Commit, CommitFail, Rollback, TxEnds, RollbackAll, callVars
<1>3. ASSUME NEW f, NEW W, Start(f, W) PROVE NoMarks'
  BY <1>3 DEF Start, sqliteVars
<1>4. ASSUME NEW w \in left, Write(w) PROVE NoMarks'
  BY <1>4 DEF Write, Succeed
<1>5. ASSUME MergeDone \/ WriteFail \/ WriteInterrupt PROVE NoMarks'
  BY <1>5 DEF MergeDone, Succeed, WriteFail, WriteInterrupt, WriteRefused, Fail, RollbackAll, sqliteVars
<1>6. ASSUME Cancel PROVE NoMarks'
  BY <1>6 DEF Cancel, sqliteVars
<1>7. ASSUME Savepoint \/ Check \/ RollbackTo \/ ReleaseBack \/ ReleaseDone \/ ReleaseFail
      PROVE  NoMarks'
  BY <1>7 DEF Savepoint, Check, RollbackTo, ReleaseBack, ReleaseDone, ReleaseFail
<1>8. ASSUME UNCHANGED vars PROVE NoMarks'
  BY <1>8 DEF vars
<1> QED
  BY <1>1, <1>2, <1>3, <1>4, <1>5, <1>6, <1>7, <1>8 DEF Next

-----------------------------------------------------------------------------
(* The end of a Tx.                                                        *)

\* What the driver believes and what SQLite does agree: nothing is pending
\* without BEGIN, and query_only is on exactly in a read-only Tx, which SQLite
\* never ends by itself.
Agrees ==
    /\ txOpen => txActive
    /\ ~txOpen => work = disk
    /\ queryOnly <=> txReset
    /\ txReset => txOpen
    /\ txOpen \in BOOLEAN /\ queryOnly \in BOOLEAN /\ txReset \in BOOLEAN /\ txActive \in BOOLEAN

CloseInv == NoMarks /\ Agrees

LEMMA CloseNext == NoAssert /\ NoNested /\ CloseInv /\ [Next]_vars => CloseInv'
<1> SUFFICES ASSUME NoAssert, NoNested, CloseInv, [Next]_vars PROVE Agrees'
  BY NoMarksNext DEF CloseInv
<1> USE DEF CloseInv, Agrees
<1>1. ASSUME NEW r \in BOOLEAN, BeginTx(r) PROVE Agrees'
  BY <1>1 DEF BeginTx, MayBegin, InTransaction, NoNested
<1>2. ASSUME NEW r \in BOOLEAN, BeginFail(r) PROVE Agrees'
  <2>1. CASE RollbackAll
    BY <1>2, <2>1 DEF BeginFail, MayBegin, RollbackAll, NoNested, connVars
  <2>2. CASE UNCHANGED <<disk, work, txOpen, marks>>
    BY <1>2, <2>2 DEF BeginFail, connVars
  <2> QED
    BY <1>2, <2>1, <2>2 DEF BeginFail
<1>3. ASSUME Commit PROVE Agrees'
  BY <1>3 DEF Commit, TxEnds
<1>4. ASSUME CommitFail \/ Rollback PROVE Agrees'
  BY <1>4 DEF CommitFail, Rollback, TxEnds, RollbackAll, InTransaction
<1>5. ASSUME NEW f, NEW W, Start(f, W) PROVE Agrees'
  BY <1>5 DEF Start, sqliteVars, connVars
<1>6. ASSUME NEW w \in left, Write(w) PROVE Agrees'
  BY <1>6 DEF Write, InTransaction, NoMarks, connVars
<1>7. ASSUME MergeDone \/ WriteFail PROVE Agrees'
  BY <1>7 DEF MergeDone, WriteFail, sqliteVars, connVars
<1>8. ASSUME WriteInterrupt PROVE Agrees'
  BY <1>8 DEF WriteInterrupt, RollbackAll, connVars
<1>9. ASSUME Cancel PROVE Agrees'
  BY <1>9 DEF Cancel, sqliteVars, connVars
<1>10. ASSUME Savepoint \/ Check \/ RollbackTo \/ ReleaseBack \/ ReleaseDone \/ ReleaseFail
       PROVE  Agrees'
  BY <1>10 DEF Savepoint, Check, RollbackTo, ReleaseBack, ReleaseDone, ReleaseFail, NoMarks
<1>11. ASSUME UNCHANGED vars PROVE Agrees'
  BY <1>11 DEF vars
<1> QED
  BY <1>1, <1>2, <1>3, <1>4, <1>5, <1>6, <1>7, <1>8, <1>9, <1>10, <1>11 DEF Next

\* However calls are cancelled or interrupted and commits refused, a Conn
\* without a Tx has its SQLite connection in autocommit mode with nothing
\* pending and writes allowed, unless ASSERT_ROWS_MODIFIED or a nested
\* BeginTx is used (driver.go:654-722).
THEOREM TxCloses == NoAssert /\ NoNested => (Spec => []TxClosed)
<1> SUFFICES ASSUME NoAssert, NoNested PROVE Spec => []TxClosed
  OBVIOUS
<1>1. Init => CloseInv
  BY NoMarksInit DEF Init, CloseInv, Agrees
<1>2. CloseInv /\ [Next]_vars => CloseInv'
  BY CloseNext
<1>3. CloseInv => TxClosed
  BY DEF CloseInv, NoMarks, Agrees, TxClosed, InTransaction
<1> QED
  BY <1>1, <1>2, <1>3, PTL DEF Spec

-----------------------------------------------------------------------------
(* What was reported as committed.                                         *)

\* disk only grows: SQLite's view contains it, a commit writes the view, and
\* without BEGIN the two are the same.
DurableInv ==
    /\ NoMarks
    /\ durable \subseteq disk
    /\ disk \subseteq work
    /\ ~txOpen => work = disk
    /\ txOpen \in BOOLEAN
    /\ txOpen => txActive
    /\ txOpen => mine \cap done \subseteq work
    /\ at = "write" => cur \subseteq work \cup left
    /\ at = "write" /\ form = "dml" => \A v, w \in left : v = w

LEMMA DurableNext == NoAssert /\ DurableInv /\ [Next]_vars => DurableInv'
<1> SUFFICES ASSUME NoAssert, DurableInv, [Next]_vars PROVE DurableInv'
  OBVIOUS
<1> USE DEF DurableInv
<1>0. NoMarks'
  BY NoMarksNext
<1>1. ASSUME NEW r \in BOOLEAN, BeginTx(r) PROVE DurableInv'
  BY <1>0, <1>1 DEF BeginTx, MayBegin, InTransaction, callVars
<1>2. ASSUME NEW r \in BOOLEAN, BeginFail(r) PROVE DurableInv'
  <2>1. CASE RollbackAll
    BY <1>0, <1>2, <2>1 DEF BeginFail, MayBegin, RollbackAll, connVars, callVars, ghostVars
  <2>2. CASE UNCHANGED <<disk, work, txOpen, marks>>
    BY <1>0, <1>2, <2>2 DEF BeginFail, connVars, callVars, ghostVars
  <2> QED
    BY <1>2, <2>1, <2>2 DEF BeginFail
<1>3. ASSUME Commit PROVE DurableInv'
  BY <1>0, <1>3 DEF Commit, TxEnds, InTransaction, NoMarks, callVars
<1>4. ASSUME CommitFail \/ Rollback PROVE DurableInv'
  BY <1>0, <1>4 DEF CommitFail, Rollback, TxEnds, RollbackAll, callVars
<1>5. ASSUME NEW f, NEW W, W \cap done = {}, f = "dml" => \A v, w \in W : v = w, Start(f, W)
      PROVE  DurableInv'
  BY <1>0, <1>5 DEF Start, sqliteVars, connVars
<1>6. ASSUME NEW w \in left, Write(w) PROVE DurableInv'
  <2>1. form \in {"dml", "merge"} /\ (InTransaction <=> txOpen)
    BY <1>6 DEF Write, NoMarks, InTransaction
  <2>2. CASE form = "merge"
    BY <1>0, <1>6, <2>1, <2>2 DEF Write, connVars
  <2>3. CASE form = "dml"
    <3>1. left \subseteq {w} /\ cur \subseteq work'
      BY <1>6, <2>3 DEF Write
    <3> QED
      BY <1>0, <1>6, <2>1, <2>3, <3>1 DEF Write, Succeed, connVars
  <2> QED
    BY <2>1, <2>2, <2>3
<1>12. ASSUME MergeDone PROVE DurableInv'
  BY <1>0, <1>12 DEF MergeDone, Succeed, sqliteVars, connVars
<1>7. ASSUME WriteFail PROVE DurableInv'
  BY <1>0, <1>7 DEF WriteFail, WriteRefused, NoMarks, Fail, sqliteVars, connVars
<1>8. ASSUME WriteInterrupt PROVE DurableInv'
  BY <1>0, <1>8 DEF WriteInterrupt, WriteRefused, NoMarks, Fail, RollbackAll, connVars
<1>9. ASSUME Cancel PROVE DurableInv'
  BY <1>0, <1>9 DEF Cancel, sqliteVars, connVars, ghostVars
<1>10. ASSUME Savepoint \/ Check \/ RollbackTo \/ ReleaseBack \/ ReleaseDone \/ ReleaseFail
       PROVE  DurableInv'
  BY <1>10 DEF Savepoint, Check, RollbackTo, ReleaseBack, ReleaseDone, ReleaseFail, NoMarks
<1>11. ASSUME UNCHANGED vars PROVE DurableInv'
  BY <1>0, <1>11 DEF vars
<1> QED
  BY <1>1, <1>2, <1>3, <1>4, <1>5, <1>6, <1>7, <1>8, <1>9, <1>10, <1>11, <1>12 DEF Next, Used

\* What was reported as committed stays on disk under every fault modelled,
\* nested BeginTx and interrupted statements included, as long as
\* ASSERT_ROWS_MODIFIED is not used (driver_test.go:1216).
THEOREM CommittedStays == NoAssert => (Spec => []Durable)
<1> SUFFICES ASSUME NoAssert PROVE Spec => []Durable
  OBVIOUS
<1>1. Init => DurableInv
  BY NoMarksInit DEF Init, DurableInv
<1>2. DurableInv /\ [Next]_vars => DurableInv'
  BY DurableNext
<1>3. DurableInv => Durable
  BY DEF DurableInv, Durable
<1> QED
  BY <1>1, <1>2, <1>3, PTL DEF Spec

-----------------------------------------------------------------------------
(* What was rolled back.                                                   *)

\* The writes that can be visible: those of finished statements and of the
\* one in progress.
Known == Used \cup (IF at = "idle" THEN {} ELSE cur)

\* Every write visible anywhere is known and none is undone; the Tx's own
\* writes are not on disk yet, because its BEGIN is still in effect.
Visible(S) == S \subseteq Known /\ S \cap undone = {}

UndoInv ==
    /\ txActive \in BOOLEAN /\ txOpen \in BOOLEAN
    /\ txActive => txOpen
    /\ marks \in Seq(SUBSET Writes)
    /\ Visible(disk) /\ Visible(work)
    /\ \A i \in 1..Len(marks) : Visible(marks[i])
    /\ undone \subseteq Used
    /\ mine \subseteq Known
    /\ txActive => mine \cap disk = {}
    /\ disk \subseteq Writes /\ work \subseteq Writes /\ cur \subseteq Writes /\ left \subseteq cur
    /\ at # "idle" => cur \cap Used = {}

LEMMA UsedGrows ==
    ASSUME \/ done' = done \cup cur /\ refused' = refused
           \/ done' = done /\ refused' = refused \cup ({form} \X cur)
    PROVE  Used' = Used \cup cur
<1>1. CASE done' = done \cup cur /\ refused' = refused
  BY <1>1 DEF Used
<1>2. CASE done' = done /\ refused' = refused \cup ({form} \X cur)
  <2>1. {r[2] : r \in {form} \X cur} = cur
    <3>1. ASSUME NEW r \in {form} \X cur PROVE r[2] \in cur
      BY <3>1
    <3>2. ASSUME NEW w \in cur PROVE \E r \in {form} \X cur : r[2] = w
      <4>1. <<form, w>> \in {form} \X cur /\ <<form, w>>[2] = w
        OBVIOUS
      <4> QED
        BY <4>1
    <3> QED
      BY <3>1, <3>2
  <2>2. {r[2] : r \in refused'} = {r[2] : r \in refused} \cup {r[2] : r \in {form} \X cur}
    BY <1>2
  <2> QED
    BY <1>2, <2>1, <2>2 DEF Used
<1> QED
  BY <1>1, <1>2

LEMMA EmptyMarks == <<>> \in Seq(SUBSET Writes) /\ 1..Len(<<>>) = {}
OBVIOUS

\* A statement that finishes makes its writes known for good.
LEMMA FinishKnown ==
    ASSUME at # "idle", Succeed \/ \E b : Fail(b)
    PROVE  Used' = Used \cup cur /\ Known' = Known
<1>1. Used' = Used \cup cur
  BY UsedGrows DEF Succeed, Fail
<1> QED
  BY <1>1 DEF Known, Succeed, Fail

LEMMA UndoNext == NoNested /\ NoInterrupt /\ UndoInv /\ [Next]_vars => UndoInv'
<1> SUFFICES ASSUME NoNested, NoInterrupt, UndoInv, [Next]_vars PROVE UndoInv'
  OBVIOUS
<1> USE DEF UndoInv, Visible
<1>1. ASSUME NEW r \in BOOLEAN, BeginTx(r) PROVE UndoInv'
  BY <1>1 DEF BeginTx, MayBegin, callVars, Known, Used
<1>2. ASSUME NEW r \in BOOLEAN, BeginFail(r) PROVE UndoInv'
  <2>1. UNCHANGED <<connVars, callVars, ghostVars>> /\ ~txActive
    BY <1>2 DEF BeginFail, MayBegin, NoNested
  <2>2. Used' = Used /\ Known' = Known
    BY <2>1 DEF Used, Known, callVars, ghostVars
  <2>3. CASE RollbackAll
    <3>1. work' = disk /\ disk' = disk /\ txOpen' = FALSE /\ marks' = <<>>
      BY <2>3 DEF RollbackAll
    <3> QED
      BY <2>1, <2>2, <3>1, EmptyMarks DEF connVars, callVars, ghostVars
  <2>4. CASE UNCHANGED <<disk, work, txOpen, marks>>
    BY <2>1, <2>2, <2>4 DEF connVars, callVars, ghostVars
  <2> QED
    BY <1>2, <2>3, <2>4 DEF BeginFail
<1>3. ASSUME Commit PROVE UndoInv'
  <2>1. Used' = Used /\ Known' = Known
    BY <1>3 DEF Commit, TxEnds, Used, Known, callVars
  <2> QED
    BY <1>3, <2>1, EmptyMarks DEF Commit, TxEnds, callVars
<1>4. ASSUME CommitFail \/ Rollback PROVE UndoInv'
  <2>1. Used' = Used /\ Known' = Known /\ Known = Used
    BY <1>4 DEF CommitFail, Rollback, TxEnds, Used, Known, callVars
  <2> QED
    BY <1>4, <2>1, EmptyMarks DEF CommitFail, Rollback, TxEnds, RollbackAll, callVars
<1>5. ASSUME NEW f, NEW W \in SUBSET Writes, W \cap Used = {}, Start(f, W) PROVE UndoInv'
  <2>1. at' # "idle" /\ Used' = Used /\ Known' = Used \cup W /\ Known = Used
    BY <1>5 DEF Start, Used, Known
  <2>2. mine' \subseteq Known' /\ (txActive => mine' \cap disk = {})
    BY <1>5, <2>1 DEF Start
  <2> QED
    BY <1>5, <2>1, <2>2 DEF Start, sqliteVars, connVars
<1>6. ASSUME NEW w \in left, Write(w) PROVE UndoInv'
  <2>1. /\ UNCHANGED <<txOpen, marks, txActive, cur, mine, undone>>
        /\ work' = work \cup {w} /\ left' = left \ {w}
        /\ disk' = disk \/ (~txActive /\ disk' = work')
        /\ at # "idle"
    BY <1>6 DEF Write, InTransaction, connVars
  <2>2. w \in cur /\ w \notin undone /\ w \in Known
    BY <2>1 DEF Known
  <2>3. /\ Known' = Known /\ Used \subseteq Used'
        /\ at' # "idle" => Used' = Used
    <3>1. CASE form # "dml"
      BY <1>6, <2>1, <3>1 DEF Write, Known, Used
    <3>2. CASE form = "dml"
      <4>1. Succeed
        BY <1>6, <3>2 DEF Write
      <4> QED
        BY <4>1, <2>1, FinishKnown DEF Succeed
    <3> QED
      BY <3>1, <3>2
  <2> QED
    BY <2>1, <2>2, <2>3
<1>7. ASSUME WriteFail PROVE UndoInv'
  <2>1. UNCHANGED <<sqliteVars, connVars, cur, left, mine, undone>> /\ at # "idle"
    BY <1>7 DEF WriteFail
  <2>2. Known' = Known /\ Used \subseteq Used' /\ (at' # "idle" => Used' = Used)
    <3>1. CASE form = "assert"
      BY <1>7, <2>1, <3>1 DEF WriteFail, WriteRefused, Known, Used
    <3>2. CASE form # "assert"
      BY <1>7, <2>1, <3>2, FinishKnown DEF WriteFail, WriteRefused, Fail
    <3> QED
      BY <3>1, <3>2
  <2> QED
    BY <2>1, <2>2 DEF sqliteVars, connVars
<1>14. ASSUME MergeDone PROVE UndoInv'
  <2>1. UNCHANGED <<sqliteVars, connVars, cur, left, mine, undone>> /\ at # "idle" /\ Succeed
    BY <1>14 DEF MergeDone
  <2>2. Known' = Known /\ Used \subseteq Used' /\ at' = "idle"
    BY <2>1, FinishKnown DEF Succeed
  <2> QED
    BY <2>1, <2>2 DEF sqliteVars, connVars
<1>8. ASSUME WriteInterrupt PROVE UndoInv'
  BY <1>8 DEF WriteInterrupt, NoInterrupt
<1>9. ASSUME Cancel \/ Check PROVE UndoInv'
  <2>1. UNCHANGED <<sqliteVars, connVars, cur, left, ghostVars>> /\ at # "idle" /\ at' # "idle"
    BY <1>9 DEF Cancel, Check
  <2>2. Used' = Used /\ Known' = Known
    BY <2>1 DEF Used, Known, ghostVars
  <2> QED
    BY <2>1, <2>2 DEF sqliteVars, connVars, ghostVars
<1>10. ASSUME Savepoint PROVE UndoInv'
  <2>1. UNCHANGED <<disk, work, txOpen, txActive, cur, left, mine, undone>> /\ at # "idle"
    BY <1>10 DEF Savepoint, connVars
  <2>2. CASE cancelled
    <3>1. Fail(FALSE) /\ marks' = marks
      BY <1>10, <2>2 DEF Savepoint
    <3>2. Known' = Known /\ Used \subseteq Used' /\ at' = "idle"
      BY <2>1, <3>1, FinishKnown DEF Fail
    <3> QED
      BY <2>1, <3>1, <3>2
  <2>3. CASE ~cancelled
    <3>1. marks' = Append(marks, work) /\ Used' = Used /\ Known' = Known
      BY <1>10, <2>1, <2>3 DEF Savepoint, Used, Known
    <3>2. ASSUME NEW i \in 1..Len(marks') PROVE marks'[i] = work \/ \E j \in 1..Len(marks) : marks'[i] = marks[j]
      BY <3>1
    <3> QED
      BY <2>1, <3>1, <3>2
  <2> QED
    BY <2>2, <2>3
<1>11. ASSUME RollbackTo PROVE UndoInv'
  <2>1. /\ UNCHANGED <<disk, txOpen, marks, txActive, cur, left, mine, undone>>
        /\ Used' = Used /\ Known' = Known
    BY <1>11 DEF RollbackTo, connVars, ghostVars, Used, Known
  <2>2. work' = work \/ (marks # <<>> /\ work' = marks[Len(marks)])
    BY <1>11 DEF RollbackTo
  <2>3. marks # <<>> => Len(marks) \in 1..Len(marks) /\ marks[Len(marks)] \subseteq Writes
    OBVIOUS
  <2> QED
    BY <1>11, <2>1, <2>2, <2>3 DEF RollbackTo
<1>12. ASSUME ReleaseBack \/ ReleaseDone \/ ReleaseFail PROVE UndoInv'
  <2>1. UNCHANGED <<work, txOpen, txActive, cur, left, mine, undone>> /\ at # "idle"
    BY <1>12 DEF ReleaseBack, ReleaseDone, ReleaseFail, Release, sqliteVars, connVars
  <2>2. Succeed \/ \E b : Fail(b)
    BY <1>12 DEF ReleaseBack, ReleaseDone, ReleaseFail
  <2>3. Known' = Known /\ Used \subseteq Used' /\ at' = "idle"
    BY <2>1, <2>2, FinishKnown DEF Succeed, Fail
  <2>4. disk' = disk \/ (~txActive /\ disk' = work)
    BY <1>12 DEF ReleaseBack, ReleaseDone, ReleaseFail, Release, sqliteVars
  <2>5. /\ marks' \in Seq(SUBSET Writes)
        /\ \A i \in 1..Len(marks') : \E j \in 1..Len(marks) : marks'[i] = marks[j]
    <3>1. marks' = marks \/ marks' = SubSeq(marks, 1, Len(marks) - 1)
      BY <1>12 DEF ReleaseBack, ReleaseDone, ReleaseFail, Release, sqliteVars
    <3> QED
      BY <3>1
  <2> QED
    BY <2>1, <2>3, <2>4, <2>5
<1>13. ASSUME UNCHANGED vars PROVE UndoInv'
  <2>1. Used' = Used /\ Known' = Known
    BY <1>13 DEF vars, Used, Known
  <2> QED
    BY <1>13, <2>1 DEF vars
<1> QED
  BY <1>1, <1>2, <1>3, <1>4, <1>5, <1>6, <1>7, <1>8, <1>9, <1>10, <1>11, <1>12, <1>13, <1>14 DEF Next

\* What a Tx wrote, through statements of every form and whatever is
\* cancelled or locked, is nowhere to be seen once the Tx was rolled back or
\* failed to commit, unless SQLite interrupts a write or BeginTx is nested
\* (driver.go:692-722; driver_test.go:1217).
THEOREM RolledBackGone == NoNested /\ NoInterrupt => (Spec => []Undone)
<1> SUFFICES ASSUME NoNested, NoInterrupt PROVE Spec => []Undone
  OBVIOUS
<1>1. Init => UndoInv
  BY EmptyMarks DEF Init, UndoInv, Visible, Known, Used
<1>2. UndoInv /\ [Next]_vars => UndoInv'
  BY UndoNext
<1>3. UndoInv => Undone
  BY DEF UndoInv, Visible, Undone
<1> QED
  BY <1>1, <1>2, <1>3, PTL DEF Spec

-----------------------------------------------------------------------------
(* Type correctness.                                                       *)

TypeInv == TypeOK /\ (at # "idle" => form \in Forms)

LEMMA RefusedType ==
    ASSUME TypeInv, at # "idle", NEW b, Fail(b)
    PROVE  refused' \subseteq Forms \X Writes /\ rejected' \subseteq refused'
<1>1. {form} \X cur \subseteq Forms \X Writes
  BY DEF TypeInv, TypeOK
<1> QED
  BY <1>1 DEF Fail, TypeInv, TypeOK

LEMMA MarksType ==
    ASSUME marks \in Seq(SUBSET Writes)
    PROVE  /\ SubSeq(marks, 1, Len(marks) - 1) \in Seq(SUBSET Writes)
           /\ \A i \in 1..Len(SubSeq(marks, 1, Len(marks) - 1)) :
                 \E j \in 1..Len(marks) : SubSeq(marks, 1, Len(marks) - 1)[i] = marks[j]
           /\ marks # <<>> => marks[Len(marks)] \subseteq Writes
OBVIOUS

LEMMA TypeNext == TypeInv /\ [Next]_vars => TypeInv'
<1> SUFFICES ASSUME TypeInv, [Next]_vars PROVE TypeInv'
  OBVIOUS
<1> USE EnvironmentAssumption DEF TypeInv, TypeOK
<1>1. ASSUME NEW r \in BOOLEAN, BeginTx(r) PROVE TypeInv'
  BY <1>1 DEF BeginTx, callVars
<1>2. ASSUME NEW r \in BOOLEAN, BeginFail(r) PROVE TypeInv'
  BY <1>2, EmptyMarks DEF BeginFail, RollbackAll, connVars, callVars, ghostVars
<1>3. ASSUME Commit \/ CommitFail \/ Rollback PROVE TypeInv'
  BY <1>3, EmptyMarks DEF Commit, CommitFail, Rollback, TxEnds, RollbackAll, callVars
<1>4. ASSUME NEW f, NEW W \in SUBSET Writes, Start(f, W) PROVE TypeInv'
  BY <1>4 DEF Start, sqliteVars, connVars
<1>5. ASSUME Cancel \/ Check PROVE TypeInv'
  BY <1>5 DEF Cancel, Check, sqliteVars, connVars, ghostVars
<1>6. ASSUME Savepoint PROVE TypeInv'
  <2>1. CASE cancelled
    <3>1. refused' \subseteq Forms \X Writes /\ rejected' \subseteq refused'
      BY <1>6, <2>1, RefusedType DEF Savepoint
    <3> QED
      BY <1>6, <2>1, <3>1 DEF Savepoint, Fail, connVars
  <2>2. CASE ~cancelled
    BY <1>6, <2>2 DEF Savepoint, connVars
  <2> QED
    BY <2>1, <2>2
<1>7. ASSUME NEW w \in left, Write(w) PROVE TypeInv'
  BY <1>7 DEF Write, Succeed, connVars
<1>8. ASSUME MergeDone PROVE TypeInv'
  BY <1>8 DEF MergeDone, Succeed, sqliteVars, connVars
<1>9. ASSUME WriteFail \/ WriteInterrupt PROVE TypeInv'
  <2>1. disk' \subseteq Writes /\ work' \subseteq Writes /\ txOpen' \in BOOLEAN /\ marks' \in Seq(SUBSET Writes)
    BY <1>9, EmptyMarks DEF WriteFail, WriteInterrupt, RollbackAll, sqliteVars
  <2>2. /\ UNCHANGED <<queryOnly, connVars, form, cur, left, mine, undone>>
        /\ cancelled' \in BOOLEAN /\ at = "write" /\ WriteRefused
    BY <1>9 DEF WriteFail, WriteInterrupt, sqliteVars
  <2>3. CASE form = "assert"
    BY <2>1, <2>2, <2>3 DEF WriteRefused, connVars
  <2>4. CASE form # "assert"
    <3>1. refused' \subseteq Forms \X Writes /\ rejected' \subseteq refused'
      BY <2>2, <2>4, RefusedType DEF WriteRefused
    <3> QED
      BY <2>1, <2>2, <2>4, <3>1 DEF WriteRefused, Fail, connVars
  <2> QED
    BY <2>3, <2>4
<1>10. ASSUME RollbackTo PROVE TypeInv'
  BY <1>10, MarksType DEF RollbackTo, connVars, ghostVars
<1>11. ASSUME ReleaseBack \/ ReleaseFail PROVE TypeInv'
  <2>1. disk' \subseteq Writes /\ work' \subseteq Writes /\ txOpen' \in BOOLEAN /\ marks' \in Seq(SUBSET Writes)
    BY <1>11, MarksType DEF ReleaseBack, ReleaseFail, Release, sqliteVars
  <2>2. PICK b : Fail(b)
    BY <1>11 DEF ReleaseBack, ReleaseFail
  <2>3. refused' \subseteq Forms \X Writes /\ rejected' \subseteq refused'
    BY <1>11, <2>2, RefusedType DEF ReleaseBack, ReleaseFail
  <2> QED
    BY <1>11, <2>1, <2>2, <2>3 DEF ReleaseBack, ReleaseFail, Fail, connVars, sqliteVars
<1>12. ASSUME ReleaseDone PROVE TypeInv'
  BY <1>12, MarksType DEF ReleaseDone, Release, Succeed, connVars
<1>13. ASSUME UNCHANGED vars PROVE TypeInv'
  BY <1>13 DEF vars
<1> QED
  BY <1>1, <1>2, <1>3, <1>4, <1>5, <1>6, <1>7, <1>8, <1>9, <1>10, <1>11, <1>12, <1>13 DEF Next

LEMMA TypeInvariant == Spec => []TypeInv
<1>1. Init => TypeInv
  BY EmptyMarks DEF Init, TypeInv, TypeOK
<1> QED
  BY <1>1, TypeNext, PTL DEF Spec

\* Type correctness: a statement in progress and its refused writes are of a
\* form that is in use, and every savepoint goes back to a set of writes
\* (driver.go, stmt_action.go).
THEOREM TxTypeCorrect == Spec => []TypeOK
<1>1. TypeInv => TypeOK
  BY DEF TypeInv
<1> QED
  BY <1>1, TypeInvariant, PTL

-----------------------------------------------------------------------------
(* A failed ASSERT_ROWS_MODIFIED.                                          *)

RejectedRows == {w \in Writes : <<"assert", w>> \in rejected}

\* SQLite shows nothing of a rejected assertion, and nothing of a statement
\* that did not begin.
Clean(S) == S \subseteq Known /\ S \cap RejectedRows = {}

\* The current statement asserts, and its rows are in the view at most.
Asserting ==
    \/ at \in {"savepoint", "check", "rollbackTo", "releaseBack"}
    \/ at = "write" /\ form = "assert"

\* The savepoint it made is there to go back to, unless its context ended
\* and SQLite rolled everything back.
Marked ==
    \/ at = "check"
    \/ at = "write" /\ form = "assert"
    \/ at \in {"rollbackTo", "releaseBack"} /\ ~cancelled

\* It has not written, or has gone back.
Unwritten ==
    \/ at = "savepoint"
    \/ at = "write" /\ form = "assert"
    \/ at = "releaseBack" /\ ~cancelled

AssertInv ==
    /\ TypeInv
    /\ Clean(disk) /\ Clean(work) /\ \A i \in 1..Len(marks) : Clean(marks[i])
    /\ at # "idle" => cur \cap Used = {}
    /\ Asserting => cur \cap disk = {} /\ \A i \in 1..Len(marks) : cur \cap marks[i] = {}
    /\ Marked => marks # <<>>
    /\ Unwritten => cur \cap work = {}

\* An error adds rejected rows only when an assertion failed with a live
\* context.
LEMMA RejectedGrows ==
    ASSUME TypeInv, NEW b, Fail(b)
    PROVE  /\ RejectedRows' \subseteq RejectedRows \cup cur
           /\ ~b \/ form # "assert" => RejectedRows' = RejectedRows
BY DEF Fail, RejectedRows, TypeInv, TypeOK

LEMMA RejectedUsed ==
    ASSUME TypeInv
    PROVE  RejectedRows \subseteq Used
<1> SUFFICES ASSUME NEW w \in RejectedRows PROVE w \in Used
  OBVIOUS
<1>1. <<"assert", w>> \in refused /\ <<"assert", w>>[2] = w
  BY DEF RejectedRows, TypeInv, TypeOK
<1> QED
  BY <1>1 DEF Used

LEMMA AssertNext == AssertInv /\ [Next]_vars => AssertInv'
<1> SUFFICES ASSUME AssertInv, [Next]_vars PROVE AssertInv'
  OBVIOUS
<1> USE DEF AssertInv, Clean
<1>0. TypeInv'
  BY TypeNext
<1>t. marks \in Seq(SUBSET Writes) /\ left \subseteq cur /\ RejectedRows \subseteq Used
  BY RejectedUsed DEF TypeInv, TypeOK
<1>a. ASSUME UNCHANGED <<at, form, cur, cancelled, done, refused, rejected>>, at = "idle",
             disk' \in {disk, work}, work' \in {disk, work}, marks' \in {marks, <<>>}
      PROVE  AssertInv'
  <2>1. Known' = Known /\ RejectedRows' = RejectedRows
    BY <1>a DEF Known, Used, RejectedRows
  <2>2. \A i \in 1..Len(marks') : Clean(marks[i]) /\ marks' = marks
    BY <1>a, EmptyMarks
  <2> QED
    BY <1>0, <1>a, <2>1, <2>2 DEF Asserting, Marked, Unwritten
<1>1. ASSUME NEW r \in BOOLEAN, BeginTx(r) \/ BeginFail(r) PROVE AssertInv'
  BY <1>1, <1>a DEF BeginTx, BeginFail, MayBegin, RollbackAll, callVars, ghostVars
<1>2. ASSUME Commit \/ CommitFail \/ Rollback PROVE AssertInv'
  BY <1>2, <1>a DEF Commit, CommitFail, Rollback, TxEnds, RollbackAll, callVars
<1>3. ASSUME NEW f, NEW W \in SUBSET Writes, W \cap Used = {}, Start(f, W) PROVE AssertInv'
  <2>1. /\ UNCHANGED <<disk, work, marks, done, refused, rejected>> /\ cur' = W /\ form' = f
        /\ at = "idle" /\ at' = IF f = "assert" THEN "savepoint" ELSE "write"
    BY <1>3 DEF Start, sqliteVars
  <2>2. Used' = Used /\ Known = Used /\ Known \subseteq Known' /\ RejectedRows' = RejectedRows
    BY <2>1 DEF Used, Known, RejectedRows
  <2>3. W \cap disk = {} /\ W \cap work = {} /\ \A i \in 1..Len(marks) : W \cap marks[i] = {}
    BY <1>3, <2>2
  <2> QED
    BY <1>0, <1>3, <2>1, <2>2, <2>3 DEF Asserting, Marked, Unwritten
\* The call goes on and SQLite's sets stay within what was clean.
<1>b. ASSUME UNCHANGED <<form, cur, done, refused, rejected>>, at # "idle", at' # "idle"
      PROVE  Used' = Used /\ Known' = Known /\ RejectedRows' = RejectedRows
  BY <1>b DEF Used, Known, RejectedRows
<1>4. ASSUME Cancel PROVE AssertInv'
  <2>1. UNCHANGED <<at, form, cur, done, refused, rejected, disk, work, marks>> /\ at # "idle" /\ cancelled'
    BY <1>4 DEF Cancel, sqliteVars, ghostVars
  <2> QED
    BY <1>0, <1>b, <2>1 DEF Asserting, Marked, Unwritten
<1>5. ASSUME Check PROVE AssertInv'
  <2>1. /\ UNCHANGED <<form, cur, cancelled, done, refused, rejected, disk, work, marks>>
        /\ at = "check" /\ at' \in {"rollbackTo", "release"}
    BY <1>5 DEF Check, sqliteVars, ghostVars
  <2> QED
    BY <1>0, <1>b, <2>1 DEF Asserting, Marked, Unwritten
<1>6. ASSUME Savepoint, ~cancelled PROVE AssertInv'
  <2>1. /\ UNCHANGED <<form, cur, done, refused, rejected, disk, work>>
        /\ at = "savepoint" /\ at' = "write" /\ marks' = Append(marks, work)
    BY <1>6 DEF Savepoint
  <2>2. marks' # <<>> /\ \A i \in 1..Len(marks') : marks'[i] = work \/ \E j \in 1..Len(marks) : marks'[i] = marks[j]
    BY <1>t, <2>1 DEF TypeInv, TypeOK
  <2>3. \A i \in 1..Len(marks') : Clean(marks'[i]) /\ cur \cap marks'[i] = {}
    BY <2>1, <2>2 DEF Asserting, Unwritten
  <2> QED
    BY <1>0, <1>b, <2>1, <2>2, <2>3 DEF Asserting, Marked, Unwritten
\* The statement ends, and SQLite's sets show no row that is now rejected.
<1>c. ASSUME Succeed \/ \E b : Fail(b), at # "idle",
             disk' \subseteq Known, work' \subseteq Known,
             disk' \cap RejectedRows' = {}, work' \cap RejectedRows' = {},
             \A i \in 1..Len(marks') : marks'[i] \subseteq Known /\ marks'[i] \cap RejectedRows' = {}
      PROVE  AssertInv'
  <2>1. Known' = Known /\ at' = "idle"
    BY <1>c, FinishKnown DEF Succeed, Fail
  <2> QED
    BY <1>0, <1>c, <2>1 DEF Asserting, Marked, Unwritten
<1>d. ASSUME Succeed PROVE RejectedRows' = RejectedRows
  BY <1>d DEF Succeed, RejectedRows
<1>7. ASSUME Savepoint, cancelled PROVE AssertInv'
  <2>1. Fail(FALSE) /\ UNCHANGED <<disk, work, marks>> /\ at # "idle"
    BY <1>7 DEF Savepoint
  <2>2. RejectedRows' = RejectedRows
    BY <2>1, RejectedGrows
  <2> QED
    BY <1>c, <2>1, <2>2
<1>8. ASSUME NEW w \in left, Write(w) PROVE AssertInv'
  <2>1. /\ UNCHANGED <<marks, form, cur, cancelled>> /\ at = "write"
        /\ work' = work \cup {w}
        /\ disk' = disk \/ (marks = <<>> /\ disk' = work')
    BY <1>8 DEF Write, InTransaction
  <2>2. w \in Known /\ w \notin RejectedRows
    BY <1>t, <2>1 DEF Known
  <2>3. CASE form = "assert"
    <3>1. at' = "check" /\ UNCHANGED <<done, refused, rejected>> /\ disk' = disk
      BY <1>8, <2>1, <2>3 DEF Write, Marked
    <3> QED
      BY <1>0, <1>b, <2>1, <2>2, <2>3, <3>1 DEF Asserting, Marked, Unwritten
  <2>4. CASE form = "merge"
    <3>1. at' = "write" /\ UNCHANGED <<done, refused, rejected>>
      BY <1>8, <2>1, <2>4 DEF Write
    <3> QED
      BY <1>0, <1>b, <2>1, <2>2, <2>4, <3>1 DEF Asserting, Marked, Unwritten
  <2>5. CASE form = "dml"
    <3>1. Succeed
      BY <1>8, <2>5 DEF Write
    <3> QED
      BY <1>c, <1>d, <2>1, <2>2, <3>1
  <2> QED
    BY <2>3, <2>4, <2>5 DEF TypeInv, TypeOK
<1>9. ASSUME MergeDone PROVE AssertInv'
  BY <1>c, <1>d, <1>9 DEF MergeDone, sqliteVars
<1>10. ASSUME WriteFail \/ WriteInterrupt PROVE AssertInv'
  <2>1. /\ UNCHANGED <<form, cur, disk>> /\ at = "write" /\ WriteRefused /\ work' \in {work, disk}
        /\ (marks' = marks /\ cancelled' = cancelled) \/ (marks' = <<>> /\ cancelled')
    BY <1>10 DEF WriteFail, WriteInterrupt, RollbackAll, sqliteVars
  <2>2. \A i \in 1..Len(marks') : Clean(marks'[i]) /\ marks' = marks
    BY <2>1, EmptyMarks
  <2>3. CASE form = "assert"
    <3>1. at' = "rollbackTo" /\ UNCHANGED <<done, refused, rejected>>
      BY <2>1, <2>3 DEF WriteRefused
    <3> QED
      BY <1>0, <1>b, <2>1, <2>2, <2>3, <3>1 DEF Asserting, Marked, Unwritten
  <2>4. CASE form # "assert"
    <3>1. Fail(~cancelled) /\ RejectedRows' = RejectedRows
      BY <2>1, <2>4, RejectedGrows DEF WriteRefused
    <3> QED
      BY <1>c, <2>1, <2>2, <3>1
  <2> QED
    BY <2>3, <2>4
<1>11. ASSUME RollbackTo PROVE AssertInv'
  <2>1. /\ UNCHANGED <<form, cur, cancelled, done, refused, rejected, disk, marks>>
        /\ at = "rollbackTo" /\ at' = "releaseBack"
        /\ work' = IF cancelled \/ marks = <<>> THEN work ELSE marks[Len(marks)]
    BY <1>11 DEF RollbackTo, ghostVars
  <2>2. marks # <<>> => Len(marks) \in 1..Len(marks)
    BY <1>t
  <2>3. Clean(work') /\ (~cancelled => cur \cap work' = {})
    BY <2>1, <2>2 DEF Asserting, Marked
  <2> QED
    BY <1>0, <1>b, <2>1, <2>3 DEF Asserting, Marked, Unwritten
<1>e. ASSUME Release PROVE /\ work' = work /\ disk' \in {disk, work}
                          /\ \A i \in 1..Len(marks') : \E j \in 1..Len(marks) : marks'[i] = marks[j]
  BY <1>e, <1>t, MarksType DEF Release
<1>12. ASSUME ReleaseBack PROVE AssertInv'
  <2>1. Fail(~cancelled) /\ at = "releaseBack"
    BY <1>12 DEF ReleaseBack
  <2>2. /\ work' = work /\ disk' \in {disk, work}
        /\ \A i \in 1..Len(marks') : \E j \in 1..Len(marks) : marks'[i] = marks[j]
    BY <1>e, <1>12 DEF ReleaseBack
  <2>3. CASE cancelled
    BY <1>c, <2>1, <2>2, <2>3, RejectedGrows
  <2>4. CASE ~cancelled
    <3>1. RejectedRows' \subseteq RejectedRows \cup cur
      BY <2>1, RejectedGrows
    <3>2. cur \cap work = {} /\ cur \cap disk = {} /\ \A i \in 1..Len(marks) : cur \cap marks[i] = {}
      BY <2>1, <2>4 DEF Asserting, Unwritten
    <3> QED
      BY <1>c, <2>1, <2>2, <3>1, <3>2
  <2> QED
    BY <2>3, <2>4
<1>13. ASSUME ReleaseDone PROVE AssertInv'
  BY <1>c, <1>d, <1>e, <1>13 DEF ReleaseDone
<1>14. ASSUME ReleaseFail PROVE AssertInv'
  <2>1. Fail(FALSE) /\ at # "idle" /\ UNCHANGED <<disk, work, marks>>
    BY <1>14 DEF ReleaseFail, sqliteVars
  <2>2. RejectedRows' = RejectedRows
    BY <2>1, RejectedGrows
  <2> QED
    BY <1>c, <2>1, <2>2
<1>15. ASSUME UNCHANGED vars PROVE AssertInv'
  <2>1. Known' = Known /\ Used' = Used /\ RejectedRows' = RejectedRows
    BY <1>15 DEF vars, Known, Used, RejectedRows
  <2> QED
    BY <1>0, <1>15, <2>1 DEF vars, Asserting, Marked, Unwritten
<1> QED
  BY <1>1, <1>2, <1>3, <1>4, <1>5, <1>6, <1>7, <1>8, <1>9, <1>10, <1>11, <1>12, <1>13, <1>14, <1>15 DEF Next

\* A statement whose ASSERT_ROWS_MODIFIED fails leaves no row behind, in
\* SQLite's view or on disk, then or later: under every fault modelled, inside
\* a Tx and outside, nested BeginTx and interrupted writes included, and
\* whichever savepoints earlier statements left open
\* (DMLStmtAction, stmt_action.go:454-457).
THEOREM RejectedGone == Spec => []AssertUntouched
<1>1. Init => AssertInv
  BY EmptyMarks DEF Init, AssertInv, TypeInv, TypeOK, Clean, Known, Used, RejectedRows, Asserting, Marked, Unwritten
<1>2. AssertInv => AssertUntouched
  <2> SUFFICES ASSUME AssertInv, NEW r \in rejected, r[1] = "assert" PROVE r[2] \notin work \cup disk
    BY DEF AssertUntouched
  <2>1. r \in Forms \X Writes
    BY DEF AssertInv, TypeInv, TypeOK
  <2>2. r = <<"assert", r[2]>> /\ r[2] \in Writes
    BY <2>1
  <2>3. r[2] \in RejectedRows
    BY <2>2 DEF RejectedRows
  <2> QED
    BY <2>3 DEF AssertInv, Clean
<1> QED
  BY <1>1, <1>2, AssertNext, PTL DEF Spec
=============================================================================
