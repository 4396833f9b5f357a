---------------------------- MODULE ScriptProofs ----------------------------
(***************************************************************************)
(* Proofs about the scripts of a session, for any kinds of objects, names, *)
(* definitions and statements, and scripts of any length.                  *)
(***************************************************************************)
EXTENDS Script, SequenceTheorems, TLAPS

USE ParameterAssumption

-----------------------------------------------------------------------------
(* Statements, objects and the catalog.                                    *)

LEMMA StmtIs ==
    ASSUME NEW st \in Stmt
    PROVE  /\ st.kind \in Kinds /\ st.name \in Names /\ st.do \in {"create", "drop"}
           /\ Space(st.kind) \in Spaces
           /\ st.do = "create" =>
                 /\ st.body \in Bodies /\ st.temp \in BOOLEAN
                 /\ st.name \in IF st.temp THEN TempNames ELSE PermNames
                 /\ st.mode \in Modes
                 /\ st.kind \in {"function", "tvf"} => st.mode = "default"
           /\ st.do = "drop" => st.ifExists \in BOOLEAN
BY DEF Stmt, CreateStmt, DropStmt, Spaces

LEMMA ObjectIs ==
    ASSUME NEW st \in Stmt, st.do = "create", NEW s \in Sessions
    PROVE  /\ ObjectOf(s, st) \in Object /\ ObjectOf(s, st) # NoObj
           /\ ObjectOf(s, st).kind = st.kind /\ ObjectOf(s, st).temp = st.temp
           /\ ObjectOf(s, st).by = s
BY StmtIs DEF ObjectOf, Object

LEMMA UpsertIs ==
    ASSUME NEW row \in Object \cup {NoObj}, NEW spec \in Object
    PROVE  /\ Upsert(row, spec) \in Object /\ Upsert(row, spec).temp = spec.temp
           /\ (row = NoObj \/ Space(row.kind) = Space(spec.kind)) => Upsert(row, spec) = spec
BY DEF Upsert, Object

LEMMA SpaceIs ==
    ASSUME NEW k \in Kinds
    PROVE  /\ Space(k) \in Spaces
           /\ Space(k) = "relation" <=> k \in {"table", "view"}
BY DEF Space, Spaces

Catalogs == [Spaces -> [Names -> Object \cup {NoObj}]]

\* The catalog with one entry set.
CatSet(sp, n, x) == [cat EXCEPT ![sp][n] = x]

LEMMA CatSetIs ==
    ASSUME cat \in Catalogs, NEW sp \in Spaces, NEW n \in Names, NEW x \in Object \cup {NoObj}
    PROVE  /\ CatSet(sp, n, x) \in Catalogs
           /\ CatSet(sp, n, x)[sp][n] = x
           /\ \A p \in Spaces, m \in Names : <<p, m>> # <<sp, n>> => CatSet(sp, n, x)[p][m] = cat[p][m]
<1> DEFINE row == [cat[sp] EXCEPT ![n] = x]
<1>1. row \in [Names -> Object \cup {NoObj}] /\ row[n] = x /\ \A m \in Names : m # n => row[m] = cat[sp][m]
  BY DEF Catalogs
<1>2. CatSet(sp, n, x) = [cat EXCEPT ![sp] = row]
  BY DEF CatSet
<1> HIDE DEF row
<1> QED
  BY <1>1, <1>2 DEF Catalogs

LEMMA SyncedIs ==
    ASSUME cat \in Catalogs, rows \in [Names -> Object \cup {NoObj}]
    PROVE  /\ Synced \in Catalogs
           /\ \A sp \in Spaces, n \in Names :
                 Synced[sp][n] = IF n \in fresh /\ rows[n] # NoObj /\ Space(rows[n].kind) = sp
                                 THEN rows[n] ELSE cat[sp][n]
BY DEF Synced, Catalogs

-----------------------------------------------------------------------------
(* Type correctness.                                                       *)

\* The statement that a phase is about.
PhaseOK(s) ==
    /\ phase[s] \in {"drop", "create", "add"} => Len(acts[s]) > 0 /\ Last(s).do = "create"
    /\ phase[s] \in {"dropObject", "forget"} => Len(acts[s]) > 0 /\ Last(s).do = "drop"
    /\ phase[s] \in {"drop", "create", "dropObject"} => Space(Last(s).kind) = "relation"
    /\ phase[s] = "cleanForget" =>
          next[s] <= Len(acts[s]) /\ acts[s][next[s]].do = "create" /\ acts[s][next[s]].temp
    /\ next[s] > 0
    /\ phase[s] \notin {"idle", "clean", "cleanForget"} => next[s] = 1

DataType ==
    /\ db \in [Names -> Object \cup {NoObj}]
    /\ cat \in Catalogs
    /\ rows \in [Names -> Object \cup {NoObj}]
    /\ fresh \subseteq Names
    /\ wiped \subseteq Names

CtlType ==
    /\ entry \in [Sessions -> {"exec", "query"}]
    /\ acts \in [Sessions -> Seq(Stmt)]
    /\ next \in [Sessions -> Nat]
    /\ failed \in [Sessions -> BOOLEAN]
    /\ err \in [Sessions -> BOOLEAN]
    /\ cancelled \in [Sessions -> BOOLEAN]
    /\ own \in [Sessions -> BOOLEAN]
    /\ before \in [Sessions -> SUBSET (Spaces \X Names)]
    /\ scripts \in [Sessions -> Nat]

CcType ==
    /\ added \in [Sessions -> SUBSET (Spaces \X Names)]
    /\ deleted \in [Sessions -> SUBSET (Spaces \X Names)]

PhaseType == phase \in [Sessions -> Phases]

TypeInv == TypeOK /\ \A s \in Sessions : PhaseOK(s)

LEMMA TypeParts == TypeOK <=> DataType /\ CtlType /\ CcType /\ PhaseType
BY DEF TypeOK, DataType, CtlType, CcType, PhaseType, Catalogs

LEMMA TypePartsNext == TypeOK' <=> DataType' /\ CtlType' /\ CcType' /\ PhaseType'
BY DEF TypeOK, DataType, CtlType, CcType, PhaseType, Catalogs

LEMMA TypeSame ==
    ASSUME TypeOK
    PROVE  /\ UNCHANGED dataVars => DataType'
           /\ UNCHANGED ctlVars => CtlType'
           /\ UNCHANGED ccVars => CcType'
BY TypeParts DEF DataType, CtlType, CcType, dataVars, ctlVars, ccVars, Catalogs

\* The statement a session is at.
LEMMA LastIs ==
    ASSUME TypeInv, NEW s \in Sessions, Len(acts[s]) > 0
    PROVE  Last(s) \in Stmt
<1>1. acts[s] \in Seq(Stmt)
  BY DEF TypeInv, TypeOK
<1> QED
  BY <1>1 DEF Last

LEMMA ActIs ==
    ASSUME TypeInv, NEW s \in Sessions, NEW i \in 1..Len(acts[s])
    PROVE  acts[s][i] \in Stmt
<1>1. acts[s] \in Seq(Stmt)
  BY DEF TypeInv, TypeOK
<1> QED
  BY <1>1

LEMMA GotoIs ==
    ASSUME TypeOK, NEW s \in Sessions, NEW p \in Phases, Goto(s, p)
    PROVE  /\ PhaseType' /\ phase'[s] = p
           /\ \A u \in Sessions : u # s => phase'[u] = phase[u]
BY DEF TypeOK, Goto, PhaseType

LEMMA UnwindIs ==
    ASSUME TypeOK, NEW s \in Sessions, Unwind(s)
    PROVE  /\ PhaseType' /\ phase'[s] = "clean"
           /\ \A u \in Sessions : u # s => phase'[u] = phase[u]
           /\ CtlType' /\ UNCHANGED <<acts, next, cancelled, before, scripts>>
<1>1. Goto(s, "clean") /\ "clean" \in Phases
  BY DEF Unwind, Phases
<1>2. CtlType'
  BY TypeParts DEF Unwind, CtlType
<1> QED
  BY <1>1, <1>2, GotoIs DEF Unwind

LEMMA CleanupDoneIs ==
    ASSUME TypeOK, NEW s \in Sessions, NEW ok \in BOOLEAN, CleanupDone(s, ok)
    PROVE  /\ PhaseType' /\ phase'[s] = "clean"
           /\ \A u \in Sessions : u # s => phase'[u] = phase[u] /\ next'[u] = next[u]
           /\ CtlType' /\ next'[s] = next[s] + 1 /\ err'[s] = (err[s] \/ ~ok)
           /\ UNCHANGED <<acts, failed, cancelled, before, scripts>>
<1>1. Goto(s, "clean") /\ "clean" \in Phases
  BY DEF CleanupDone, Phases
<1>t. CtlType
  BY TypeParts
<1>2. next' \in [Sessions -> Nat] /\ next'[s] = next[s] + 1 /\ \A u \in Sessions : u # s => next'[u] = next[u]
  BY <1>t DEF CleanupDone, CtlType
<1>3. err' \in [Sessions -> BOOLEAN] /\ err'[s] = (err[s] \/ ~ok)
  BY <1>t DEF CleanupDone, CtlType
<1>4. CtlType'
  BY <1>t, <1>2, <1>3 DEF CleanupDone, CtlType
<1> QED
  BY <1>1, <1>2, <1>3, <1>4, GotoIs DEF CleanupDone

LEMMA NoteIs ==
    ASSUME TypeOK, NEW s \in Sessions, NEW o \in Spaces \X Names, Note(s, o)
    PROVE  /\ CcType'
           /\ added'[s] = added[s] \cup {o} /\ deleted'[s] = deleted[s] \ {o}
BY TypeParts DEF Note, CcType

LEMMA NoteDeletedIs ==
    ASSUME TypeOK, NEW s \in Sessions, NEW o \in Spaces \X Names, NoteDeleted(s, o)
    PROVE  /\ CcType'
           /\ added'[s] = added[s] \ {o} /\ deleted'[s] = deleted[s] \cup {o}
BY TypeParts DEF NoteDeleted, CcType

LEMMA PhaseSame ==
    ASSUME NEW u, PhaseOK(u), phase'[u] = phase[u], acts'[u] = acts[u], next'[u] = next[u]
    PROVE  PhaseOK(u)'
BY DEF PhaseOK, Last

LEMMA PhaseStep ==
    ASSUME TypeInv, NEW s \in Sessions, PhaseOK(s)',
           \A u \in Sessions : u # s => phase'[u] = phase[u] /\ acts'[u] = acts[u] /\ next'[u] = next[u]
    PROVE  \A u \in Sessions : PhaseOK(u)'
BY PhaseSame DEF TypeInv

\* To a phase that asks nothing of the last statement.
LEMMA PhaseEasy ==
    ASSUME TypeInv, NEW s \in Sessions, acts' = acts, next' = next,
           \/ phase'[s] \in {"idle", "clean"}
           \/ phase'[s] \in {"next", "rows"} /\ phase[s] \notin {"idle", "clean", "cleanForget"},
           \A u \in Sessions : u # s => phase'[u] = phase[u]
    PROVE  \A u \in Sessions : PhaseOK(u)'
<1>1. PhaseOK(s)'
  BY DEF TypeInv, PhaseOK
<1> QED
  BY <1>1, PhaseStep

LEMMA FirstStepIs ==
    ASSUME NEW st \in Stmt
    PROVE  /\ FirstStep(st) \in {"next", "drop", "create", "add", "dropObject", "forget"}
           /\ FirstStep(st) \in {"drop", "create"} =>
                 /\ st.do = "create" /\ Space(st.kind) = "relation"
                 /\ FirstStep(st) = "create" => ~(st.kind = "table" /\ st.temp)
           /\ FirstStep(st) = "add" => st.do = "create" /\ Space(st.kind) # "relation"
           /\ FirstStep(st) = "dropObject" => st.do = "drop" /\ Space(st.kind) = "relation"
           /\ FirstStep(st) = "forget" => st.do = "drop" /\ Space(st.kind) # "relation"
           /\ FirstStep(st) = "next" => st.do = "create" /\ ~st.temp /\ Space(st.kind) = "relation"
BY StmtIs DEF FirstStep

LEMMA IssueIs ==
    ASSUME TypeInv, NEW s \in Sessions, NEW st \in Stmt, Issue(s, st)
    PROVE  /\ PhaseType' /\ phase[s] = "next" /\ phase'[s] = FirstStep(st)
           /\ acts' \in [Sessions -> Seq(Stmt)] /\ acts'[s] = Append(acts[s], st)
           /\ \A u \in Sessions : u # s => phase'[u] = phase[u] /\ acts'[u] = acts[u]
           /\ Len(acts[s]) \in Nat /\ Len(acts'[s]) = Len(acts[s]) + 1
           /\ acts'[s][Len(acts'[s])] = st
           /\ \A i \in 1..Len(acts[s]) : acts'[s][i] = acts[s][i]
           /\ UNCHANGED <<dataVars, ccVars, entry, next, failed, err, cancelled, own, before, scripts>>
<1>1. FirstStep(st) \in Phases
  BY FirstStepIs DEF Phases
<1>2. PhaseType' /\ phase'[s] = FirstStep(st) /\ \A u \in Sessions : u # s => phase'[u] = phase[u]
  BY <1>1, GotoIs DEF Issue, TypeInv
<1>3. acts[s] \in Seq(Stmt) /\ acts \in [Sessions -> Seq(Stmt)]
  BY DEF TypeInv, TypeOK
<1>4. Append(acts[s], st) \in Seq(Stmt) /\ Len(Append(acts[s], st)) = Len(acts[s]) + 1
      /\ Append(acts[s], st)[Len(acts[s]) + 1] = st /\ Len(acts[s]) \in Nat
      /\ \A i \in 1..Len(acts[s]) : Append(acts[s], st)[i] = acts[s][i]
  BY <1>3
<1>5. acts'[s] = Append(acts[s], st) /\ acts' \in [Sessions -> Seq(Stmt)]
      /\ \A u \in Sessions : u # s => acts'[u] = acts[u]
  BY <1>3, <1>4 DEF Issue
<1> QED
  BY <1>2, <1>4, <1>5 DEF Issue

LEMMA StartIs ==
    ASSUME TypeInv, NEW s \in Sessions, NEW e \in {"exec", "query"}, StartScript(s, e)
    PROVE  /\ phase[s] = "idle" /\ PhaseType' /\ phase'[s] = "next" /\ CtlType' /\ CcType' /\ DataType'
           /\ \A u \in Sessions : u # s => phase'[u] = phase[u] /\ acts'[u] = acts[u] /\ next'[u] = next[u]
           /\ acts'[s] = <<>> /\ next'[s] = 1 /\ ~failed'[s] /\ ~err'[s] /\ ~cancelled'[s]
           /\ \A u \in Sessions : u # s => cancelled'[u] = cancelled[u]
           /\ added'[s] = {} /\ deleted'[s] = {} /\ before'[s] = PersistentIn(Synced)
           /\ cat' = Synced /\ UNCHANGED <<db, rows, wiped>>
<1>t. DataType /\ CtlType /\ CcType
  BY TypeParts DEF TypeInv
<1>1. PhaseType' /\ phase'[s] = "next" /\ \A u \in Sessions : u # s => phase'[u] = phase[u]
  BY GotoIs DEF StartScript, TypeInv, Phases
<1>2. PersistentIn(Synced) \in SUBSET (Spaces \X Names)
  BY DEF PersistentIn
<1>3. Synced \in Catalogs
  BY <1>t, SyncedIs DEF DataType
<1>4. /\ acts' \in [Sessions -> Seq(Stmt)] /\ acts'[s] = <<>> /\ next' \in [Sessions -> Nat] /\ next'[s] = 1
      /\ \A u \in Sessions : u # s => acts'[u] = acts[u] /\ next'[u] = next[u]
  BY <1>t DEF StartScript, CtlType
<1>5. /\ failed' \in [Sessions -> BOOLEAN] /\ ~failed'[s] /\ err' \in [Sessions -> BOOLEAN] /\ ~err'[s]
      /\ cancelled' \in [Sessions -> BOOLEAN] /\ ~cancelled'[s] /\ own' \in [Sessions -> BOOLEAN]
      /\ \A u \in Sessions : u # s => cancelled'[u] = cancelled[u]
  BY <1>t DEF StartScript, CtlType
<1>6. /\ before' \in [Sessions -> SUBSET (Spaces \X Names)] /\ before'[s] = PersistentIn(Synced)
      /\ scripts' \in [Sessions -> Nat] /\ entry' \in [Sessions -> {"exec", "query"}]
  BY <1>t, <1>2 DEF StartScript, CtlType
<1>7. CcType' /\ added'[s] = {} /\ deleted'[s] = {}
  BY <1>t DEF StartScript, CcType
<1>8. DataType' /\ cat' = Synced /\ UNCHANGED <<db, rows, wiped>>
  BY <1>t, <1>3 DEF StartScript, DataType, Catalogs
<1> QED
  BY <1>1, <1>4, <1>5, <1>6, <1>7, <1>8 DEF StartScript, CtlType

-----------------------------------------------------------------------------
(* What the steps of a statement do.                                       *)

\* A step goes on without touching what the script knows.
Goes(s, p) == Goto(s, p) /\ UNCHANGED ctlVars

LEMMA GoesIs ==
    ASSUME TypeInv, NEW s \in Sessions, NEW p \in Phases, Goes(s, p)
    PROVE  /\ PhaseType' /\ phase'[s] = p
           /\ \A u \in Sessions : u # s => phase'[u] = phase[u]
           /\ CtlType'
           /\ UNCHANGED <<entry, acts, next, failed, err, cancelled, own, before, scripts>>
BY GotoIs, TypeSame DEF Goes, TypeInv, ctlVars

\* SQLite loses its table or view n.
Dropped(n) == db' = [db EXCEPT ![n] = NoObj]

LEMMA StepDropIs ==
    ASSUME TypeInv, NEW s \in Sessions, StepDrop(s)
    PROVE  /\ phase[s] = "drop" /\ Last(s) \in Stmt /\ Last(s).do = "create"
           /\ Space(Last(s).kind) = "relation" /\ next[s] = 1
           /\ UNCHANGED <<cat, rows, fresh, ccVars>>
           /\ \/ /\ Droppable(Last(s)) /\ Dropped(Last(s).name) /\ Goes(s, "create")
                 /\ wiped' = wiped \cup {Last(s).name}
              \/ Unwind(s) /\ UNCHANGED <<db, wiped>>
BY LastIs DEF StepDrop, TypeInv, PhaseOK, Dropped, Goes

LEMMA StepCreateIs ==
    ASSUME TypeInv, NEW s \in Sessions, StepCreate(s)
    PROVE  /\ phase[s] = "create" /\ Last(s) \in Stmt /\ Last(s).do = "create"
           /\ Space(Last(s).kind) = "relation" /\ next[s] = 1
           /\ UNCHANGED <<cat, rows, fresh, ccVars>>
           /\ \/ /\ db[Last(s).name] = NoObj /\ Goes(s, "add")
                 /\ db' = [db EXCEPT ![Last(s).name] = ObjectOf(s, Last(s))]
                 /\ wiped' = wiped \ {Last(s).name}
              \/ /\ db[Last(s).name] # NoObj /\ Last(s).mode = "ifNotExists" /\ Goes(s, "add")
                 /\ db' = db /\ wiped' = wiped \ {Last(s).name}
              \/ Unwind(s) /\ UNCHANGED <<db, wiped>>
BY LastIs DEF StepCreate, TypeInv, PhaseOK, Goes

LEMMA StepAddIs ==
    ASSUME TypeInv, NEW s \in Sessions, StepAdd(s)
    PROVE  LET st == Last(s)
               o == <<Space(st.kind), st.name>>
           IN
           /\ phase[s] = "add" /\ st \in Stmt /\ st.do = "create" /\ next[s] = 1
           /\ cat' = CatSet(Space(st.kind), st.name, ObjectOf(s, st)) /\ UNCHANGED <<db, wiped>>
           /\ \/ cancelled[s] /\ ~st.temp /\ Unwind(s) /\ UNCHANGED <<rows, fresh, ccVars>>
              \/ /\ cancelled[s] => st.temp
                 /\ Goes(s, "next")
                 /\ IF st.temp THEN UNCHANGED <<rows, fresh>>
                    ELSE /\ rows' = [rows EXCEPT ![st.name] = Upsert(@, ObjectOf(s, st))]
                         /\ fresh' = fresh \cup {st.name}
                 /\ IF st.kind = "view" \/ (st.kind = "table" /\ st.temp) THEN UNCHANGED ccVars
                    ELSE Note(s, o)
BY LastIs DEF StepAdd, TypeInv, PhaseOK, Goes, CatSet

LEMMA StepDropObjectIs ==
    ASSUME TypeInv, NEW s \in Sessions, StepDropObject(s)
    PROVE  /\ phase[s] = "dropObject" /\ Last(s) \in Stmt /\ Last(s).do = "drop"
           /\ Space(Last(s).kind) = "relation" /\ next[s] = 1
           /\ UNCHANGED <<cat, rows, fresh, wiped, ccVars>>
           /\ \/ Droppable(Last(s)) /\ Dropped(Last(s).name) /\ Goes(s, "forget")
              \/ Unwind(s) /\ db' = db
BY LastIs DEF StepDropObject, TypeInv, PhaseOK, Dropped, Goes

LEMMA StepForgetIs ==
    ASSUME TypeInv, NEW s \in Sessions, StepForget(s)
    PROVE  LET st == Last(s)
               o == <<Space(st.kind), st.name>>
           IN
           /\ phase[s] = "forget" /\ st \in Stmt /\ st.do = "drop" /\ next[s] = 1
           /\ UNCHANGED <<db, fresh, wiped>>
           /\ \/ /\ cat[Space(st.kind)][st.name] = NoObj
                 /\ UNCHANGED <<cat, rows, ccVars>>
                 /\ Goes(s, "next") \/ Unwind(s)
              \/ /\ cat[Space(st.kind)][st.name] # NoObj
                 /\ cat' = CatSet(Space(st.kind), st.name, NoObj)
                 /\ \/ cancelled[s] /\ Unwind(s) /\ UNCHANGED <<rows, ccVars>>
                    \/ /\ ~cancelled[s]
                       /\ rows' = [rows EXCEPT ![st.name] = NoObj]
                       /\ NoteDeleted(s, o)
                       /\ Goes(s, "next")
BY LastIs DEF StepForget, TypeInv, PhaseOK, Goes, CatSet

LEMMA RowFailIs ==
    ASSUME TypeInv, NEW s \in Sessions, RowFail(s)
    PROVE  /\ Last(s) \in Stmt /\ next[s] = 1 /\ Unwind(s)
           /\ UNCHANGED <<db, rows, fresh, wiped, ccVars>>
           /\ \/ /\ phase[s] = "add" /\ Last(s).do = "create"
                 /\ cat' = CatSet(Space(Last(s).kind), Last(s).name, ObjectOf(s, Last(s)))
              \/ /\ phase[s] = "forget" /\ Last(s).do = "drop"
                 /\ cat' = CatSet(Space(Last(s).kind), Last(s).name, NoObj)
BY LastIs DEF RowFail, TypeInv, PhaseOK, CatSet

\* The action whose Cleanup is next.
Due(s) == acts[s][next[s]]

LEMMA DueIs ==
    ASSUME TypeInv, NEW s \in Sessions, next[s] <= Len(acts[s])
    PROVE  Due(s) \in Stmt /\ next[s] \in 1..Len(acts[s])
<1>1. next[s] \in 1..Len(acts[s])
  <2>1. next[s] \in Nat /\ next[s] > 0 /\ acts[s] \in Seq(Stmt)
    BY DEF TypeInv, TypeOK, PhaseOK
  <2> QED
    BY <2>1
<1> QED
  BY <1>1, ActIs DEF Due

LEMMA CleanNothingIs ==
    ASSUME TypeInv, NEW s \in Sessions, CleanNothing(s)
    PROVE  /\ phase[s] = "clean" /\ next[s] \in 1..Len(acts[s]) /\ Due(s) \in Stmt
           /\ ~(Due(s).do = "create" /\ Due(s).temp)
           /\ IF Due(s).do = "create" /\ Due(s).kind = "view"
              THEN Note(s, <<Space(Due(s).kind), Due(s).name>>) ELSE UNCHANGED ccVars
           /\ CleanupDone(s, TRUE) /\ UNCHANGED dataVars
<1>1. next[s] <= Len(acts[s])
  BY DEF CleanNothing
<1>2. Due(s) \in Stmt /\ next[s] \in 1..Len(acts[s])
  BY <1>1, DueIs
<1>3. Due(s).kind = "view" => Space(Due(s).kind) = "relation"
  BY DEF Space
<1> QED
  BY <1>2, <1>3 DEF CleanNothing, Due

LEMMA CleanDropIs ==
    ASSUME TypeInv, NEW s \in Sessions, CleanDrop(s)
    PROVE  /\ phase[s] = "clean" /\ next[s] \in 1..Len(acts[s]) /\ Due(s) \in Stmt
           /\ Due(s).do = "create" /\ Due(s).temp
           /\ UNCHANGED <<cat, rows, fresh, wiped, ccVars>>
           /\ \/ Space(Due(s).kind) # "relation" /\ Goes(s, "cleanForget") /\ db' = db
              \/ /\ Space(Due(s).kind) = "relation" /\ Droppable(Due(s))
                 /\ Dropped(Due(s).name) /\ Goes(s, "cleanForget")
              \/ /\ Space(Due(s).kind) = "relation" /\ (Blocked(s) \/ ~Droppable(Due(s)))
                 /\ CleanupDone(s, FALSE) /\ db' = db
<1>1. next[s] <= Len(acts[s])
  BY DEF CleanDrop
<1>2. Due(s) \in Stmt /\ next[s] \in 1..Len(acts[s])
  BY <1>1, DueIs
<1> QED
  BY <1>2 DEF CleanDrop, Due, Dropped, Goes

LEMMA CleanForgetIs ==
    ASSUME TypeInv, NEW s \in Sessions, CleanForget(s)
    PROVE  /\ phase[s] = "cleanForget" /\ next[s] \in 1..Len(acts[s]) /\ Due(s) \in Stmt
           /\ Due(s).do = "create" /\ Due(s).temp
           /\ UNCHANGED <<db, fresh, wiped, ccVars>>
           /\ \/ /\ cat[Space(Due(s).kind)][Due(s).name] = NoObj
                 /\ UNCHANGED <<cat, rows>> /\ CleanupDone(s, Due(s).kind = "table")
              \/ /\ cat[Space(Due(s).kind)][Due(s).name] # NoObj
                 /\ cat' = CatSet(Space(Due(s).kind), Due(s).name, NoObj)
                 /\ IF Blocked(s) THEN rows' = rows ELSE rows' = [rows EXCEPT ![Due(s).name] = NoObj]
                 /\ CleanupDone(s, ~Blocked(s))
<1>1. next[s] <= Len(acts[s]) /\ Due(s).do = "create" /\ Due(s).temp
  BY DEF CleanForget, TypeInv, PhaseOK, Due
<1>2. Due(s) \in Stmt /\ next[s] \in 1..Len(acts[s])
  BY <1>1, DueIs
<1> QED
  BY <1>1, <1>2 DEF CleanForget, Due, CatSet

\* The other steps change no data.
QuietStep(s) ==
    \/ FailStmt(s) \/ Finish(s) \/ CloseRows(s) \/ EndScript(s) \/ Panic(s) \/ Cancel(s)

LEMMA QuietIs ==
    ASSUME TypeInv, NEW s \in Sessions, QuietStep(s)
    PROVE  /\ PhaseType' /\ CtlType' /\ \A u \in Sessions : u # s => phase'[u] = phase[u]
           /\ UNCHANGED <<dataVars, ccVars, acts, next, before, scripts>>
           /\ \/ phase'[s] = "clean" /\ phase[s] \in {"next", "rows"}
              \/ phase'[s] = "rows" /\ phase[s] = "next"
              \/ phase'[s] = "idle" /\ phase[s] = "clean" /\ next[s] > Len(acts[s]) /\ EndScript(s)
              \/ phase'[s] = "idle" /\ phase[s] = "next" /\ Panic(s)
              \/ Cancel(s) /\ phase' = phase
<1>t. CtlType /\ PhaseType /\ TypeOK
  BY TypeParts DEF TypeInv
<1>p. {"clean", "rows", "idle"} \subseteq Phases
  BY DEF Phases
<1>1. CASE FailStmt(s)
  BY <1>1, <1>t, UnwindIs DEF FailStmt
<1>2. CASE Finish(s)
  <2>1. Goes(s, IF entry[s] = "exec" THEN "clean" ELSE "rows")
    BY <1>2 DEF Finish, Goes
  <2>2. (IF entry[s] = "exec" THEN "clean" ELSE "rows") \in Phases
    BY <1>p
  <2> QED
    BY <1>2, <2>1, <2>2, GoesIs DEF Finish
<1>3. CASE CloseRows(s)
  <2>1. CtlType'
    BY <1>3, <1>t DEF CloseRows, CtlType
  <2> QED
    BY <1>3, <1>t, <1>p, <2>1, GotoIs DEF CloseRows
<1>4. CASE EndScript(s)
  <2>1. Goes(s, "idle")
    BY <1>4 DEF EndScript, Goes
  <2> QED
    BY <1>4, <1>p, <2>1, GoesIs DEF EndScript
<1>5. CASE Panic(s)
  <2>1. CtlType'
    BY <1>5, <1>t DEF Panic, CtlType
  <2>2. (IF entry[s] = "exec" THEN "clean" ELSE "idle") \in Phases
    BY <1>p
  <2> QED
    BY <1>5, <1>t, <2>1, <2>2, GotoIs DEF Panic
<1>6. CASE Cancel(s)
  <2>1. CtlType' /\ PhaseType'
    BY <1>6, <1>t DEF Cancel, CtlType, PhaseType
  <2> QED
    BY <1>6, <2>1 DEF Cancel
<1> QED
  BY <1>1, <1>2, <1>3, <1>4, <1>5, <1>6 DEF QuietStep

AnyStep(s) ==
    \/ \E e \in {"exec", "query"} : StartScript(s, e)
    \/ \E st \in Stmt : Issue(s, st)
    \/ QuietStep(s)
    \/ StepDrop(s) \/ StepCreate(s) \/ StepAdd(s)
    \/ StepDropObject(s) \/ StepForget(s) \/ RowFail(s)
    \/ CleanNothing(s) \/ CleanDrop(s) \/ CleanForget(s)

LEMMA StepsAre ==
    ASSUME Next \/ Disturb
    PROVE  \E s \in Sessions : AnyStep(s)
BY DEF Next, Disturb, AnyStep, QuietStep

\* A step of a statement goes on, or the script unwinds.
LEMMA StmtGoes ==
    ASSUME TypeInv, NEW s \in Sessions, NEW p \in {"create", "add", "forget", "next", "cleanForget"},
           Goes(s, p) \/ Unwind(s), phase[s] # "idle",
           p \in {"create", "forget", "next"} => phase[s] \notin {"clean", "cleanForget"},
           p = "create" => phase[s] = "drop", p = "add" => phase[s] = "create",
           p = "forget" => phase[s] = "dropObject",
           p = "cleanForget" => /\ next[s] <= Len(acts[s])
                                /\ acts[s][next[s]].do = "create" /\ acts[s][next[s]].temp
    PROVE  PhaseType' /\ CtlType' /\ \A u \in Sessions : PhaseOK(u)'
<1>p. p \in Phases
  BY DEF Phases
<1>1. CASE Goes(s, p)
  <2>1. /\ PhaseType' /\ phase'[s] = p /\ CtlType' /\ acts' = acts /\ next' = next
        /\ \A u \in Sessions : u # s => phase'[u] = phase[u]
    BY <1>1, <1>p, GoesIs
  <2>2. PhaseOK(s)'
    BY <2>1 DEF TypeInv, PhaseOK, Last
  <2> QED
    BY <2>1, <2>2, PhaseStep
<1>2. CASE Unwind(s)
  <2>1. /\ PhaseType' /\ phase'[s] = "clean" /\ CtlType' /\ acts' = acts /\ next' = next
        /\ \A u \in Sessions : u # s => phase'[u] = phase[u]
    BY <1>2, UnwindIs DEF TypeInv
  <2> QED
    BY <2>1, PhaseEasy
<1> QED
  BY <1>1, <1>2

LEMMA CleanGoes ==
    ASSUME TypeInv, NEW s \in Sessions, NEW ok \in BOOLEAN, CleanupDone(s, ok)
    PROVE  PhaseType' /\ CtlType' /\ \A u \in Sessions : PhaseOK(u)'
<1>1. /\ PhaseType' /\ phase'[s] = "clean" /\ CtlType' /\ acts' = acts /\ next'[s] = next[s] + 1
      /\ \A u \in Sessions : u # s => phase'[u] = phase[u] /\ next'[u] = next[u]
  BY CleanupDoneIs DEF TypeInv
<1>2. next[s] \in Nat /\ next[s] > 0
  BY DEF TypeInv, TypeOK, PhaseOK
<1>3. PhaseOK(s)'
  BY <1>1, <1>2 DEF PhaseOK
<1> QED
  BY <1>1, <1>3, PhaseStep

LEMMA TypeStep ==
    ASSUME TypeInv, NEW s \in Sessions, AnyStep(s)
    PROVE  TypeInv'
<1>t. TypeOK /\ DataType /\ CtlType /\ CcType /\ PhaseType
  BY TypeParts DEF TypeInv
<1>s. /\ UNCHANGED dataVars => DataType'
      /\ UNCHANGED ccVars => CcType'
  BY <1>t, TypeSame
<1>q. ASSUME DataType', CtlType', CcType', PhaseType', \A u \in Sessions : PhaseOK(u)' PROVE TypeInv'
  BY <1>q, TypePartsNext DEF TypeInv
<1>d. ASSUME NEW n \in Names, Dropped(n) \/ db' = db, wiped' = wiped \/ wiped' = wiped \cup {n},
             UNCHANGED <<cat, rows, fresh>>
      PROVE  DataType'
  BY <1>d, <1>t DEF Dropped, DataType, Catalogs
<1>1. CASE \E e \in {"exec", "query"} : StartScript(s, e)
  <2>1. /\ PhaseType' /\ phase'[s] = "next" /\ CtlType' /\ CcType' /\ DataType'
        /\ \A u \in Sessions : u # s => phase'[u] = phase[u] /\ acts'[u] = acts[u] /\ next'[u] = next[u]
        /\ next'[s] = 1
    BY <1>1, StartIs
  <2>2. PhaseOK(s)'
    BY <2>1 DEF PhaseOK
  <2> QED
    BY <1>q, <2>1, <2>2, PhaseStep
<1>2. CASE \E st \in Stmt : Issue(s, st)
  <2>1. PICK st \in Stmt : Issue(s, st)
    BY <1>2
  <2>2. /\ PhaseType' /\ phase[s] = "next" /\ phase'[s] = FirstStep(st)
        /\ acts' \in [Sessions -> Seq(Stmt)]
        /\ \A u \in Sessions : u # s => phase'[u] = phase[u] /\ acts'[u] = acts[u]
        /\ Len(acts'[s]) > 0 /\ Last(s)' = st
        /\ UNCHANGED <<dataVars, ccVars, entry, next, failed, err, cancelled, own, before, scripts>>
    BY <2>1, IssueIs DEF Last
  <2>3. CtlType'
    BY <1>t, <2>2 DEF CtlType
  <2>4. next'[s] = 1
    BY <2>2 DEF TypeInv, PhaseOK
  <2>5. PhaseOK(s)'
    BY <2>2, <2>4, FirstStepIs DEF PhaseOK
  <2>6. \A u \in Sessions : PhaseOK(u)'
    BY <2>2, <2>5, PhaseStep
  <2> QED
    BY <1>q, <1>s, <2>2, <2>3, <2>6
<1>3. CASE QuietStep(s)
  <2>1. /\ PhaseType' /\ CtlType' /\ \A u \in Sessions : u # s => phase'[u] = phase[u]
        /\ UNCHANGED <<dataVars, ccVars, acts, next>>
        /\ \/ phase'[s] \in {"clean", "idle"}
           \/ phase'[s] = "rows" /\ phase[s] = "next"
           \/ phase' = phase
    BY <1>3, QuietIs
  <2>2. \A u \in Sessions : PhaseOK(u)'
    <3>1. CASE phase' = phase
      BY <2>1, <3>1, PhaseSame DEF TypeInv
    <3>2. CASE phase' # phase
      BY <2>1, <3>2, PhaseEasy
    <3> QED
      BY <3>1, <3>2
  <2> QED
    BY <1>q, <1>s, <2>1, <2>2
<1>4. CASE StepDrop(s) \/ StepDropObject(s)
  <2>1. /\ Last(s).name \in Names /\ UNCHANGED <<cat, rows, fresh, ccVars>>
        /\ Dropped(Last(s).name) \/ db' = db
        /\ wiped' = wiped \/ wiped' = wiped \cup {Last(s).name}
    BY <1>4, StepDropIs, StepDropObjectIs, StmtIs
  <2>2. PhaseType' /\ CtlType' /\ \A u \in Sessions : PhaseOK(u)'
    <3>1. CASE StepDrop(s)
      BY <3>1, StepDropIs, StmtGoes
    <3>2. CASE StepDropObject(s)
      BY <3>2, StepDropObjectIs, StmtGoes
    <3> QED
      BY <1>4, <3>1, <3>2
  <2> QED
    BY <1>d, <1>q, <1>s, <2>1, <2>2
<1>5. CASE StepCreate(s)
  <2>1. /\ Last(s).name \in Names /\ ObjectOf(s, Last(s)) \in Object /\ UNCHANGED <<cat, rows, fresh, ccVars>>
        /\ phase[s] = "create" /\ (Goes(s, "add") \/ Unwind(s))
        /\ db' = [db EXCEPT ![Last(s).name] = ObjectOf(s, Last(s))] \/ db' = db
        /\ wiped' = wiped \/ wiped' = wiped \ {Last(s).name}
    BY <1>5, StepCreateIs, StmtIs, ObjectIs
  <2>2. DataType'
    BY <1>t, <2>1 DEF DataType, Catalogs
  <2>3. PhaseType' /\ CtlType' /\ \A u \in Sessions : PhaseOK(u)'
    BY <2>1, StmtGoes
  <2> QED
    BY <1>q, <1>s, <2>1, <2>2, <2>3
<1>6. CASE StepAdd(s) \/ (RowFail(s) /\ phase[s] = "add")
  <2>1. /\ Last(s) \in Stmt /\ Last(s).do = "create" /\ phase[s] = "add" /\ (Goes(s, "next") \/ Unwind(s))
        /\ cat' = CatSet(Space(Last(s).kind), Last(s).name, ObjectOf(s, Last(s))) /\ UNCHANGED <<db, wiped>>
        /\ UNCHANGED ccVars \/ Note(s, <<Space(Last(s).kind), Last(s).name>>)
        /\ \/ UNCHANGED <<rows, fresh>>
           \/ /\ rows' = [rows EXCEPT ![Last(s).name] = Upsert(@, ObjectOf(s, Last(s)))]
              /\ fresh' = fresh \cup {Last(s).name}
    BY <1>6, StepAddIs, RowFailIs
  <2>2. /\ Last(s).name \in Names /\ Space(Last(s).kind) \in Spaces /\ ObjectOf(s, Last(s)) \in Object
    BY <2>1, StmtIs, ObjectIs
  <2>3. cat' \in Catalogs
    BY <1>t, <2>1, <2>2, CatSetIs DEF DataType
  <2>4. Upsert(rows[Last(s).name], ObjectOf(s, Last(s))) \in Object
    BY <1>t, <2>2, UpsertIs DEF DataType
  <2>5. DataType'
    BY <1>t, <2>1, <2>2, <2>3, <2>4 DEF DataType, Catalogs
  <2>6. CcType'
    BY <1>s, <1>t, <2>1, <2>2, NoteIs
  <2>7. PhaseType' /\ CtlType' /\ \A u \in Sessions : PhaseOK(u)'
    BY <2>1, StmtGoes
  <2> QED
    BY <1>q, <2>5, <2>6, <2>7
<1>7. CASE StepForget(s) \/ (RowFail(s) /\ phase[s] = "forget")
  <2>1. /\ Last(s) \in Stmt /\ phase[s] = "forget" /\ (Goes(s, "next") \/ Unwind(s))
        /\ cat' = cat \/ cat' = CatSet(Space(Last(s).kind), Last(s).name, NoObj)
        /\ UNCHANGED ccVars \/ NoteDeleted(s, <<Space(Last(s).kind), Last(s).name>>)
        /\ rows' = rows \/ rows' = [rows EXCEPT ![Last(s).name] = NoObj]
        /\ UNCHANGED <<db, fresh, wiped>>
    BY <1>7, StepForgetIs, RowFailIs
  <2>2. Last(s).name \in Names /\ Space(Last(s).kind) \in Spaces
    BY <2>1, StmtIs
  <2>3. cat' \in Catalogs
    BY <1>t, <2>1, <2>2, CatSetIs DEF DataType
  <2>4. DataType'
    BY <1>t, <2>1, <2>2, <2>3 DEF DataType, Catalogs
  <2>5. CcType'
    BY <1>s, <1>t, <2>1, <2>2, NoteDeletedIs
  <2>6. PhaseType' /\ CtlType' /\ \A u \in Sessions : PhaseOK(u)'
    BY <2>1, StmtGoes
  <2> QED
    BY <1>q, <2>4, <2>5, <2>6
<1>8. CASE CleanNothing(s)
  <2>1. /\ Due(s) \in Stmt /\ CleanupDone(s, TRUE) /\ UNCHANGED dataVars
        /\ UNCHANGED ccVars \/ Note(s, <<Space(Due(s).kind), Due(s).name>>)
    BY <1>8, CleanNothingIs
  <2>2. CcType'
    BY <1>s, <1>t, <2>1, NoteIs, StmtIs
  <2> QED
    BY <1>q, <1>s, <2>1, <2>2, CleanGoes
<1>9. CASE CleanDrop(s)
  <2>1. /\ Due(s) \in Stmt /\ UNCHANGED <<cat, rows, fresh, wiped, ccVars>> /\ phase[s] = "clean"
        /\ db' = db \/ Dropped(Due(s).name)
        /\ Goes(s, "cleanForget") \/ CleanupDone(s, FALSE)
        /\ next[s] \in 1..Len(acts[s]) /\ Due(s).do = "create" /\ Due(s).temp
    BY <1>9, CleanDropIs
  <2>2. PhaseType' /\ CtlType' /\ \A u \in Sessions : PhaseOK(u)'
    <3>1. next[s] <= Len(acts[s]) /\ acts[s][next[s]].do = "create" /\ acts[s][next[s]].temp
      BY <2>1 DEF Due
    <3> QED
      BY <2>1, <3>1, StmtGoes, CleanGoes
  <2>3. DataType'
    BY <1>d, <2>1, StmtIs
  <2> QED
    BY <1>q, <1>s, <2>1, <2>2, <2>3
<1>10. CASE CleanForget(s)
  <2>1. /\ Due(s) \in Stmt /\ UNCHANGED <<db, fresh, wiped, ccVars>>
        /\ cat' = cat \/ cat' = CatSet(Space(Due(s).kind), Due(s).name, NoObj)
        /\ rows' = rows \/ rows' = [rows EXCEPT ![Due(s).name] = NoObj]
        /\ \E ok \in BOOLEAN : CleanupDone(s, ok)
    BY <1>10, CleanForgetIs
  <2>2. Due(s).name \in Names /\ Space(Due(s).kind) \in Spaces
    BY <2>1, StmtIs
  <2>3. cat' \in Catalogs
    BY <1>t, <2>1, <2>2, CatSetIs DEF DataType
  <2>4. DataType'
    BY <1>t, <2>1, <2>2, <2>3 DEF DataType, Catalogs
  <2> QED
    BY <1>q, <1>s, <2>1, <2>4, CleanGoes
<1> QED
  BY <1>1, <1>2, <1>3, <1>4, <1>5, <1>6, <1>7, <1>8, <1>9, <1>10, RowFailIs DEF AnyStep

LEMMA TypeInit == Init => TypeInv
<1> SUFFICES ASSUME Init PROVE TypeInv
  OBVIOUS
<1>1. DataType
  BY DEF Init, DataType, Catalogs
<1>2. CtlType /\ CcType /\ PhaseType
  BY DEF Init, CtlType, CcType, PhaseType, Phases
<1>3. ASSUME NEW s \in Sessions PROVE PhaseOK(s)
  <2>1. phase[s] = "idle" /\ next[s] = 1
    BY DEF Init
  <2> QED
    BY <2>1 DEF PhaseOK
<1> QED
  BY <1>1, <1>2, <1>3, TypeParts DEF TypeInv

LEMMA TypeStutter ==
    ASSUME TypeInv, UNCHANGED vars
    PROVE  TypeInv'
<1>1. UNCHANGED <<dataVars, ctlVars, ccVars, phase>>
  BY DEF vars, dataVars, ctlVars, ccVars
<1>2. TypeOK'
  BY <1>1, TypeParts, TypePartsNext, TypeSame DEF TypeInv, PhaseType
<1>3. \A u \in Sessions : PhaseOK(u)'
  BY <1>1, PhaseSame DEF TypeInv, ctlVars
<1> QED
  BY <1>2, <1>3 DEF TypeInv

LEMMA TypeNext == TypeInv /\ [Next \/ Disturb]_vars => TypeInv'
BY TypeStep, TypeStutter, StepsAre

\* Whatever scripts the sessions run, cancel or lose to a panic, every state
\* is well formed: in particular Cleanup only reads actions that the script
\* has recorded (driver.go:524-588).
THEOREM ScriptTypeCorrect == DisturbedSpec => []TypeOK
<1>1. TypeInv => TypeOK
  BY DEF TypeInv
<1> QED
  BY <1>1, TypeInit, TypeNext, PTL DEF DisturbedSpec

-----------------------------------------------------------------------------
(* Objects and their names.                                                *)

Home(x) == IF x.temp THEN TempNames ELSE PermNames

\* Objects stand under a name of their sort, in their own map; a row is that
\* of a persistent object.
NamesOK ==
    /\ \A n \in Names : db[n] # NoObj => Space(db[n].kind) = "relation" /\ n \in Home(db[n])
    /\ \A sp \in Spaces, n \in Names :
          cat[sp][n] # NoObj => Space(cat[sp][n].kind) = sp /\ n \in Home(cat[sp][n])
    /\ \A n \in Names : rows[n] # NoObj => ~rows[n].temp /\ n \in PermNames

LEMMA HomeIs ==
    ASSUME NEW st \in Stmt, st.do = "create", NEW s \in Sessions
    PROVE  /\ st.name \in Home(ObjectOf(s, st))
           /\ st.temp => st.name \in TempNames
           /\ ~st.temp => st.name \in PermNames
BY StmtIs, ObjectIs DEF Home

LEMMA NamesStep ==
    ASSUME TypeInv, NamesOK, NEW s \in Sessions, AnyStep(s)
    PROVE  NamesOK'
<1>t. db \in [Names -> Object \cup {NoObj}] /\ cat \in Catalogs /\ rows \in [Names -> Object \cup {NoObj}]
  BY TypeParts DEF TypeInv, DataType
<1>s. ASSUME UNCHANGED <<db, cat, rows>> PROVE NamesOK'
  BY <1>s DEF NamesOK, Home
<1>d. ASSUME NEW n \in Names, Dropped(n), UNCHANGED <<cat, rows>> PROVE NamesOK'
  <2>1. \A m \in Names : db'[m] \in {db[m], NoObj}
    BY <1>d, <1>t DEF Dropped
  <2> QED
    BY <1>d, <2>1 DEF NamesOK, Home
<1>c. ASSUME NEW n \in Names, NEW sp \in Spaces, cat' = cat \/ cat' = CatSet(sp, n, NoObj), db' = db,
             rows' = rows \/ rows' = [rows EXCEPT ![n] = NoObj]
      PROVE  NamesOK'
  <2>1. \A p \in Spaces, m \in Names : cat'[p][m] \in {cat[p][m], NoObj}
    BY <1>c, <1>t, CatSetIs
  <2>2. \A m \in Names : rows'[m] \in {rows[m], NoObj}
    BY <1>c, <1>t
  <2> QED
    BY <1>c, <2>1, <2>2 DEF NamesOK, Home
<1>1. CASE \E e \in {"exec", "query"} : StartScript(s, e)
  <2>1. cat' = Synced /\ UNCHANGED <<db, rows>>
    BY <1>1, StartIs
  <2>2. ASSUME NEW sp \in Spaces, NEW n \in Names
        PROVE  cat'[sp][n] = cat[sp][n]
               \/ (cat'[sp][n] = rows[n] /\ rows[n] # NoObj /\ Space(rows[n].kind) = sp)
    BY <1>t, <2>1, SyncedIs
  <2>3. \A sp \in Spaces, n \in Names :
          cat'[sp][n] # NoObj => Space(cat'[sp][n].kind) = sp /\ n \in Home(cat'[sp][n])
    BY <2>2 DEF NamesOK, Home
  <2> QED
    BY <2>1, <2>3 DEF NamesOK, Home
<1>2. CASE (\E st \in Stmt : Issue(s, st)) \/ QuietStep(s) \/ CleanNothing(s)
  <2>1. UNCHANGED dataVars
    BY <1>2, IssueIs, QuietIs, CleanNothingIs
  <2> QED
    BY <1>s, <2>1 DEF dataVars
<1>3. CASE StepDrop(s) \/ StepDropObject(s)
  BY <1>3, <1>s, <1>d, StepDropIs, StepDropObjectIs, StmtIs
<1>4. CASE StepCreate(s)
  <2>1. Last(s) \in Stmt /\ Last(s).do = "create" /\ Space(Last(s).kind) = "relation" /\ UNCHANGED <<cat, rows>>
    BY <1>4, StepCreateIs
  <2>2. CASE db' = [db EXCEPT ![Last(s).name] = ObjectOf(s, Last(s))]
    <3>1. /\ Last(s).name \in Home(ObjectOf(s, Last(s))) /\ Last(s).name \in Names
          /\ ObjectOf(s, Last(s)).kind = Last(s).kind
      BY <2>1, HomeIs, ObjectIs, StmtIs
    <3>2. ASSUME NEW m \in Names PROVE db'[m] = IF m = Last(s).name THEN ObjectOf(s, Last(s)) ELSE db[m]
      BY <1>t, <2>2, <3>1
    <3>3. \A m \in Names : db'[m] # NoObj => Space(db'[m].kind) = "relation" /\ m \in Home(db'[m])
      BY <2>1, <3>1, <3>2 DEF NamesOK
    <3> QED
      BY <2>1, <3>3 DEF NamesOK, Home
  <2> QED
    BY <1>4, <1>s, <2>1, <2>2, StepCreateIs
<1>5. CASE StepAdd(s) \/ (RowFail(s) /\ phase[s] = "add")
  <2>1. /\ Last(s) \in Stmt /\ Last(s).do = "create" /\ db' = db
        /\ cat' = CatSet(Space(Last(s).kind), Last(s).name, ObjectOf(s, Last(s)))
        /\ rows' = rows
           \/ (~Last(s).temp /\ rows' = [rows EXCEPT ![Last(s).name] = Upsert(@, ObjectOf(s, Last(s)))])
    BY <1>5, StepAddIs, RowFailIs
  <2>2. /\ Last(s).name \in Home(ObjectOf(s, Last(s))) /\ Last(s).name \in Names
        /\ Space(Last(s).kind) \in Spaces /\ ObjectOf(s, Last(s)) \in Object
        /\ ObjectOf(s, Last(s)).kind = Last(s).kind /\ ObjectOf(s, Last(s)).temp = Last(s).temp
        /\ ~Last(s).temp => Last(s).name \in PermNames
    BY <2>1, HomeIs, ObjectIs, StmtIs
  <2>3. \A sp \in Spaces, n \in Names :
          cat'[sp][n] # NoObj => Space(cat'[sp][n].kind) = sp /\ n \in Home(cat'[sp][n])
    <3>1. ASSUME NEW sp \in Spaces, NEW n \in Names
          PROVE  \/ sp = Space(Last(s).kind) /\ n = Last(s).name /\ cat'[sp][n] = ObjectOf(s, Last(s))
                 \/ cat'[sp][n] = cat[sp][n]
      BY <1>t, <2>1, <2>2, CatSetIs
    <3> QED
      BY <2>2, <3>1 DEF NamesOK
  <2>4. Upsert(rows[Last(s).name], ObjectOf(s, Last(s))).temp = Last(s).temp
    BY <1>t, <2>2, UpsertIs
  <2>5. \A n \in Names : rows'[n] # NoObj => ~rows'[n].temp /\ n \in PermNames
    BY <1>t, <2>1, <2>2, <2>4 DEF NamesOK
  <2> QED
    BY <2>1, <2>3, <2>5 DEF NamesOK, Home
<1>6. CASE StepForget(s) \/ (RowFail(s) /\ phase[s] = "forget")
  <2>1. /\ Last(s) \in Stmt /\ db' = db
        /\ cat' = cat \/ cat' = CatSet(Space(Last(s).kind), Last(s).name, NoObj)
        /\ rows' = rows \/ rows' = [rows EXCEPT ![Last(s).name] = NoObj]
    BY <1>6, StepForgetIs, RowFailIs
  <2>2. Last(s).name \in Names /\ Space(Last(s).kind) \in Spaces
    BY <2>1, StmtIs
  <2> QED
    BY <1>c, <2>1, <2>2
<1>7. CASE CleanDrop(s)
  BY <1>7, <1>s, <1>d, CleanDropIs, StmtIs
<1>8. CASE CleanForget(s)
  BY <1>8, <1>c, CleanForgetIs, StmtIs
<1> QED
  BY <1>1, <1>2, <1>3, <1>4, <1>5, <1>6, <1>7, <1>8, RowFailIs DEF AnyStep

-----------------------------------------------------------------------------
(* One session.                                                            *)

OneSession == \E s \in Sessions : \A u \in Sessions : u = s
NamesApart == PermNames \cap TempNames = {}

IsPersistent(sp, n) == cat[sp][n] # NoObj /\ ~cat[sp][n].temp
DropOf(st, o) == st.do = "drop" /\ o = <<Space(st.kind), st.name>>

LEMMA PersistentIs ==
    /\ Persistent \subseteq Spaces \X Names
    /\ \A sp \in Spaces, n \in Names : <<sp, n>> \in Persistent <=> IsPersistent(sp, n)
BY DEF Persistent, PersistentIn, IsPersistent

LEMMA PersistentNext ==
    /\ Persistent' \subseteq Spaces \X Names
    /\ \A sp \in Spaces, n \in Names : <<sp, n>> \in Persistent' <=> IsPersistent(sp, n)'
BY DEF Persistent, PersistentIn, IsPersistent

\* What the script has removed it has dropped by name.
Survives(s) ==
    \A o \in before[s] \ Persistent : \E i \in 1..Len(acts[s]) : DropOf(acts[s][i], o)

LEMMA SurvivesKeeps ==
    ASSUME NEW s, Survives(s), acts' = acts, before' = before, Persistent \subseteq Persistent'
    PROVE  Survives(s)'
BY DEF Survives, DropOf

LEMMA SurvivesStep ==
    ASSUME NamesApart, TypeInv, NamesOK, NEW s \in Sessions, Survives(s), AnyStep(s)
    PROVE  Survives(s)'
<1>t. cat \in Catalogs /\ rows \in [Names -> Object \cup {NoObj}] /\ acts[s] \in Seq(Stmt)
  BY TypeParts DEF TypeInv, DataType, CtlType
<1>c. ASSUME cat' = cat PROVE Persistent' = Persistent
  BY <1>c DEF Persistent, PersistentIn
<1>k. ASSUME cat' = cat, acts' = acts, before' = before PROVE Survives(s)'
  BY <1>c, <1>k, SurvivesKeeps
<1>p. ASSUME NEW sp \in Spaces, NEW n \in Names, IsPersistent(sp, n) PROVE n \notin TempNames
  BY <1>p DEF IsPersistent, NamesOK, Home, NamesApart
<1>1. CASE \E e \in {"exec", "query"} : StartScript(s, e)
  <2>1. before'[s] = PersistentIn(Synced) /\ cat' = Synced
    BY <1>1, StartIs
  <2>2. before'[s] = Persistent'
    BY <2>1 DEF Persistent, PersistentIn
  <2> QED
    BY <2>2 DEF Survives
<1>2. CASE \E st \in Stmt : Issue(s, st)
  <2>1. /\ Len(acts[s]) \in Nat /\ Len(acts'[s]) = Len(acts[s]) + 1
        /\ \A i \in 1..Len(acts[s]) : acts'[s][i] = acts[s][i]
        /\ cat' = cat /\ before' = before
    BY <1>2, IssueIs DEF dataVars
  <2>2. ASSUME NEW o \in before'[s] \ Persistent' PROVE \E i \in 1..Len(acts'[s]) : DropOf(acts'[s][i], o)
    <3>1. PICK i \in 1..Len(acts[s]) : DropOf(acts[s][i], o)
      BY <1>c, <2>1, <2>2 DEF Survives
    <3>2. i \in 1..Len(acts'[s]) /\ DropOf(acts'[s][i], o)
      BY <2>1, <3>1
    <3> QED
      BY <3>2
  <2> QED
    BY <2>2 DEF Survives, DropOf
<1>3. CASE QuietStep(s)
  BY <1>3, <1>k, QuietIs DEF dataVars
<1>4. CASE StepDrop(s) \/ StepDropObject(s) \/ StepCreate(s) \/ CleanNothing(s) \/ CleanDrop(s)
  <2>1. cat' = cat
    BY <1>4, StepDropIs, StepDropObjectIs, StepCreateIs, CleanNothingIs, CleanDropIs DEF dataVars
  <2>2. UNCHANGED <<acts, before>>
    BY <1>4, StepDropIs, StepDropObjectIs, StepCreateIs, CleanNothingIs, CleanDropIs DEF Goes, Unwind, CleanupDone, ctlVars
  <2> QED
    BY <1>k, <2>1, <2>2
<1>5. CASE StepAdd(s) \/ (RowFail(s) /\ phase[s] = "add")
  <2>1. /\ Last(s) \in Stmt /\ Last(s).do = "create" /\ UNCHANGED <<acts, before>>
        /\ cat' = CatSet(Space(Last(s).kind), Last(s).name, ObjectOf(s, Last(s)))
    BY <1>5, StepAddIs, RowFailIs DEF Goes, Unwind, ctlVars
  <2>2. /\ Last(s).temp => Last(s).name \in TempNames
        /\ ObjectOf(s, Last(s)) \in Object /\ ObjectOf(s, Last(s)).temp = Last(s).temp
        /\ Space(Last(s).kind) \in Spaces /\ Last(s).name \in Names
        /\ ObjectOf(s, Last(s)) # NoObj
    BY <2>1, HomeIs, ObjectIs, StmtIs
  <2>3. ASSUME NEW sp \in Spaces, NEW n \in Names, IsPersistent(sp, n) PROVE IsPersistent(sp, n)'
    <3>1. CASE sp = Space(Last(s).kind) /\ n = Last(s).name
      <4>1. ~Last(s).temp
        BY <1>p, <2>2, <2>3, <3>1
      <4>2. cat'[sp][n] = ObjectOf(s, Last(s))
        BY <1>t, <2>1, <2>2, <3>1, CatSetIs
      <4> QED
        BY <2>2, <4>1, <4>2 DEF IsPersistent
    <3>2. CASE ~(sp = Space(Last(s).kind) /\ n = Last(s).name)
      <4>1. cat'[sp][n] = cat[sp][n]
        BY <1>t, <2>1, <2>2, <3>2, CatSetIs
      <4> QED
        BY <2>3, <4>1 DEF IsPersistent
    <3> QED
      BY <3>1, <3>2
  <2>4. Persistent \subseteq Persistent'
    BY <2>3, PersistentIs, PersistentNext
  <2> QED
    BY <2>1, <2>4, SurvivesKeeps
<1>6. CASE StepForget(s) \/ (RowFail(s) /\ phase[s] = "forget")
  <2>1. /\ Last(s) \in Stmt /\ Last(s).do = "drop" /\ phase[s] = "forget" /\ UNCHANGED <<acts, before>>
        /\ cat' = cat \/ cat' = CatSet(Space(Last(s).kind), Last(s).name, NoObj)
    BY <1>6, StepForgetIs, RowFailIs DEF Goes, Unwind, ctlVars
  <2>2. Len(acts[s]) \in 1..Len(acts[s])
    BY <2>1, <1>t DEF TypeInv, PhaseOK
  <2>3. ASSUME NEW o \in Persistent \ Persistent' PROVE DropOf(Last(s), o)
    <3>1. PICK sp \in Spaces, n \in Names : o = <<sp, n>>
      BY <2>3, PersistentIs
    <3>2. IsPersistent(sp, n) /\ ~IsPersistent(sp, n)'
      BY <2>3, <3>1, PersistentIs, PersistentNext
    <3>3. cat'[sp][n] # cat[sp][n]
      BY <3>2 DEF IsPersistent
    <3>4. sp = Space(Last(s).kind) /\ n = Last(s).name
      BY <1>t, <2>1, <3>3, CatSetIs, StmtIs
    <3> QED
      BY <2>1, <3>1, <3>4 DEF DropOf
  <2>4. ASSUME NEW o \in before[s] \ Persistent' PROVE \E i \in 1..Len(acts[s]) : DropOf(acts[s][i], o)
    <3>1. CASE o \in Persistent
      BY <2>2, <2>3, <2>4, <3>1 DEF Last
    <3>2. CASE o \notin Persistent
      BY <2>4, <3>2 DEF Survives
    <3> QED
      BY <3>1, <3>2
  <2> QED
    BY <2>1, <2>4 DEF Survives, DropOf
<1>7. CASE CleanForget(s)
  <2>1. /\ Due(s) \in Stmt /\ Due(s).do = "create" /\ Due(s).temp /\ UNCHANGED <<acts, before>>
        /\ cat' = cat \/ cat' = CatSet(Space(Due(s).kind), Due(s).name, NoObj)
    BY <1>7, CleanForgetIs DEF CleanupDone
  <2>2. Due(s).name \in TempNames
    BY <2>1, HomeIs
  <2>3. ASSUME NEW sp \in Spaces, NEW n \in Names, IsPersistent(sp, n) PROVE IsPersistent(sp, n)'
    <3>1. n # Due(s).name
      BY <1>p, <2>2, <2>3
    <3>2. cat'[sp][n] = cat[sp][n]
      BY <1>t, <2>1, <3>1, CatSetIs, StmtIs
    <3> QED
      BY <2>3, <3>2 DEF IsPersistent
  <2>4. Persistent \subseteq Persistent'
    BY <2>3, PersistentIs, PersistentNext
  <2> QED
    BY <2>1, <2>4, SurvivesKeeps
<1> QED
  BY <1>1, <1>2, <1>3, <1>4, <1>5, <1>6, <1>7, RowFailIs DEF AnyStep

SurviveInv == TypeInv /\ NamesOK /\ \A s \in Sessions : Survives(s)

LEMMA NamesInit == Init => NamesOK
BY DEF Init, NamesOK

LEMMA NamesStutter ==
    ASSUME NamesOK, UNCHANGED vars
    PROVE  NamesOK'
BY DEF NamesOK, Home, vars

\* A script of the only session takes a persistent object out of the catalog
\* only by a DROP that names it, however many statements it has, whatever
\* fails in it, cancels it or panics: no CREATE OR REPLACE, and no Cleanup of
\* a TEMP object, takes the spec of a persistent one (driver.go:524-588,
\* stmt_action.go).  SQLite's table is the subject of StoresKeptEqual.
THEOREM PersistentKept == OneSession /\ NamesApart => (DisturbedSpec => []PersistentSurvives)
<1> SUFFICES ASSUME OneSession, NamesApart PROVE DisturbedSpec => []PersistentSurvives
  OBVIOUS
<1>1. Init => SurviveInv
  <2> SUFFICES ASSUME Init PROVE SurviveInv
    OBVIOUS
  <2>1. ASSUME NEW s \in Sessions PROVE Survives(s)
    BY DEF Init, Survives
  <2> QED
    BY <2>1, TypeInit, NamesInit DEF SurviveInv
<1>2. SurviveInv /\ [Next \/ Disturb]_vars => SurviveInv'
  <2> SUFFICES ASSUME SurviveInv, [Next \/ Disturb]_vars PROVE SurviveInv'
    OBVIOUS
  <2>1. CASE UNCHANGED vars
    <3>1. UNCHANGED <<cat, acts, before>>
      BY <2>1 DEF vars
    <3>2. ASSUME NEW s \in Sessions PROVE Survives(s)'
      BY <3>1, SurvivesKeeps DEF SurviveInv, Persistent, PersistentIn
    <3> QED
      BY <2>1, <3>2, TypeStutter, NamesStutter DEF SurviveInv
  <2>2. CASE Next \/ Disturb
    <3>1. PICK s \in Sessions : AnyStep(s)
      BY <2>2, StepsAre
    <3>2. TypeInv' /\ NamesOK' /\ Survives(s)'
      BY <3>1, TypeStep, NamesStep, SurvivesStep DEF SurviveInv
    <3> QED
      BY <3>2 DEF SurviveInv, OneSession
  <2> QED
    BY <2>1, <2>2
<1>3. SurviveInv => PersistentSurvives
  BY DEF SurviveInv, Survives, DropOf, PersistentSurvives
<1> QED
  BY <1>1, <1>2, <1>3, PTL DEF DisturbedSpec

-----------------------------------------------------------------------------
(* Scripts that nobody cancels.                                            *)

CalmStep(s) ==
    \/ \E e \in {"exec", "query"} : StartScript(s, e)
    \/ \E st \in Stmt : Issue(s, st)
    \/ FailStmt(s) \/ Finish(s) \/ CloseRows(s) \/ EndScript(s)
    \/ StepDrop(s) \/ StepCreate(s) \/ StepAdd(s)
    \/ StepDropObject(s) \/ StepForget(s)
    \/ CleanNothing(s) \/ CleanDrop(s) \/ CleanForget(s)

LEMMA CalmSteps ==
    /\ Next => \E s \in Sessions : CalmStep(s)
    /\ \A s : CalmStep(s) => AnyStep(s)
BY DEF Next, CalmStep, AnyStep, QuietStep

Calm == \A s \in Sessions : ~cancelled[s]

LEMMA CalmNext ==
    ASSUME TypeInv, Calm, NEW s \in Sessions, CalmStep(s)
    PROVE  Calm'
<1>1. CASE \E e \in {"exec", "query"} : StartScript(s, e)
  BY <1>1, StartIs DEF Calm
<1>2. CASE \E st \in Stmt : Issue(s, st)
  BY <1>2 DEF Issue, Calm
<1>3. CASE FailStmt(s) \/ Finish(s) \/ CloseRows(s) \/ EndScript(s)
  BY <1>3 DEF FailStmt, Unwind, Finish, CloseRows, EndScript, ctlVars, Calm
<1>4. CASE StepDrop(s) \/ StepCreate(s) \/ StepAdd(s) \/ StepDropObject(s) \/ StepForget(s)
  <2>1. cancelled' = cancelled
    BY <1>4, StepDropIs, StepCreateIs, StepAddIs, StepDropObjectIs, StepForgetIs DEF Goes, Unwind, ctlVars
  <2> QED
    BY <2>1 DEF Calm
<1>5. CASE CleanNothing(s) \/ CleanDrop(s) \/ CleanForget(s)
  <2>1. cancelled' = cancelled
    BY <1>5, CleanNothingIs, CleanDropIs, CleanForgetIs DEF Goes, CleanupDone, ctlVars
  <2> QED
    BY <2>1 DEF Calm
<1> QED
  BY <1>1, <1>2, <1>3, <1>4, <1>5 DEF CalmStep

CalmInv == TypeInv /\ NamesOK /\ Calm

LEMMA CalmInvInit == Init => CalmInv
BY TypeInit, NamesInit DEF CalmInv, Calm, Init

LEMMA CalmInvStep ==
    ASSUME CalmInv, NEW s \in Sessions, CalmStep(s)
    PROVE  CalmInv'
BY TypeStep, NamesStep, CalmNext, CalmSteps DEF CalmInv

LEMMA CalmInvStutter ==
    ASSUME CalmInv, UNCHANGED vars
    PROVE  CalmInv'
BY TypeStutter, NamesStutter DEF CalmInv, Calm, vars

\* The phases that a step of a script nobody cancels leads to.
LEMMA CalmQuiet ==
    ASSUME TypeInv, NEW s \in Sessions, FailStmt(s) \/ Finish(s) \/ CloseRows(s) \/ EndScript(s)
    PROVE  /\ UNCHANGED <<dataVars, ccVars, acts, next, before, scripts>>
           /\ \/ phase[s] = "next" /\ phase'[s] \in {"rows", "clean"}
              \/ phase[s] = "rows" /\ phase'[s] = "clean"
              \/ phase[s] = "clean" /\ phase'[s] = "idle" /\ next[s] > Len(acts[s])
           /\ (err' = err /\ failed' = failed) \/ (failed'[s] /\ err'[s])
<1>3. CtlType /\ PhaseType /\ TypeOK
  BY TypeParts DEF TypeInv
<1>1. UNCHANGED <<dataVars, ccVars, acts, next, before, scripts>>
  BY QuietIs DEF QuietStep
<1>2. CASE FailStmt(s)
  <2>1. phase[s] = "next" /\ phase'[s] = "clean"
    BY <1>2, <1>3, UnwindIs DEF FailStmt
  <2>2. failed'[s] /\ err'[s]
    BY <1>2, <1>3 DEF FailStmt, Unwind, CtlType
  <2> QED
    BY <1>1, <2>1, <2>2
<1>4. CASE Finish(s)
  <2>1. phase[s] = "next" /\ phase'[s] \in {"rows", "clean"}
    BY <1>3, <1>4 DEF Finish, Goto, PhaseType
  <2>2. err' = err /\ failed' = failed
    BY <1>4 DEF Finish, ctlVars
  <2> QED
    BY <1>1, <2>1, <2>2
<1>5. CASE CloseRows(s)
  <2>1. phase[s] = "rows" /\ phase'[s] = "clean"
    BY <1>3, <1>5 DEF CloseRows, Goto, PhaseType
  <2>2. err' = err /\ failed' = failed
    BY <1>5 DEF CloseRows
  <2> QED
    BY <1>1, <2>1, <2>2
<1>6. CASE EndScript(s)
  <2>1. phase[s] = "clean" /\ phase'[s] = "idle" /\ next[s] > Len(acts[s])
    BY <1>3, <1>6 DEF EndScript, Goto, PhaseType
  <2>2. err' = err /\ failed' = failed
    BY <1>6 DEF EndScript, ctlVars
  <2> QED
    BY <1>1, <2>1, <2>2
<1> QED
  BY <1>2, <1>4, <1>5, <1>6

-----------------------------------------------------------------------------
(* Rows and specs.                                                         *)

\* No name is used in two of the catalog's maps.
OneSpace == \A j, k \in Kinds : Space(j) = Space(k)

RowIs(sp, n) == rows[n] = IF IsPersistent(sp, n) THEN cat[sp][n] ELSE NoObj
RowsOK == \A sp \in Spaces, n \in Names : RowIs(sp, n)

LEMMA SyncNothing ==
    ASSUME TypeInv, RowsOK
    PROVE  Synced = cat
<1>t. cat \in Catalogs /\ rows \in [Names -> Object \cup {NoObj}]
  BY TypeParts DEF TypeInv, DataType
<1>1. Synced \in Catalogs /\ \A sp \in Spaces, n \in Names : Synced[sp][n] = cat[sp][n]
  BY <1>t, SyncedIs DEF RowsOK, RowIs
<1>2. ASSUME NEW sp \in Spaces PROVE Synced[sp] = cat[sp]
  BY <1>t, <1>1 DEF Catalogs
<1> QED
  BY <1>t, <1>1, <1>2 DEF Catalogs

LEMMA RowsStep ==
    ASSUME OneSpace, NamesApart, CalmInv, RowsOK, NEW s \in Sessions, CalmStep(s)
    PROVE  RowsOK'
<1>t. TypeInv /\ NamesOK /\ Calm /\ cat \in Catalogs /\ rows \in [Names -> Object \cup {NoObj}]
  BY TypeParts DEF CalmInv, TypeInv, DataType
<1>o. \A p, q \in Spaces : p = q
  BY DEF OneSpace, Spaces
<1>s. ASSUME UNCHANGED <<cat, rows>> PROVE RowsOK'
  BY <1>s DEF RowsOK, RowIs, IsPersistent
<1>g. ASSUME NEW sp \in Spaces, NEW n \in Names, cat' = CatSet(sp, n, NoObj), rows' = [rows EXCEPT ![n] = NoObj]
      PROVE  RowsOK'
  <2>1. ASSUME NEW p \in Spaces, NEW m \in Names PROVE RowIs(p, m)'
    <3>1. CASE m = n
      <4>1. cat'[p][m] = NoObj /\ rows'[m] = NoObj
        BY <1>t, <1>o, <1>g, <3>1, CatSetIs
      <4> QED
        BY <4>1 DEF RowIs, IsPersistent
    <3>2. CASE m # n
      <4>1. cat'[p][m] = cat[p][m] /\ rows'[m] = rows[m]
        BY <1>t, <1>g, <3>2, CatSetIs
      <4> QED
        BY <4>1 DEF RowsOK, RowIs, IsPersistent
    <3> QED
      BY <3>1, <3>2
  <2> QED
    BY <2>1 DEF RowsOK
<1>1. CASE \E e \in {"exec", "query"} : StartScript(s, e)
  BY <1>1, <1>s, <1>t, StartIs, SyncNothing
<1>2. CASE \/ (\E st \in Stmt : Issue(s, st)) \/ FailStmt(s) \/ Finish(s) \/ CloseRows(s) \/ EndScript(s)
           \/ CleanNothing(s)
  <2>1. UNCHANGED dataVars
    BY <1>2, <1>t, IssueIs, CalmQuiet, CleanNothingIs
  <2> QED
    BY <1>s, <2>1 DEF dataVars
<1>3. CASE StepDrop(s) \/ StepCreate(s) \/ StepDropObject(s) \/ CleanDrop(s)
  <2>1. UNCHANGED <<cat, rows>>
    BY <1>3, <1>t, StepDropIs, StepCreateIs, StepDropObjectIs, CleanDropIs
  <2> QED
    BY <1>s, <2>1
<1>4. CASE StepAdd(s)
  <2>1. /\ Last(s) \in Stmt /\ Last(s).do = "create"
        /\ cat' = CatSet(Space(Last(s).kind), Last(s).name, ObjectOf(s, Last(s)))
        /\ IF Last(s).temp THEN rows' = rows
           ELSE rows' = [rows EXCEPT ![Last(s).name] = Upsert(@, ObjectOf(s, Last(s)))]
    BY <1>4, <1>t, StepAddIs DEF Calm
  <2>2. /\ Last(s).name \in Names /\ Space(Last(s).kind) \in Spaces /\ ObjectOf(s, Last(s)) \in Object
        /\ ObjectOf(s, Last(s)).kind = Last(s).kind /\ ObjectOf(s, Last(s)).temp = Last(s).temp
        /\ ObjectOf(s, Last(s)) # NoObj /\ (Last(s).temp => Last(s).name \in TempNames)
        /\ Last(s).kind \in Kinds /\ Last(s).temp \in BOOLEAN
    BY <2>1, HomeIs, ObjectIs, StmtIs
  <2>3. Last(s).temp => rows[Last(s).name] = NoObj
    BY <1>t, <2>2 DEF NamesOK, NamesApart
  <2>4. Upsert(rows[Last(s).name], ObjectOf(s, Last(s))) = ObjectOf(s, Last(s))
    <3>1. rows[Last(s).name] # NoObj => rows[Last(s).name].kind \in Kinds
      BY <1>t, <2>2 DEF Object
    <3>2. rows[Last(s).name] = NoObj \/ Space(rows[Last(s).name].kind) = Space(ObjectOf(s, Last(s)).kind)
      BY <2>2, <3>1 DEF OneSpace
    <3> QED
      BY <1>t, <2>2, <3>2, UpsertIs
  <2>5. ASSUME NEW p \in Spaces, NEW m \in Names PROVE RowIs(p, m)'
    <3>1. CASE m = Last(s).name
      <4>1. cat'[p][m] = ObjectOf(s, Last(s)) /\ rows'[m] = IF Last(s).temp THEN NoObj ELSE ObjectOf(s, Last(s))
        BY <1>t, <1>o, <2>1, <2>2, <2>3, <2>4, <3>1, CatSetIs
      <4> QED
        BY <2>2, <4>1 DEF RowIs, IsPersistent
    <3>2. CASE m # Last(s).name
      <4>1. cat'[p][m] = cat[p][m] /\ rows'[m] = rows[m]
        BY <1>t, <2>1, <2>2, <3>2, CatSetIs
      <4> QED
        BY <4>1 DEF RowsOK, RowIs, IsPersistent
    <3> QED
      BY <3>1, <3>2
  <2> QED
    BY <2>5 DEF RowsOK
<1>5. CASE StepForget(s)
  <2>1. /\ Last(s) \in Stmt
        /\ \/ UNCHANGED <<cat, rows>>
           \/ /\ cat' = CatSet(Space(Last(s).kind), Last(s).name, NoObj)
              /\ rows' = [rows EXCEPT ![Last(s).name] = NoObj]
    BY <1>5, <1>t, StepForgetIs DEF Calm
  <2>2. Last(s).name \in Names /\ Space(Last(s).kind) \in Spaces
    BY <2>1, StmtIs
  <2> QED
    BY <1>s, <1>g, <2>1, <2>2
<1>6. CASE CleanForget(s)
  <2>1. /\ Due(s) \in Stmt
        /\ \/ UNCHANGED <<cat, rows>>
           \/ /\ cat' = CatSet(Space(Due(s).kind), Due(s).name, NoObj)
              /\ rows' = [rows EXCEPT ![Due(s).name] = NoObj]
    BY <1>6, <1>t, CleanForgetIs DEF Calm, Blocked
  <2>2. Due(s).name \in Names /\ Space(Due(s).kind) \in Spaces
    BY <2>1, StmtIs
  <2> QED
    BY <1>s, <1>g, <2>1, <2>2
<1> QED
  BY <1>1, <1>2, <1>3, <1>4, <1>5, <1>6 DEF CalmStep

-----------------------------------------------------------------------------
(* SQLite's schema and the catalog.                                        *)

\* No CREATE with a column list is IF NOT EXISTS.
PlainModes == "ifNotExists" \notin Modes

Adding(s, n) == phase[s] = "add" /\ Last(s).name = n /\ Space(Last(s).kind) = "relation"
Forgetting(s, n) ==
    \/ phase[s] = "forget" /\ Last(s).name = n /\ Space(Last(s).kind) = "relation"
    \/ phase[s] = "cleanForget" /\ Due(s).name = n /\ Space(Due(s).kind) = "relation"

\* SQLite has what the catalog has, or nothing where a CREATE has dropped.
Settled(n) == db[n] = IF n \in wiped THEN NoObj ELSE cat["relation"][n]

\* SQLite is ahead of the catalog only on the name the script is at.
Agree(s, n) ==
    /\ Adding(s, n) => db[n] = ObjectOf(s, Last(s)) /\ n \notin wiped
    /\ Forgetting(s, n) => db[n] = NoObj
    /\ ~Adding(s, n) /\ ~Forgetting(s, n) => Settled(n)

LEMMA AgreeSettled ==
    ASSUME NEW s, NEW n, phase'[s] \in {"idle", "next", "drop", "create", "dropObject", "rows", "clean"},
           Settled(n)'
    PROVE  Agree(s, n)'
BY DEF Agree, Adding, Forgetting

LEMMA SettledAgree ==
    ASSUME NEW s, NEW n, phase[s] \in {"idle", "next", "drop", "create", "dropObject", "rows", "clean"},
           Agree(s, n)
    PROVE  Settled(n)
BY DEF Agree, Adding, Forgetting

LEMMA SettledSame ==
    ASSUME NEW n, Settled(n), UNCHANGED <<db, wiped>>, cat'["relation"][n] = cat["relation"][n]
    PROVE  Settled(n)'
BY DEF Settled

LEMMA FirstSettled ==
    ASSUME TypeInv, NEW s \in Sessions, NEW n \in Names, NEW st \in Stmt, Issue(s, st), Agree(s, n)
    PROVE  Agree(s, n)'
<1>1. /\ phase[s] = "next" /\ phase'[s] = FirstStep(st) /\ acts'[s][Len(acts'[s])] = st
      /\ UNCHANGED <<db, cat, wiped>>
  BY IssueIs DEF dataVars
<1>2. Settled(n)'
  BY <1>1, SettledAgree, SettledSame
<1>3. Last(s)' = st
  BY <1>1 DEF Last
<1>4. phase'[s] # "cleanForget" /\ (phase'[s] \in {"add", "forget"} => Space(st.kind) # "relation")
  BY <1>1, FirstStepIs
<1>5. ~Adding(s, n)' /\ ~Forgetting(s, n)'
  BY <1>3, <1>4 DEF Adding, Forgetting
<1> QED
  BY <1>2, <1>5 DEF Agree

\* The step drops an object of SQLite and goes on.
LEMMA AgreeDropped ==
    ASSUME TypeInv, NEW s \in Sessions, NEW n \in Names, NEW m \in Names, Agree(s, n), Dropped(m),
           phase[s] \in {"drop", "dropObject", "clean"},
           cat' = cat,
           \/ phase'[s] = "create" /\ wiped' = wiped \cup {m}
           \/ /\ phase'[s] = "forget" /\ Last(s)'.name = m /\ Space(Last(s)'.kind) = "relation"
              /\ wiped' = wiped
           \/ /\ phase'[s] = "cleanForget" /\ Due(s)'.name = m /\ Space(Due(s)'.kind) = "relation"
              /\ wiped' = wiped
    PROVE  Agree(s, n)'
<1>t. db \in [Names -> Object \cup {NoObj}]
  BY TypeParts DEF TypeInv, DataType
<1>1. Settled(n)
  BY SettledAgree
<1>2. db'[n] = IF n = m THEN NoObj ELSE db[n]
  BY <1>t DEF Dropped
<1>3. ~Adding(s, n)'
  BY DEF Adding
<1>4. CASE n = m
  <2>1. db'[n] = NoObj
    BY <1>2, <1>4
  <2>2. n \in wiped' \/ Forgetting(s, n)'
    BY <1>4 DEF Forgetting
  <2> QED
    BY <1>3, <2>1, <2>2 DEF Agree, Settled
<1>5. CASE n # m
  <2>1. Settled(n)'
    BY <1>1, <1>2, <1>5 DEF Settled
  <2>2. ~Forgetting(s, n)'
    BY <1>5 DEF Forgetting
  <2> QED
    BY <1>3, <2>1, <2>2 DEF Agree
<1> QED
  BY <1>4, <1>5

\* The catalog follows, on the name the script is at.
LEMMA AgreeFollows ==
    ASSUME TypeInv, NEW s \in Sessions, NEW n \in Names, Agree(s, n), "relation" \in Spaces,
           NEW m \in Names, NEW sp \in Spaces, NEW x \in Object \cup {NoObj},
           \/ cat' = CatSet(sp, m, x)
           \/ cat' = cat /\ cat[sp][m] = x,
           UNCHANGED <<db, wiped>>, phase'[s] \in {"next", "clean"},
           \/ sp # "relation" /\ ~Adding(s, n) /\ ~Forgetting(s, n)
           \/ /\ sp = "relation"
              /\ IF n = m THEN db[n] = x /\ (x = NoObj \/ n \notin wiped)
                 ELSE ~Adding(s, n) /\ ~Forgetting(s, n)
    PROVE  Agree(s, n)'
<1>t. cat \in Catalogs
  BY TypeParts DEF TypeInv, DataType
<1>1. cat'["relation"][n] = IF sp = "relation" /\ n = m THEN x ELSE cat["relation"][n]
  BY <1>t, CatSetIs
<1>2. Settled(n)'
  BY <1>1 DEF Agree, Settled
<1> QED
  BY <1>2, AgreeSettled

LEMMA AgreeStep ==
    ASSUME PlainModes, NamesApart, CalmInv, "relation" \in Spaces, NEW s \in Sessions, NEW n \in Names,
           n \in TempNames \/ RowsOK, Agree(s, n), CalmStep(s)
    PROVE  Agree(s, n)'
<1>t. TypeInv /\ NamesOK /\ Calm /\ TypeOK
  BY DEF CalmInv, TypeInv
<1>d. db \in [Names -> Object \cup {NoObj}] /\ cat \in Catalogs /\ rows \in [Names -> Object \cup {NoObj}]
  BY <1>t, TypeParts DEF DataType
<1>1. CASE \E e \in {"exec", "query"} : StartScript(s, e)
  <2>1. phase[s] = "idle" /\ phase'[s] = "next" /\ cat' = Synced /\ UNCHANGED <<db, wiped>>
    BY <1>1, <1>t, StartIs
  <2>2. Synced["relation"][n] = cat["relation"][n]
    <3>1. CASE n \in TempNames
      <4>1. rows[n] = NoObj
        BY <1>t, <3>1 DEF NamesOK, NamesApart
      <4> QED
        BY <1>d, <4>1, SyncedIs
    <3>2. CASE RowsOK
      BY <1>t, <3>2, SyncNothing
    <3> QED
      BY <3>1, <3>2
  <2>3. Settled(n)'
    BY <2>1, <2>2, SettledAgree, SettledSame
  <2> QED
    BY <2>1, <2>3, AgreeSettled
<1>2. CASE \E st \in Stmt : Issue(s, st)
  BY <1>2, <1>t, FirstSettled
<1>3. CASE FailStmt(s) \/ Finish(s) \/ CloseRows(s) \/ EndScript(s)
  <2>1. /\ UNCHANGED <<db, cat, wiped>> /\ phase[s] \in {"next", "rows", "clean"}
        /\ phase'[s] \in {"rows", "clean", "idle"}
    BY <1>3, <1>t, CalmQuiet DEF dataVars
  <2> QED
    BY <2>1, SettledAgree, SettledSame, AgreeSettled
<1>4. CASE StepDrop(s) \/ StepDropObject(s)
  <2>1. /\ phase[s] \in {"drop", "dropObject"} /\ cat' = cat /\ Last(s).name \in Names
        /\ Space(Last(s).kind) = "relation"
        /\ \/ /\ Dropped(Last(s).name)
              /\ \/ Goes(s, "create") /\ wiped' = wiped \cup {Last(s).name}
                 \/ Goes(s, "forget") /\ wiped' = wiped
           \/ UNCHANGED <<db, wiped>> /\ Unwind(s)
    BY <1>4, <1>t, StepDropIs, StepDropObjectIs, StmtIs
  <2>2. CASE /\ Dropped(Last(s).name)
             /\ \/ Goes(s, "create") /\ wiped' = wiped \cup {Last(s).name}
                \/ Goes(s, "forget") /\ wiped' = wiped
    <3>1. /\ acts' = acts
          /\ \/ phase'[s] = "create" /\ wiped' = wiped \cup {Last(s).name}
             \/ phase'[s] = "forget" /\ wiped' = wiped
      BY <1>t, <2>2, GoesIs DEF Phases
    <3>2. Last(s)' = Last(s)
      BY <3>1 DEF Last
    <3> QED
      BY <1>t, <2>1, <2>2, <3>1, <3>2, AgreeDropped
  <2>3. CASE UNCHANGED <<db, wiped>> /\ Unwind(s)
    BY <1>t, <2>1, <2>3, UnwindIs, SettledAgree, SettledSame, AgreeSettled
  <2> QED
    BY <2>1, <2>2, <2>3
<1>5. CASE StepCreate(s)
  <2>1. /\ phase[s] = "create" /\ cat' = cat /\ Last(s) \in Stmt /\ Last(s).do = "create"
        /\ Space(Last(s).kind) = "relation" /\ Last(s).name \in Names /\ Last(s).mode \in Modes
        /\ \/ /\ Goes(s, "add") /\ db' = [db EXCEPT ![Last(s).name] = ObjectOf(s, Last(s))]
              /\ wiped' = wiped \ {Last(s).name}
           \/ Last(s).mode = "ifNotExists"
           \/ Unwind(s) /\ UNCHANGED <<db, wiped>>
    BY <1>5, <1>t, StepCreateIs, StmtIs
  <2>2. Settled(n)
    BY <2>1, SettledAgree
  <2>3. CASE /\ Goes(s, "add") /\ db' = [db EXCEPT ![Last(s).name] = ObjectOf(s, Last(s))]
             /\ wiped' = wiped \ {Last(s).name}
    <3>1. phase'[s] = "add" /\ acts' = acts
      BY <1>t, <2>3, GoesIs DEF Phases
    <3>2. Last(s)' = Last(s) /\ ObjectOf(s, Last(s))' = ObjectOf(s, Last(s))
      BY <3>1 DEF Last, ObjectOf
    <3>3. CASE n = Last(s).name
      <4>1. db'[n] = ObjectOf(s, Last(s))' /\ n \notin wiped'
        BY <1>d, <2>3, <3>2, <3>3
      <4>2. Adding(s, n)' /\ ~Forgetting(s, n)'
        BY <2>1, <3>1, <3>2, <3>3 DEF Adding, Forgetting
      <4> QED
        BY <4>1, <4>2 DEF Agree
    <3>4. CASE n # Last(s).name
      <4>1. Settled(n)'
        BY <1>d, <2>1, <2>2, <2>3, <3>4 DEF Settled
      <4>2. ~Adding(s, n)' /\ ~Forgetting(s, n)'
        BY <3>1, <3>2, <3>4 DEF Adding, Forgetting
      <4> QED
        BY <4>1, <4>2 DEF Agree
    <3> QED
      BY <3>3, <3>4
  <2>4. CASE Unwind(s) /\ UNCHANGED <<db, wiped>>
    BY <1>t, <2>1, <2>2, <2>4, UnwindIs, SettledSame, AgreeSettled
  <2> QED
    BY <2>1, <2>3, <2>4 DEF PlainModes
<1>6. CASE StepAdd(s)
  <2>1. /\ phase[s] = "add" /\ Last(s) \in Stmt /\ Last(s).do = "create" /\ UNCHANGED <<db, wiped>>
        /\ cat' = CatSet(Space(Last(s).kind), Last(s).name, ObjectOf(s, Last(s)))
        /\ Goes(s, "next")
    BY <1>6, <1>t, StepAddIs DEF Calm
  <2>2. phase'[s] = "next" /\ Last(s).name \in Names /\ Space(Last(s).kind) \in Spaces
        /\ ObjectOf(s, Last(s)) \in Object \cup {NoObj}
    BY <1>t, <2>1, GoesIs, StmtIs, ObjectIs DEF Phases
  <2>3. /\ ~Forgetting(s, n) /\ (Adding(s, n) => db[n] = ObjectOf(s, Last(s)) /\ n \notin wiped)
        /\ Adding(s, n) <=> (n = Last(s).name /\ Space(Last(s).kind) = "relation")
    BY <2>1 DEF Agree, Adding, Forgetting
  <2> QED
    BY <1>t, <2>1, <2>2, <2>3, AgreeFollows
<1>7. CASE StepForget(s)
  <2>1. /\ phase[s] = "forget" /\ Last(s) \in Stmt /\ UNCHANGED <<db, wiped>>
        /\ \/ cat' = CatSet(Space(Last(s).kind), Last(s).name, NoObj)
           \/ cat' = cat /\ cat[Space(Last(s).kind)][Last(s).name] = NoObj
        /\ Goes(s, "next") \/ Unwind(s)
    BY <1>7, <1>t, StepForgetIs
  <2>2. phase'[s] \in {"next", "clean"} /\ Last(s).name \in Names /\ Space(Last(s).kind) \in Spaces
    BY <1>t, <2>1, GoesIs, UnwindIs, StmtIs DEF Phases
  <2>3. /\ ~Adding(s, n) /\ (Forgetting(s, n) => db[n] = NoObj)
        /\ Forgetting(s, n) <=> (n = Last(s).name /\ Space(Last(s).kind) = "relation")
    BY <2>1 DEF Agree, Adding, Forgetting
  <2> QED
    BY <1>t, <2>1, <2>2, <2>3, AgreeFollows
<1>8. CASE CleanNothing(s)
  <2>1. UNCHANGED <<db, cat, wiped>> /\ phase[s] = "clean" /\ phase'[s] = "clean"
    BY <1>8, <1>t, CleanNothingIs, CleanupDoneIs DEF dataVars
  <2> QED
    BY <2>1, SettledAgree, SettledSame, AgreeSettled
<1>9. CASE CleanDrop(s)
  <2>1. /\ phase[s] = "clean" /\ Due(s) \in Stmt /\ Due(s).name \in Names /\ UNCHANGED <<cat, wiped>>
        /\ \/ Space(Due(s).kind) # "relation" /\ Goes(s, "cleanForget") /\ db' = db
           \/ Space(Due(s).kind) = "relation" /\ Dropped(Due(s).name) /\ Goes(s, "cleanForget")
           \/ CleanupDone(s, FALSE) /\ db' = db
    BY <1>9, <1>t, CleanDropIs, StmtIs
  <2>2. Settled(n)
    BY <2>1, SettledAgree
  <2>3. CASE Goes(s, "cleanForget")
    <3>1. phase'[s] = "cleanForget" /\ UNCHANGED <<acts, next>>
      BY <1>t, <2>3, GoesIs DEF Phases
    <3>2. Due(s)' = Due(s)
      BY <3>1 DEF Due
    <3>3. CASE Space(Due(s).kind) # "relation" /\ db' = db
      <4>1. ~Adding(s, n)' /\ ~Forgetting(s, n)'
        BY <3>1, <3>2, <3>3 DEF Adding, Forgetting
      <4> QED
        BY <2>1, <2>2, <3>3, <4>1, SettledSame DEF Agree
    <3>4. CASE Space(Due(s).kind) = "relation" /\ Dropped(Due(s).name)
      BY <1>t, <2>1, <3>1, <3>2, <3>4, AgreeDropped
    <3>5. ~(CleanupDone(s, FALSE) /\ db' = db)
      <4>1. CleanupDone(s, FALSE) => phase'[s] = "clean"
        BY <1>t, CleanupDoneIs
      <4> QED
        BY <3>1, <4>1
    <3> QED
      BY <2>1, <3>3, <3>4, <3>5
  <2>4. CASE CleanupDone(s, FALSE) /\ db' = db
    <3>1. phase'[s] = "clean"
      BY <1>t, <2>4, CleanupDoneIs
    <3> QED
      BY <2>1, <2>2, <2>4, <3>1, SettledSame, AgreeSettled
  <2> QED
    BY <2>1, <2>3, <2>4
<1>10. CASE CleanForget(s)
  <2>1. /\ phase[s] = "cleanForget" /\ Due(s) \in Stmt /\ UNCHANGED <<db, wiped>>
        /\ \/ cat' = CatSet(Space(Due(s).kind), Due(s).name, NoObj)
           \/ cat' = cat /\ cat[Space(Due(s).kind)][Due(s).name] = NoObj
        /\ \E ok \in BOOLEAN : CleanupDone(s, ok)
    BY <1>10, <1>t, CleanForgetIs
  <2>2. phase'[s] = "clean" /\ Due(s).name \in Names /\ Space(Due(s).kind) \in Spaces
    BY <1>t, <2>1, CleanupDoneIs, StmtIs
  <2>3. /\ ~Adding(s, n) /\ (Forgetting(s, n) => db[n] = NoObj)
        /\ Forgetting(s, n) <=> (n = Due(s).name /\ Space(Due(s).kind) = "relation")
    BY <2>1 DEF Agree, Adding, Forgetting
  <2> QED
    BY <1>t, <2>1, <2>2, <2>3, AgreeFollows
<1> QED
  BY <1>1, <1>2, <1>3, <1>4, <1>5, <1>6, <1>7, <1>8, <1>9, <1>10 DEF CalmStep

AgreeInv ==
    /\ CalmInv /\ RowsOK
    /\ "relation" \in Spaces => \A s \in Sessions, n \in Names : Agree(s, n)

LEMMA AgreeInit ==
    ASSUME Init
    PROVE  /\ RowsOK
           /\ "relation" \in Spaces => \A s \in Sessions, n \in Names : Agree(s, n)
<1>1. RowsOK
  BY DEF Init, RowsOK, RowIs, IsPersistent
<1>2. ASSUME "relation" \in Spaces, NEW s \in Sessions, NEW n \in Names PROVE Agree(s, n)
  <2>1. phase[s] = "idle" /\ db[n] = NoObj /\ cat["relation"][n] = NoObj
    BY <1>2 DEF Init
  <2> QED
    BY <2>1 DEF Agree, Adding, Forgetting, Settled
<1> QED
  BY <1>1, <1>2

LEMMA AgreeStutter ==
    ASSUME NEW s, NEW n, Agree(s, n), UNCHANGED vars
    PROVE  Agree(s, n)'
BY DEF Agree, Adding, Forgetting, Settled, Last, Due, ObjectOf, vars

\* Between the scripts of the only session, with one map in the catalog, no
\* CREATE IF NOT EXISTS with a column list, and rows that can be written: the
\* catalog and the rows of googlesqlite_catalog have the same objects, and
\* SQLite has the same tables and views, save those whose last CREATE failed
\* after its own DROP; for any statements in any order, whichever SQLite
\* statements fail (stmt_action.go:69-110, 175-195, 338-385; catalog.go Sync
\* and the specs' Add and Delete).
THEOREM StoresKeptEqual ==
    OneSession /\ NamesApart /\ OneSpace /\ PlainModes => (Spec => []StoresAgree)
<1> SUFFICES ASSUME OneSession, NamesApart, OneSpace, PlainModes PROVE Spec => []StoresAgree
  OBVIOUS
<1>1. Init => AgreeInv
  BY CalmInvInit, AgreeInit DEF AgreeInv
<1>2. AgreeInv /\ [Next]_vars => AgreeInv'
  <2> SUFFICES ASSUME AgreeInv, [Next]_vars PROVE AgreeInv'
    OBVIOUS
  <2>1. CASE UNCHANGED vars
    <3>1. RowsOK'
      BY <2>1 DEF AgreeInv, RowsOK, RowIs, IsPersistent, vars
    <3> QED
      BY <2>1, <3>1, CalmInvStutter, AgreeStutter DEF AgreeInv
  <2>2. CASE Next
    <3>1. PICK s \in Sessions : CalmStep(s)
      BY <2>2, CalmSteps
    <3>2. CalmInv' /\ RowsOK'
      BY <3>1, CalmInvStep, RowsStep DEF AgreeInv
    <3>3. ASSUME "relation" \in Spaces, NEW n \in Names PROVE Agree(s, n)'
      BY <3>1, <3>3, AgreeStep DEF AgreeInv
    <3>4. \A u \in Sessions : u = s
      BY DEF OneSession
    <3> QED
      BY <3>2, <3>3, <3>4 DEF AgreeInv
  <2> QED
    BY <2>1, <2>2
<1>3. AgreeInv => StoresAgree
  <2> SUFFICES ASSUME AgreeInv, IdleAll PROVE StoresAgree
    BY DEF StoresAgree, SchemaAgrees, RestartExact
  <2>t. cat \in Catalogs /\ rows \in [Names -> Object \cup {NoObj}] /\ NamesOK
    BY TypeParts DEF AgreeInv, CalmInv, TypeInv, DataType
  <2>1. SchemaAgrees
    <3>1. ASSUME "relation" \in Spaces, NEW n \in Names PROVE Settled(n)
      BY <3>1, SettledAgree DEF AgreeInv, OneSession, IdleAll
    <3> QED
      BY <3>1 DEF SchemaAgrees, Settled
  <2>2. ASSUME NEW o \in Persistent
        PROVE  /\ o[2] \in Names /\ rows[o[2]] # NoObj /\ cat[o[1]][o[2]] = rows[o[2]]
               /\ o = <<Space(rows[o[2]].kind), o[2]>>
    <3>1. PICK sp \in Spaces, n \in Names : o = <<sp, n>>
      BY PersistentIs
    <3>2. IsPersistent(sp, n)
      BY <3>1, PersistentIs
    <3>3. rows[n] = cat[sp][n] /\ cat[sp][n] # NoObj
      BY <3>2 DEF AgreeInv, RowsOK, RowIs, IsPersistent
    <3>4. Space(cat[sp][n].kind) = sp
      BY <2>t, <3>3 DEF NamesOK
    <3> QED
      BY <3>1, <3>3, <3>4
  <2>3. ASSUME NEW n \in Names, rows[n] # NoObj PROVE <<Space(rows[n].kind), n>> \in Persistent
    <3>1. rows[n].kind \in Kinds
      BY <2>t, <2>3 DEF Object
    <3>2. Space(rows[n].kind) \in Spaces
      BY <3>1 DEF Spaces
    <3>3. IsPersistent(Space(rows[n].kind), n)
      BY <2>3, <3>2 DEF AgreeInv, RowsOK, RowIs
    <3> QED
      BY <3>2, <3>3, PersistentIs
  <2>4. Persistent = {<<Space(rows[n].kind), n>> : n \in {m \in Names : rows[m] # NoObj}}
    BY <2>2, <2>3
  <2>5. RestartExact
    BY <2>2, <2>4 DEF RestartExact
  <2> QED
    BY <2>1, <2>5 DEF StoresAgree
<1> QED
  BY <1>1, <1>2, <1>3, PTL DEF Spec

-----------------------------------------------------------------------------
(* TEMP objects.                                                           *)

TempCreate(st) == st.do = "create" /\ st.temp

\* SQLite or the catalog has a TEMP object of kind k under n.
HasTemp(k, n) ==
    \/ db[n] # NoObj /\ db[n].temp /\ db[n].kind = k
    \/ cat[Space(k)][n] # NoObj /\ cat[Space(k)][n].temp /\ cat[Space(k)][n].kind = k

\* A Cleanup that removes it is still to come.
PendingAt(s, i, k, n) ==
    /\ i >= next[s]
    /\ TempCreate(acts[s][i]) /\ acts[s][i].kind = k /\ acts[s][i].name = n
Pending(s, k, n) == phase[s] # "idle" /\ \E i \in 1..Len(acts[s]) : PendingAt(s, i, k, n)

TempOK(s) == \A k \in Kinds, n \in Names : HasTemp(k, n) => Pending(s, k, n)

LEMMA PendingKept ==
    ASSUME NEW s, NEW k, NEW n, Pending(s, k, n), phase'[s] # "idle", acts' = acts, next' = next
    PROVE  Pending(s, k, n)'
BY DEF Pending, PendingAt, TempCreate

LEMMA PendingIssue ==
    ASSUME TypeInv, NEW s \in Sessions, NEW st \in Stmt, Issue(s, st), NEW k, NEW n, Pending(s, k, n)
    PROVE  Pending(s, k, n)'
<1>1. /\ phase'[s] = FirstStep(st) /\ Len(acts[s]) \in Nat /\ Len(acts'[s]) = Len(acts[s]) + 1
      /\ \A i \in 1..Len(acts[s]) : acts'[s][i] = acts[s][i]
      /\ next' = next
  BY IssueIs
<1>2. phase'[s] # "idle"
  BY <1>1, FirstStepIs
<1>3. PICK i \in 1..Len(acts[s]) : PendingAt(s, i, k, n)
  BY DEF Pending
<1>4. i \in 1..Len(acts'[s]) /\ PendingAt(s, i, k, n)'
  BY <1>1, <1>3 DEF PendingAt, TempCreate
<1> QED
  BY <1>2, <1>4 DEF Pending

\* The Cleanup of another object is done.
LEMMA PendingNext ==
    ASSUME TypeInv, NEW s \in Sessions, NEW k, NEW n, Pending(s, k, n), phase'[s] # "idle",
           acts' = acts, next'[s] = next[s] + 1,
           ~(TempCreate(Due(s)) /\ Due(s).kind = k /\ Due(s).name = n)
    PROVE  Pending(s, k, n)'
<1>1. PICK i \in 1..Len(acts[s]) : PendingAt(s, i, k, n)
  BY DEF Pending
<1>2. i # next[s]
  BY <1>1 DEF PendingAt, Due
<1>3. next[s] \in Nat /\ Len(acts[s]) \in Nat
  BY DEF TypeInv, TypeOK
<1>4. i >= next'[s]
  BY <1>1, <1>2, <1>3 DEF PendingAt
<1>5. PendingAt(s, i, k, n)'
  BY <1>1, <1>4 DEF PendingAt, TempCreate
<1> QED
  BY <1>1, <1>5 DEF Pending

LEMMA HasTempSame ==
    ASSUME UNCHANGED <<db, cat>>, NEW k, NEW n, HasTemp(k, n)'
    PROVE  HasTemp(k, n)
BY DEF HasTemp

LEMMA HasTempDropped ==
    ASSUME TypeInv, NEW m \in Names, Dropped(m), cat' = cat, NEW k, NEW n \in Names, HasTemp(k, n)'
    PROVE  HasTemp(k, n)
<1>1. db'[n] \in {db[n], NoObj}
  BY TypeParts DEF TypeInv, DataType, Dropped
<1> QED
  BY <1>1 DEF HasTemp

LEMMA HasTempForgot ==
    ASSUME TypeInv, NEW sp \in Spaces, NEW m \in Names, cat' = CatSet(sp, m, NoObj), db' = db,
           NEW k \in Kinds, NEW n \in Names, HasTemp(k, n)'
    PROVE  HasTemp(k, n)
<1>1. cat \in Catalogs /\ Space(k) \in Spaces
  BY TypeParts, SpaceIs DEF TypeInv, DataType
<1>2. cat'[Space(k)][n] \in {cat[Space(k)][n], NoObj}
  BY <1>1, CatSetIs
<1> QED
  BY <1>2 DEF HasTemp

\* The object that the last statement makes has its Cleanup to come.
LEMMA PendingLast ==
    ASSUME TypeInv, NEW s \in Sessions, phase[s] \in {"create", "add"}, Last(s).temp, phase'[s] # "idle",
           acts' = acts, next' = next, NEW k, NEW n, k = Last(s).kind, n = Last(s).name
    PROVE  Pending(s, k, n)'
<1>0. acts[s] \in Seq(Stmt)
  BY DEF TypeInv, TypeOK
<1>1. Len(acts[s]) > 0 /\ Last(s).do = "create" /\ next[s] = 1 /\ Len(acts[s]) \in Nat
  BY <1>0 DEF TypeInv, PhaseOK
<1>2. Len(acts'[s]) \in 1..Len(acts'[s]) /\ Len(acts'[s]) >= next'[s]
  BY <1>1
<1>3. PendingAt(s, Len(acts[s]), k, n)'
  BY <1>1, <1>2 DEF PendingAt, TempCreate, Last
<1> QED
  BY <1>2, <1>3 DEF Pending

LEMMA TempStep ==
    ASSUME NamesApart, CalmInv, NEW s \in Sessions, TempOK(s), CalmStep(s),
           "relation" \in Spaces => \A n \in TempNames : Agree(s, n)
    PROVE  TempOK(s)'
<1>t. TypeInv /\ NamesOK /\ Calm /\ TypeOK
  BY DEF CalmInv, TypeInv
<1>d. db \in [Names -> Object \cup {NoObj}] /\ cat \in Catalogs /\ rows \in [Names -> Object \cup {NoObj}]
  BY <1>t, TypeParts DEF DataType
<1>k. ASSUME phase'[s] # "idle", UNCHANGED <<acts, next>>,
             \A k \in Kinds, n \in Names : HasTemp(k, n)' => HasTemp(k, n) \/ Pending(s, k, n)'
      PROVE  TempOK(s)'
  BY <1>k, PendingKept DEF TempOK
<1>1. CASE \E e \in {"exec", "query"} : StartScript(s, e)
  <2>1. phase[s] = "idle" /\ cat' = Synced /\ db' = db
    BY <1>1, <1>t, StartIs
  <2>2. ASSUME NEW k \in Kinds, NEW n \in Names PROVE ~HasTemp(k, n)'
    <3>1. ~HasTemp(k, n) /\ Space(k) \in Spaces
      BY <2>1, SpaceIs DEF TempOK, Pending
    <3>2. cat'[Space(k)][n] = cat[Space(k)][n] \/ (cat'[Space(k)][n] = rows[n] /\ rows[n] # NoObj)
      BY <1>d, <2>1, <3>1, SyncedIs
    <3>3. rows[n] # NoObj => ~rows[n].temp
      BY <1>t DEF NamesOK
    <3> QED
      BY <2>1, <3>1, <3>2, <3>3 DEF HasTemp
  <2> QED
    BY <2>2 DEF TempOK
<1>2. CASE \E st \in Stmt : Issue(s, st)
  <2>1. UNCHANGED <<db, cat>>
    BY <1>2, <1>t, IssueIs DEF dataVars
  <2> QED
    BY <1>2, <1>t, <2>1, PendingIssue, HasTempSame DEF TempOK
<1>3. CASE FailStmt(s) \/ Finish(s) \/ CloseRows(s) \/ EndScript(s)
  <2>1. /\ UNCHANGED <<db, cat, acts, next>>
        /\ phase'[s] # "idle" \/ next[s] > Len(acts[s])
    BY <1>3, <1>t, CalmQuiet DEF dataVars
  <2>2. CASE phase'[s] # "idle"
    BY <1>k, <2>1, <2>2, HasTempSame
  <2>3. CASE next[s] > Len(acts[s])
    <3>1. next[s] \in Nat /\ Len(acts[s]) \in Nat
      BY <1>t DEF TypeOK
    <3>2. ASSUME NEW k, NEW n PROVE ~Pending(s, k, n)
      BY <2>3, <3>1 DEF Pending, PendingAt
    <3> QED
      BY <2>1, <3>2, HasTempSame DEF TempOK
  <2> QED
    BY <2>1, <2>2, <2>3
<1>4. CASE StepDrop(s) \/ StepDropObject(s)
  <2>1. /\ cat' = cat /\ Last(s).name \in Names /\ (Dropped(Last(s).name) \/ db' = db)
        /\ Goes(s, "create") \/ Goes(s, "forget") \/ Unwind(s)
    BY <1>4, <1>t, StepDropIs, StepDropObjectIs, StmtIs
  <2>2. phase'[s] \in {"create", "forget", "clean"} /\ UNCHANGED <<acts, next>>
    BY <1>t, <2>1, GoesIs, UnwindIs DEF Phases
  <2> QED
    BY <1>k, <1>t, <2>1, <2>2, HasTempSame, HasTempDropped
<1>5. CASE StepCreate(s)
  <2>1. /\ phase[s] = "create" /\ cat' = cat /\ Last(s) \in Stmt /\ Last(s).do = "create"
        /\ Last(s).name \in Names
        /\ db' = [db EXCEPT ![Last(s).name] = ObjectOf(s, Last(s))] \/ db' = db
        /\ Goes(s, "add") \/ Unwind(s)
    BY <1>5, <1>t, StepCreateIs, StmtIs
  <2>2. phase'[s] \in {"add", "clean"} /\ UNCHANGED <<acts, next>>
    BY <1>t, <2>1, GoesIs, UnwindIs DEF Phases
  <2>3. ObjectOf(s, Last(s)).kind = Last(s).kind /\ ObjectOf(s, Last(s)).temp = Last(s).temp
    BY <2>1, ObjectIs
  <2>4. ASSUME NEW k \in Kinds, NEW n \in Names, HasTemp(k, n)' PROVE HasTemp(k, n) \/ Pending(s, k, n)'
    <3>1. CASE n = Last(s).name /\ db'[n] = ObjectOf(s, Last(s)) /\ db'[n].temp /\ db'[n].kind = k
      BY <1>t, <2>1, <2>2, <2>3, <3>1, PendingLast
    <3>2. CASE db'[n] = db[n] \/ ~(db'[n].temp /\ db'[n].kind = k)
      BY <2>1, <2>4, <3>2 DEF HasTemp
    <3> QED
      BY <1>d, <2>1, <3>1, <3>2
  <2> QED
    BY <1>k, <2>2, <2>4
<1>6. CASE StepAdd(s)
  <2>1. /\ phase[s] = "add" /\ Last(s) \in Stmt /\ Last(s).do = "create" /\ db' = db
        /\ cat' = CatSet(Space(Last(s).kind), Last(s).name, ObjectOf(s, Last(s)))
        /\ Goes(s, "next")
    BY <1>6, <1>t, StepAddIs DEF Calm
  <2>2. phase'[s] = "next" /\ UNCHANGED <<acts, next>>
    BY <1>t, <2>1, GoesIs DEF Phases
  <2>3. /\ ObjectOf(s, Last(s)).kind = Last(s).kind /\ ObjectOf(s, Last(s)).temp = Last(s).temp
        /\ ObjectOf(s, Last(s)) \in Object /\ Space(Last(s).kind) \in Spaces /\ Last(s).name \in Names
    BY <2>1, ObjectIs, StmtIs
  <2>4. ASSUME NEW k \in Kinds, NEW n \in Names, HasTemp(k, n)' PROVE HasTemp(k, n) \/ Pending(s, k, n)'
    <3>0. Space(k) \in Spaces
      BY SpaceIs
    <3>1. CASE /\ n = Last(s).name /\ cat'[Space(k)][n] = ObjectOf(s, Last(s))
               /\ cat'[Space(k)][n].temp /\ cat'[Space(k)][n].kind = k
      BY <1>t, <2>1, <2>2, <2>3, <3>1, PendingLast
    <3>2. CASE \/ cat'[Space(k)][n] = cat[Space(k)][n]
               \/ ~(cat'[Space(k)][n].temp /\ cat'[Space(k)][n].kind = k)
      BY <2>1, <2>4, <3>2 DEF HasTemp
    <3>3. \/ n = Last(s).name /\ cat'[Space(k)][n] = ObjectOf(s, Last(s))
          \/ cat'[Space(k)][n] = cat[Space(k)][n]
      BY <1>d, <2>1, <2>3, <3>0, CatSetIs
    <3> QED
      BY <3>1, <3>2, <3>3
  <2> QED
    BY <1>k, <2>2, <2>4
<1>7. CASE StepForget(s)
  <2>1. /\ Last(s) \in Stmt /\ db' = db
        /\ cat' = cat \/ cat' = CatSet(Space(Last(s).kind), Last(s).name, NoObj)
        /\ Goes(s, "next") \/ Unwind(s)
    BY <1>7, <1>t, StepForgetIs
  <2>2. phase'[s] \in {"next", "clean"} /\ UNCHANGED <<acts, next>>
    BY <1>t, <2>1, GoesIs, UnwindIs DEF Phases
  <2>3. Last(s).name \in Names /\ Space(Last(s).kind) \in Spaces
    BY <2>1, StmtIs
  <2> QED
    BY <1>k, <1>t, <2>1, <2>2, <2>3, HasTempSame, HasTempForgot
<1>8. CASE CleanNothing(s)
  <2>1. UNCHANGED <<db, cat>> /\ CleanupDone(s, TRUE) /\ ~TempCreate(Due(s))
    BY <1>8, <1>t, CleanNothingIs DEF dataVars, TempCreate
  <2>2. phase'[s] = "clean" /\ acts' = acts /\ next'[s] = next[s] + 1
    BY <1>t, <2>1, CleanupDoneIs
  <2>3. ASSUME NEW k \in Kinds, NEW n \in Names, HasTemp(k, n)' PROVE Pending(s, k, n)'
    <3>1. Pending(s, k, n)
      BY <2>1, <2>3, HasTempSame DEF TempOK
    <3> QED
      BY <1>t, <2>1, <2>2, <3>1, PendingNext
  <2> QED
    BY <2>3 DEF TempOK
<1>9. CASE CleanDrop(s)
  <2>1. /\ phase[s] = "clean" /\ Due(s) \in Stmt /\ TempCreate(Due(s)) /\ cat' = cat
        /\ \/ (db' = db \/ Dropped(Due(s).name)) /\ Goes(s, "cleanForget")
           \/ Space(Due(s).kind) = "relation" /\ ~Droppable(Due(s)) /\ CleanupDone(s, FALSE) /\ db' = db
    BY <1>9, <1>t, CleanDropIs DEF Calm, Blocked, TempCreate
  <2>n. Due(s).name \in TempNames /\ Due(s).name \in Names /\ Due(s).kind \in Kinds /\ Space(Due(s).kind) \in Spaces
    BY <2>1, StmtIs DEF TempCreate
  <2>2. CASE (db' = db \/ Dropped(Due(s).name)) /\ Goes(s, "cleanForget")
    <3>1. phase'[s] = "cleanForget" /\ UNCHANGED <<acts, next>>
      BY <1>t, <2>2, GoesIs DEF Phases
    <3> QED
      BY <1>k, <1>t, <2>1, <2>n, <2>2, <3>1, HasTempSame, HasTempDropped
  <2>3. CASE Space(Due(s).kind) = "relation" /\ ~Droppable(Due(s)) /\ CleanupDone(s, FALSE) /\ db' = db
    <3>1. phase'[s] = "clean" /\ acts' = acts /\ next'[s] = next[s] + 1
      BY <1>t, <2>3, CleanupDoneIs
    <3>2. ~HasTemp(Due(s).kind, Due(s).name)
      <4>1. db[Due(s).name] # NoObj /\ db[Due(s).name].kind # Due(s).kind
        BY <2>3 DEF Droppable
      <4>2. cat[Space(Due(s).kind)][Due(s).name] = db[Due(s).name]
        BY <2>1, <2>3, <2>n, <4>1, SettledAgree DEF Settled
      <4> QED
        BY <4>1, <4>2 DEF HasTemp
    <3>3. ASSUME NEW k \in Kinds, NEW n \in Names, HasTemp(k, n)' PROVE Pending(s, k, n)'
      <4>1. HasTemp(k, n) /\ Pending(s, k, n)
        BY <2>1, <2>3, <3>3, HasTempSame DEF TempOK
      <4>2. ~(Due(s).kind = k /\ Due(s).name = n)
        BY <3>2, <4>1
      <4> QED
        BY <1>t, <3>1, <4>1, <4>2, PendingNext
    <3> QED
      BY <3>3 DEF TempOK
  <2> QED
    BY <2>1, <2>2, <2>3
<1>10. CASE CleanForget(s)
  <2>1. /\ phase[s] = "cleanForget" /\ Due(s) \in Stmt /\ TempCreate(Due(s)) /\ db' = db
        /\ \/ cat' = CatSet(Space(Due(s).kind), Due(s).name, NoObj)
           \/ cat' = cat /\ cat[Space(Due(s).kind)][Due(s).name] = NoObj
        /\ \E ok \in BOOLEAN : CleanupDone(s, ok)
    BY <1>10, <1>t, CleanForgetIs DEF TempCreate
  <2>n. Due(s).name \in TempNames /\ Due(s).name \in Names /\ Due(s).kind \in Kinds /\ Space(Due(s).kind) \in Spaces
    BY <2>1, StmtIs DEF TempCreate
  <2>2. phase'[s] = "clean" /\ acts' = acts /\ next'[s] = next[s] + 1
    BY <1>t, <2>1, CleanupDoneIs
  <2>3. ASSUME NEW k, NEW n, k = Due(s).kind, n = Due(s).name PROVE ~HasTemp(k, n)'
    <3>1. cat'[Space(Due(s).kind)][Due(s).name] = NoObj
      BY <1>d, <2>1, <2>n, CatSetIs
    <3>2. db[Due(s).name] = NoObj \/ db[Due(s).name].kind # Due(s).kind
      <4>1. CASE Space(Due(s).kind) = "relation"
        BY <2>1, <2>n, <4>1 DEF Agree, Forgetting
      <4>2. CASE Space(Due(s).kind) # "relation"
        BY <1>t, <2>n, <4>2 DEF NamesOK
      <4> QED
        BY <4>1, <4>2
    <3> QED
      BY <2>1, <2>3, <3>1, <3>2 DEF HasTemp
  <2>4. ASSUME NEW k \in Kinds, NEW n \in Names, HasTemp(k, n)' PROVE Pending(s, k, n)'
    <3>1. HasTemp(k, n) /\ Pending(s, k, n)
      BY <1>t, <2>1, <2>n, <2>4, HasTempSame, HasTempForgot DEF TempOK
    <3>2. ~(Due(s).kind = k /\ Due(s).name = n)
      BY <2>3, <2>4
    <3> QED
      BY <1>t, <2>2, <3>1, <3>2, PendingNext
  <2> QED
    BY <2>4 DEF TempOK
<1> QED
  BY <1>1, <1>2, <1>3, <1>4, <1>5, <1>6, <1>7, <1>8, <1>9, <1>10 DEF CalmStep

\* The TEMP relations that the script has made and not named since are there.
Running == {"next", "rows", "drop", "create", "add", "dropObject", "forget"}

MadeLast(s, i) ==
    /\ TempCreate(acts[s][i]) /\ Space(acts[s][i].kind) = "relation"
    /\ \A j \in (i + 1)..Len(acts[s]) : acts[s][j].name # acts[s][i].name

Held(s) ==
    phase[s] \in Running =>
        \A i \in 1..Len(acts[s]) :
            /\ i < Len(acts[s]) \/ phase[s] \in {"next", "rows"}
            /\ MadeLast(s, i)
            => db[acts[s][i].name] # NoObj

LEMMA HeldSame ==
    ASSUME TypeInv, NEW s \in Sessions, Held(s), phase[s] \in Running, acts' = acts,
           phase'[s] \in {"next", "rows"} =>
               \/ phase[s] \in {"next", "rows"}
               \/ ~TempCreate(Last(s)) \/ Space(Last(s).kind) # "relation" \/ db'[Last(s).name] # NoObj,
           \A n \in Names : db'[n] = db[n] \/ db'[n] # NoObj \/ (phase[s] \notin {"next", "rows"} /\ n = Last(s).name)
    PROVE  Held(s)'
<1> SUFFICES ASSUME NEW i \in 1..Len(acts[s]), i < Len(acts[s]) \/ phase'[s] \in {"next", "rows"}, MadeLast(s, i)'
             PROVE  db'[acts[s][i].name] # NoObj
  BY DEF Held
<1>0. acts[s] \in Seq(Stmt) /\ Len(acts[s]) \in Nat
  BY DEF TypeInv, TypeOK
<1>1. MadeLast(s, i) /\ acts[s][i].name \in Names
  BY ActIs, StmtIs DEF MadeLast, TempCreate
<1>2. CASE i < Len(acts[s])
  <2>1. acts[s][i].name # Last(s).name
    BY <1>0, <1>1, <1>2 DEF MadeLast, Last
  <2>2. db[acts[s][i].name] # NoObj
    BY <1>1, <1>2 DEF Held
  <2> QED
    BY <1>1, <2>1, <2>2
<1>3. CASE i = Len(acts[s])
  <2>1. acts[s][i] = Last(s)
    BY <1>3 DEF Last
  <2>2. phase'[s] \in {"next", "rows"}
    BY <1>0, <1>3
  <2>3. CASE phase[s] \in {"next", "rows"}
    <3>1. db[acts[s][i].name] # NoObj
      BY <1>1, <2>3 DEF Held
    <3> QED
      BY <1>1, <2>3, <3>1
  <2>4. CASE phase[s] \notin {"next", "rows"}
    BY <1>1, <2>1, <2>2, <2>4 DEF MadeLast
  <2> QED
    BY <2>3, <2>4
<1> QED
  BY <1>0, <1>2, <1>3

LEMMA HeldStep ==
    ASSUME NamesApart, CalmInv, NEW s \in Sessions, Held(s), CalmStep(s),
           "relation" \in Spaces => \A n \in TempNames : Agree(s, n)
    PROVE  Held(s)'
<1>t. TypeInv /\ NamesOK /\ Calm /\ TypeOK
  BY DEF CalmInv, TypeInv
<1>d. db \in [Names -> Object \cup {NoObj}] /\ acts[s] \in Seq(Stmt) /\ Len(acts[s]) \in Nat
  BY <1>t, TypeParts DEF DataType, TypeOK
<1>e. ASSUME phase'[s] \in {"clean", "cleanForget", "idle"} PROVE Held(s)'
  BY <1>e DEF Held, Running
<1>1. CASE \E e \in {"exec", "query"} : StartScript(s, e)
  <2>1. acts'[s] = <<>>
    BY <1>1, <1>t, StartIs
  <2> QED
    BY <2>1 DEF Held
<1>2. CASE \E st \in Stmt : Issue(s, st)
  <2>1. PICK st \in Stmt : Issue(s, st)
    BY <1>2
  <2>2. /\ phase[s] = "next" /\ phase'[s] = FirstStep(st) /\ db' = db
        /\ Len(acts'[s]) = Len(acts[s]) + 1 /\ acts'[s][Len(acts'[s])] = st
        /\ \A i \in 1..Len(acts[s]) : acts'[s][i] = acts[s][i]
    BY <1>t, <2>1, IssueIs DEF dataVars
  <2>3. phase'[s] = "next" => ~TempCreate(st)
    BY <2>2, FirstStepIs DEF TempCreate
  <2>4. phase'[s] # "rows"
    BY <2>2, FirstStepIs
  <2>5. ASSUME NEW i \in 1..Len(acts'[s]), i < Len(acts'[s]) \/ phase'[s] = "next", MadeLast(s, i)'
        PROVE  db'[acts'[s][i].name] # NoObj
    <3>1. TempCreate(acts'[s][i])
      BY <2>5 DEF MadeLast, TempCreate
    <3>2. i \in 1..Len(acts[s])
      BY <1>d, <2>2, <2>3, <2>5, <3>1
    <3>3. acts'[s][i] = acts[s][i]
      BY <2>2, <3>2
    <3>4. ASSUME NEW j \in (i + 1)..Len(acts[s]) PROVE acts[s][j].name # acts[s][i].name
      <4>1. j \in (i + 1)..Len(acts'[s]) /\ j \in 1..Len(acts[s])
        BY <1>d, <2>2, <3>2
      <4> QED
        BY <2>2, <2>5, <3>3, <4>1 DEF MadeLast
    <3>5. MadeLast(s, i)
      BY <2>5, <3>1, <3>3, <3>4 DEF MadeLast, TempCreate
    <3> QED
      BY <2>2, <3>2, <3>3, <3>5 DEF Held, Running
  <2> QED
    BY <2>4, <2>5 DEF Held
<1>3. CASE FailStmt(s) \/ Finish(s) \/ CloseRows(s) \/ EndScript(s)
  <2>1. /\ UNCHANGED <<db, acts>>
        /\ phase'[s] \in {"clean", "idle"} \/ (phase[s] = "next" /\ phase'[s] = "rows")
    BY <1>3, <1>t, CalmQuiet DEF dataVars
  <2> QED
    BY <1>e, <1>t, <2>1, HeldSame DEF Running
<1>4. CASE StepDrop(s) \/ StepDropObject(s)
  <2>1. /\ phase[s] \in {"drop", "dropObject"} /\ Last(s).name \in Names /\ (Dropped(Last(s).name) \/ db' = db)
        /\ Goes(s, "create") \/ Goes(s, "forget") \/ Unwind(s)
    BY <1>4, <1>t, StepDropIs, StepDropObjectIs, StmtIs
  <2>2. phase'[s] \in {"create", "forget", "clean"} /\ acts' = acts
    BY <1>t, <2>1, GoesIs, UnwindIs DEF Phases
  <2>3. \A n \in Names : db'[n] = db[n] \/ n = Last(s).name
    BY <1>d, <2>1 DEF Dropped
  <2> QED
    BY <1>t, <2>1, <2>2, <2>3, HeldSame DEF Running
<1>5. CASE StepCreate(s)
  <2>1. /\ phase[s] = "create" /\ Last(s) \in Stmt /\ Last(s).name \in Names
        /\ db' = [db EXCEPT ![Last(s).name] = ObjectOf(s, Last(s))] \/ db' = db
        /\ Goes(s, "add") \/ Unwind(s)
    BY <1>5, <1>t, StepCreateIs, StmtIs
  <2>2. phase'[s] \in {"add", "clean"} /\ acts' = acts
    BY <1>t, <2>1, GoesIs, UnwindIs DEF Phases
  <2>3. \A n \in Names : db'[n] = db[n] \/ n = Last(s).name
    BY <1>d, <2>1
  <2> QED
    BY <1>t, <2>1, <2>2, <2>3, HeldSame DEF Running
<1>6. CASE StepAdd(s)
  <2>1. phase[s] = "add" /\ Last(s) \in Stmt /\ Last(s).do = "create" /\ db' = db /\ Goes(s, "next")
    BY <1>6, <1>t, StepAddIs DEF Calm
  <2>2. phase'[s] = "next" /\ acts' = acts
    BY <1>t, <2>1, GoesIs DEF Phases
  <2>3. ASSUME TempCreate(Last(s)), Space(Last(s).kind) = "relation" PROVE db'[Last(s).name] # NoObj
    <3>1. Last(s).name \in TempNames /\ "relation" \in Spaces
      BY <2>1, <2>3, StmtIs DEF TempCreate
    <3>2. db[Last(s).name] = ObjectOf(s, Last(s))
      BY <2>1, <2>3, <3>1 DEF Agree, Adding
    <3> QED
      BY <2>1, <3>2, ObjectIs
  <2> QED
    BY <1>t, <2>1, <2>2, <2>3, HeldSame DEF Running
<1>7. CASE StepForget(s)
  <2>1. phase[s] = "forget" /\ Last(s).do = "drop" /\ db' = db /\ (Goes(s, "next") \/ Unwind(s))
    BY <1>7, <1>t, StepForgetIs
  <2>2. phase'[s] \in {"next", "clean"} /\ acts' = acts
    BY <1>t, <2>1, GoesIs, UnwindIs DEF Phases
  <2>3. ~TempCreate(Last(s))
    BY <2>1 DEF TempCreate
  <2> QED
    BY <1>t, <2>1, <2>2, <2>3, HeldSame DEF Running
<1>8. CASE CleanNothing(s) \/ CleanDrop(s) \/ CleanForget(s)
  <2>1. Goes(s, "cleanForget") \/ \E ok \in BOOLEAN : CleanupDone(s, ok)
    BY <1>8, <1>t, CleanNothingIs, CleanDropIs, CleanForgetIs
  <2>2. phase'[s] \in {"clean", "cleanForget"}
    BY <1>t, <2>1, GoesIs, CleanupDoneIs DEF Phases
  <2> QED
    BY <1>e, <2>2
<1> QED
  BY <1>1, <1>2, <1>3, <1>4, <1>5, <1>6, <1>7, <1>8 DEF CalmStep

-----------------------------------------------------------------------------
(* Errors.                                                                 *)

OnlyTables(s) == \A i \in 1..Len(acts[s]) : TempCreate(acts[s][i]) => acts[s][i].kind = "table"

\* Only a statement that fails makes the script report an error.
ErrOK(s) == ~failed[s] /\ OnlyTables(s) => ~err[s]

LEMMA ErrStep ==
    ASSUME NamesApart, CalmInv, NEW s \in Sessions, TempOK(s), ErrOK(s), CalmStep(s)
    PROVE  ErrOK(s)'
<1>t. TypeInv /\ NamesOK /\ Calm /\ TypeOK
  BY DEF CalmInv, TypeInv
<1>d. /\ db \in [Names -> Object \cup {NoObj}] /\ acts[s] \in Seq(Stmt) /\ Len(acts[s]) \in Nat
      /\ failed \in [Sessions -> BOOLEAN] /\ err \in [Sessions -> BOOLEAN]
  BY <1>t, TypeParts DEF DataType, TypeOK
<1>s. ASSUME UNCHANGED <<acts, failed, err>> PROVE ErrOK(s)'
  BY <1>s DEF ErrOK, OnlyTables, TempCreate
<1>f. ASSUME failed'[s] PROVE ErrOK(s)'
  BY <1>f DEF ErrOK
<1>g. ASSUME NEW p, Goes(s, p) PROVE ErrOK(s)'
  BY <1>g, <1>s DEF Goes, ctlVars
<1>u. ASSUME Unwind(s) PROVE ErrOK(s)'
  BY <1>u, <1>f, <1>d DEF Unwind
<1>c. ASSUME NEW ok \in BOOLEAN, CleanupDone(s, ok), OnlyTables(s) => ok PROVE ErrOK(s)'
  <2>1. acts' = acts /\ failed' = failed /\ err'[s] = (err[s] \/ ~ok)
    BY <1>c, <1>t, CleanupDoneIs
  <2>2. OnlyTables(s)' <=> OnlyTables(s)
    BY <2>1 DEF OnlyTables, TempCreate
  <2> QED
    BY <1>c, <2>1, <2>2 DEF ErrOK
<1>1. CASE \E e \in {"exec", "query"} : StartScript(s, e)
  BY <1>1, <1>t, StartIs DEF ErrOK
<1>2. CASE \E st \in Stmt : Issue(s, st)
  <2>1. /\ Len(acts'[s]) = Len(acts[s]) + 1 /\ \A i \in 1..Len(acts[s]) : acts'[s][i] = acts[s][i]
        /\ UNCHANGED <<failed, err>>
    BY <1>2, <1>t, IssueIs
  <2>2. ASSUME OnlyTables(s)' PROVE OnlyTables(s)
    <3> SUFFICES ASSUME NEW i \in 1..Len(acts[s]), TempCreate(acts[s][i]) PROVE acts[s][i].kind = "table"
      BY DEF OnlyTables
    <3>1. i \in 1..Len(acts'[s]) /\ acts'[s][i] = acts[s][i]
      BY <1>d, <2>1
    <3> QED
      BY <2>2, <3>1 DEF OnlyTables, TempCreate
  <2> QED
    BY <2>1, <2>2 DEF ErrOK
<1>3. CASE FailStmt(s) \/ Finish(s) \/ CloseRows(s) \/ EndScript(s)
  <2>1. acts' = acts /\ ((err' = err /\ failed' = failed) \/ failed'[s])
    BY <1>3, <1>t, CalmQuiet
  <2> QED
    BY <1>s, <1>f, <2>1
<1>4. CASE StepDrop(s) \/ StepCreate(s) \/ StepAdd(s) \/ StepDropObject(s) \/ StepForget(s)
  <2>1. (\E p \in Phases : Goes(s, p)) \/ Unwind(s)
    BY <1>4, <1>t, StepDropIs, StepCreateIs, StepAddIs, StepDropObjectIs, StepForgetIs DEF Phases
  <2> QED
    BY <1>g, <1>u, <2>1
<1>5. CASE CleanNothing(s)
  BY <1>5, <1>t, <1>c, CleanNothingIs
<1>6. CASE CleanDrop(s)
  <2>1. /\ Due(s) \in Stmt /\ TempCreate(Due(s)) /\ next[s] \in 1..Len(acts[s])
        /\ Goes(s, "cleanForget") \/ (~Droppable(Due(s)) /\ CleanupDone(s, FALSE))
    BY <1>6, <1>t, CleanDropIs DEF Calm, Blocked, TempCreate
  <2>2. Due(s).name \in TempNames /\ Due(s).name \in Names
    BY <2>1, StmtIs DEF TempCreate
  <2>3. ASSUME OnlyTables(s) PROVE Droppable(Due(s))
    <3> SUFFICES ASSUME db[Due(s).name] # NoObj PROVE db[Due(s).name].kind = Due(s).kind
      BY DEF Droppable
    <3>1. Due(s).kind = "table"
      BY <2>1, <2>3 DEF OnlyTables, Due
    <3>2. db[Due(s).name].temp /\ db[Due(s).name].kind \in Kinds
      BY <1>d, <1>t, <2>2 DEF NamesOK, Home, NamesApart, Object
    <3>3. Pending(s, db[Due(s).name].kind, Due(s).name)
      BY <2>2, <3>2 DEF TempOK, HasTemp
    <3>4. db[Due(s).name].kind = "table"
      BY <2>3, <3>3 DEF Pending, PendingAt, OnlyTables
    <3> QED
      BY <3>1, <3>4
  <2> QED
    BY <1>c, <1>g, <2>1, <2>3
<1>7. CASE CleanForget(s)
  <2>1. /\ TempCreate(Due(s)) /\ next[s] \in 1..Len(acts[s])
        /\ CleanupDone(s, Due(s).kind = "table") \/ CleanupDone(s, TRUE)
    BY <1>7, <1>t, CleanForgetIs DEF Calm, Blocked, TempCreate
  <2>2. OnlyTables(s) => Due(s).kind = "table"
    BY <2>1 DEF OnlyTables, Due
  <2>3. (Due(s).kind = "table") \in BOOLEAN
    OBVIOUS
  <2> QED
    BY <1>c, <2>1, <2>2, <2>3
<1> QED
  BY <1>1, <1>2, <1>3, <1>4, <1>5, <1>6, <1>7 DEF CalmStep

TempInv ==
    /\ CalmInv
    /\ "relation" \in Spaces => \A s \in Sessions : \A n \in TempNames : Agree(s, n)
    /\ \A s \in Sessions : TempOK(s) /\ Held(s) /\ ErrOK(s)

LEMMA TempInvInit == Init => TempInv
<1> SUFFICES ASSUME Init PROVE TempInv
  OBVIOUS
<1>1. "relation" \in Spaces => \A s \in Sessions : \A n \in TempNames : Agree(s, n)
  BY AgreeInit DEF Names
<1>2. ASSUME NEW s \in Sessions PROVE TempOK(s) /\ Held(s) /\ ErrOK(s)
  <2>1. acts[s] = <<>> /\ ~err[s] /\ \A n \in Names : db[n] = NoObj /\ \A sp \in Spaces : cat[sp][n] = NoObj
    BY DEF Init
  <2>2. TempOK(s)
    BY <2>1, SpaceIs DEF TempOK, HasTemp
  <2>3. Held(s) /\ ErrOK(s)
    BY <2>1 DEF Held, ErrOK
  <2> QED
    BY <2>2, <2>3
<1> QED
  BY <1>1, <1>2, CalmInvInit DEF TempInv

LEMMA TempInvNext ==
    ASSUME OneSession, NamesApart, PlainModes, TempInv, [Next]_vars
    PROVE  TempInv'
<1>1. CASE UNCHANGED vars
  <2>1. ASSUME NEW s \in Sessions PROVE TempOK(s)' /\ Held(s)' /\ ErrOK(s)'
    <3>1. UNCHANGED <<db, cat, acts, next, phase, failed, err>>
      BY <1>1 DEF vars
    <3>2. TempOK(s)'
      BY <3>1 DEF TempInv, TempOK, HasTemp, Pending, PendingAt, TempCreate
    <3>3. Held(s)'
      BY <3>1 DEF TempInv, Held, MadeLast, TempCreate
    <3>4. ErrOK(s)'
      BY <3>1 DEF TempInv, ErrOK, OnlyTables, TempCreate
    <3> QED
      BY <3>2, <3>3, <3>4
  <2> QED
    BY <1>1, <2>1, CalmInvStutter, AgreeStutter DEF TempInv
<1>2. CASE Next
  <2>1. PICK s \in Sessions : CalmStep(s)
    BY <1>2, CalmSteps
  <2>2. \A u \in Sessions : u = s
    BY DEF OneSession
  <2>3. ASSUME "relation" \in Spaces, NEW n \in TempNames PROVE Agree(s, n)'
    BY <2>1, <2>3, AgreeStep DEF TempInv, Names
  <2>4. TempOK(s)' /\ Held(s)' /\ ErrOK(s)' /\ CalmInv'
    BY <2>1, TempStep, HeldStep, ErrStep, CalmInvStep DEF TempInv
  <2> QED
    BY <2>2, <2>3, <2>4 DEF TempInv
<1> QED
  BY <1>1, <1>2

\* In a session of its own a script's TEMP table or view is there from its
\* CREATE to the end of the script, and no TEMP object is left in SQLite or in
\* the catalog when the script has ended, whatever statements it has and
\* whichever of them fail (driver.go:524-588, temp_table_scope_test.go:9-12).
THEOREM TempsAreScoped == OneSession /\ NamesApart /\ PlainModes => (Spec => []TempScoped)
<1> SUFFICES ASSUME OneSession, NamesApart, PlainModes PROVE Spec => []TempScoped
  OBVIOUS
<1>1. TempInv => TempScoped
  <2> SUFFICES ASSUME TempInv PROVE TempScoped
    OBVIOUS
  <2>t. TypeInv /\ NamesOK /\ db \in [Names -> Object \cup {NoObj}] /\ cat \in Catalogs
    BY TypeParts DEF TempInv, CalmInv, TypeInv, DataType
  <2>1. TempHeld
    <3> SUFFICES ASSUME NEW s \in Sessions, phase[s] \in {"next", "rows"}, NEW i \in 1..Len(acts[s]),
                        MadeLast(s, i)
                 PROVE  db[acts[s][i].name] # NoObj /\ db[acts[s][i].name].by = s
      BY DEF TempHeld, MadeLast, TempCreate
    <3>1. db[acts[s][i].name] # NoObj
      BY DEF TempInv, Held, Running
    <3>2. acts[s][i].name \in Names
      BY <2>t, ActIs, StmtIs
    <3>3. db[acts[s][i].name].by \in Sessions
      BY <2>t, <3>1, <3>2 DEF Object
    <3> QED
      BY <3>1, <3>3 DEF OneSession
  <2>2. TempGone
    <3> SUFFICES ASSUME NEW s \in Sessions, phase[s] = "idle"
                 PROVE  /\ \A n \in Names : db[n] # NoObj => ~db[n].temp
                        /\ \A sp \in Spaces, n \in Names : cat[sp][n] # NoObj => ~cat[sp][n].temp
      BY DEF TempGone
    <3>1. ASSUME NEW k \in Kinds, NEW n \in Names PROVE ~HasTemp(k, n)
      BY DEF TempInv, TempOK, Pending
    <3>2. ASSUME NEW n \in Names, db[n] # NoObj PROVE ~db[n].temp
      <4>1. db[n].kind \in Kinds
        BY <2>t, <3>2 DEF Object
      <4> QED
        BY <3>1, <3>2, <4>1 DEF HasTemp
    <3>3. ASSUME NEW sp \in Spaces, NEW n \in Names, cat[sp][n] # NoObj PROVE ~cat[sp][n].temp
      <4>1. cat[sp][n].kind \in Kinds
        BY <2>t, <3>3 DEF Object, Catalogs
      <4>2. Space(cat[sp][n].kind) = sp
        BY <2>t, <3>3 DEF NamesOK
      <4> QED
        BY <3>1, <3>3, <4>1, <4>2 DEF HasTemp
    <3> QED
      BY <3>2, <3>3
  <2> QED
    BY <2>1, <2>2 DEF TempScoped
<1>2. TempInv /\ [Next]_vars => TempInv'
  BY TempInvNext
<1> QED
  BY <1>1, <1>2, TempInvInit, PTL DEF Spec

\* A script whose statements all succeeded and whose TEMP objects are tables
\* reports success: its Cleanup meets nothing it cannot drop, whatever the
\* script itself has dropped or created again
\* (temp_table_drop_test.go:11-16).
THEOREM CleanupSucceeds == OneSession /\ NamesApart /\ PlainModes => (Spec => []CleanExit)
<1> SUFFICES ASSUME OneSession, NamesApart, PlainModes PROVE Spec => []CleanExit
  OBVIOUS
<1>1. TempInv => CleanExit
  BY DEF TempInv, ErrOK, OnlyTables, TempCreate, CleanExit
<1>2. TempInv /\ [Next]_vars => TempInv'
  BY TempInvNext
<1> QED
  BY <1>1, <1>2, TempInvInit, PTL DEF Spec

-----------------------------------------------------------------------------
(* The ChangedCatalog of a script.                                         *)

\* TEMP functions are noted as added like persistent ones.
TempRelations == TempNames # {} => Kinds \subseteq {"table", "view"}

NoViews(s) == \A i \in 1..Len(acts[s]) : acts[s][i].kind # "view"
Replayed(s) == (before[s] \ deleted[s]) \cup added[s] = Persistent
Replays(s) == scripts[s] > 0 /\ NoViews(s) => Replayed(s)

\* An entry of the catalog is set.
LEMMA PersistentSet ==
    ASSUME TypeInv, NEW sp \in Spaces, NEW n \in Names, NEW x \in Object \cup {NoObj}, cat' = CatSet(sp, n, x)
    PROVE  Persistent' = IF x # NoObj /\ ~x.temp THEN Persistent \cup {<<sp, n>>} ELSE Persistent \ {<<sp, n>>}
<1>t. cat \in Catalogs
  BY TypeParts DEF TypeInv, DataType
<1>1. IsPersistent(sp, n)' <=> x # NoObj /\ ~x.temp
  BY <1>t, CatSetIs DEF IsPersistent
<1>2. ASSUME NEW p \in Spaces, NEW m \in Names, <<p, m>> # <<sp, n>> PROVE IsPersistent(p, m)' <=> IsPersistent(p, m)
  BY <1>t, <1>2, CatSetIs DEF IsPersistent
<1>3. ASSUME NEW p \in Spaces, NEW m \in Names
      PROVE  <<p, m>> \in Persistent' <=>
                IF <<p, m>> = <<sp, n>> THEN x # NoObj /\ ~x.temp ELSE <<p, m>> \in Persistent
  <2>1. CASE <<p, m>> = <<sp, n>>
    <3>1. p = sp /\ m = n
      BY <2>1
    <3> QED
      BY <1>1, <3>1, PersistentNext
  <2>2. CASE <<p, m>> # <<sp, n>>
    BY <1>2, <2>2, PersistentNext, PersistentIs
  <2> QED
    BY <2>1, <2>2
<1>4. Persistent \subseteq Spaces \X Names /\ Persistent' \subseteq Spaces \X Names
  BY PersistentIs, PersistentNext
<1>5. ASSUME NEW o
      PROVE  o \in Persistent' <=>
                IF o = <<sp, n>> THEN x # NoObj /\ ~x.temp ELSE o \in Persistent
  <2>1. CASE o \in Spaces \X Names
    BY <1>3, <2>1
  <2>2. CASE o \notin Spaces \X Names
    BY <1>4, <2>2
  <2> QED
    BY <2>1, <2>2
<1> QED
  BY <1>5

LEMMA TempNotPersistent ==
    ASSUME NamesApart, NamesOK, NEW sp \in Spaces, NEW n \in TempNames
    PROVE  <<sp, n>> \notin Persistent
<1>1. n \in Names
  BY DEF Names
<1> QED
  BY <1>1, PersistentIs DEF IsPersistent, NamesOK, Home, NamesApart

LEMMA ReplaysSame ==
    ASSUME NEW s, Replays(s), UNCHANGED <<acts, before, scripts, added, deleted>>, Persistent' = Persistent
    PROVE  Replays(s)'
BY DEF Replays, Replayed, NoViews

LEMMA ReplaysStep ==
    ASSUME NamesApart, TempRelations, CalmInv, NEW s \in Sessions, Replays(s), CalmStep(s)
    PROVE  Replays(s)'
<1>t. TypeInv /\ NamesOK /\ Calm /\ TypeOK /\ acts[s] \in Seq(Stmt) /\ Len(acts[s]) \in Nat
  BY DEF CalmInv, TypeInv, TypeOK
<1>c. ASSUME cat' = cat PROVE Persistent' = Persistent
  BY <1>c DEF Persistent, PersistentIn
<1>1. CASE \E e \in {"exec", "query"} : StartScript(s, e)
  <2>1. before'[s] = PersistentIn(Synced) /\ cat' = Synced /\ added'[s] = {} /\ deleted'[s] = {}
    BY <1>1, <1>t, StartIs
  <2>2. before'[s] = Persistent'
    BY <2>1 DEF Persistent, PersistentIn
  <2> QED
    BY <2>1, <2>2 DEF Replays, Replayed
<1>2. CASE \E st \in Stmt : Issue(s, st)
  <2>1. /\ Len(acts'[s]) = Len(acts[s]) + 1 /\ \A i \in 1..Len(acts[s]) : acts'[s][i] = acts[s][i]
        /\ UNCHANGED <<cat, before, scripts, added, deleted>>
    BY <1>2, <1>t, IssueIs DEF dataVars, ccVars
  <2>2. ASSUME NoViews(s)' PROVE NoViews(s)
    <3> SUFFICES ASSUME NEW i \in 1..Len(acts[s]) PROVE acts[s][i].kind # "view"
      BY DEF NoViews
    <3>1. i \in 1..Len(acts'[s]) /\ acts'[s][i] = acts[s][i]
      BY <1>t, <2>1
    <3> QED
      BY <2>2, <3>1 DEF NoViews
  <2> QED
    BY <1>c, <2>1, <2>2 DEF Replays, Replayed
<1>3. CASE FailStmt(s) \/ Finish(s) \/ CloseRows(s) \/ EndScript(s)
  BY <1>3, <1>t, <1>c, CalmQuiet, ReplaysSame DEF dataVars, ccVars
<1>4. CASE StepDrop(s) \/ StepCreate(s) \/ StepDropObject(s) \/ CleanDrop(s)
  <2>1. UNCHANGED <<cat, added, deleted>>
    BY <1>4, <1>t, StepDropIs, StepCreateIs, StepDropObjectIs, CleanDropIs DEF ccVars
  <2>2. UNCHANGED <<acts, before, scripts>>
    BY <1>4, <1>t, StepDropIs, StepCreateIs, StepDropObjectIs, CleanDropIs
       DEF Goes, Unwind, CleanupDone, ctlVars
  <2> QED
    BY <1>c, <2>1, <2>2, ReplaysSame
<1>5. CASE StepAdd(s)
  <2> DEFINE sp == Space(Last(s).kind)
             n == Last(s).name
             x == ObjectOf(s, Last(s))
  <2>1. /\ Last(s) \in Stmt /\ Last(s).do = "create" /\ Goes(s, "next") /\ phase[s] = "add"
        /\ cat' = CatSet(sp, n, x)
        /\ IF Last(s).kind = "view" \/ (Last(s).kind = "table" /\ Last(s).temp) THEN UNCHANGED ccVars
           ELSE Note(s, <<sp, n>>)
    BY <1>5, <1>t, StepAddIs DEF Calm
  <2>2. /\ sp \in Spaces /\ n \in Names /\ x \in Object /\ x # NoObj /\ x.temp = Last(s).temp
        /\ Last(s).kind \in Kinds /\ (Last(s).temp => n \in TempNames) /\ Last(s).temp \in BOOLEAN
    BY <2>1, StmtIs, ObjectIs
  <2> HIDE DEF sp, n, x
  <2>3. Persistent' = IF Last(s).temp THEN Persistent \ {<<sp, n>>} ELSE Persistent \cup {<<sp, n>>}
    BY <1>t, <2>1, <2>2, PersistentSet
  <2>4. UNCHANGED <<acts, before, scripts>>
    BY <2>1 DEF Goes, ctlVars
  <2>5. Len(acts[s]) \in 1..Len(acts[s])
    BY <1>t, <2>1 DEF TypeInv, PhaseOK
  <2>6. CASE Last(s).kind = "view"
    <3>1. ~NoViews(s)'
      BY <2>4, <2>5, <2>6 DEF NoViews, Last
    <3> QED
      BY <3>1 DEF Replays
  <2>7. CASE Last(s).kind # "view" /\ Last(s).temp
    <3>1. Last(s).kind = "table"
      BY <2>2, <2>7 DEF TempRelations
    <3>2. UNCHANGED <<added, deleted>>
      BY <2>1, <2>7, <3>1 DEF ccVars
    <3>3. Persistent' = Persistent
      BY <1>t, <2>2, <2>3, <2>7, TempNotPersistent
    <3> QED
      BY <2>4, <3>2, <3>3, ReplaysSame
  <2>8. CASE Last(s).kind # "view" /\ ~Last(s).temp
    <3>1. Note(s, <<sp, n>>)
      BY <2>1, <2>8
    <3>2. added'[s] = added[s] \cup {<<sp, n>>} /\ deleted'[s] = deleted[s] \ {<<sp, n>>}
      BY <1>t, <2>2, <3>1, NoteIs
    <3>3. Persistent' = Persistent \cup {<<sp, n>>}
      BY <2>3, <2>8
    <3>4. NoViews(s)' <=> NoViews(s)
      BY <2>4 DEF NoViews
    <3>5. Replayed(s) => Replayed(s)'
      BY <2>4, <3>2, <3>3 DEF Replayed
    <3> QED
      BY <2>4, <3>4, <3>5 DEF Replays
  <2> QED
    BY <2>6, <2>7, <2>8
<1>6. CASE StepForget(s)
  <2> DEFINE sp == Space(Last(s).kind)
             n == Last(s).name
  <2>1. /\ Last(s) \in Stmt /\ (Goes(s, "next") \/ Unwind(s))
        /\ \/ UNCHANGED <<cat, ccVars>>
           \/ cat' = CatSet(sp, n, NoObj) /\ NoteDeleted(s, <<sp, n>>)
    BY <1>6, <1>t, StepForgetIs DEF Calm
  <2>2. sp \in Spaces /\ n \in Names
    BY <2>1, StmtIs
  <2> HIDE DEF sp, n
  <2>3. UNCHANGED <<acts, before, scripts>>
    BY <2>1 DEF Goes, Unwind, ctlVars
  <2>4. CASE UNCHANGED <<cat, ccVars>>
    BY <1>c, <2>3, <2>4, ReplaysSame DEF ccVars
  <2>5. CASE cat' = CatSet(sp, n, NoObj) /\ NoteDeleted(s, <<sp, n>>)
    <3>1. added'[s] = added[s] \ {<<sp, n>>} /\ deleted'[s] = deleted[s] \cup {<<sp, n>>}
      BY <1>t, <2>2, <2>5, NoteDeletedIs
    <3>2. Persistent' = Persistent \ {<<sp, n>>}
      BY <1>t, <2>2, <2>5, PersistentSet
    <3>3. NoViews(s)' <=> NoViews(s)
      BY <2>3 DEF NoViews
    <3>4. Replayed(s) => Replayed(s)'
      BY <2>3, <3>1, <3>2 DEF Replayed
    <3> QED
      BY <2>3, <3>3, <3>4 DEF Replays
  <2> QED
    BY <2>1, <2>4, <2>5
<1>7. CASE CleanNothing(s)
  <2>1. /\ cat' = cat /\ CleanupDone(s, TRUE) /\ next[s] \in 1..Len(acts[s])
        /\ Due(s).kind # "view" => UNCHANGED ccVars
    BY <1>7, <1>t, CleanNothingIs DEF dataVars
  <2>2. UNCHANGED <<acts, before, scripts>>
    BY <2>1 DEF CleanupDone
  <2>3. CASE Due(s).kind = "view"
    <3>1. ~NoViews(s)'
      BY <2>1, <2>2, <2>3 DEF NoViews, Due
    <3> QED
      BY <3>1 DEF Replays
  <2>4. CASE Due(s).kind # "view"
    BY <1>c, <2>1, <2>2, <2>4, ReplaysSame DEF ccVars
  <2> QED
    BY <2>3, <2>4
<1>8. CASE CleanForget(s)
  <2>1. /\ Due(s) \in Stmt /\ TempCreate(Due(s)) /\ UNCHANGED ccVars
        /\ cat' = cat \/ cat' = CatSet(Space(Due(s).kind), Due(s).name, NoObj)
        /\ \E ok \in BOOLEAN : CleanupDone(s, ok)
    BY <1>8, <1>t, CleanForgetIs DEF TempCreate
  <2>2. Due(s).name \in TempNames /\ Due(s).name \in Names /\ Space(Due(s).kind) \in Spaces
    BY <2>1, StmtIs DEF TempCreate
  <2>3. Persistent' = Persistent
    <3>1. <<Space(Due(s).kind), Due(s).name>> \notin Persistent
      BY <1>t, <2>2, TempNotPersistent
    <3>2. cat' = CatSet(Space(Due(s).kind), Due(s).name, NoObj) =>
             Persistent' = Persistent \ {<<Space(Due(s).kind), Due(s).name>>}
      BY <1>t, <2>2, PersistentSet
    <3> QED
      BY <1>c, <2>1, <3>1, <3>2
  <2>4. UNCHANGED <<acts, before, scripts, added, deleted>>
    BY <2>1 DEF CleanupDone, ccVars
  <2> QED
    BY <2>3, <2>4, ReplaysSame
<1> QED
  BY <1>1, <1>2, <1>3, <1>4, <1>5, <1>6, <1>7, <1>8 DEF CalmStep

ReplayInv == CalmInv /\ \A s \in Sessions : Replays(s)

\* Replaying the ChangedCatalog of a script of the only session into a copy of
\* the catalog that the script started from gives the catalog it left, when
\* the script touches no view and its TEMP objects are tables: nothing it did
\* is missing from the notes, and the notes tell nothing it undid
\* (driver_test.go:625-629).
THEOREM ReplayIsExact == OneSession /\ NamesApart /\ TempRelations => (Spec => []ReplayExact)
<1> SUFFICES ASSUME OneSession, NamesApart, TempRelations PROVE Spec => []ReplayExact
  OBVIOUS
<1>1. Init => ReplayInv
  <2> SUFFICES ASSUME Init PROVE ReplayInv
    OBVIOUS
  <2>1. ASSUME NEW s \in Sessions PROVE Replays(s)
    <3>1. scripts[s] = 0
      BY DEF Init
    <3> QED
      BY <3>1 DEF Replays
  <2> QED
    BY <2>1, CalmInvInit DEF ReplayInv
<1>2. ReplayInv /\ [Next]_vars => ReplayInv'
  <2> SUFFICES ASSUME ReplayInv, [Next]_vars PROVE ReplayInv'
    OBVIOUS
  <2>1. CASE UNCHANGED vars
    <3>1. ASSUME NEW s \in Sessions PROVE Replays(s)'
      BY <2>1, ReplaysSame DEF ReplayInv, Persistent, PersistentIn, vars
    <3> QED
      BY <2>1, <3>1, CalmInvStutter DEF ReplayInv
  <2>2. CASE Next
    <3>1. PICK s \in Sessions : CalmStep(s)
      BY <2>2, CalmSteps
    <3>2. CalmInv' /\ Replays(s)'
      BY <3>1, CalmInvStep, ReplaysStep DEF ReplayInv
    <3> QED
      BY <3>2 DEF ReplayInv, OneSession
  <2> QED
    BY <2>1, <2>2
<1>3. ReplayInv => ReplayExact
  BY DEF ReplayInv, Replays, Replayed, NoViews, ReplayExact
<1> QED
  BY <1>1, <1>2, <1>3, PTL DEF Spec
=============================================================================
