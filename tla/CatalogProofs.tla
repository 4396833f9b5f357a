--------------------------- MODULE CatalogProofs ---------------------------
(***************************************************************************)
(* Proofs about the catalog: its in-memory index, for any number of catalog *)
(* instances, any paths and bodies and any environment, and the rows of one *)
(* instance, which it has loaded or will load.                             *)
(***************************************************************************)
EXTENDS Catalog, WellFoundedInduction, TLAPS

-----------------------------------------------------------------------------
(* Facts about the operators.                                              *)

\* A non-empty set of natural numbers has a least element.
LEMMA LeastNatural ==
    ASSUME NEW P \in SUBSET Nat, P # {}
    PROVE  \E m \in P : \A q \in P : m <= q
<1>1. PICK m \in P : \A q \in P : <<q, m>> \notin OpToRel(<, Nat)
  BY NatLessThanWellFounded, WFMin
<1>2. \A x, y \in Nat : x < y => <<x, y>> \in OpToRel(<, Nat)
  BY Zenon DEF OpToRel
<1>3. \A q \in P : ~(q < m)
  BY <1>1, <1>2, Zenon
<1>4. \A q \in P : m <= q
  BY <1>3
<1> QED
  BY <1>4

\* Among the entries of a slice that have a lookup name one is first.
LEMMA FirstExists ==
    ASSUME NEW L \in SUBSET Entry, NEW n,
           \E e \in L : n \in LookupNames(e.spec.path)
    PROVE  \E e \in L : IsFirst(L, n, e)
<1> DEFINE P == {e.pos : e \in {f \in L : n \in LookupNames(f.spec.path)}}
<1>1. P \in SUBSET Nat /\ P # {}
  BY DEF Entry
<1>2. PICK m \in P : \A q \in P : m <= q
  BY <1>1, LeastNatural
<1>3. PICK e \in L : n \in LookupNames(e.spec.path) /\ e.pos = m
  BY <1>2
<1>4. IsFirst(L, n, e)
  BY <1>2, <1>3 DEF IsFirst
<1> QED
  BY <1>4

-----------------------------------------------------------------------------
(* Type correctness.                                                       *)

\* A statement that runs inside a transaction belongs to the open one:
\* without it a type-correct state could write into a transaction that is
\* not there.
TxOwner ==
    \A i \in Instances : (op[i] \in Save \cup Drop /\ op[i].inTx) => InTx(i)

MemTypeOK ==
    /\ list \in [Instances -> [Kinds -> SUBSET Entry]]
    /\ map \in [Instances -> [Kinds -> [Paths -> ObjectSpec \cup {NoSpec}]]]
    /\ res \in [Instances -> [Kinds -> [Names -> ObjectSpec \cup {NoSpec}]]]
    /\ regs \in [Instances -> Nat]

LEMMA RefreshType ==
    ASSUME NEW L \in SUBSET Entry, NEW s \in ObjectSpec
    PROVE  Refresh(L, s) \in SUBSET Entry
BY DEF Refresh, Entry, ObjectSpec

LEMMA AddSpecType ==
    ASSUME MemTypeOK, NEW i \in Instances, NEW k \in Kinds, NEW s \in ObjectSpec,
           AddSpec(i, k, s)
    PROVE  MemTypeOK'
<1>1. CASE Replace(i, k, s)
  <2>1. Refresh(list[i][k], s) \in SUBSET Entry
    BY RefreshType DEF MemTypeOK
  <2>2. s.path \in Paths
    BY DEF ObjectSpec
  <2> QED
    BY <1>1, <2>1, <2>2 DEF Replace, MemTypeOK
<1>2. CASE Register(i, k, s)
  <2>1. [spec |-> s, pos |-> regs[i] + 1] \in Entry
    BY DEF MemTypeOK, Entry
  <2>2. s.path \in Paths
    BY DEF ObjectSpec
  <2>3. list' \in [Instances -> [Kinds -> SUBSET Entry]]
    BY <1>2, <2>1 DEF Register, MemTypeOK
  <2>4. map' \in [Instances -> [Kinds -> [Paths -> ObjectSpec \cup {NoSpec}]]]
    BY <1>2, <2>2 DEF Register, MemTypeOK
  <2>5. res' \in [Instances -> [Kinds -> [Names -> ObjectSpec \cup {NoSpec}]]]
    BY <1>2 DEF Register, MemTypeOK, FillFree
  <2>6. regs' \in [Instances -> Nat]
    BY <1>2 DEF Register, MemTypeOK
  <2> QED
    BY <2>3, <2>4, <2>5, <2>6 DEF MemTypeOK
<1> QED
  BY <1>1, <1>2 DEF AddSpec

LEMMA ResetCatalogType ==
    ASSUME MemTypeOK, NEW i \in Instances, NEW L \in [Kinds -> SUBSET Entry],
           ResetCatalog(i, L)
    PROVE  MemTypeOK'
<1>1. \A k \in Kinds : MapOf(L[k]) \in [Paths -> ObjectSpec \cup {NoSpec}]
  BY DEF MapOf, Entry
<1>2. ASSUME NEW k \in Kinds
      PROVE  ResolverOf(L[k]) \in [Names -> ObjectSpec \cup {NoSpec}]
  <2>1. ASSUME NEW n \in Names, \E e \in L[k] : n \in LookupNames(e.spec.path)
        PROVE  (CHOOSE e \in L[k] : IsFirst(L[k], n, e)).spec \in ObjectSpec
    BY <2>1, FirstExists DEF Entry
  <2> QED
    BY <2>1 DEF ResolverOf
<1> QED
  BY <1>1, <1>2 DEF ResetCatalog, MemTypeOK

TypeInv == TypeOK /\ TxOwner

LEMMA TypeInit == Init => TypeInv
<1> SUFFICES ASSUME Init PROVE TypeInv
  OBVIOUS
<1>1. TypeOK
  BY DEF Init, TypeOK
<1>2. TxOwner
  BY SentinelAssumption DEF Init, TxOwner
<1> QED
  BY <1>1, <1>2 DEF TypeInv

\* Inside its transaction or outside, a write leaves both row tables typed.
LEMMA WriteType ==
    ASSUME TypeOK, NEW inTx \in BOOLEAN, inTx => tx # NoTx,
           NEW p \in Paths, NEW r \in Row \cup {NoRow}, Write(inTx, p, r)
    PROVE  /\ rows' \in [Paths -> Row \cup {NoRow}]
           /\ tx' \in Tx \cup {NoTx}
           /\ tx # NoTx => tx' # NoTx /\ tx'.inst = tx.inst
<1>1. CASE inTx
  <2>1. tx \in Tx
    BY <1>1 DEF TypeOK
  <2>2. tx' = [tx EXCEPT !.rows[p] = r] /\ rows' = rows
    BY <1>1 DEF Write
  <2>3. tx' \in Tx /\ tx'.inst = tx.inst
    BY <2>1, <2>2 DEF Tx
  <2> QED
    BY <2>2, <2>3, SentinelAssumption DEF TypeOK
<1>2. CASE ~inTx
  BY <1>2 DEF Write, TypeOK
<1> QED
  BY <1>1, <1>2

LEMMA TypeNext == TypeInv /\ [Next]_vars => TypeInv'
<1> SUFFICES ASSUME TypeInv, [Next]_vars PROVE TypeInv'
  OBVIOUS
<1> USE DEF TypeInv
<1>0. MemTypeOK
  BY DEF TypeOK, MemTypeOK
<1>1. ASSUME MemTypeOK', TypeOK => /\ synced' \in [Instances -> Nat]
                                   /\ op' \in [Instances -> Save \cup Drop \cup Sync \cup {Idle}]
                                   /\ rows' \in [Paths -> Row \cup {NoRow}]
                                   /\ tx' \in Tx \cup {NoTx}
                                   /\ now' \in Nat
      PROVE  TypeOK'
  BY <1>1 DEF TypeOK, MemTypeOK
<1>2. ASSUME NEW i \in Instances, SyncStart(i)
      PROVE  TypeInv'
  <2>1. PICK inTx \in {FALSE} \cup (IF InTx(i) THEN {TRUE} ELSE {}) :
            op' = [op EXCEPT ![i] =
                    [do |-> "sync", at |-> now,
                     todo |-> {Visible(inTx)[p] : p \in {q \in Paths : /\ Visible(inTx)[q] # NoRow
                                                              /\ Visible(inTx)[q].at >= synced[i]}}]]
    BY <1>2 DEF SyncStart
  <2>2. Visible(inTx) \in [Paths -> Row \cup {NoRow}]
    BY DEF Visible, InTx, TypeOK, Tx
  <2> DEFINE todo == {Visible(inTx)[p] : p \in {q \in Paths : /\ Visible(inTx)[q] # NoRow
                                                              /\ Visible(inTx)[q].at >= synced[i]}}
  <2>3. todo \subseteq Row
    BY <2>2
  <2>4. [do |-> "sync", at |-> now, todo |-> todo] \in Sync
    BY <2>3 DEF Sync, TypeOK
  <2> HIDE DEF todo
  <2>5. op' = [op EXCEPT ![i] = [do |-> "sync", at |-> now, todo |-> todo]]
    BY <2>1 DEF todo
  <2>6. TypeOK'
    BY <1>2, <2>4, <2>5 DEF SyncStart, TypeOK, memVars
  <2>7. TxOwner'
    BY <1>2, <2>4, <2>5 DEF SyncStart, TxOwner, InTx, TypeOK, Save, Drop, Sync
  <2> QED
    BY <2>6, <2>7
<1>3. ASSUME NEW i \in Instances, SyncLoad(i)
      PROVE  TypeInv'
  <2>1. PICK r \in op[i].todo : AddSpec(i, r.kind, r.spec) /\ op' = [op EXCEPT ![i].todo = @ \ {r}]
    BY <1>3 DEF SyncLoad
  <2>2. op[i] \in Sync
    BY <1>3 DEF SyncLoad
  <2>3. r.kind \in Kinds /\ r.spec \in ObjectSpec
    BY <2>1, <2>2 DEF Sync, Row
  <2>4. MemTypeOK'
    BY <1>0, <2>1, <2>3, AddSpecType
  <2>5. op'[i] \in Sync /\ op' \in [Instances -> Save \cup Drop \cup Sync \cup {Idle}]
    BY <2>1, <2>2 DEF Sync, TypeOK
  <2>6. TypeOK'
    BY <1>1, <1>3, <2>4, <2>5 DEF SyncLoad, TypeOK
  <2>7. TxOwner'
    BY <1>3, <2>1, <2>5 DEF SyncLoad, TxOwner, InTx, TypeOK, Save, Drop, Sync
  <2> QED
    BY <2>6, <2>7
<1>4. ASSUME NEW i \in Instances, SyncEnd(i)
      PROVE  TypeInv'
  <2>1. TypeOK'
    BY <1>4 DEF SyncEnd, TypeOK, Sync, memVars
  <2>2. TxOwner'
    BY <1>4, SentinelAssumption DEF SyncEnd, TxOwner, InTx, TypeOK
  <2> QED
    BY <2>1, <2>2
<1>5. ASSUME NEW i \in Instances, NEW k \in Kinds, NEW s \in ObjectSpec, AddNew(i, k, s)
      PROVE  TypeInv'
  <2>1. PICK inTx \in {FALSE} \cup (IF InTx(i) THEN {TRUE} ELSE {}) :
            op' = [op EXCEPT ![i] =
                    IF s.temp THEN Idle
                    ELSE [do |-> "save", kind |-> k, spec |-> s, at |-> now, inTx |-> inTx]]
    BY <1>5 DEF AddNew
  <2>2. MemTypeOK'
    BY <1>0, <1>5, AddSpecType DEF AddNew
  <2>3. [do |-> "save", kind |-> k, spec |-> s, at |-> now, inTx |-> inTx] \in Save
    BY DEF Save, TypeOK
  <2>4. TypeOK'
    BY <1>1, <1>5, <2>1, <2>2, <2>3 DEF AddNew, TypeOK
  <2>5. TxOwner'
    BY <1>5, <2>1, <2>3, SentinelAssumption DEF AddNew, TxOwner, InTx, TypeOK
  <2> QED
    BY <2>4, <2>5
<1>6. ASSUME NEW i \in Instances, NEW k \in Kinds, NEW p \in Paths, Delete(i, k, p)
      PROVE  TypeInv'
  <2>1. PICK inTx \in {FALSE} \cup (IF InTx(i) THEN {TRUE} ELSE {}) :
            op' = [op EXCEPT ![i] = [do |-> "drop", path |-> p, inTx |-> inTx]]
    BY <1>6 DEF Delete
  <2>2. [list[i] EXCEPT ![k] = Without(@, p)] \in [Kinds -> SUBSET Entry]
    BY <1>0 DEF MemTypeOK, Without
  <2>3. MemTypeOK'
    BY <1>0, <1>6, <2>2, ResetCatalogType DEF Delete
  <2>4. [do |-> "drop", path |-> p, inTx |-> inTx] \in Drop
    BY DEF Drop
  <2>5. TypeOK'
    BY <1>1, <1>6, <2>1, <2>3, <2>4 DEF Delete, TypeOK
  <2>6. TxOwner'
    BY <1>6, <2>1, <2>4 DEF Delete, TxOwner, InTx, TypeOK
  <2> QED
    BY <2>5, <2>6
<1>7. ASSUME NEW i \in Instances, SaveRow(i)
      PROVE  TypeInv'
  <2> DEFINE o == op[i]
             r == Upsert(Visible(o.inTx)[o.spec.path], o.kind, o.spec, o.at)
  <2>1. o \in Save
    BY <1>7 DEF SaveRow
  <2>2. /\ o.inTx \in BOOLEAN /\ o.spec \in ObjectSpec /\ o.spec.path \in Paths
        /\ o.kind \in Kinds /\ o.at \in Nat
    BY <2>1 DEF Save, ObjectSpec
  <2>3. o.inTx => tx # NoTx /\ tx.inst = i
    BY <2>1 DEF TxOwner, InTx
  <2>4. Visible(o.inTx) \in [Paths -> Row \cup {NoRow}]
    BY <2>2, <2>3 DEF Visible, TypeOK, Tx
  <2>5. r \in Row
    BY <2>2, <2>4 DEF Upsert, Row
  <2>6. Write(o.inTx, o.spec.path, r)
    BY <1>7 DEF SaveRow
  <2>7. op' = [op EXCEPT ![i] = Idle] /\ UNCHANGED <<memVars, synced, now>>
    BY <1>7 DEF SaveRow
  <2> HIDE DEF o, r
  <2>8. /\ rows' \in [Paths -> Row \cup {NoRow}]
        /\ tx' \in Tx \cup {NoTx}
        /\ tx # NoTx => tx' # NoTx /\ tx'.inst = tx.inst
    BY <2>2, <2>3, <2>5, <2>6, WriteType
  <2>9. TypeOK'
    BY <2>7, <2>8 DEF TypeOK, memVars
  <2>10. TxOwner'
    BY <2>7, <2>8, SentinelAssumption DEF TxOwner, InTx, TypeOK
  <2> QED
    BY <2>9, <2>10
<1>8. ASSUME NEW i \in Instances, SaveFail(i) \/ DropFail(i)
      PROVE  TypeInv'
  <2>1. op' = [op EXCEPT ![i] = Idle] /\ UNCHANGED <<memVars, synced, rows, tx, now>>
    BY <1>8 DEF SaveFail, DropFail
  <2>2. TypeOK'
    BY <2>1 DEF TypeOK, memVars
  <2>3. TxOwner'
    BY <2>1, SentinelAssumption DEF TxOwner, InTx, TypeOK
  <2> QED
    BY <2>2, <2>3
<1>9. ASSUME NEW i \in Instances, DropRow(i)
      PROVE  TypeInv'
  <2> DEFINE o == op[i]
  <2>1. o \in Drop
    BY <1>9 DEF DropRow
  <2>2. o.inTx \in BOOLEAN /\ o.path \in Paths
    BY <2>1 DEF Drop
  <2>3. o.inTx => tx # NoTx
    BY <2>1 DEF TxOwner, InTx
  <2>4. Write(o.inTx, o.path, NoRow)
    BY <1>9 DEF DropRow
  <2>5. op' = [op EXCEPT ![i] = Idle] /\ UNCHANGED <<memVars, synced, now>>
    BY <1>9 DEF DropRow
  <2> HIDE DEF o
  <2>6. /\ rows' \in [Paths -> Row \cup {NoRow}]
        /\ tx' \in Tx \cup {NoTx}
        /\ tx # NoTx => tx' # NoTx /\ tx'.inst = tx.inst
    BY <2>2, <2>3, <2>4, WriteType
  <2>7. TypeOK'
    BY <2>5, <2>6 DEF TypeOK, memVars
  <2>8. TxOwner'
    BY <2>5, <2>6, SentinelAssumption DEF TxOwner, InTx, TypeOK
  <2> QED
    BY <2>7, <2>8
<1>10. ASSUME NEW i \in Instances, Begin(i)
       PROVE  TypeInv'
  <2>1. TypeOK'
    BY <1>10 DEF Begin, TypeOK, Tx, memVars
  <2>2. TxOwner'
    BY <1>10 DEF Begin, TxOwner, InTx
  <2> QED
    BY <2>1, <2>2
<1>11. ASSUME Commit \/ Rollback
       PROVE  TypeInv'
  <2>1. tx # NoTx /\ tx' = NoTx /\ TxIdle /\ UNCHANGED <<memVars, synced, op, now>>
    BY <1>11 DEF Commit, Rollback
  <2>2. rows' \in [Paths -> Row \cup {NoRow}]
    BY <1>11 DEF Commit, Rollback, TypeOK, Tx
  <2>3. TypeOK'
    BY <2>1, <2>2 DEF TypeOK, memVars
  <2>4. TxOwner'
    BY <2>1 DEF TxOwner, InTx, TxIdle
  <2> QED
    BY <2>3, <2>4
<1>12. ASSUME NEW i \in Instances, Restart(i)
       PROVE  TypeInv'
  <2>1. TypeOK'
    BY <1>12 DEF Restart, TypeOK
  <2>2. TxOwner'
    BY <1>12, SentinelAssumption DEF Restart, TxOwner, InTx, TypeOK
  <2> QED
    BY <2>1, <2>2
<1>13. ASSUME Tick
       PROVE  TypeInv'
  BY <1>13 DEF Tick, TypeOK, TxOwner, InTx, memVars
<1>14. ASSUME UNCHANGED vars
       PROVE  TypeInv'
  BY <1>14 DEF vars, TypeOK, TxOwner, InTx
<1> QED
  BY <1>2, <1>3, <1>4, <1>5, <1>6, <1>7, <1>8, <1>9, <1>10, <1>11, <1>12, <1>13, <1>14 DEF Next

\* Every reachable state of the catalog is well typed: in particular, the row
\* a statement upserts inside a transaction goes into a transaction that is
\* still open (Conn.BeginTx / Tx.Commit, driver.go:645-722).
THEOREM TypeCorrect == Spec => []TypeOK
<1>1. Spec => []TypeInv
  BY TypeInit, TypeNext, PTL DEF Spec
<1>2. TypeInv => TypeOK
  BY DEF TypeInv
<1> QED
  BY <1>1, <1>2, PTL

-----------------------------------------------------------------------------
(* The index of one kind, as facts about a slice L, a map M and a resolver *)
(* R that are preserved by each way the code updates the three.            *)

SliceOK(L, r) ==
    /\ \A e, f \in L : e.spec.path = f.spec.path => e = f
    /\ \A e \in L : e.pos <= r
    /\ \A e, f \in L : e.pos = f.pos => e = f

MapOK(k, L, M) ==
    /\ \A p \in Paths : M[p] # NoSpec <=> \E e \in L : e.spec.path = p
    /\ k = "table" => \A e \in L : M[e.spec.path] = e.spec

ResOK(L, R) ==
    \A n \in Names :
        IF \E e \in L : n \in LookupNames(e.spec.path)
        THEN \E e \in L : IsFirst(L, n, e) /\ R[n] # NoSpec /\ R[n].path = e.spec.path
        ELSE R[n] = NoSpec

IndexOK == \A i \in Instances, k \in Kinds :
    SliceOK(list[i][k], regs[i]) /\ MapOK(k, list[i][k], map[i][k]) /\ ResOK(list[i][k], res[i][k])

\* Two entries that are both first are the same entry.
LEMMA FirstUnique ==
    ASSUME NEW L \in SUBSET Entry, NEW r, SliceOK(L, r), NEW n,
           NEW e, NEW f, IsFirst(L, n, e), IsFirst(L, n, f)
    PROVE  e = f
<1>1. e \in L /\ f \in L /\ e.pos <= f.pos /\ f.pos <= e.pos
  BY DEF IsFirst
<1>2. e.pos \in Nat /\ f.pos \in Nat
  BY <1>1 DEF Entry
<1>3. e.pos = f.pos
  BY <1>1, <1>2
<1> QED
  BY <1>1, <1>3 DEF SliceOK

\* What resetCatalog rebuilds from a good slice is a good map and resolver.
LEMMA RebuiltOK ==
    ASSUME NEW L \in SUBSET Entry, NEW r, SliceOK(L, r), NEW k
    PROVE  MapOK(k, L, MapOf(L)) /\ ResOK(L, ResolverOf(L))
<1>1. ASSUME NEW p \in Paths, NEW e \in L, e.spec.path = p
      PROVE  MapOf(L)[p] = e.spec /\ MapOf(L)[p] # NoSpec
  <2>1. (CHOOSE f \in L : f.spec.path = p) = e
    BY <1>1 DEF SliceOK
  <2> QED
    BY <1>1, <2>1, SentinelAssumption DEF MapOf, Entry
<1>2. MapOK(k, L, MapOf(L))
  <2>1. \A e \in L : e.spec.path \in Paths
    BY DEF Entry, ObjectSpec
  <2>2. \A p \in Paths : MapOf(L)[p] # NoSpec => \E e \in L : e.spec.path = p
    BY DEF MapOf
  <2> QED
    BY <1>1, <2>1, <2>2 DEF MapOK
<1>3. ASSUME NEW n \in Names, \E e \in L : n \in LookupNames(e.spec.path)
      PROVE  \E e \in L : /\ IsFirst(L, n, e)
                          /\ ResolverOf(L)[n] # NoSpec
                          /\ ResolverOf(L)[n].path = e.spec.path
  <2>1. PICK e \in L : e = (CHOOSE f \in L : IsFirst(L, n, f)) /\ IsFirst(L, n, e)
    BY <1>3, FirstExists
  <2>2. ResolverOf(L)[n] = e.spec
    BY <1>3, <2>1 DEF ResolverOf
  <2> QED
    BY <2>1, <2>2, SentinelAssumption DEF Entry
<1>4. ResOK(L, ResolverOf(L))
  BY <1>3 DEF ResOK, ResolverOf
<1> QED
  BY <1>2, <1>4

\* Dropping an object keeps a slice good.
LEMMA WithoutOK ==
    ASSUME NEW L \in SUBSET Entry, NEW r, SliceOK(L, r), NEW p
    PROVE  SliceOK(Without(L, p), r)
BY DEF SliceOK, Without

\* Overwriting the slot of an existing name keeps everything good: the slot,
\* its path and its position stay.
LEMMA RefreshOK ==
    ASSUME NEW L \in SUBSET Entry, NEW r \in Nat, SliceOK(L, r), NEW k,
           NEW M \in [Paths -> ObjectSpec \cup {NoSpec}], MapOK(k, L, M),
           NEW R, ResOK(L, R),
           NEW s \in ObjectSpec, M[s.path] # NoSpec
    PROVE  /\ SliceOK(Refresh(L, s), r)
           /\ MapOK(k, Refresh(L, s), [M EXCEPT ![s.path] = s])
           /\ ResOK(Refresh(L, s), R)
<1> DEFINE Upd(e) == IF e.spec.path = s.path THEN [e EXCEPT !.spec = s] ELSE e
<1>1. \A e \in L : /\ Upd(e).spec.path = e.spec.path
                   /\ Upd(e).pos = e.pos
                   /\ Upd(e) \in Refresh(L, s)
                   /\ Upd(e).spec = IF e.spec.path = s.path THEN s ELSE e.spec
  BY DEF Refresh, Entry
<1>2. \A f \in Refresh(L, s) : \E e \in L : f = Upd(e)
  BY DEF Refresh
<1>3. s.path \in Paths /\ \A e \in L : e.spec.path \in Paths /\ e.pos \in Nat
  BY DEF ObjectSpec, Entry
<1> HIDE DEF Upd
<1>4. SliceOK(Refresh(L, s), r)
  BY <1>1, <1>2, <1>3 DEF SliceOK
<1>5. MapOK(k, Refresh(L, s), [M EXCEPT ![s.path] = s])
  <2> DEFINE N == [M EXCEPT ![s.path] = s]
  <2>1. \A p \in Paths : N[p] # NoSpec <=> M[p] # NoSpec
    BY <1>3, SentinelAssumption
  <2>2. \A p \in Paths : (\E e \in L : e.spec.path = p) <=> \E f \in Refresh(L, s) : f.spec.path = p
    BY <1>1, <1>2
  <2>3. ASSUME k = "table", NEW f \in Refresh(L, s)
        PROVE  N[f.spec.path] = f.spec
    <3>1. PICK e \in L : f = Upd(e)
      BY <1>2
    <3>2. CASE e.spec.path = s.path
      BY <1>1, <1>3, <3>1, <3>2
    <3>3. CASE e.spec.path # s.path
      BY <1>1, <1>3, <2>3, <3>1, <3>3 DEF MapOK
    <3> QED
      BY <3>2, <3>3
  <2> QED
    BY <2>1, <2>2, <2>3 DEF MapOK
<1>6. ResOK(Refresh(L, s), R)
  <2>1. \A n : \A e \in L : IsFirst(L, n, e) => IsFirst(Refresh(L, s), n, Upd(e))
    BY <1>1, <1>2 DEF IsFirst
  <2> QED
    BY <1>1, <1>2, <2>1 DEF ResOK
<1> QED
  BY <1>4, <1>5, <1>6

\* Appending an object with a new path, and giving it the lookup names that
\* are still free, keeps everything good.
LEMMA AppendOK ==
    ASSUME NEW L \in SUBSET Entry, NEW r \in Nat, SliceOK(L, r), NEW k,
           NEW M \in [Paths -> ObjectSpec \cup {NoSpec}], MapOK(k, L, M),
           NEW R \in [Names -> ObjectSpec \cup {NoSpec}], ResOK(L, R),
           NEW s \in ObjectSpec, M[s.path] = NoSpec
    PROVE  /\ SliceOK(L \cup {[spec |-> s, pos |-> r + 1]}, r + 1)
           /\ MapOK(k, L \cup {[spec |-> s, pos |-> r + 1]}, [M EXCEPT ![s.path] = s])
           /\ ResOK(L \cup {[spec |-> s, pos |-> r + 1]}, FillFree(R, s))
<1> DEFINE new == [spec |-> s, pos |-> r + 1]
           N == L \cup {new}
           Q == FillFree(R, s)
<1>1. new.spec = s /\ new.pos = r + 1
  OBVIOUS
<1>2. s.path \in Paths /\ \A e \in L : e.spec.path \in Paths /\ e.pos \in Nat
  BY DEF ObjectSpec, Entry
<1>3. \A e \in L : e.spec.path # s.path /\ e.pos <= r
  BY <1>2 DEF MapOK, SliceOK
<1> HIDE DEF new
<1>4. SliceOK(N, r + 1)
  BY <1>1, <1>2, <1>3 DEF SliceOK
<1>5. MapOK(k, N, [M EXCEPT ![s.path] = s])
  BY <1>1, <1>2, <1>3, SentinelAssumption DEF MapOK
<1>6. ASSUME NEW n \in Names
      PROVE  IF \E e \in N : n \in LookupNames(e.spec.path)
             THEN \E e \in N : IsFirst(N, n, e) /\ Q[n] # NoSpec /\ Q[n].path = e.spec.path
             ELSE Q[n] = NoSpec
  <2>1. CASE \E e \in L : n \in LookupNames(e.spec.path)
    <3>1. PICK e \in L : IsFirst(L, n, e) /\ R[n] # NoSpec /\ R[n].path = e.spec.path
      BY <2>1 DEF ResOK
    <3>2. IsFirst(N, n, e)
      BY <1>1, <1>2, <1>3, <3>1 DEF IsFirst
    <3>3. Q[n] = R[n] /\ e \in N
      BY <3>1 DEF FillFree
    <3>4. \E f \in N : n \in LookupNames(f.spec.path)
      BY <2>1
    <3> HIDE DEF Q, N
    <3> QED
      BY <3>1, <3>2, <3>3, <3>4
  <2>2. CASE (\A e \in L : n \notin LookupNames(e.spec.path)) /\ n \in LookupNames(s.path)
    <3>1. R[n] = NoSpec
      BY <2>2 DEF ResOK
    <3>2. IsFirst(N, n, new)
      BY <1>1, <1>2, <2>2 DEF IsFirst
    <3> QED
      BY <1>1, <2>2, <3>1, <3>2, SentinelAssumption DEF FillFree
  <2>3. CASE (\A e \in L : n \notin LookupNames(e.spec.path)) /\ n \notin LookupNames(s.path)
    BY <1>1, <2>3 DEF ResOK, FillFree
  <2> QED
    BY <2>1, <2>2, <2>3
<1>7. ResOK(N, Q)
  BY <1>6 DEF ResOK
<1> QED
  BY <1>4, <1>5, <1>7 DEF new

-----------------------------------------------------------------------------
(* The index as an invariant.                                              *)

\* addTableSpec, addFunctionSpec and addTVFSpec keep the index good.
LEMMA AddSpecIndex ==
    ASSUME MemTypeOK, IndexOK, NEW i \in Instances, NEW k \in Kinds, NEW s \in ObjectSpec,
           AddSpec(i, k, s)
    PROVE  IndexOK'
<1> DEFINE L == list[i][k]
           M == map[i][k]
           R == res[i][k]
           r == regs[i]
<1>1. /\ L \in SUBSET Entry /\ M \in [Paths -> ObjectSpec \cup {NoSpec}]
      /\ R \in [Names -> ObjectSpec \cup {NoSpec}] /\ r \in Nat
  BY DEF MemTypeOK
<1>2. SliceOK(L, r) /\ MapOK(k, L, M) /\ ResOK(L, R)
  BY DEF IndexOK
<1>3. ASSUME /\ SliceOK(list'[i][k], regs'[i])
             /\ MapOK(k, list'[i][k], map'[i][k])
             /\ ResOK(list'[i][k], res'[i][k]),
             \A j \in Instances, h \in Kinds :
                (j # i \/ h # k) => /\ list'[j][h] = list[j][h]
                                    /\ map'[j][h] = map[j][h]
                                    /\ res'[j][h] = res[j][h],
             regs'[i] \in Nat, regs[i] <= regs'[i],
             \A j \in Instances : j # i => regs'[j] = regs[j]
      PROVE  IndexOK'
  <2>1. ASSUME NEW h \in Kinds, h # k
        PROVE  SliceOK(list'[i][h], regs'[i])
    <3>1. list[i][h] \in SUBSET Entry /\ \A e \in list[i][h] : e.pos \in Nat
      BY DEF MemTypeOK, Entry
    <3>2. SliceOK(list[i][h], regs[i]) /\ list'[i][h] = list[i][h]
      BY <1>3, <2>1 DEF IndexOK
    <3> QED
      BY <1>1, <1>3, <3>1, <3>2 DEF SliceOK
  <2> QED
    BY <1>3, <2>1 DEF IndexOK
<1>4. s.path \in Paths
  BY DEF ObjectSpec
<1>5. CASE Replace(i, k, s)
  <2>1. /\ map'[i][k] = [M EXCEPT ![s.path] = s] /\ M[s.path] # NoSpec
        /\ res' = res /\ regs' = regs
    BY <1>4, <1>5 DEF Replace, MemTypeOK
  <2>2. /\ SliceOK(list'[i][k], regs'[i])
        /\ MapOK(k, list'[i][k], map'[i][k])
        /\ ResOK(list'[i][k], res'[i][k])
    <3>1. CASE k = "table"
      <4>1. list'[i][k] = Refresh(L, s)
        BY <1>5, <3>1 DEF Replace, MemTypeOK
      <4> HIDE DEF L, M, R, r
      <4>2. /\ SliceOK(Refresh(L, s), r)
            /\ MapOK(k, Refresh(L, s), [M EXCEPT ![s.path] = s])
            /\ ResOK(Refresh(L, s), R)
        BY <1>1, <1>2, <2>1, RefreshOK
      <4> QED
        BY <2>1, <4>1, <4>2 DEF R, r
    <3>2. CASE k # "table"
      <4>1. list'[i][k] = L
        BY <1>5, <3>2 DEF Replace
      <4>2. MapOK(k, L, [M EXCEPT ![s.path] = s])
        BY <1>1, <1>2, <1>4, <2>1, <3>2, SentinelAssumption DEF MapOK
      <4> QED
        BY <1>2, <2>1, <4>1, <4>2
    <3> QED
      BY <3>1, <3>2
  <2>3. \A j \in Instances, h \in Kinds :
            (j # i \/ h # k) => /\ list'[j][h] = list[j][h]
                                /\ map'[j][h] = map[j][h]
                                /\ res'[j][h] = res[j][h]
    BY <1>5 DEF Replace, MemTypeOK
  <2> QED
    BY <1>1, <1>3, <2>1, <2>2, <2>3
<1>6. CASE Register(i, k, s)
  <2> DEFINE N == L \cup {[spec |-> s, pos |-> r + 1]}
             Q == FillFree(R, s)
  <2>1. /\ M[s.path] = NoSpec /\ regs' = [regs EXCEPT ![i] = @ + 1]
        /\ list'[i][k] = N /\ map'[i][k] = [M EXCEPT ![s.path] = s] /\ res'[i][k] = Q
    BY <1>4, <1>6 DEF Register, MemTypeOK
  <2>2. SliceOK(N, r + 1) /\ MapOK(k, N, [M EXCEPT ![s.path] = s]) /\ ResOK(N, Q)
    <3> HIDE DEF L, M, R, r
    <3> QED
      BY <1>1, <1>2, <2>1, AppendOK
  <2>3. \A j \in Instances, h \in Kinds :
            (j # i \/ h # k) => /\ list'[j][h] = list[j][h]
                                /\ map'[j][h] = map[j][h]
                                /\ res'[j][h] = res[j][h]
    BY <1>6 DEF Register, MemTypeOK
  <2>4. regs'[i] = r + 1 /\ \A j \in Instances : j # i => regs'[j] = regs[j]
    BY <2>1 DEF MemTypeOK
  <2> HIDE DEF N, Q
  <2> QED
    BY <1>1, <1>3, <2>1, <2>2, <2>3, <2>4
<1> QED
  BY <1>5, <1>6 DEF AddSpec

\* The rebuild after a DROP keeps the index good.
LEMMA DeleteIndex ==
    ASSUME MemTypeOK, IndexOK, NEW i \in Instances, NEW k \in Kinds, NEW p \in Paths,
           ResetCatalog(i, [list[i] EXCEPT ![k] = Without(@, p)])
    PROVE  IndexOK'
<1> DEFINE K == [list[i] EXCEPT ![k] = Without(@, p)]
<1>1. \A h \in Kinds : K[h] \in SUBSET Entry /\ SliceOK(K[h], regs[i])
  <2>1. \A h \in Kinds : list[i][h] \in SUBSET Entry /\ SliceOK(list[i][h], regs[i])
    BY DEF MemTypeOK, IndexOK
  <2>2. Without(list[i][k], p) \in SUBSET Entry
    BY <2>1 DEF Without
  <2>3. SliceOK(Without(list[i][k], p), regs[i])
    BY <2>1, WithoutOK
  <2>4. K[k] = Without(list[i][k], p) /\ \A h \in Kinds : h # k => K[h] = list[i][h]
    BY DEF MemTypeOK
  <2> QED
    BY <2>1, <2>2, <2>3, <2>4
<1>2. \A h \in Kinds : list'[i][h] = K[h] /\ map'[i][h] = MapOf(K[h]) /\ res'[i][h] = ResolverOf(K[h])
  BY DEF ResetCatalog, MemTypeOK
<1>3. regs' = regs /\ \A j \in Instances : j # i => list'[j] = list[j] /\ map'[j] = map[j] /\ res'[j] = res[j]
  BY DEF ResetCatalog, MemTypeOK
<1> HIDE DEF K
<1>4. \A h \in Kinds : MapOK(h, K[h], MapOf(K[h])) /\ ResOK(K[h], ResolverOf(K[h]))
  BY <1>1, RebuiltOK
<1> QED
  BY <1>1, <1>2, <1>3, <1>4 DEF IndexOK

IndexInv == TypeInv /\ IndexOK

\* The two properties the runs check are parts of the index invariant.
LEMMA IndexInvImplies == IndexOK => IndexConsistent /\ FirstRegistered
BY DEF IndexOK, SliceOK, MapOK, ResOK, IndexConsistent, FirstRegistered

\* The index of a new catalog.
LEMMA EmptyOK ==
    /\ SliceOK({}, 0)
    /\ \A k : MapOK(k, {}, [p \in Paths |-> NoSpec])
    /\ ResOK({}, [n \in Names |-> NoSpec])
<1>1. SliceOK({}, 0)
  BY DEF SliceOK
<1>2. \A k : MapOK(k, {}, [p \in Paths |-> NoSpec])
  BY DEF MapOK
<1>3. ResOK({}, [n \in Names |-> NoSpec])
  BY DEF ResOK
<1> QED
  BY <1>1, <1>2, <1>3

LEMMA IndexInit == Init => IndexOK
<1> SUFFICES ASSUME Init PROVE IndexOK
  OBVIOUS
<1>1. \A i \in Instances, k \in Kinds :
          /\ list[i][k] = {} /\ map[i][k] = [p \in Paths |-> NoSpec]
          /\ res[i][k] = [n \in Names |-> NoSpec] /\ regs[i] = 0
  BY DEF Init
<1> QED
  BY <1>1, EmptyOK DEF IndexOK

LEMMA IndexNext == IndexInv /\ [Next]_vars => IndexOK'
<1> SUFFICES ASSUME IndexInv, [Next]_vars PROVE IndexOK'
  OBVIOUS
<1>1. IndexOK /\ TypeOK /\ MemTypeOK
  BY DEF IndexInv, TypeInv, TypeOK, MemTypeOK
<1>2. ASSUME UNCHANGED memVars PROVE IndexOK'
  BY <1>1, <1>2 DEF memVars, IndexOK
<1>3. ASSUME NEW i \in Instances, SyncLoad(i) PROVE IndexOK'
  <2>1. PICK r \in op[i].todo : AddSpec(i, r.kind, r.spec)
    BY <1>3 DEF SyncLoad
  <2>2. r.kind \in Kinds /\ r.spec \in ObjectSpec
    BY <1>3, <2>1 DEF SyncLoad, Sync, Row
  <2> QED
    BY <1>1, <2>1, <2>2, AddSpecIndex
<1>4. ASSUME NEW i \in Instances, NEW k \in Kinds, NEW s \in ObjectSpec, AddNew(i, k, s)
      PROVE  IndexOK'
  BY <1>1, <1>4, AddSpecIndex DEF AddNew
<1>5. ASSUME NEW i \in Instances, NEW k \in Kinds, NEW p \in Paths, Delete(i, k, p)
      PROVE  IndexOK'
  BY <1>1, <1>5, DeleteIndex DEF Delete
<1>6. ASSUME NEW i \in Instances, Restart(i) PROVE IndexOK'
  <2>1. \A k \in Kinds : /\ list'[i][k] = {} /\ map'[i][k] = [p \in Paths |-> NoSpec]
                         /\ res'[i][k] = [n \in Names |-> NoSpec] /\ regs'[i] = 0
    BY <1>1, <1>6 DEF Restart, MemTypeOK
  <2>2. \A j \in Instances : j # i => /\ list'[j] = list[j] /\ map'[j] = map[j]
                                      /\ res'[j] = res[j] /\ regs'[j] = regs[j]
    BY <1>1, <1>6 DEF Restart, MemTypeOK
  <2> QED
    BY <1>1, <2>1, <2>2, EmptyOK DEF IndexOK
<1>7. ASSUME NEW i \in Instances,
             \/ SyncStart(i) \/ SyncEnd(i) \/ SaveRow(i) \/ SaveFail(i)
             \/ DropRow(i) \/ DropFail(i) \/ Begin(i)
      PROVE  UNCHANGED memVars
  BY <1>7 DEF SyncStart, SyncEnd, SaveRow, SaveFail, DropRow, DropFail, Begin
<1>8. ASSUME Commit \/ Rollback \/ Tick \/ UNCHANGED vars PROVE UNCHANGED memVars
  BY <1>8 DEF Commit, Rollback, Tick, vars, memVars
<1> QED
  BY <1>2, <1>3, <1>4, <1>5, <1>6, <1>7, <1>8 DEF Next

LEMMA IndexAlways == Spec => []IndexInv
<1>1. Init => IndexInv
  BY TypeInit, IndexInit DEF IndexInv
<1>2. IndexInv /\ [Next]_vars => IndexInv'
  BY TypeNext, IndexNext DEF IndexInv
<1> QED
  BY <1>1, <1>2, PTL DEF Spec

\* In every reachable state of every catalog the slice and the map of a kind
\* describe the same objects (catalog.go:2403-2421, 2133-2211).
THEOREM IndexConsistency == Spec => []IndexConsistent
<1>1. IndexInv => IndexConsistent
  BY IndexInvImplies DEF IndexInv
<1> QED
  BY IndexAlways, <1>1, PTL

\* In every reachable state a lookup name leads to the first registered
\* object that has it, however the index came about: by creation, by reload
\* from googlesqlite_catalog or by the rebuild after a DROP.
THEOREM FirstRegistration == Spec => []FirstRegistered
<1>1. IndexInv => FirstRegistered
  BY IndexInvImplies DEF IndexInv
<1> QED
  BY IndexAlways, <1>1, PTL

-----------------------------------------------------------------------------
(* What a step may do to the meaning of a lookup name.                     *)

KeepsMeaning(i, k, n) ==
    /\ res[i][k][n] # NoSpec
    /\ map'[i][k][res[i][k][n].path] # NoSpec
    => /\ res'[i][k][n] # NoSpec
       /\ res'[i][k][n].path = res[i][k][n].path

\* Rebuilding a slice from which entries were dropped keeps the meaning of
\* every name whose object is still there.
LEMMA RebuildKeeps ==
    ASSUME NEW L \in SUBSET Entry, NEW r, SliceOK(L, r), NEW K \in SUBSET L,
           NEW R, ResOK(L, R), NEW n \in Names, R[n] # NoSpec,
           R[n].path \in Paths, MapOf(K)[R[n].path] # NoSpec
    PROVE  ResolverOf(K)[n] # NoSpec /\ ResolverOf(K)[n].path = R[n].path
<1>1. PICK e \in L : IsFirst(L, n, e) /\ R[n].path = e.spec.path
  BY DEF ResOK
<1>2. PICK f \in K : f.spec.path = R[n].path
  BY DEF MapOf
<1>3. f = e
  BY <1>1, <1>2 DEF SliceOK
<1>4. IsFirst(K, n, e)
  BY <1>1, <1>2, <1>3 DEF IsFirst
<1>5. SliceOK(K, r) /\ K \in SUBSET Entry
  BY DEF SliceOK
<1>6. (CHOOSE g \in K : IsFirst(K, n, g)) = e
  <2>1. e \in K /\ IsFirst(K, n, CHOOSE g \in K : IsFirst(K, n, g))
    BY <1>2, <1>3, <1>4
  <2> HIDE DEF IsFirst
  <2> QED
    BY <1>4, <1>5, <2>1, FirstUnique
<1>7. \E g \in K : n \in LookupNames(g.spec.path)
  BY <1>4 DEF IsFirst
<1>8. ResolverOf(K)[n] = e.spec
  BY <1>6, <1>7 DEF ResolverOf
<1> QED
  BY <1>1, <1>8, SentinelAssumption DEF Entry

LEMMA StepKeepsMeaning ==
    ASSUME IndexInv, [Next]_vars, NEW j \in Instances, NEW h \in Kinds, NEW n \in Names
    PROVE  KeepsMeaning(j, h, n)
<1>1. IndexOK /\ TypeOK /\ MemTypeOK
  BY DEF IndexInv, TypeInv, TypeOK, MemTypeOK
<1>2. ASSUME UNCHANGED res PROVE KeepsMeaning(j, h, n)
  BY <1>2 DEF KeepsMeaning
<1>3. ASSUME NEW i \in Instances, NEW k \in Kinds, NEW s \in ObjectSpec, AddSpec(i, k, s)
      PROVE  KeepsMeaning(j, h, n)
  <2>1. CASE Replace(i, k, s)
    BY <1>2, <2>1 DEF Replace
  <2>2. CASE Register(i, k, s)
    BY <1>1, <2>2 DEF Register, FillFree, KeepsMeaning, MemTypeOK
  <2> QED
    BY <1>3, <2>1, <2>2 DEF AddSpec
<1>4. ASSUME NEW i \in Instances, SyncLoad(i) PROVE KeepsMeaning(j, h, n)
  <2>1. PICK r \in op[i].todo : AddSpec(i, r.kind, r.spec)
    BY <1>4 DEF SyncLoad
  <2>2. r.kind \in Kinds /\ r.spec \in ObjectSpec
    BY <1>4, <2>1 DEF SyncLoad, Sync, Row
  <2> QED
    BY <1>3, <2>1, <2>2
<1>5. ASSUME NEW i \in Instances, NEW k \in Kinds, NEW s \in ObjectSpec, AddNew(i, k, s)
      PROVE  KeepsMeaning(j, h, n)
  BY <1>3, <1>5 DEF AddNew
<1>6. ASSUME NEW i \in Instances, NEW k \in Kinds, NEW p \in Paths, Delete(i, k, p)
      PROVE  KeepsMeaning(j, h, n)
  <2> DEFINE K == [list[i] EXCEPT ![k] = Without(@, p)]
  <2>1. ResetCatalog(i, K)
    BY <1>6 DEF Delete
  <2>2. CASE j # i
    BY <1>1, <2>1, <2>2 DEF ResetCatalog, KeepsMeaning, MemTypeOK
  <2>3. CASE j = i
    <3>1. map'[j][h] = MapOf(K[h]) /\ res'[j][h] = ResolverOf(K[h])
      BY <1>1, <2>1, <2>3 DEF ResetCatalog, MemTypeOK
    <3>2. K[h] \in SUBSET list[j][h]
      BY <1>1, <2>3 DEF Without, MemTypeOK
    <3>3. /\ list[j][h] \in SUBSET Entry
          /\ SliceOK(list[j][h], regs[j]) /\ ResOK(list[j][h], res[j][h])
      BY <1>1 DEF MemTypeOK, IndexOK
    <3>4. res[j][h][n] # NoSpec => res[j][h][n].path \in Paths
      BY <1>1 DEF MemTypeOK, ObjectSpec
    <3> DEFINE H == K[h]
               R == res[j][h]
    <3>5. ASSUME R[n] # NoSpec, MapOf(H)[R[n].path] # NoSpec
          PROVE  ResolverOf(H)[n] # NoSpec /\ ResolverOf(H)[n].path = R[n].path
      <4>1. R[n].path \in Paths
        BY <3>4, <3>5
      <4> HIDE DEF K, H, R
      <4> QED
        BY <3>2, <3>3, <3>5, <4>1, RebuildKeeps DEF H, R
    <3> HIDE DEF K
    <3> QED
      BY <3>1, <3>5 DEF KeepsMeaning
  <2> QED
    BY <2>2, <2>3
<1>7. ASSUME NEW i \in Instances, Restart(i) PROVE KeepsMeaning(j, h, n)
  <2>1. CASE j # i
    BY <1>1, <1>7, <2>1 DEF Restart, KeepsMeaning, MemTypeOK
  <2>2. CASE j = i
    <3>1. map'[j][h] = [p \in Paths |-> NoSpec]
      BY <1>1, <1>7, <2>2 DEF Restart, MemTypeOK
    <3>2. res[j][h][n] # NoSpec => res[j][h][n].path \in Paths
      BY <1>1 DEF MemTypeOK, ObjectSpec
    <3> QED
      BY <3>1, <3>2 DEF KeepsMeaning
  <2> QED
    BY <2>1, <2>2
<1>8. ASSUME NEW i \in Instances,
             \/ SyncStart(i) \/ SyncEnd(i) \/ SaveRow(i) \/ SaveFail(i)
             \/ DropRow(i) \/ DropFail(i) \/ Begin(i)
      PROVE  UNCHANGED res
  BY <1>8 DEF SyncStart, SyncEnd, SaveRow, SaveFail, DropRow, DropFail, Begin, memVars
<1>9. ASSUME Commit \/ Rollback \/ Tick \/ UNCHANGED vars PROVE UNCHANGED res
  BY <1>9 DEF Commit, Rollback, Tick, vars, memVars
<1> QED
  BY <1>2, <1>4, <1>5, <1>6, <1>7, <1>8, <1>9 DEF Next

\* No step redirects a lookup name whose object survives the step: neither a
\* CREATE, nor a reload, nor the rebuild that follows the DROP of another
\* object (catalog.go:2133-2211).
THEOREM MeaningKept == Spec => NamesKeepMeaning
<1>1. IndexInv /\ [Next]_vars =>
        [\A i \in Instances, k \in Kinds, n \in Names :
            /\ res[i][k][n] # NoSpec
            /\ map'[i][k][res[i][k][n].path] # NoSpec
            => /\ res'[i][k][n] # NoSpec
               /\ res'[i][k][n].path = res[i][k][n].path]_vars
  BY StepKeepsMeaning DEF KeepsMeaning
<1> QED
  BY <1>1, IndexAlways, PTL DEF Spec, NamesKeepMeaning

-----------------------------------------------------------------------------
(* What an instance knows of the rows.                                     *)

OneInstance == \A i, j \in Instances : i = j

\* No rollback, no Sync cut short, no DELETE that fails.
Steady == Environment \cap {"rollback", "cancel", "dropFail"} = {}

HasSpec(i, k, p) == map[i][k][p] # NoSpec
Dropping(i, p) == op[i] \in Drop /\ op[i].path = p
Listed(i, k, p) == \E q \in op[i].todo : q.kind = k /\ q.spec.path = p

\* The next Sync reads row r of p, or the one under way has it yet to load.
Late(i, r, p) ==
    /\ r.at >= synced[i]
    /\ op[i] \in Sync => r.at >= op[i].at \/ Listed(i, r.kind, p)

Safe(i, r, p) == r = NoRow \/ HasSpec(i, r.kind, p) \/ Dropping(i, p)

\* An open transaction holds a row that the instance does not know only where
\* it found it: a Sync outside the transaction reads that one.
RowOK(i, p) ==
    /\ tx = NoTx => Safe(i, rows[p], p) \/ Late(i, rows[p], p)
    /\ tx # NoTx =>
          \/ Safe(i, tx.rows[p], p)
          \/ /\ Late(i, tx.rows[p], p)
             /\ rows[p] # NoRow /\ rows[p].kind = tx.rows[p].kind /\ Late(i, rows[p], p)

PathOK(p) ==
    /\ rows[p] # NoRow => rows[p].spec.path = p
    /\ tx # NoTx /\ tx.rows[p] # NoRow => tx.rows[p].spec.path = p

StampOK(i) ==
    /\ synced[i] <= now
    /\ op[i] \in Save => op[i].at >= synced[i] /\ HasSpec(i, op[i].kind, op[i].spec.path)
    /\ op[i] \in Sync => op[i].at <= now

PathsOK == \A p \in Paths : PathOK(p)
InstOK(i) == StampOK(i) /\ \A p \in Paths : RowOK(i, p)

KnownInv == IndexInv /\ PathsOK /\ \A i \in Instances : InstOK(i)

\* What holds c.mu is one thing.
LEMMA OpIs ==
    ASSUME NEW o
    PROVE  /\ o \in Sync => o \notin Save /\ o \notin Drop /\ o # Idle /\ o.at \in Nat /\ o.todo \subseteq Row
           /\ o \in Save => o \notin Drop /\ o # Idle
           /\ o \in Drop => o # Idle
BY SentinelAssumption DEF Save, Drop, Sync

LEMMA RowIs ==
    ASSUME NEW r \in Row
    PROVE  r # NoRow /\ r.kind \in Kinds /\ r.spec \in ObjectSpec /\ r.spec.path \in Paths /\ r.at \in Nat
BY SentinelAssumption DEF Row, ObjectSpec

\* The rows of an instance's view are rows, in or outside a transaction.
LEMMA RowsAre ==
    ASSUME TypeOK, NEW p \in Paths
    PROVE  rows[p] \in Row \cup {NoRow} /\ (tx # NoTx => tx.rows[p] \in Row \cup {NoRow})
BY DEF TypeOK, Tx

LEMMA AddSpecKnown ==
    ASSUME MemTypeOK, NEW i \in Instances, NEW k \in Kinds, NEW s \in ObjectSpec, AddSpec(i, k, s)
    PROVE  /\ \A p : p = s.path => HasSpec(i, k, p)'
           /\ \A h \in Kinds, p \in Paths : HasSpec(i, h, p) => HasSpec(i, h, p)'
<1>1. map' = [map EXCEPT ![i][k][s.path] = s]
  BY DEF AddSpec, Replace, Register
<1>2. s.path \in Paths /\ s # NoSpec
  BY SentinelAssumption DEF ObjectSpec
<1>3. ASSUME NEW h \in Kinds, NEW p \in Paths
      PROVE  map'[i][h][p] = IF h = k /\ p = s.path THEN s ELSE map[i][h][p]
  BY <1>1, <1>2 DEF MemTypeOK
<1>4. \A h \in Kinds, p \in Paths : HasSpec(i, h, p) => HasSpec(i, h, p)'
  BY <1>2, <1>3 DEF HasSpec
<1>5. \A p : p = s.path => HasSpec(i, k, p)'
  BY <1>2, <1>3 DEF HasSpec
<1> QED
  BY <1>4, <1>5

LEMMA DeleteKnown ==
    ASSUME MemTypeOK, IndexOK, IndexOK', NEW i \in Instances, NEW k \in Kinds, NEW p \in Paths,
           ResetCatalog(i, [list[i] EXCEPT ![k] = Without(@, p)]),
           NEW h \in Kinds, NEW q \in Paths, HasSpec(i, h, q), h # k \/ q # p
    PROVE  HasSpec(i, h, q)'
<1>1. PICK e \in list[i][h] : e.spec.path = q
  BY DEF IndexOK, MapOK, HasSpec
<1>2. list'[i][h] = IF h = k THEN Without(list[i][h], p) ELSE list[i][h]
  BY DEF ResetCatalog, MemTypeOK
<1>3. e \in list'[i][h]
  BY <1>1, <1>2 DEF Without
<1> QED
  BY <1>1, <1>3 DEF IndexOK, MapOK, HasSpec

\* The rows stay, and the instance forgets only what it drops.
LEMMA RowKept ==
    ASSUME TypeOK, NEW i \in Instances, NEW p \in Paths, RowOK(i, p), UNCHANGED <<rows, tx>>,
           synced'[i] = synced[i],
           Dropping(i, p) => Dropping(i, p)',
           \A k \in Kinds : HasSpec(i, k, p) => HasSpec(i, k, p)' \/ Dropping(i, p)',
           op'[i] \in Sync =>
              /\ op[i] \in Sync /\ op'[i].at = op[i].at
              /\ \A k \in Kinds : Listed(i, k, p) => Listed(i, k, p)' \/ HasSpec(i, k, p)'
    PROVE  RowOK(i, p)'
<1>1. ASSUME NEW r \in Row \cup {NoRow}, Safe(i, r, p) PROVE Safe(i, r, p)'
  BY <1>1, RowIs DEF Safe
<1>2. ASSUME NEW r \in Row \cup {NoRow}, r # NoRow, Late(i, r, p) PROVE Late(i, r, p)' \/ HasSpec(i, r.kind, p)'
  BY <1>2, RowIs DEF Late
<1>3. rows[p] \in Row \cup {NoRow} /\ (tx # NoTx => tx.rows[p] \in Row \cup {NoRow})
  BY RowsAre
<1>4. CASE tx = NoTx
  <2>1. Safe(i, rows[p], p)' \/ Late(i, rows[p], p)'
    <3>1. PICK r \in Row \cup {NoRow} : r = rows[p]
      BY <1>3
    <3>2. Safe(i, r, p)' \/ Late(i, r, p)'
      BY <1>1, <1>2, <1>4, <3>1 DEF RowOK, Safe
    <3> QED
      BY <3>1, <3>2 DEF Safe, Late
  <2> QED
    BY <1>4, <2>1 DEF RowOK
<1>5. CASE tx # NoTx
  <2>1. PICK r \in Row \cup {NoRow}, c \in Row \cup {NoRow} : r = tx.rows[p] /\ c = rows[p]
    BY <1>3, <1>5
  <2>2. Safe(i, r, p) \/ (Late(i, r, p) /\ c # NoRow /\ c.kind = r.kind /\ Late(i, c, p))
    BY <1>5, <2>1 DEF RowOK
  <2>3. Safe(i, r, p)' \/ (Late(i, r, p)' /\ c # NoRow /\ c.kind = r.kind /\ Late(i, c, p)')
    BY <1>1, <1>2, <2>2 DEF Safe
  <2> QED
    BY <1>5, <2>1, <2>3 DEF RowOK, Safe, Late
<1> QED
  BY <1>4, <1>5

LEMMA PathSame ==
    ASSUME PathsOK, UNCHANGED <<rows, tx>>
    PROVE  PathsOK'
BY DEF PathsOK, PathOK

\* Catalog.Sync reads the rows: those of the transaction or the committed ones.
LEMMA SyncStartKnown ==
    ASSUME TypeInv, PathsOK, NEW i \in Instances, InstOK(i), SyncStart(i)
    PROVE  PathsOK' /\ InstOK(i)'
<1>t. TypeOK /\ synced[i] \in Nat /\ now \in Nat
  BY DEF TypeInv, TypeOK
<1>0. PICK inTx \in {FALSE} \cup (IF InTx(i) THEN {TRUE} ELSE {}) :
        op' = [op EXCEPT ![i] =
                    [do |-> "sync", at |-> now,
                     todo |-> {Visible(inTx)[p] : p \in {q \in Paths : /\ Visible(inTx)[q] # NoRow
                                                                       /\ Visible(inTx)[q].at >= synced[i]}}]]
  BY DEF SyncStart
<1>1. inTx \in BOOLEAN /\ (inTx => tx # NoTx)
  BY DEF InTx
<1> DEFINE seen == Visible(inTx)
<1>2. UNCHANGED <<map, synced, rows, tx, now>> /\ op[i] = Idle
  BY DEF SyncStart, memVars
<1>3. /\ op'[i].at = now
      /\ \A p \in Paths : seen[p] # NoRow /\ seen[p].at >= synced[i] => seen[p] \in op'[i].todo
  BY <1>t, <1>0 DEF TypeOK
<1>4. seen = IF inTx THEN tx.rows ELSE rows
  BY DEF Visible
<1> HIDE DEF seen
<1>5. op'[i].do = "sync"
  BY <1>t, <1>0 DEF TypeOK
<1>6. op'[i] \notin Save /\ op'[i] \notin Drop /\ op[i] \notin Sync /\ op[i] \notin Drop
  BY <1>2, <1>5, OpIs DEF Save, Drop
<1>7. StampOK(i)'
  BY <1>t, <1>2, <1>3, <1>6 DEF StampOK, InstOK
<1>8. ASSUME NEW p \in Paths, seen[p] # NoRow, seen[p].at >= synced[i], NEW k, k = seen[p].kind
      PROVE  Listed(i, k, p)'
  <2>1. seen[p] \in op'[i].todo
    BY <1>3, <1>8
  <2>2. seen[p].spec.path = p
    BY <1>1, <1>4, <1>8 DEF PathsOK, PathOK
  <2> QED
    BY <1>8, <2>1, <2>2 DEF Listed
<1>9. ASSUME NEW p \in Paths PROVE RowOK(i, p)'
  <2>t. rows[p] \in Row \cup {NoRow} /\ (tx # NoTx => tx.rows[p] \in Row \cup {NoRow})
    BY <1>t, RowsAre
  <2>1. ASSUME NEW r \in Row \cup {NoRow}, Safe(i, r, p) PROVE Safe(i, r, p)'
    BY <1>2, <1>6, <2>1 DEF Safe, Dropping, HasSpec
  <2>2. CASE tx = NoTx
    <3>1. PICK r \in Row \cup {NoRow} : r = rows[p]
      BY <2>t
    <3>2. CASE Safe(i, r, p)
      BY <1>2, <2>1, <2>2, <3>1, <3>2 DEF RowOK, Safe
    <3>3. CASE ~Safe(i, r, p)
      <4>1. r.at >= synced[i] /\ r # NoRow
        BY <2>2, <3>1, <3>3 DEF InstOK, RowOK, Late, Safe
      <4>2. seen[p] = r
        BY <1>1, <1>4, <2>2, <3>1
      <4>3. Listed(i, r.kind, p)'
        BY <1>8, <4>1, <4>2
      <4>4. Late(i, r, p)'
        BY <1>2, <4>1, <4>3 DEF Late
      <4> QED
        BY <1>2, <2>2, <3>1, <4>4 DEF RowOK, Late
    <3> QED
      BY <3>2, <3>3
  <2>3. CASE tx # NoTx
    <3>1. PICK r \in Row \cup {NoRow}, c \in Row \cup {NoRow} : r = tx.rows[p] /\ c = rows[p]
      BY <2>t, <2>3
    <3>2. CASE Safe(i, r, p)
      BY <1>2, <2>1, <2>3, <3>1, <3>2 DEF RowOK, Safe
    <3>3. CASE ~Safe(i, r, p)
      <4>1. r.at >= synced[i] /\ r # NoRow /\ c # NoRow /\ c.kind = r.kind /\ c.at >= synced[i]
        BY <2>3, <3>1, <3>3 DEF InstOK, RowOK, Late, Safe
      <4>2. seen[p] \in {r, c}
        BY <1>4, <3>1
      <4>3. Listed(i, r.kind, p)' /\ Listed(i, c.kind, p)'
        BY <1>8, <4>1, <4>2
      <4>4. Late(i, r, p)' /\ Late(i, c, p)'
        BY <1>2, <4>1, <4>3 DEF Late
      <4> QED
        BY <1>2, <2>3, <3>1, <4>1, <4>4 DEF RowOK, Late
    <3> QED
      BY <3>2, <3>3
  <2> QED
    BY <2>2, <2>3
<1> QED
  BY <1>2, <1>7, <1>9, PathSame DEF InstOK

LEMMA SyncLoadKnown ==
    ASSUME TypeInv, PathsOK, NEW i \in Instances, InstOK(i), SyncLoad(i)
    PROVE  PathsOK' /\ InstOK(i)'
<1>t. TypeOK /\ MemTypeOK
  BY DEF TypeInv, TypeOK, MemTypeOK
<1>1. PICK r \in op[i].todo : AddSpec(i, r.kind, r.spec) /\ op' = [op EXCEPT ![i].todo = @ \ {r}]
  BY DEF SyncLoad
<1>2. op[i] \in Sync /\ UNCHANGED <<synced, rows, tx, now>>
  BY DEF SyncLoad
<1>3. r.kind \in Kinds /\ r.spec \in ObjectSpec
  BY <1>1, <1>2, OpIs, RowIs
<1>4. op'[i].at = op[i].at /\ op'[i].todo = op[i].todo \ {r} /\ op'[i].do = "sync"
  BY <1>t, <1>1, <1>2 DEF TypeOK, Sync
<1>5. op'[i] \notin Save /\ op'[i] \notin Drop /\ op[i] \notin Drop
  BY <1>2, <1>4, OpIs DEF Save, Drop
<1>6. /\ \A p : p = r.spec.path => HasSpec(i, r.kind, p)'
      /\ \A h \in Kinds, p \in Paths : HasSpec(i, h, p) => HasSpec(i, h, p)'
  <2>1. PICK k \in Kinds, s \in ObjectSpec : k = r.kind /\ s = r.spec
    BY <1>3
  <2>2. /\ \A p : p = s.path => HasSpec(i, k, p)'
        /\ \A h \in Kinds, p \in Paths : HasSpec(i, h, p) => HasSpec(i, h, p)'
    BY <1>t, <1>1, <2>1, AddSpecKnown
  <2> QED
    BY <2>1, <2>2
<1>7. ASSUME NEW k \in Kinds, NEW p \in Paths, Listed(i, k, p) PROVE Listed(i, k, p)' \/ HasSpec(i, k, p)'
  BY <1>4, <1>6, <1>7 DEF Listed
<1>8. ASSUME NEW p \in Paths PROVE RowOK(i, p)'
  BY <1>t, <1>2, <1>4, <1>5, <1>6, <1>7, RowKept DEF InstOK, Dropping
<1>9. StampOK(i)'
  BY <1>2, <1>4, <1>5 DEF InstOK, StampOK
<1> QED
  BY <1>2, <1>8, <1>9, PathSame DEF InstOK

LEMMA SyncEndKnown ==
    ASSUME Steady, TypeInv, PathsOK, NEW i \in Instances, InstOK(i), SyncEnd(i)
    PROVE  PathsOK' /\ InstOK(i)'
<1>t. TypeOK
  BY DEF TypeInv
<1>1. op[i] \in Sync /\ op[i].todo = {} /\ UNCHANGED <<map, rows, tx, now>>
  BY DEF SyncEnd, Steady, memVars
<1>2. synced'[i] = op[i].at /\ op'[i] = Idle
  BY <1>t DEF SyncEnd, TypeOK
<1>3. op'[i] \notin Save /\ op'[i] \notin Drop /\ op'[i] \notin Sync /\ op[i] \notin Drop
  BY <1>1, <1>2, OpIs
<1>4. StampOK(i)'
  BY <1>1, <1>2, <1>3 DEF InstOK, StampOK
<1>5. ASSUME NEW p \in Paths PROVE RowOK(i, p)'
  <2>1. ASSUME NEW r, Safe(i, r, p) PROVE Safe(i, r, p)'
    BY <1>1, <1>3, <2>1 DEF Safe, Dropping, HasSpec
  <2>2. ASSUME NEW r, Late(i, r, p) PROVE Late(i, r, p)'
    BY <1>1, <1>2, <1>3, <2>2 DEF Late, Listed
  <2>3. PICK r, c : r = tx.rows[p] /\ c = rows[p]
    OBVIOUS
  <2>4. CASE tx = NoTx
    <3>1. Safe(i, c, p)' \/ Late(i, c, p)'
      BY <2>1, <2>2, <2>3, <2>4 DEF InstOK, RowOK
    <3> QED
      BY <1>1, <2>3, <2>4, <3>1 DEF RowOK, Safe, Late
  <2>5. CASE tx # NoTx
    <3>1. Safe(i, r, p)' \/ (Late(i, r, p)' /\ c # NoRow /\ c.kind = r.kind /\ Late(i, c, p)')
      BY <2>1, <2>2, <2>3, <2>5 DEF InstOK, RowOK
    <3> QED
      BY <1>1, <2>3, <2>5, <3>1 DEF RowOK, Safe, Late
  <2> QED
    BY <2>4, <2>5
<1> QED
  BY <1>1, <1>4, <1>5, PathSame DEF InstOK

LEMMA AddNewKnown ==
    ASSUME TypeInv, PathsOK, NEW i \in Instances, NEW k \in Kinds, NEW s \in ObjectSpec, InstOK(i), AddNew(i, k, s)
    PROVE  PathsOK' /\ InstOK(i)'
<1>t. TypeOK /\ MemTypeOK /\ now \in Nat /\ synced[i] \in Nat
  BY DEF TypeInv, TypeOK, MemTypeOK
<1>1. AddSpec(i, k, s) /\ op[i] = Idle /\ UNCHANGED <<synced, rows, tx, now>>
  BY DEF AddNew
<1>2. \/ op'[i] = Idle
      \/ op'[i].do = "save" /\ op'[i].kind = k /\ op'[i].spec = s /\ op'[i].at = now
  <2>1. PICK inTx : op' = [op EXCEPT ![i] =
                    IF s.temp THEN Idle
                    ELSE [do |-> "save", kind |-> k, spec |-> s, at |-> now, inTx |-> inTx]]
    BY DEF AddNew
  <2>2. op'[i] = IF s.temp THEN Idle
                 ELSE [do |-> "save", kind |-> k, spec |-> s, at |-> now, inTx |-> inTx]
    BY <1>t, <2>1 DEF TypeOK
  <2> QED
    BY <2>2
<1>3. op'[i] \notin Drop /\ op'[i] \notin Sync /\ op[i] \notin Drop
  BY <1>1, <1>2, OpIs DEF Sync, Drop
<1>4. /\ \A p : p = s.path => HasSpec(i, k, p)'
      /\ \A h \in Kinds, p \in Paths : HasSpec(i, h, p) => HasSpec(i, h, p)'
  BY <1>t, <1>1, AddSpecKnown
<1>5. ASSUME NEW p \in Paths PROVE RowOK(i, p)'
  BY <1>t, <1>1, <1>3, <1>4, RowKept DEF InstOK, Dropping
<1>6. StampOK(i)'
  <2>1. synced'[i] <= now'
    BY <1>1 DEF InstOK, StampOK
  <2>2. ASSUME op'[i] \in Save PROVE op'[i].at >= synced'[i] /\ HasSpec(i, op[i].kind, op[i].spec.path)'
    <3>1. op'[i].kind = k /\ op'[i].spec.path = s.path /\ op'[i].at = now
      BY <1>2, <2>2, OpIs
    <3>2. map'[i][k][s.path] # NoSpec
      BY <1>4 DEF HasSpec
    <3> QED
      BY <1>t, <1>1, <2>1, <3>1, <3>2 DEF HasSpec
  <2> QED
    BY <1>3, <2>1, <2>2 DEF StampOK
<1> QED
  BY <1>1, <1>5, <1>6, PathSame DEF InstOK

LEMMA DeleteRowKnown ==
    ASSUME IndexInv, IndexOK', PathsOK, NEW i \in Instances, NEW k \in Kinds, NEW q \in Paths, InstOK(i), Delete(i, k, q)
    PROVE  PathsOK' /\ InstOK(i)'
<1>t. TypeOK /\ MemTypeOK /\ IndexOK
  BY DEF IndexInv, TypeInv, TypeOK, MemTypeOK
<1>1. /\ op[i] = Idle /\ UNCHANGED <<synced, rows, tx, now>>
      /\ ResetCatalog(i, [list[i] EXCEPT ![k] = Without(@, q)])
  BY DEF Delete
<1>2. op'[i] \in Drop /\ op'[i].path = q
  <2>1. PICK inTx \in BOOLEAN : op' = [op EXCEPT ![i] = [do |-> "drop", path |-> q, inTx |-> inTx]]
    BY DEF Delete
  <2>2. op'[i] = [do |-> "drop", path |-> q, inTx |-> inTx]
    BY <1>t, <2>1 DEF TypeOK
  <2> QED
    BY <2>2 DEF Drop
<1>3. op'[i] \notin Save /\ op'[i] \notin Sync /\ op[i] \notin Drop
  BY <1>1, <1>2, OpIs
<1>4. ASSUME NEW h \in Kinds, NEW p \in Paths, HasSpec(i, h, p) PROVE HasSpec(i, h, p)' \/ Dropping(i, p)'
  BY <1>t, <1>1, <1>2, <1>4, DeleteKnown DEF Dropping
<1>5. ASSUME NEW p \in Paths PROVE RowOK(i, p)'
  BY <1>t, <1>1, <1>3, <1>4, RowKept DEF InstOK, Dropping
<1>6. StampOK(i)'
  BY <1>1, <1>3 DEF InstOK, StampOK
<1> QED
  BY <1>1, <1>5, <1>6, PathSame DEF InstOK

LEMMA WriteIs ==
    ASSUME TypeOK, NEW inTx \in BOOLEAN, inTx => tx # NoTx, NEW p \in Paths, NEW r \in Row \cup {NoRow},
           Write(inTx, p, r)
    PROVE  \/ /\ inTx /\ tx # NoTx /\ tx' # NoTx /\ rows' = rows
              /\ \A q \in Paths : tx'.rows[q] = IF q = p THEN r ELSE tx.rows[q]
           \/ /\ ~inTx /\ tx = NoTx /\ tx' = NoTx
              /\ \A q \in Paths : rows'[q] = IF q = p THEN r ELSE rows[q]
<1>1. CASE inTx
  <2>1. tx \in Tx
    BY <1>1 DEF TypeOK
  <2>2. tx' = [tx EXCEPT !.rows[p] = r] /\ rows' = rows
    BY <1>1 DEF Write
  <2>3. tx' # NoTx
    BY <1>1, WriteType
  <2>4. \A q \in Paths : tx'.rows[q] = IF q = p THEN r ELSE tx.rows[q]
    BY <2>1, <2>2 DEF Tx
  <2> QED
    BY <1>1, <2>2, <2>3, <2>4
<1>2. CASE ~inTx
  <2>1. tx = NoTx /\ tx' = tx /\ rows' = [rows EXCEPT ![p] = r]
    BY <1>2 DEF Write
  <2>2. \A q \in Paths : rows'[q] = IF q = p THEN r ELSE rows[q]
    BY <2>1 DEF TypeOK
  <2> QED
    BY <1>2, <2>1, <2>2
<1> QED
  BY <1>1, <1>2

\* A write of another row.
LEMMA RowBeside ==
    ASSUME NEW i \in Instances, NEW q \in Paths, RowOK(i, q), UNCHANGED <<map, synced>>,
           rows'[q] = rows[q], tx # NoTx <=> tx' # NoTx, tx # NoTx => tx'.rows[q] = tx.rows[q],
           ~Dropping(i, q), op'[i] \notin Sync
    PROVE  RowOK(i, q)'
<1>1. ASSUME NEW r, Safe(i, r, q) PROVE Safe(i, r, q)'
  BY <1>1 DEF Safe, HasSpec
<1>2. ASSUME NEW r, Late(i, r, q) PROVE Late(i, r, q)'
  BY <1>2 DEF Late
<1>3. PICK r, c : r = tx.rows[q] /\ c = rows[q]
  OBVIOUS
<1>4. CASE tx = NoTx
  <2>1. Safe(i, c, q)' \/ Late(i, c, q)'
    BY <1>1, <1>2, <1>3, <1>4 DEF RowOK
  <2> QED
    BY <1>3, <1>4, <2>1 DEF RowOK, Safe, Late
<1>5. CASE tx # NoTx
  <2>1. Safe(i, r, q)' \/ (Late(i, r, q)' /\ c # NoRow /\ c.kind = r.kind /\ Late(i, c, q)')
    BY <1>1, <1>2, <1>3, <1>5 DEF RowOK
  <2> QED
    BY <1>3, <1>5, <2>1 DEF RowOK, Safe, Late
<1> QED
  BY <1>4, <1>5

LEMMA SaveRowKnown ==
    ASSUME TypeInv, PathsOK, NEW i \in Instances, InstOK(i), SaveRow(i)
    PROVE  PathsOK' /\ InstOK(i)'
<1>t. TypeOK /\ synced[i] \in Nat
  BY DEF TypeInv, TypeOK
<1> DEFINE p == op[i].spec.path
           old == Visible(op[i].inTx)[p]
           new == Upsert(old, op[i].kind, op[i].spec, op[i].at)
<1>1. op[i] \in Save /\ Write(op[i].inTx, p, new) /\ UNCHANGED <<map, synced, now>>
  BY DEF SaveRow, memVars
<1>2. op'[i] = Idle
  BY <1>t DEF SaveRow, TypeOK
<1>3. op'[i] \notin Save /\ op'[i] \notin Drop /\ op'[i] \notin Sync /\ op[i] \notin Drop /\ op[i] \notin Sync
  BY <1>1, <1>2, OpIs
<1>4. /\ op[i].kind \in Kinds /\ op[i].spec \in ObjectSpec /\ p \in Paths /\ op[i].at \in Nat
      /\ op[i].inTx \in BOOLEAN
  BY <1>1 DEF Save, ObjectSpec
<1>5. op[i].inTx => tx # NoTx
  BY <1>1 DEF TypeInv, TxOwner, InTx
<1>6. old = (IF op[i].inTx THEN tx.rows[p] ELSE rows[p]) /\ old \in Row \cup {NoRow}
  BY <1>t, <1>4, <1>5, RowsAre DEF Visible
<1>7. /\ new \in Row /\ new # NoRow /\ new.spec.path = p /\ new.at = op[i].at
      /\ new.kind = IF old = NoRow THEN op[i].kind ELSE old.kind
  <2>1. new = [kind |-> IF old = NoRow THEN op[i].kind ELSE old.kind, spec |-> op[i].spec, at |-> op[i].at]
    BY DEF Upsert
  <2>2. (IF old = NoRow THEN op[i].kind ELSE old.kind) \in Kinds
    BY <1>4, <1>6, RowIs
  <2>3. new \in Row
    BY <1>4, <2>1, <2>2 DEF Row
  <2> QED
    BY <2>1, <2>3, RowIs
<1>8. op[i].at >= synced[i] /\ HasSpec(i, op[i].kind, p)
  BY <1>1 DEF InstOK, StampOK
<1> HIDE DEF p, old, new
<1>9. \/ /\ op[i].inTx /\ tx # NoTx /\ tx' # NoTx /\ rows' = rows
         /\ \A q \in Paths : tx'.rows[q] = IF q = p THEN new ELSE tx.rows[q]
      \/ /\ ~op[i].inTx /\ tx = NoTx /\ tx' = NoTx
         /\ \A q \in Paths : rows'[q] = IF q = p THEN new ELSE rows[q]
  BY <1>t, <1>1, <1>4, <1>5, <1>7, WriteIs
<1>10. PathsOK'
  <2> SUFFICES ASSUME NEW q \in Paths PROVE PathOK(q)'
    BY DEF PathsOK
  <2>1. PathOK(q)
    BY DEF PathsOK
  <2> QED
    BY <1>7, <1>9, <2>1 DEF PathOK
<1>11. StampOK(i)'
  BY <1>1, <1>3 DEF InstOK, StampOK
<1>12. ASSUME NEW q \in Paths PROVE RowOK(i, q)'
  <2>1. CASE q # p
    BY <1>1, <1>3, <1>9, <2>1, RowBeside DEF InstOK, Dropping
  <2>2. CASE q = p
    <3>2. CASE ~op[i].inTx
      BY <1>3, <1>9, <1>1, <1>7, <1>8, <2>2, <3>2 DEF RowOK, Late
    <3>3. CASE op[i].inTx
      <4>1. tx # NoTx /\ tx' # NoTx /\ rows' = rows /\ tx'.rows[q] = new /\ old = tx.rows[q]
        BY <1>6, <1>9, <2>2, <3>3
      <4>2. CASE old = NoRow
        <5>1. HasSpec(i, new.kind, q)
          BY <1>7, <1>8, <2>2, <4>2
        <5>2. Safe(i, tx.rows[q], q)'
          BY <1>1, <4>1, <5>1 DEF Safe, HasSpec
        <5> QED
          BY <4>1, <5>2 DEF RowOK
      <4>3. CASE old # NoRow
        <5>1. CASE HasSpec(i, old.kind, q)
          <6>1. HasSpec(i, new.kind, q)
            BY <1>7, <4>3, <5>1
          <6>2. Safe(i, tx.rows[q], q)'
            BY <1>1, <4>1, <6>1 DEF Safe, HasSpec
          <6> QED
            BY <4>1, <6>2 DEF RowOK
        <5>2. CASE ~HasSpec(i, old.kind, q)
          <6>1. rows[q] # NoRow /\ rows[q].kind = old.kind /\ rows[q].at >= synced[i]
            BY <1>3, <4>1, <4>3, <5>2 DEF InstOK, RowOK, Safe, Dropping, Late
          <6>2. Late(i, tx.rows[q], q)' /\ Late(i, rows[q], q)'
            BY <1>1, <1>3, <1>7, <1>8, <4>1, <6>1 DEF Late
          <6> QED
            BY <1>7, <4>1, <4>3, <6>1, <6>2 DEF RowOK
        <5> QED
          BY <5>1, <5>2
      <4> QED
        BY <4>2, <4>3
    <3> QED
      BY <3>2, <3>3
  <2> QED
    BY <2>1, <2>2
<1> QED
  BY <1>10, <1>11, <1>12 DEF InstOK

LEMMA DropRowKnown ==
    ASSUME TypeInv, PathsOK, NEW i \in Instances, InstOK(i), DropRow(i)
    PROVE  PathsOK' /\ InstOK(i)'
<1>t. TypeOK
  BY DEF TypeInv
<1> DEFINE p == op[i].path
<1>1. op[i] \in Drop /\ Write(op[i].inTx, p, NoRow) /\ UNCHANGED <<map, synced, now>>
  BY DEF DropRow, memVars
<1>2. op'[i] = Idle
  BY <1>t DEF DropRow, TypeOK
<1>3. op'[i] \notin Save /\ op'[i] \notin Drop /\ op'[i] \notin Sync
  BY <1>1, <1>2, OpIs
<1>4. p \in Paths /\ op[i].inTx \in BOOLEAN /\ (op[i].inTx => tx # NoTx)
  BY <1>1 DEF TypeInv, TxOwner, InTx, Drop
<1> HIDE DEF p
<1>5. \/ /\ op[i].inTx /\ tx # NoTx /\ tx' # NoTx /\ rows' = rows
         /\ \A q \in Paths : tx'.rows[q] = IF q = p THEN NoRow ELSE tx.rows[q]
      \/ /\ ~op[i].inTx /\ tx = NoTx /\ tx' = NoTx
         /\ \A q \in Paths : rows'[q] = IF q = p THEN NoRow ELSE rows[q]
  BY <1>t, <1>1, <1>4, WriteIs
<1>6. PathsOK'
  <2> SUFFICES ASSUME NEW q \in Paths PROVE PathOK(q)'
    BY DEF PathsOK
  <2>1. PathOK(q)
    BY DEF PathsOK
  <2> QED
    BY <1>5, <2>1 DEF PathOK
<1>7. StampOK(i)'
  BY <1>1, <1>3 DEF InstOK, StampOK
<1>8. ASSUME NEW q \in Paths PROVE RowOK(i, q)'
  <2>1. CASE q # p
    <3>1. ~Dropping(i, q)
      BY <2>1 DEF Dropping, p
    <3> QED
      BY <1>1, <1>3, <1>5, <2>1, <3>1, RowBeside DEF InstOK
  <2>2. CASE q = p
    BY <1>5, <2>2 DEF RowOK, Safe
  <2> QED
    BY <2>1, <2>2
<1> QED
  BY <1>6, <1>7, <1>8 DEF InstOK

\* The steps that leave the rows, or put them where they were seen.
LEMMA OtherKnown ==
    ASSUME OneInstance, Steady, TypeInv, PathsOK, NEW i \in Instances, InstOK(i),
           SaveFail(i) \/ DropFail(i) \/ Begin(i) \/ Restart(i) \/ Commit \/ Rollback \/ Tick \/ UNCHANGED vars
    PROVE  PathsOK' /\ InstOK(i)'
<1>t. TypeOK /\ synced[i] \in Nat /\ now \in Nat
  BY DEF TypeInv, TypeOK
<1>1. CASE SaveFail(i)
  <2>1. op[i] \in Save /\ UNCHANGED <<map, synced, rows, tx, now>> /\ op'[i] = Idle
    BY <1>t, <1>1 DEF SaveFail, memVars, TypeOK
  <2>2. op'[i] \notin Save /\ op'[i] \notin Drop /\ op'[i] \notin Sync /\ op[i] \notin Drop
    BY <2>1, OpIs
  <2>3. ASSUME NEW p \in Paths PROVE RowOK(i, p)'
    BY <1>t, <2>1, <2>2, RowKept DEF InstOK, Dropping, HasSpec
  <2>4. StampOK(i)'
    BY <2>1, <2>2 DEF InstOK, StampOK
  <2> QED
    BY <2>1, <2>3, <2>4, PathSame DEF InstOK
<1>2. CASE DropFail(i) \/ Rollback
  BY <1>2 DEF DropFail, Rollback, Steady
<1>3. CASE Begin(i)
  <2>1. tx = NoTx /\ tx' = [inst |-> i, rows |-> rows] /\ UNCHANGED <<map, synced, op, rows, now>>
    BY <1>3 DEF Begin, memVars
  <2>2. tx' # NoTx /\ tx'.rows = rows
    BY <1>t, <2>1, SentinelAssumption DEF TypeOK, Tx
  <2>3. PathsOK'
    BY <2>1, <2>2 DEF PathsOK, PathOK
  <2>4. StampOK(i)'
    BY <2>1 DEF InstOK, StampOK, HasSpec
  <2>5. ASSUME NEW p \in Paths PROVE RowOK(i, p)'
    <3>1. Safe(i, rows[p], p) \/ Late(i, rows[p], p)
      BY <2>1 DEF InstOK, RowOK
    <3>2. Safe(i, tx.rows[p], p)' \/ (rows[p] # NoRow /\ Late(i, tx.rows[p], p)' /\ Late(i, rows[p], p)')
      BY <2>1, <2>2, <3>1 DEF Safe, Late, HasSpec, Dropping, Listed
    <3> QED
      BY <2>1, <2>2, <3>2 DEF RowOK
  <2> QED
    BY <2>3, <2>4, <2>5 DEF InstOK
<1>4. CASE Commit
  <2>1. tx # NoTx /\ tx' = NoTx /\ rows' = tx.rows /\ UNCHANGED <<map, synced, op, now>>
    BY <1>4 DEF Commit, memVars
  <2>2. PathsOK'
    BY <2>1 DEF PathsOK, PathOK
  <2>3. StampOK(i)'
    BY <2>1 DEF InstOK, StampOK, HasSpec
  <2>4. ASSUME NEW p \in Paths PROVE RowOK(i, p)'
    <3>1. Safe(i, tx.rows[p], p) \/ Late(i, tx.rows[p], p)
      BY <2>1 DEF InstOK, RowOK
    <3>2. Safe(i, rows[p], p)' \/ Late(i, rows[p], p)'
      BY <2>1, <3>1 DEF Safe, Late, HasSpec, Dropping, Listed
    <3> QED
      BY <2>1, <3>2 DEF RowOK
  <2> QED
    BY <2>2, <2>3, <2>4 DEF InstOK
<1>5. CASE Restart(i)
  <2>1. rows' = rows /\ now' = now /\ synced'[i] = 0 /\ op'[i] = Idle
    BY <1>t, <1>5 DEF Restart, TypeOK
  <2>2. tx' = NoTx
    <3>1. tx # NoTx => tx.inst \in Instances
      BY <1>t DEF TypeOK, Tx
    <3>2. tx # NoTx => InTx(i)
      BY <3>1 DEF OneInstance, InTx
    <3> QED
      BY <1>5, <3>2 DEF Restart, InTx
  <2>3. op'[i] \notin Save /\ op'[i] \notin Sync
    BY <2>1, OpIs
  <2>4. PathsOK'
    BY <2>1, <2>2 DEF PathsOK, PathOK
  <2>5. StampOK(i)'
    BY <1>t, <2>1, <2>3 DEF StampOK
  <2>6. ASSUME NEW p \in Paths PROVE RowOK(i, p)'
    <3>1. rows[p] = NoRow \/ rows[p].at >= 0
      BY <1>t, RowsAre, RowIs
    <3>2. Safe(i, rows[p], p)' \/ Late(i, rows[p], p)'
      BY <2>1, <2>3, <3>1 DEF Safe, Late
    <3> QED
      BY <2>2, <3>2 DEF RowOK
  <2> QED
    BY <2>4, <2>5, <2>6 DEF InstOK
<1>6. CASE Tick \/ UNCHANGED vars
  <2>1. UNCHANGED <<map, synced, op, rows, tx>> /\ now' \in Nat /\ now' >= now
    BY <1>t, <1>6 DEF Tick, memVars, vars
  <2>2. ASSUME NEW p \in Paths PROVE RowOK(i, p)'
    BY <1>t, <2>1, RowKept DEF InstOK, Dropping, HasSpec, Listed
  <2>3. StampOK(i)'
    BY <1>t, <2>1, OpIs DEF InstOK, StampOK, HasSpec
  <2> QED
    BY <2>1, <2>2, <2>3, PathSame DEF InstOK
<1> QED
  BY <1>1, <1>2, <1>3, <1>4, <1>5, <1>6

\* One catalog on the file, whose transactions commit, whose Sync reads all
\* its rows and whose row deletions succeed, misses no row: what the shared
\* table holds it has loaded, or its next Sync will read, even where a CREATE
\* or a DROP of the transaction and a Sync outside it interleave, the save of a
\* row fails or the process starts anew (catalog.go:1916-1955).
THEOREM NoRowMissed == OneInstance /\ Steady => (Spec => []RowsKnown)
<1> SUFFICES ASSUME OneInstance, Steady PROVE Spec => []RowsKnown
  OBVIOUS
<1>1. Init => KnownInv
  <2> SUFFICES ASSUME Init PROVE KnownInv
    OBVIOUS
  <2>1. IndexInv
    BY TypeInit, IndexInit DEF IndexInv
  <2>2. PathsOK
    BY DEF Init, PathsOK, PathOK
  <2>3. ASSUME NEW i \in Instances PROVE InstOK(i)
    <3>1. op[i] = Idle /\ synced[i] = 0 /\ now = 1 /\ tx = NoTx /\ \A p \in Paths : rows[p] = NoRow
      BY DEF Init
    <3>2. op[i] \notin Save /\ op[i] \notin Sync
      BY <3>1, OpIs
    <3> QED
      BY <3>1, <3>2 DEF InstOK, StampOK, RowOK, Safe
  <2> QED
    BY <2>1, <2>2, <2>3 DEF KnownInv
<1>2. KnownInv /\ [Next]_vars => KnownInv'
  <2> SUFFICES ASSUME KnownInv, [Next]_vars PROVE KnownInv'
    OBVIOUS
  <2>1. IndexInv /\ TypeInv /\ PathsOK /\ \A i \in Instances : InstOK(i)
    BY DEF KnownInv, IndexInv
  <2>2. IndexInv' /\ IndexOK'
    BY <2>1, TypeNext, IndexNext DEF IndexInv
  <2>3. ASSUME NEW i \in Instances PROVE PathsOK' /\ InstOK(i)'
    <3>1. \/ SyncStart(i) \/ SyncLoad(i) \/ SyncEnd(i)
          \/ \E k \in Kinds, s \in ObjectSpec : AddNew(i, k, s)
          \/ \E k \in Kinds, p \in Paths : Delete(i, k, p)
          \/ SaveRow(i) \/ DropRow(i)
          \/ SaveFail(i) \/ DropFail(i) \/ Begin(i) \/ Restart(i) \/ Commit \/ Rollback \/ Tick \/ UNCHANGED vars
      BY DEF Next, OneInstance
    <3>2. CASE SyncStart(i) \/ SyncLoad(i) \/ SyncEnd(i)
      BY <2>1, <3>2, SyncStartKnown, SyncLoadKnown, SyncEndKnown
    <3>3. CASE \E k \in Kinds, s \in ObjectSpec : AddNew(i, k, s)
      BY <2>1, <3>3, AddNewKnown
    <3>4. CASE \E k \in Kinds, p \in Paths : Delete(i, k, p)
      BY <2>1, <2>2, <3>4, DeleteRowKnown
    <3>5. CASE SaveRow(i) \/ DropRow(i)
      BY <2>1, <3>5, SaveRowKnown, DropRowKnown
    <3>6. CASE SaveFail(i) \/ DropFail(i) \/ Begin(i) \/ Restart(i) \/ Commit \/ Rollback \/ Tick \/ UNCHANGED vars
      BY <2>1, <3>6, OtherKnown
    <3> QED
      BY <3>1, <3>2, <3>3, <3>4, <3>5, <3>6
  <2>4. CASE Instances = {}
    <3>1. UNCHANGED <<rows, tx>>
      BY <2>1, <2>4 DEF Next, TypeInv, TypeOK, Tx, Commit, Rollback, Tick, vars
    <3> QED
      BY <2>1, <2>2, <2>4, <3>1, PathSame DEF KnownInv
  <2>5. CASE Instances # {}
    BY <2>2, <2>3, <2>5 DEF KnownInv
  <2> QED
    BY <2>4, <2>5
<1>3. KnownInv => RowsKnown
  <2> SUFFICES ASSUME KnownInv, NEW i \in Instances, NEW p \in Paths
               PROVE  LET r == Visible(tx # NoTx)[p] IN
                      \/ r = NoRow
                      \/ map[i][r.kind][p] # NoSpec
                      \/ r.at >= synced[i]
                      \/ op[i] \in Drop /\ op[i].path = p
    BY DEF RowsKnown
  <2>1. RowOK(i, p)
    BY DEF KnownInv, InstOK
  <2>2. PICK r : r = Visible(tx # NoTx)[p]
    OBVIOUS
  <2>3. Safe(i, r, p) \/ Late(i, r, p)
    <3>1. r = IF tx # NoTx THEN tx.rows[p] ELSE rows[p]
      BY <2>2 DEF Visible
    <3> QED
      BY <2>1, <3>1 DEF RowOK
  <2> QED
    BY <2>2, <2>3 DEF Safe, Late, HasSpec, Dropping
<1> QED
  BY <1>1, <1>2, <1>3, PTL DEF Spec
=============================================================================
