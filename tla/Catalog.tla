------------------------------ MODULE Catalog ------------------------------
(***************************************************************************)
(* The googlesqlite catalog (internal/catalog.go): what the engine knows   *)
(* about tables, views, functions and table-valued functions (TVFs).       *)
(*                                                                         *)
(* Each process (and each DSN spelling within one) holds a *Catalog, here  *)
(* an element of Instances.  It keeps, per kind of object,                 *)
(*   list - the slice c.tables / c.functions / c.tvfs,                     *)
(*   map  - c.tableMap / c.funcMap / c.tvfMap, by storage name,            *)
(*   res  - the names registered in the analyzer's SimpleCatalog.          *)
(* All instances share the table googlesqlite_catalog of one database:     *)
(* rows is its committed content, tx the open write transaction.           *)
(*                                                                         *)
(* An object is identified by its name path; paths whose components join   *)
(* to the same storage name are outside the model.  A slice is a set of    *)
(* entries with the position at which they were appended, which is what a  *)
(* slice with distinct elements is, up to renumbering.  Views live in the  *)
(* tables slice and are loaded like tables, so they share the kind         *)
(* "table".                                                                *)
(***************************************************************************)
EXTENDS Naturals, Sequences

CONSTANTS
    Instances,  \* the *Catalog values that share one database file
    Paths,      \* name paths: non-empty sequences of path components
    Bodies,     \* what a definition says: columns, body, options
    Kinds,      \* the kinds of object: "table", "function", "tvf"
    Environment, \* the transactions and faults a run admits
    NoSpec, NoRow, NoTx, Idle,
    MaxTime,    \* bound on the wall clock
    MaxRegs     \* bound on the objects one instance registers

ObjectSpec == [path : Paths, body : Bodies, temp : BOOLEAN]

Entry == [spec : ObjectSpec, pos : Nat]

Row == [kind : Kinds, spec : ObjectSpec, at : Nat]

\* The names under which the analyzer finds an object: its path and every
\* suffix of it ("p.d.t", "d.t", "t"), as a dotted name of the root
\* SimpleCatalog or through its sub-catalogs.  Left out are the names that
\* skip a level ("p.t"), which paths of three components get as well.
LookupNames(path) == {SubSeq(path, n, Len(path)) : n \in 1..Len(path)}

Names == UNION {LookupNames(p) : p \in Paths}

\* What the goroutine that holds c.mu is in the middle of.
Save == [do : {"save"}, kind : Kinds, spec : ObjectSpec, at : Nat, inTx : BOOLEAN]
Drop == [do : {"drop"}, path : Paths, inTx : BOOLEAN]
Sync == [do : {"sync"}, todo : SUBSET Row, at : Nat]

Tx == [inst : Instances, rows : [Paths -> Row \cup {NoRow}]]

ASSUME SentinelAssumption ==
    /\ NoSpec \notin ObjectSpec
    /\ NoRow \notin Row
    /\ NoTx \notin Tx
    /\ Idle \notin Save \cup Drop \cup Sync

ASSUME ParameterAssumption ==
    /\ Kinds \subseteq {"table", "function", "tvf"}
    /\ Environment \subseteq {"tx", "rollback", "saveFail", "dropFail", "cancel", "restart"}
    /\ MaxTime \in Nat
    /\ MaxRegs \in Nat

VARIABLES
    list,   \* list[i][k]: the slice of kind k of instance i
    map,    \* map[i][k][p]: the spec stored under path p, or NoSpec
    res,    \* res[i][k][n]: the spec of the handle behind lookup name n
    regs,   \* regs[i]: how many appends instance i has made
    synced, \* synced[i]: c.lastSyncedAt
    op,     \* op[i]: what the goroutine that holds c.mu is in the middle of
    rows,   \* rows[p]: the committed row of googlesqlite_catalog named p
    tx,     \* the open write transaction: its instance and its rows
    now     \* the wall clock

memVars == <<list, map, res, regs>>
vars == <<list, map, res, regs, synced, op, rows, tx, now>>

TypeOK ==
    /\ list \in [Instances -> [Kinds -> SUBSET Entry]]
    /\ map \in [Instances -> [Kinds -> [Paths -> ObjectSpec \cup {NoSpec}]]]
    /\ res \in [Instances -> [Kinds -> [Names -> ObjectSpec \cup {NoSpec}]]]
    /\ regs \in [Instances -> Nat]
    /\ synced \in [Instances -> Nat]
    /\ op \in [Instances -> Save \cup Drop \cup Sync \cup {Idle}]
    /\ rows \in [Paths -> Row \cup {NoRow}]
    /\ tx \in Tx \cup {NoTx}
    /\ now \in Nat

-----------------------------------------------------------------------------
(* The in-memory index of one kind.                                        *)

\* The map and the resolver that resetCatalog obtains by re-adding the
\* entries of a slice in slice order: a lookup name goes to the first entry
\* that has it, because AddTable2 / AddFunction2 is skipped for a name that
\* is taken.
MapOf(L) ==
    [p \in Paths |-> IF \E e \in L : e.spec.path = p
                     THEN (CHOOSE e \in L : e.spec.path = p).spec
                     ELSE NoSpec]

IsFirst(L, n, e) ==
    /\ e \in L
    /\ n \in LookupNames(e.spec.path)
    /\ \A f \in L : n \in LookupNames(f.spec.path) => e.pos <= f.pos

\* Mutant: the rebuild re-adds the slice backwards.
ResolverOfBackwards(L) ==
    [n \in Names |-> IF \E e \in L : n \in LookupNames(e.spec.path)
                     THEN (CHOOSE e \in L : /\ n \in LookupNames(e.spec.path)
                                            /\ \A f \in L : n \in LookupNames(f.spec.path) => f.pos <= e.pos).spec
                     ELSE NoSpec]

ResolverOf(L) ==
    [n \in Names |-> IF \E e \in L : n \in LookupNames(e.spec.path)
                     THEN (CHOOSE e \in L : IsFirst(L, n, e)).spec
                     ELSE NoSpec]

\* addTableSpec overwrites the slot of a table that already exists.
Refresh(L, s) == {IF e.spec.path = s.path THEN [e EXCEPT !.spec = s] ELSE e : e \in L}

\* Mutant: the slot in the slice keeps the replaced definition.
ReplaceMapOnly(i, k, s) ==
    /\ map[i][k][s.path] # NoSpec
    /\ map' = [map EXCEPT ![i][k][s.path] = s]
    /\ UNCHANGED <<list, res, regs>>

\* addTableSpec, addFunctionSpec, addTVFSpec on a name that is in the map:
\* only a table's slot is refreshed, and no kind touches the SimpleCatalog.
Replace(i, k, s) ==
    /\ map[i][k][s.path] # NoSpec
    /\ map' = [map EXCEPT ![i][k][s.path] = s]
    /\ list' = IF k = "table" THEN [list EXCEPT ![i][k] = Refresh(@, s)] ELSE list
    /\ UNCHANGED <<res, regs>>

\* Mutant: a new object takes over every lookup name of its path.
FillAll(R, s) == [n \in Names |-> IF n \in LookupNames(s.path) THEN s ELSE R[n]]

\* addTableSpecRecursive and its siblings: a new object takes the lookup
\* names of its path that nothing is registered under yet.
FillFree(R, s) ==
    [n \in Names |-> IF R[n] = NoSpec /\ n \in LookupNames(s.path) THEN s ELSE R[n]]

\* The same three on a new name: append, map, register the free names.
Register(i, k, s) ==
    /\ map[i][k][s.path] = NoSpec
    /\ regs[i] < MaxRegs
    /\ regs' = [regs EXCEPT ![i] = @ + 1]
    /\ list' = [list EXCEPT ![i][k] = @ \cup {[spec |-> s, pos |-> regs[i] + 1]}]
    /\ map' = [map EXCEPT ![i][k][s.path] = s]
    /\ res' = [res EXCEPT ![i][k] = FillFree(@, s)]

AddSpec(i, k, s) == Replace(i, k, s) \/ Register(i, k, s)

\* deleteTableSpecByName and its siblings: every kind is rebuilt from its
\* slice, the one of the dropped object without that object.
Without(L, p) == {e \in L : e.spec.path # p}

ResetCatalog(i, L) ==
    /\ list' = [list EXCEPT ![i] = L]
    /\ map' = [map EXCEPT ![i] = [k \in Kinds |-> MapOf(L[k])]]
    /\ res' = [res EXCEPT ![i] = [k \in Kinds |-> ResolverOf(L[k])]]
    /\ UNCHANGED regs

-----------------------------------------------------------------------------
(* googlesqlite_catalog and transactions.                                  *)

InTx(i) == tx # NoTx /\ tx.inst = i

\* What a statement of instance i reads: a connection inside the open
\* transaction sees its uncommitted rows, any other the committed ones.
Visible(inTx) == IF inTx THEN tx.rows ELSE rows

\* SQLite admits one writer: outside the transaction a write succeeds, and
\* is committed at once, only while no transaction is open.
Write(inTx, p, r) ==
    IF inTx
    THEN /\ tx' = [tx EXCEPT !.rows[p] = r]
         /\ UNCHANGED rows
    ELSE /\ tx = NoTx
         /\ rows' = [rows EXCEPT ![p] = r]
         /\ UNCHANGED tx

\* upsertCatalogQuery: ON CONFLICT(name) updates spec and updatedAt, so the
\* row keeps the kind it was inserted with.
Upsert(old, k, s, at) ==
    [kind |-> IF old = NoRow THEN k ELSE old.kind, spec |-> s, at |-> at]

Init ==
    /\ list = [i \in Instances |-> [k \in Kinds |-> {}]]
    /\ map = [i \in Instances |-> [k \in Kinds |-> [p \in Paths |-> NoSpec]]]
    /\ res = [i \in Instances |-> [k \in Kinds |-> [n \in Names |-> NoSpec]]]
    /\ regs = [i \in Instances |-> 0]
    /\ synced = [i \in Instances |-> 0]
    /\ op = [i \in Instances |-> Idle]
    /\ rows = [p \in Paths |-> NoRow]
    /\ tx = NoTx
    /\ now = 1

\* Mutant: the watermark is set back by a margin that underflows.
SyncStartMargin(i) ==
    /\ op[i] = Idle
    /\ op' = [op EXCEPT ![i] =
                  [do |-> "sync", at |-> now - 2,
                   todo |-> {rows[p] : p \in {q \in Paths : rows[q] # NoRow}}]]
    /\ UNCHANGED <<memVars, synced, rows, tx, now>>

\* Catalog.Sync takes c.mu, reads the clock, and selects the rows stamped at
\* or after the last sync.
SyncStart(i) ==
    /\ op[i] = Idle
    /\ \E inTx \in {FALSE} \cup (IF InTx(i) THEN {TRUE} ELSE {}) :
          LET seen == Visible(inTx) IN
          op' = [op EXCEPT ![i] =
                    [do |-> "sync", at |-> now,
                     todo |-> {seen[p] : p \in {q \in Paths : /\ seen[q] # NoRow
                                                              /\ seen[q].at >= synced[i]}}]]
    /\ UNCHANGED <<memVars, synced, rows, tx, now>>

\* One turn of its loop: loadTableSpec, loadFunctionSpec or loadTVFSpec.
SyncLoad(i) ==
    /\ op[i] \in Sync
    /\ \E r \in op[i].todo :
          /\ AddSpec(i, r.kind, r.spec)
          /\ op' = [op EXCEPT ![i].todo = @ \ {r}]
    /\ UNCHANGED <<synced, rows, tx, now>>

\* Mutant: the watermark moves although rows are left to load.
SyncEndEarly(i) ==
    /\ op[i] \in Sync
    /\ synced' = [synced EXCEPT ![i] = op[i].at]
    /\ op' = [op EXCEPT ![i] = Idle]
    /\ UNCHANGED <<memVars, rows, tx, now>>

\* The end of the loop.  The loop also ends when rows.Next() reports false
\* because the request's context was cancelled: rows.Err() is not consulted
\* after it, so the watermark moves past the rows that were not read.
SyncEnd(i) ==
    /\ op[i] \in Sync
    /\ op[i].todo = {} \/ "cancel" \in Environment
    /\ synced' = [synced EXCEPT ![i] = op[i].at]
    /\ op' = [op EXCEPT ![i] = Idle]
    /\ UNCHANGED <<memVars, rows, tx, now>>

\* AddNewTableSpec, AddNewFunctionSpec, AddNewTVFSpec: memory first, then,
\* for an object that is not temporary, a row stamped with the clock.
AddNew(i, k, s) ==
    /\ op[i] = Idle
    /\ AddSpec(i, k, s)
    /\ \E inTx \in {FALSE} \cup (IF InTx(i) THEN {TRUE} ELSE {}) :
          op' = [op EXCEPT ![i] =
                    IF s.temp THEN Idle
                    ELSE [do |-> "save", kind |-> k, spec |-> s, at |-> now, inTx |-> inTx]]
    /\ UNCHANGED <<synced, rows, tx, now>>

SaveRow(i) ==
    /\ op[i] \in Save
    /\ LET p == op[i].spec.path IN
       Write(op[i].inTx, p,
             Upsert(Visible(op[i].inTx)[p], op[i].kind, op[i].spec, op[i].at))
    /\ op' = [op EXCEPT ![i] = Idle]
    /\ UNCHANGED <<memVars, synced, now>>

\* The upsert fails (database busy, context cancelled, disk full): the error
\* is returned and what is already in memory stays there.
SaveFail(i) ==
    /\ "saveFail" \in Environment
    /\ op[i] \in Save
    /\ op' = [op EXCEPT ![i] = Idle]
    /\ UNCHANGED <<memVars, synced, rows, tx, now>>

\* DeleteTableSpec, DeleteFunctionSpec, DeleteTVFSpec: memory first, then the
\* row of that name, whatever its kind.
Delete(i, k, p) ==
    /\ op[i] = Idle
    /\ map[i][k][p] # NoSpec
    /\ ResetCatalog(i, [list[i] EXCEPT ![k] = Without(@, p)])
    /\ \E inTx \in {FALSE} \cup (IF InTx(i) THEN {TRUE} ELSE {}) :
          op' = [op EXCEPT ![i] = [do |-> "drop", path |-> p, inTx |-> inTx]]
    /\ UNCHANGED <<synced, rows, tx, now>>

DropRow(i) ==
    /\ op[i] \in Drop
    /\ Write(op[i].inTx, op[i].path, NoRow)
    /\ op' = [op EXCEPT ![i] = Idle]
    /\ UNCHANGED <<memVars, synced, now>>

DropFail(i) ==
    /\ "dropFail" \in Environment
    /\ op[i] \in Drop
    /\ op' = [op EXCEPT ![i] = Idle]
    /\ UNCHANGED <<memVars, synced, rows, tx, now>>

\* Conn.BeginTx, Tx.Commit and Tx.Rollback: the catalog is not told.  A
\* transaction enters the model when it takes SQLite's write lock.
Begin(i) ==
    /\ "tx" \in Environment
    /\ tx = NoTx
    /\ tx' = [inst |-> i, rows |-> rows]
    /\ UNCHANGED <<memVars, synced, op, rows, now>>

\* database/sql runs one call at a time on a connection, so the transaction
\* cannot end under a statement that runs inside it.
TxIdle == ~(op[tx.inst] \in Save \cup Drop /\ op[tx.inst].inTx)

Commit ==
    /\ tx # NoTx
    /\ TxIdle
    /\ rows' = tx.rows
    /\ tx' = NoTx
    /\ UNCHANGED <<memVars, synced, op, now>>

Rollback ==
    /\ "rollback" \in Environment
    /\ tx # NoTx
    /\ TxIdle
    /\ tx' = NoTx
    /\ UNCHANGED <<memVars, synced, op, rows, now>>

\* The process ends and a new one opens the file: NewCatalog starts empty.
Restart(i) ==
    /\ "restart" \in Environment
    /\ list' = [list EXCEPT ![i] = [k \in Kinds |-> {}]]
    /\ map' = [map EXCEPT ![i] = [k \in Kinds |-> [p \in Paths |-> NoSpec]]]
    /\ res' = [res EXCEPT ![i] = [k \in Kinds |-> [n \in Names |-> NoSpec]]]
    /\ regs' = [regs EXCEPT ![i] = 0]
    /\ synced' = [synced EXCEPT ![i] = 0]
    /\ op' = [op EXCEPT ![i] = Idle]
    /\ tx' = IF InTx(i) THEN NoTx ELSE tx
    /\ UNCHANGED <<rows, now>>

Tick ==
    /\ now < MaxTime
    /\ now' = now + 1
    /\ UNCHANGED <<memVars, synced, op, rows, tx>>

Next ==
    \/ \E i \in Instances :
          \/ SyncStart(i) \/ SyncLoad(i) \/ SyncEnd(i)
          \/ \E k \in Kinds, s \in ObjectSpec : AddNew(i, k, s)
          \/ \E k \in Kinds, p \in Paths : Delete(i, k, p)
          \/ SaveRow(i) \/ SaveFail(i) \/ DropRow(i) \/ DropFail(i)
          \/ Begin(i) \/ Restart(i)
    \/ Commit
    \/ Rollback
    \/ Tick

Spec == Init /\ [][Next]_vars

-----------------------------------------------------------------------------
(* Properties.                                                             *)

\* The slice and the map of a kind describe the same objects, one entry per
\* name, and for tables the same definition: addTableSpec, resetCatalog and
\* Sync update the two separately (catalog.go:2403-2421, 2133-2211).
IndexConsistent ==
    \A i \in Instances, k \in Kinds :
        /\ \A e, f \in list[i][k] : e.spec.path = f.spec.path => e = f
        /\ \A p \in Paths : map[i][k][p] # NoSpec <=> \E e \in list[i][k] : e.spec.path = p
        /\ k = "table" => \A e \in list[i][k] : map[i][k][e.spec.path] = e.spec

\* The object behind lookup name n is the one registered first among those
\* that have the name, through any mix of CREATE, DROP, reload and rebuild
\* (addTableSpecRecursiveImpl skips a taken name, resetCatalog re-adds in
\* slice order).
FirstRegistered ==
    \A i \in Instances, k \in Kinds, n \in Names :
        IF \E e \in list[i][k] : n \in LookupNames(e.spec.path)
        THEN \E e \in list[i][k] :
                /\ IsFirst(list[i][k], n, e)
                /\ res[i][k][n] # NoSpec
                /\ res[i][k][n].path = e.spec.path
        ELSE res[i][k][n] = NoSpec

\* A lookup name changes meaning only when the object it named is gone: a
\* CREATE, a reload or the DROP of another object never redirects it.
NamesKeepMeaning ==
    [][\A i \in Instances, k \in Kinds, n \in Names :
          /\ res[i][k][n] # NoSpec
          /\ map'[i][k][res[i][k][n].path] # NoSpec
          => /\ res'[i][k][n] # NoSpec
             /\ res'[i][k][n].path = res[i][k][n].path]_vars

\* No row is missed: an instance knows every object of the shared table (as
\* the open transaction sees it), or the row's stamp makes its next Sync read
\* it, or the object is being dropped.  Sync moves its watermark past a row
\* once and never looks back (catalog.go:1916-1955).
RowsKnown ==
    \A i \in Instances, p \in Paths :
        LET r == Visible(tx # NoTx)[p] IN
        \/ r = NoRow
        \/ map[i][r.kind][p] # NoSpec
        \/ r.at >= synced[i]
        \/ op[i] \in Drop /\ op[i].path = p
=============================================================================
