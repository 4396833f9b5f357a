-------------------------- MODULE ConnectorProofs --------------------------
(***************************************************************************)
(* Proofs about connectors, the registry of DSNs and the two connection    *)
(* pools, for any number of connectors, connections and files, any idle    *)
(* limit and any environment.                                              *)
(***************************************************************************)
EXTENDS Connector, FiniteSetTheorems, TLAPS

USE EnvironmentAssumption DEF Dsns

Opened(k) == phase[k] # "new"

-----------------------------------------------------------------------------
(* The inductive invariant.                                                *)

\* The pair registered for a file was made by a connector of that file.
MakersOK ==
    \A f \in Files : dbMap[f] # None => Opened(dbMap[f]) /\ dsn[dbMap[f]] = f

\* A connector uses the pair of its file, or one of its own under a number
\* that no other connector has.
PairsOK ==
    /\ \A k \in Connectors :
          Opened(k) => IF Owned(k)
                       THEN pool[k] = k /\ \E i \in 1..seq : name[k] = <<Memory, i>>
                       ELSE /\ dbMap[dsn[k]] # None /\ pool[k] = dbMap[dsn[k]]
                            /\ name[k] = <<dsn[k], 0>>
    /\ \A k, l \in Connectors :
          Opened(k) /\ Opened(l) /\ Owned(k) /\ Owned(l) /\ name[k] = name[l] => k = l

\* Until its connector closes, or for good when it is a file's, a catalog
\* stays registered under the name of its inner sql.DB.
BoundOK ==
    \A k \in Connectors :
        phase[k] = "open" \/ (Opened(k) /\ ~Owned(k)) =>
            name[k] \in DOMAIN catMap /\ catMap[name[k]] = pool[k]

RegistryOK == MakersOK /\ PairsOK /\ BoundOK

\* An SQLite connection belongs to the inner sql.DB that opened it and reads
\* INFORMATION_SCHEMA from its catalog, unless it was opened for a private
\* in-memory DSN too late.
SQLiteOK ==
    \A c \in Inners :
        IF sqlite[c].state = "new" THEN sqlite[c].of = None
        ELSE /\ sqlite[c].of \in Connectors /\ Opened(sqlite[c].of)
             /\ phase[sqlite[c].of] = "open" \/ ~Owned(sqlite[c].of)
                    => sqlite[c].view = sqlite[c].of

\* A Conn holds an SQLite connection of its connector's inner sql.DB.
ConnOK ==
    \A o \in Conns : Live(o) =>
        /\ conn[o].of \in Connectors /\ conn[o].inner \in Inners
        /\ Opened(conn[o].of)
        /\ sqlite[conn[o].inner].of = pool[conn[o].of]

\* Who holds an SQLite connection.
HeldOK ==
    /\ \A o, p \in Conns : Live(o) /\ Live(p) /\ conn[o].inner = conn[p].inner => o = p
    /\ \A c \in stranded : sqlite[c].state = "used" /\ \A o \in Conns : Live(o) => conn[o].inner # c
    /\ \A c \in Inners \ stranded :
          sqlite[c].state = "used" => \E o \in Conns : Live(o) /\ conn[o].inner = c
    /\ \A c \in Inners :
          sqlite[c].state \in {"new", "idle"} => \A o \in Conns : Live(o) => conn[o].inner # c

\* An inner sql.DB that is closed keeps nothing idle.
ShutOK ==
    /\ \A c \in Inners : sqlite[c].state = "idle" => sqlite[c].of \notin shut
    /\ \A k \in Connectors : phase[k] = "closed" /\ Owned(k) => k \in shut

PoolOK == SQLiteOK /\ ConnOK /\ HeldOK /\ ShutOK

\* A table is where the connector it was created through keeps its own, and
\* one in a private database is in the catalog too.
PlacedOK ==
    /\ \A p \in Connectors : \A k \in specs[p] : Opened(k) /\ pool[k] = p
    /\ \A f \in Files : \A k \in tables[f] : Opened(k) /\ dsn[k] = f
    /\ \A c \in Inners : \A k \in tables[c] : sqlite[c].of = k /\ k \in specs[k]

\* The catalog and the database of a file have the same tables.
AgreeOK ==
    \A f \in Files : IF dbMap[f] = None THEN tables[f] = {} ELSE specs[dbMap[f]] = tables[f]

StoreOK == PlacedOK /\ AgreeOK

\* A dead Conn is not idle, and the request that uses it is the one that has
\* met the lost connection.
DeadOK ==
    \A o \in Conns :
        /\ conn[o].state \in {"new", "idle"} => ~conn[o].dead
        /\ conn[o].state = "used" /\ conn[o].dead => conn[o].hit
        /\ failed[o] = IF conn[o].dead THEN 1 ELSE 0

ConnInv == TypeOK /\ RegistryOK /\ PoolOK /\ StoreOK /\ DeadOK

LEMMA ConnInit == Init => ConnInv
<1> SUFFICES ASSUME Init PROVE ConnInv
  OBVIOUS
<1> USE DEF Init
<1>1. DOMAIN catMap = {}
  OBVIOUS
<1>2. TypeOK
  <2>1. <<Memory, 0>> \in Names
    BY DEF Names
  <2>2. sqlite \in [Inners -> SQLiteConn] /\ conn \in [Conns -> DriverConn]
    BY DEF SQLiteConn, DriverConn
  <2>3. /\ failed \in [Conns -> Nat]
        /\ specs \in [Connectors -> SUBSET Connectors] /\ tables \in [Databases -> SUBSET Connectors]
    OBVIOUS
  <2>4. /\ phase \in [Connectors -> {"new", "open", "closing", "closed"}]
        /\ dsn \in [Connectors -> Dsns] /\ name \in [Connectors -> Names]
        /\ pool \in [Connectors -> Connectors] /\ dbMap \in [Files -> Connectors \cup {None}]
        /\ seq \in Nat /\ shut \subseteq Connectors /\ stranded \subseteq Inners
    BY <2>1
  <2> QED
    BY <1>1, <2>2, <2>3, <2>4, Zenon DEF TypeOK
<1>3. RegistryOK
  BY DEF RegistryOK, MakersOK, PairsOK, BoundOK, Opened
<1>4. PoolOK
  BY DEF PoolOK, SQLiteOK, ConnOK, HeldOK, ShutOK, Live
<1>5. StoreOK
  BY DEF StoreOK, PlacedOK, AgreeOK, Databases
<1>6. DeadOK
  BY DEF DeadOK
<1> QED
  BY <1>2, <1>3, <1>4, <1>5, <1>6 DEF ConnInv

-----------------------------------------------------------------------------
(* Type correctness.                                                       *)

LEMMA BindType ==
    ASSUME TypeOK, NEW n \in Names, NEW k \in Connectors
    PROVE  /\ DOMAIN Bind(n, k) = DOMAIN catMap \cup {n}
           /\ \A m \in DOMAIN Bind(n, k) : Bind(n, k)[m] = IF m = n THEN k ELSE catMap[m]
           /\ DOMAIN Bind(n, k) \subseteq Names
           /\ \A m \in DOMAIN Bind(n, k) : Bind(n, k)[m] \in Connectors
BY DEF Bind, TypeOK

LEMMA BindKept ==
    ASSUME TypeOK, NEW n \in Names, NEW k \in Connectors, catMap' = Bind(n, k)
    PROVE  /\ n \in DOMAIN catMap' /\ catMap'[n] = k
           /\ \A m \in DOMAIN catMap : m # n => m \in DOMAIN catMap' /\ catMap'[m] = catMap[m]
<1> DEFINE b == Bind(n, k)
<1>1. /\ DOMAIN b = DOMAIN catMap \cup {n}
      /\ \A m \in DOMAIN b : b[m] = IF m = n THEN k ELSE catMap[m]
  BY BindType
<1>2. catMap' = b
  OBVIOUS
<1> HIDE DEF b
<1> QED
  BY <1>1, <1>2

LEMMA UnbindType ==
    ASSUME TypeOK, NEW k \in Connectors
    PROVE  /\ DOMAIN Unbind(k) = IF Owned(k) THEN DOMAIN catMap \ {name[k]} ELSE DOMAIN catMap
           /\ \A m \in DOMAIN Unbind(k) : Unbind(k)[m] = catMap[m]
           /\ DOMAIN Unbind(k) \subseteq Names
           /\ \A m \in DOMAIN Unbind(k) : Unbind(k)[m] \in Connectors
BY DEF Unbind, TypeOK

LEMMA TakenType ==
    ASSUME TypeOK, NEW k \in Connectors, NEW c \in Inners
    PROVE  Taken(k, c) \in SQLiteConn
<1>1. sqlite[c] \in SQLiteConn /\ pool[k] \in Connectors
  BY DEF TypeOK
<1>2. (IF name[k] \in DOMAIN catMap THEN catMap[name[k]] ELSE None) \in Connectors \cup {None}
  BY DEF TypeOK
<1> QED
  BY <1>1, <1>2 DEF Taken, SQLiteConn

LEMMA GivenBackType ==
    ASSUME TypeOK, NEW c \in Inners
    PROVE  GivenBack(c) \in SQLiteConn
<1>1. sqlite[c] \in SQLiteConn
  BY DEF TypeOK
<1> QED
  BY <1>1 DEF GivenBack, SQLiteConn

LEMMA ConnType ==
    ASSUME TypeOK, NEW o \in Conns
    PROVE  /\ [conn EXCEPT ![o].state = "idle"] \in [Conns -> DriverConn]
           /\ [conn EXCEPT ![o].state = "closed", ![o].handle = FALSE] \in [Conns -> DriverConn]
           /\ [conn EXCEPT ![o].state = "used", ![o].hit = FALSE] \in [Conns -> DriverConn]
           /\ [conn EXCEPT ![o].dead = TRUE, ![o].hit = TRUE] \in [Conns -> DriverConn]
           /\ \A h \in BOOLEAN : /\ [conn EXCEPT ![o].handle = h] \in [Conns -> DriverConn]
                                 /\ [conn EXCEPT ![o].hit = TRUE, ![o].handle = h] \in [Conns -> DriverConn]
<1>1. conn \in [Conns -> DriverConn] /\ conn[o] \in DriverConn
  BY DEF TypeOK
<1>2. /\ [conn[o] EXCEPT !.state = "idle"] \in DriverConn
      /\ [[conn[o] EXCEPT !.state = "closed"] EXCEPT !.handle = FALSE] \in DriverConn
      /\ [[conn[o] EXCEPT !.state = "used"] EXCEPT !.hit = FALSE] \in DriverConn
      /\ [[conn[o] EXCEPT !.dead = TRUE] EXCEPT !.hit = TRUE] \in DriverConn
  BY <1>1 DEF DriverConn
<1>3. ASSUME NEW h \in BOOLEAN
      PROVE  /\ [conn EXCEPT ![o].handle = h] \in [Conns -> DriverConn]
             /\ [conn EXCEPT ![o].hit = TRUE, ![o].handle = h] \in [Conns -> DriverConn]
  <2>1. /\ [conn[o] EXCEPT !.handle = h] \in DriverConn
        /\ [[conn[o] EXCEPT !.hit = TRUE] EXCEPT !.handle = h] \in DriverConn
    BY <1>1 DEF DriverConn
  <2> QED
    BY <1>1, <2>1
<1> QED
  BY <1>1, <1>2, <1>3

\* A step on one Conn leaves the others alone and changes these fields of it.
LEMMA HandleStep ==
    ASSUME TypeOK, NEW o \in Conns, TakeHandle(o) \/ DropHandle(o) \/ MeetLostUnmarked(o)
    PROVE  /\ conn' \in [Conns -> DriverConn]
           /\ \A p \in Conns : p # o => conn'[p] = conn[p]
           /\ conn'[o].state = conn[o].state /\ conn'[o].of = conn[o].of
           /\ conn'[o].inner = conn[o].inner /\ conn'[o].dead = conn[o].dead
           /\ MeetLostUnmarked(o) => conn'[o].hit = TRUE
           /\ ~MeetLostUnmarked(o) => conn'[o].hit = conn[o].hit
<1>1. conn \in [Conns -> DriverConn] /\ conn[o] \in DriverConn
  BY DEF TypeOK
<1>2. CASE MeetLostUnmarked(o)
  <2>1. PICK h \in BOOLEAN : conn' = [conn EXCEPT ![o].hit = TRUE, ![o].handle = h]
    BY <1>2 DEF MeetLostUnmarked
  <2>2. conn'[o] = [[conn[o] EXCEPT !.hit = TRUE] EXCEPT !.handle = h] /\ \A p \in Conns : p # o => conn'[p] = conn[p]
    BY <1>1, <2>1
  <2>3. conn' \in [Conns -> DriverConn]
    BY <2>1, ConnType
  <2> QED
    BY <1>1, <1>2, <2>2, <2>3 DEF DriverConn
<1>3. CASE ~MeetLostUnmarked(o)
  <2>1. PICK h \in BOOLEAN : conn' = [conn EXCEPT ![o].handle = h]
    BY <1>3 DEF TakeHandle, DropHandle
  <2>2. conn'[o] = [conn[o] EXCEPT !.handle = h] /\ \A p \in Conns : p # o => conn'[p] = conn[p]
    BY <1>1, <2>1
  <2>3. conn' \in [Conns -> DriverConn]
    BY <2>1, ConnType
  <2> QED
    BY <1>1, <1>3, <2>2, <2>3 DEF DriverConn
<1> QED
  BY <1>2, <1>3

LEMMA NotedType ==
    ASSUME TypeOK, NEW o \in Conns, NEW d \in BOOLEAN, Noted(o, d)
    PROVE  failed' \in [Conns -> Nat]
  BY DEF Noted, TypeOK

LEMMA CloseConnType ==
    ASSUME TypeOK, NEW o \in Conns, conn[o].inner \in Inners, CloseConn(o)
    PROVE  conn' \in [Conns -> DriverConn] /\ sqlite' \in [Inners -> SQLiteConn]
<1>1. GivenBack(conn[o].inner) \in SQLiteConn
  BY GivenBackType
<1>2. sqlite' \in [Inners -> SQLiteConn]
  BY <1>1 DEF CloseConn, TypeOK
<1> QED
  BY <1>2, ConnType DEF CloseConn

LEMMA TypeNext ==
    ASSUME TypeOK, ConnOK, [Next]_vars
    PROVE  TypeOK'
<1>1. ASSUME NEW k \in Connectors, OpenConnector(k, Memory) PROVE TypeOK'
  <2>1. <<Memory, seq + 1>> \in Names
    BY DEF TypeOK, Names
  <2>2. catMap' = Bind(<<Memory, seq + 1>>, k)
    BY <1>1 DEF OpenConnector, OpenMemory
  <2>3. DOMAIN catMap' \subseteq Names /\ \A n \in DOMAIN catMap' : catMap'[n] \in Connectors
    BY <2>1, <2>2, BindType
  <2> QED
    BY <1>1, <2>1, <2>3 DEF OpenConnector, OpenMemory, TypeOK
<1>2. ASSUME NEW k \in Connectors, NEW f \in Files, OpenConnector(k, f) PROVE TypeOK'
  <2>1. <<f, 0>> \in Names
    BY DEF Names
  <2>2. CASE dbMap[f] = None
    <3>1. catMap' = Bind(<<f, 0>>, k)
      BY <1>2, <2>2 DEF OpenConnector, OpenFile
    <3>2. DOMAIN catMap' \subseteq Names /\ \A n \in DOMAIN catMap' : catMap'[n] \in Connectors
      BY <2>1, <3>1, BindType
    <3>3. /\ phase' \in [Connectors -> {"new", "open", "closing", "closed"}]
          /\ dsn' \in [Connectors -> Dsns] /\ name' \in [Connectors -> Names]
          /\ pool' \in [Connectors -> Connectors] /\ dbMap' \in [Files -> Connectors \cup {None}]
      BY <1>2, <2>1, <2>2 DEF OpenConnector, OpenFile, TypeOK
    <3>4. UNCHANGED <<seq, shut, sqlite, conn, specs, tables, failed, stranded>>
      BY <1>2 DEF OpenConnector, OpenFile
    <3> QED
      BY <3>2, <3>3, <3>4 DEF TypeOK
  <2>3. CASE dbMap[f] # None
    BY <1>2, <2>1, <2>3 DEF OpenConnector, OpenFile, TypeOK
  <2> QED
    BY <2>2, <2>3
<1>3. ASSUME NEW k \in Connectors, NEW o \in Conns, NEW c \in Inners, Connect(k, o, c)
      PROVE  TypeOK'
  <2>1. [state |-> "used", of |-> k, inner |-> c, dead |-> FALSE, hit |-> FALSE,
         handle |-> FALSE] \in DriverConn
    BY DEF DriverConn
  <2> QED
    BY <1>3, <2>1, TakenType DEF Connect, TypeOK, connectorVars, registryVars
<1>4. ASSUME NEW k \in Connectors, NEW c \in Inners, ConnectFail(k, c) PROVE TypeOK'
  BY <1>4, TakenType DEF ConnectFail, TypeOK, connectorVars, registryVars
<1>5. ASSUME NEW o \in Conns, Fetch(o) PROVE TypeOK'
  BY <1>5, ConnType DEF Fetch, TypeOK, connectorVars, registryVars
<1>6. ASSUME NEW o \in Conns, Release(o) \/ Expire(o) PROVE TypeOK'
  <2>1. CASE CloseConn(o)
    BY <1>6, <2>1, CloseConnType DEF Release, Expire, ConnOK, Live, TypeOK, connectorVars, registryVars
  <2>2. CASE conn' = [conn EXCEPT ![o].state = "idle"] /\ UNCHANGED sqlite
    BY <1>6, <2>2, ConnType DEF Release, Expire, TypeOK, connectorVars, registryVars
  <2> QED
    BY <1>6, <2>1, <2>2 DEF Release, Expire
<1>7. ASSUME NEW o \in Conns, Create(o) PROVE TypeOK'
  <2>1. conn[o].of \in Connectors
    BY <1>7 DEF Create, ConnOK, Live
  <2> QED
    BY <1>7, <2>1 DEF Create, TypeOK, connectorVars, registryVars
<1>8. ASSUME NEW o \in Conns, MeetLost(o) PROVE TypeOK'
  <2>1. failed' \in [Conns -> Nat]
    BY <1>8, NotedType DEF MeetLost
  <2>2. conn' \in [Conns -> DriverConn]
    BY <1>8, ConnType DEF MeetLost
  <2> QED
    BY <1>8, <2>1, <2>2 DEF MeetLost, TypeOK, connectorVars, registryVars
<1>13. ASSUME NEW o \in Conns, TakeHandle(o) \/ DropHandle(o) \/ MeetLostUnmarked(o) PROVE TypeOK'
  <2>1. conn' \in [Conns -> DriverConn]
    BY <1>13, HandleStep
  <2>2. failed' \in [Conns -> Nat]
    <3>1. CASE MeetLostUnmarked(o)
      <4>1. conn[o].dead \in BOOLEAN
        BY DEF TypeOK, DriverConn
      <4> QED
        BY <3>1, <4>1, NotedType DEF MeetLostUnmarked
    <3>2. CASE TakeHandle(o) \/ DropHandle(o)
      BY <3>2 DEF TakeHandle, DropHandle, TypeOK
    <3> QED
      BY <1>13, <3>1, <3>2
  <2> QED
    BY <1>13, <2>1, <2>2 DEF TakeHandle, DropHandle, MeetLostUnmarked, TypeOK, connectorVars, registryVars
<1>9. ASSUME NEW c \in Inners, Lose(c) PROVE TypeOK'
  BY <1>9 DEF Lose, TypeOK, SQLiteConn, connectorVars, registryVars
<1>10. ASSUME NEW k \in Connectors, CloseStart(k) PROVE TypeOK'
  BY <1>10, UnbindType DEF CloseStart, TypeOK
<1>11. ASSUME NEW k \in Connectors, CloseEnd(k) PROVE TypeOK'
  <2>1. CASE CloseInner(k)
    <3>1. sqlite' \in [Inners -> SQLiteConn] /\ shut' \subseteq Connectors
      BY <2>1 DEF CloseInner, TypeOK, SQLiteConn
    <3> QED
      BY <1>11, <3>1 DEF CloseEnd, TypeOK, registryVars
  <2>2. CASE UNCHANGED <<shut, sqlite>>
    BY <1>11, <2>2 DEF CloseEnd, TypeOK, registryVars
  <2> QED
    BY <1>11, <2>1, <2>2 DEF CloseEnd
<1>12. ASSUME UNCHANGED vars PROVE TypeOK'
  BY <1>12 DEF TypeOK, vars
<1> QED
  BY <1>1, <1>2, <1>3, <1>4, <1>5, <1>6, <1>7, <1>8, <1>9, <1>10, <1>11, <1>12, <1>13 DEF Next

-----------------------------------------------------------------------------
(* The registry.                                                           *)

\* Two connectors with one pair are one, or connectors of one file.
LEMMA SamePair ==
    ASSUME TypeOK, MakersOK, PairsOK, NEW k \in Connectors, NEW l \in Connectors,
           Opened(k), Opened(l), pool[k] = pool[l]
    PROVE  SameStore(k, l)
BY DEF TypeOK, MakersOK, PairsOK, Owned, SameStore

\* A pair is made by a connector that was opened.
LEMMA PairMade ==
    ASSUME TypeOK, MakersOK, PairsOK, NEW k \in Connectors, Opened(k)
    PROVE  Opened(pool[k]) /\ (Owned(pool[k]) <=> Owned(k)) /\ (Owned(k) => pool[k] = k)
BY DEF TypeOK, MakersOK, PairsOK, Owned

LEMMA RegistryNext ==
    ASSUME TypeOK, RegistryOK, [Next]_vars
    PROVE  RegistryOK'
<1> USE DEF RegistryOK
<1>1. ASSUME NEW k \in Connectors, OpenConnector(k, Memory) PROVE RegistryOK'
  <2> DEFINE n == <<Memory, seq + 1>>
  <2>1. /\ ~Opened(k)
        /\ phase' = [phase EXCEPT ![k] = "open"] /\ dsn' = [dsn EXCEPT ![k] = Memory]
        /\ name' = [name EXCEPT ![k] = n] /\ pool' = [pool EXCEPT ![k] = k]
        /\ catMap' = Bind(n, k) /\ seq' = seq + 1 /\ dbMap' = dbMap
    BY <1>1 DEF OpenConnector, OpenMemory, Opened
  <2>2. n \in Names
    BY DEF TypeOK, Names
  <2>3. /\ n \in DOMAIN catMap' /\ catMap'[n] = k
        /\ \A m \in DOMAIN catMap : m # n => m \in DOMAIN catMap' /\ catMap'[m] = catMap[m]
    BY <2>1, <2>2, BindKept
  <2>4. \A l \in Connectors : Opened(l) => name[l] # n
    BY DEF PairsOK, TypeOK, Owned
  <2>5. MakersOK'
    BY <2>1 DEF MakersOK, TypeOK, Opened
  <2>6. \A l \in Connectors : l # k =>
          /\ Opened(l)' = Opened(l) /\ phase'[l] = phase[l] /\ dsn'[l] = dsn[l]
          /\ name'[l] = name[l] /\ pool'[l] = pool[l] /\ Owned(l)' = Owned(l)
    BY <2>1 DEF TypeOK, Opened, Owned
  <2>7. Opened(k)' /\ phase'[k] = "open" /\ Owned(k)' /\ name'[k] = n /\ pool'[k] = k
    BY <2>1 DEF TypeOK, Opened, Owned
  <2>8. PairsOK'
    <3>1. ASSUME NEW l \in Connectors, Opened(l)', Owned(l)'
          PROVE  pool'[l] = l /\ \E i \in 1..seq' : name'[l] = <<Memory, i>>
      <4>1. CASE l = k
        <5>1. seq + 1 \in 1..seq'
          BY <2>1 DEF TypeOK
        <5> QED
          BY <4>1, <2>7, <5>1
      <4>2. CASE l # k
        <5>1. PICK i \in 1..seq : name[l] = <<Memory, i>>
          BY <3>1, <4>2, <2>6 DEF PairsOK
        <5>2. i \in 1..seq'
          BY <2>1 DEF TypeOK
        <5> QED
          BY <3>1, <4>2, <2>6, <5>1, <5>2 DEF PairsOK
      <4> QED
        BY <4>1, <4>2
    <3>2. ASSUME NEW l \in Connectors, Opened(l)', ~Owned(l)'
          PROVE  /\ dbMap'[dsn'[l]] # None /\ pool'[l] = dbMap'[dsn'[l]]
                 /\ name'[l] = <<dsn'[l], 0>>
      BY <3>2, <2>1, <2>6, <2>7 DEF PairsOK
    <3>3. ASSUME NEW l \in Connectors, NEW m \in Connectors, Opened(l)', Opened(m)',
                 Owned(l)', Owned(m)', name'[l] = name'[m]
          PROVE  l = m
      BY <3>3, <2>4, <2>6, <2>7 DEF PairsOK
    <3> QED
      BY <3>1, <3>2, <3>3 DEF PairsOK
  <2>9. BoundOK'
    BY <2>3, <2>4, <2>6, <2>7 DEF BoundOK, Opened
  <2> QED
    BY <2>5, <2>8, <2>9
<1>2. ASSUME NEW k \in Connectors, NEW f \in Files, OpenConnector(k, f) PROVE RegistryOK'
  <2> DEFINE n == <<f, 0>>
  <2>1. /\ ~Opened(k)
        /\ phase' = [phase EXCEPT ![k] = "open"] /\ dsn' = [dsn EXCEPT ![k] = f]
        /\ name' = [name EXCEPT ![k] = n] /\ seq' = seq
    BY <1>2 DEF OpenConnector, OpenFile, Opened
  <2>2. n \in Names
    BY DEF Names
  <2>3. /\ dbMap' \in [Files -> Connectors \cup {None}] /\ dbMap'[f] # None
        /\ pool' = [pool EXCEPT ![k] = dbMap'[f]]
        /\ \A g \in Files : g # f => dbMap'[g] = dbMap[g]
        /\ dbMap[f] # None => dbMap'[f] = dbMap[f] /\ catMap' = catMap
        /\ dbMap[f] = None => dbMap'[f] = k /\ catMap' = Bind(n, k)
    BY <1>2 DEF OpenConnector, OpenFile, TypeOK
  <2>6. \A l \in Connectors : l # k =>
          /\ Opened(l)' = Opened(l) /\ phase'[l] = phase[l] /\ dsn'[l] = dsn[l]
          /\ name'[l] = name[l] /\ pool'[l] = pool[l] /\ Owned(l)' = Owned(l)
    BY <2>1, <2>3 DEF TypeOK, Opened, Owned
  <2>7. /\ Opened(k)' /\ phase'[k] = "open" /\ ~Owned(k)' /\ dsn'[k] = f
        /\ name'[k] = n /\ pool'[k] = dbMap'[f]
    BY <2>1, <2>3 DEF TypeOK, Opened, Owned
  <2>4. ASSUME NEW l \in Connectors, Opened(l), name[l] = n PROVE dbMap[f] # None
    BY <2>4 DEF PairsOK, TypeOK, Owned
  <2>5. MakersOK'
    BY <2>1, <2>3, <2>6, <2>7 DEF MakersOK, TypeOK
  <2>8. PairsOK'
    <3>1. ASSUME NEW l \in Connectors, Opened(l)', Owned(l)'
          PROVE  pool'[l] = l /\ \E i \in 1..seq' : name'[l] = <<Memory, i>>
      BY <3>1, <2>1, <2>6, <2>7 DEF PairsOK
    <3>2. ASSUME NEW l \in Connectors, Opened(l)', ~Owned(l)'
          PROVE  /\ dbMap'[dsn'[l]] # None /\ pool'[l] = dbMap'[dsn'[l]]
                 /\ name'[l] = <<dsn'[l], 0>>
      <4>1. CASE l = k
        BY <4>1, <2>3, <2>7
      <4>2. CASE l # k
        <5>1. ~Owned(l) /\ Opened(l) /\ dsn[l] \in Files
          BY <3>2, <4>2, <2>6 DEF Owned, TypeOK
        <5> QED
          BY <4>2, <5>1, <2>3, <2>6 DEF PairsOK
      <4> QED
        BY <4>1, <4>2
    <3>3. ASSUME NEW l \in Connectors, NEW m \in Connectors, Opened(l)', Opened(m)',
                 Owned(l)', Owned(m)', name'[l] = name'[m]
          PROVE  l = m
      BY <3>3, <2>6, <2>7 DEF PairsOK
    <3> QED
      BY <3>1, <3>2, <3>3 DEF PairsOK
  <2>9. BoundOK'
    <3>1. CASE dbMap[f] = None
      <4>1. /\ n \in DOMAIN catMap' /\ catMap'[n] = k
            /\ \A m \in DOMAIN catMap : m # n => m \in DOMAIN catMap' /\ catMap'[m] = catMap[m]
        BY <3>1, <2>2, <2>3, BindKept
      <4> QED
        BY <3>1, <4>1, <2>3, <2>4, <2>6, <2>7 DEF BoundOK, Opened
    <3>2. CASE dbMap[f] # None
      <4>1. LET m == dbMap[f] IN m \in Connectors /\ Opened(m) /\ dsn[m] = f /\ ~Owned(m) /\ m # k
        BY <3>2, <2>1 DEF MakersOK, TypeOK, Owned
      <4>2. n \in DOMAIN catMap /\ catMap[n] = dbMap[f]
        BY <3>2, <4>1 DEF BoundOK, PairsOK
      <4> QED
        BY <3>2, <4>2, <2>3, <2>6, <2>7 DEF BoundOK, Opened
    <3> QED
      BY <3>1, <3>2
  <2> QED
    BY <2>5, <2>8, <2>9
<1>3. ASSUME NEW k \in Connectors, CloseStart(k) PROVE RegistryOK'
  <2>1. /\ phase[k] = "open" /\ phase' = [phase EXCEPT ![k] = "closing"] /\ catMap' = Unbind(k)
        /\ UNCHANGED <<dsn, name, pool, dbMap, seq>>
    BY <1>3 DEF CloseStart
  <2>2. \A l \in Connectors : (Opened(l)' <=> Opened(l)) /\ (phase'[l] = "open" => phase[l] = "open" /\ l # k)
    BY <2>1 DEF TypeOK, Opened
  <2>3. MakersOK' /\ PairsOK'
    BY <2>1, <2>2 DEF MakersOK, PairsOK, TypeOK, Owned
  <2>4. ASSUME NEW l \in Connectors, phase'[l] = "open" \/ (Opened(l)' /\ ~Owned(l)')
        PROVE  name[l] \in DOMAIN catMap' /\ catMap'[name[l]] = pool[l]
    <3>1. name[l] \in DOMAIN catMap /\ catMap[name[l]] = pool[l] /\ Opened(l)
      BY <2>1, <2>2, <2>4 DEF BoundOK, Owned, Opened
    <3>2. Owned(k) => name[l] # name[k]
      <4>1. ASSUME Owned(k), name[l] = name[k] PROVE FALSE
        <5>1. PICK i \in 1..seq : name[k] = <<Memory, i>>
          BY <4>1, <2>1 DEF PairsOK, Opened
        <5>2. Owned(l)
          BY <3>1, <4>1, <5>1 DEF PairsOK, TypeOK, Owned
        <5>3. l = k
          BY <2>1, <3>1, <4>1, <5>2 DEF PairsOK, Opened
        <5> QED
          BY <2>1, <2>2, <2>4, <5>2, <5>3 DEF Owned
      <4> QED
        BY <4>1
    <3> QED
      BY <2>1, <3>1, <3>2, UnbindType
  <2>5. BoundOK'
    BY <2>1, <2>4 DEF BoundOK
  <2> QED
    BY <2>3, <2>5
<1>4. ASSUME NEW k \in Connectors, CloseEnd(k) PROVE RegistryOK'
  <2>1. /\ phase[k] = "closing" /\ phase' = [phase EXCEPT ![k] = "closed"]
        /\ UNCHANGED <<dsn, name, pool, dbMap, catMap, seq>>
    BY <1>4 DEF CloseEnd, registryVars
  <2>2. \A l \in Connectors : (Opened(l)' <=> Opened(l)) /\ (phase'[l] = "open" => phase[l] = "open")
    BY <2>1 DEF TypeOK, Opened
  <2> QED
    BY <2>1, <2>2 DEF MakersOK, PairsOK, BoundOK, TypeOK, Owned
<1>5. ASSUME UNCHANGED <<connectorVars, registryVars>> PROVE RegistryOK'
  BY <1>5 DEF MakersOK, PairsOK, BoundOK, Opened, Owned, connectorVars, registryVars
<1> QED
  <2>1. CASE \E k \in Connectors : (\E d \in Dsns : OpenConnector(k, d)) \/ CloseStart(k) \/ CloseEnd(k)
    BY <2>1, <1>1, <1>2, <1>3, <1>4
  <2>2. CASE ~\E k \in Connectors : (\E d \in Dsns : OpenConnector(k, d)) \/ CloseStart(k) \/ CloseEnd(k)
    <3>1. UNCHANGED <<connectorVars, registryVars>>
      BY <2>2 DEF Next, vars, Connect, ConnectFail, Fetch, Release, Expire, Create, MeetLost, Lose,
                  TakeHandle, DropHandle, MeetLostUnmarked, connectorVars, registryVars
    <3> QED
      BY <3>1, <1>5
  <2> QED
    BY <2>1, <2>2

-----------------------------------------------------------------------------
(* The two pools.                                                          *)

\* What connector.Connect gets from the inner sql.DB.
LEMMA TakenOK ==
    ASSUME TypeOK, RegistryOK, SQLiteOK, NEW k \in Connectors, NEW c \in Inners,
           Opened(k), Take(k, c)
    PROVE  /\ Taken(k, c).state = "used" /\ Taken(k, c).of = pool[k]
           /\ pool[k] \in Connectors /\ Opened(pool[k])
           /\ phase[pool[k]] = "open" \/ ~Owned(pool[k]) => Taken(k, c).view = pool[k]
           /\ sqlite[c].state \in {"new", "idle"}
<1>1. pool[k] \in Connectors /\ sqlite[c] \in SQLiteConn
  BY DEF TypeOK
<1>2. Opened(pool[k]) /\ (Owned(pool[k]) <=> Owned(k)) /\ (Owned(k) => pool[k] = k)
  BY PairMade DEF RegistryOK
<1>3. CASE sqlite[c].state = "idle"
  <2>1. sqlite[c].of = pool[k]
    BY <1>3 DEF Take, Pooled
  <2>2. Taken(k, c) = [sqlite[c] EXCEPT !.state = "used"]
    BY <1>3 DEF Taken
  <2>3. /\ Taken(k, c).state = "used" /\ Taken(k, c).of = sqlite[c].of
        /\ Taken(k, c).view = sqlite[c].view
    BY <1>1, <2>2 DEF SQLiteConn
  <2> QED
    BY <1>1, <1>2, <1>3, <2>1, <2>3 DEF SQLiteOK
<1>4. CASE sqlite[c].state # "idle"
  <2>1. sqlite[c].state = "new"
    BY <1>4 DEF Take, Pooled
  <2>2. phase[pool[k]] = "open" \/ ~Owned(pool[k]) =>
          name[k] \in DOMAIN catMap /\ catMap[name[k]] = pool[k]
    BY <1>2 DEF RegistryOK, BoundOK
  <2> QED
    BY <1>1, <1>2, <1>4, <2>1, <2>2 DEF Taken
<1> QED
  BY <1>3, <1>4

\* A connection that is given back is closed or idle, and idle only in an
\* inner sql.DB that is open.
LEMMA GivenBackOK ==
    ASSUME TypeOK, NEW c \in Inners, sqlite[c].state \in {"used", "closed"}
    PROVE  /\ GivenBack(c).of = sqlite[c].of /\ GivenBack(c).view = sqlite[c].view
           /\ GivenBack(c).state \in {"idle", "closed"}
           /\ GivenBack(c).state = "idle" => sqlite[c].of \notin shut
<1>1. sqlite[c] \in SQLiteConn
  BY DEF TypeOK
<1> QED
  BY <1>1 DEF GivenBack, SQLiteConn

\* The state of the pools that PoolOK is about is untouched.
LEMMA PoolSame ==
    ASSUME TypeOK, PoolOK, UNCHANGED <<connectorVars, shut, sqlite, stranded>>,
           \A o \in Conns : /\ Live(o)' <=> Live(o)
                            /\ conn'[o].of = conn[o].of /\ conn'[o].inner = conn[o].inner
    PROVE  PoolOK'
<1> USE DEF connectorVars, Opened, Owned
<1>1. SQLiteOK'
  BY DEF PoolOK, SQLiteOK
<1>2. ConnOK'
  BY DEF PoolOK, ConnOK
<1>3. HeldOK'
  BY DEF PoolOK, HeldOK
<1>4. ShutOK'
  BY DEF PoolOK, ShutOK
<1> QED
  BY <1>1, <1>2, <1>3, <1>4 DEF PoolOK

\* A Conn is closed and its SQLite connection given back.
LEMMA PoolClose ==
    ASSUME TypeOK, PoolOK, NEW o \in Conns, Live(o), CloseConn(o),
           UNCHANGED <<connectorVars, shut, stranded>>
    PROVE  PoolOK'
<1> USE DEF connectorVars, Opened, Owned
<1> DEFINE c == conn[o].inner
<1>1. c \in Inners /\ c \notin stranded /\ sqlite[c].state \in {"used", "closed"}
  BY DEF PoolOK, ConnOK, HeldOK, TypeOK, SQLiteConn
<1>2. /\ \A d \in Inners : d # c => sqlite'[d] = sqlite[d]
      /\ sqlite'[c].of = sqlite[c].of /\ sqlite'[c].view = sqlite[c].view
      /\ sqlite'[c].state \in {"idle", "closed"}
      /\ sqlite'[c].state = "idle" => sqlite[c].of \notin shut
  <2>1. sqlite' = [sqlite EXCEPT ![c] = GivenBack(c)] /\ sqlite \in [Inners -> SQLiteConn]
    BY DEF CloseConn, TypeOK
  <2>2. sqlite'[c] = GivenBack(c) /\ \A d \in Inners : d # c => sqlite'[d] = sqlite[d]
    BY <1>1, <2>1
  <2> QED
    BY <1>1, <2>2, GivenBackOK
<1>3. /\ ~Live(o)'
      /\ \A p \in Conns : p # o => conn'[p] = conn[p] /\ (Live(p)' <=> Live(p))
  BY DEF CloseConn, TypeOK, Live
<1> HIDE DEF c
<1>4. SQLiteOK'
  BY <1>1, <1>2 DEF PoolOK, SQLiteOK
<1>5. ConnOK'
  BY <1>1, <1>2, <1>3 DEF PoolOK, ConnOK
<1>6. HeldOK'
  <2>1. \A p \in Conns : p # o /\ Live(p) => conn[p].inner # c
    BY DEF PoolOK, HeldOK, c
  <2>2. \A d \in Inners \ stranded : sqlite'[d].state = "used" => \E p \in Conns : Live(p)' /\ conn'[p].inner = d
    BY <1>2, <1>3 DEF PoolOK, HeldOK, c
  <2>3. \A d \in stranded : sqlite'[d].state = "used" /\ \A p \in Conns : Live(p)' => conn'[p].inner # d
    BY <1>1, <1>2, <1>3 DEF PoolOK, HeldOK, TypeOK
  <2>4. \A d \in Inners : sqlite'[d].state \in {"new", "idle"} => \A p \in Conns : Live(p)' => conn'[p].inner # d
    BY <1>2, <1>3, <2>1 DEF PoolOK, HeldOK
  <2>5. \A p, q \in Conns : Live(p)' /\ Live(q)' /\ conn'[p].inner = conn'[q].inner => p = q
    BY <1>3 DEF PoolOK, HeldOK
  <2> QED
    BY <2>2, <2>3, <2>4, <2>5 DEF HeldOK
<1>7. ShutOK'
  BY <1>2 DEF PoolOK, ShutOK
<1> QED
  BY <1>4, <1>5, <1>6, <1>7 DEF PoolOK

\* An SQLite connection is taken from the inner sql.DB, for a Conn or in vain.
LEMMA PoolTake ==
    ASSUME TypeOK, RegistryOK, PoolOK, NEW k \in Connectors, NEW c \in Inners, Opened(k),
           Take(k, c), sqlite' = [sqlite EXCEPT ![c] = Taken(k, c)],
           UNCHANGED <<connectorVars, shut>>
    PROVE  /\ SQLiteOK' /\ ShutOK'
           /\ \A d \in Inners : d # c => sqlite'[d] = sqlite[d]
           /\ sqlite'[c].state = "used" /\ sqlite'[c].of = pool[k]
           /\ c \notin stranded /\ \A o \in Conns : Live(o) => conn[o].inner # c
<1> USE DEF connectorVars, Opened, Owned
<1>1. sqlite'[c] = Taken(k, c) /\ \A d \in Inners : d # c => sqlite'[d] = sqlite[d]
  BY DEF TypeOK
<1>2. /\ sqlite'[c].state = "used" /\ sqlite'[c].of = pool[k]
      /\ pool[k] \in Connectors /\ Opened(pool[k])
      /\ phase[pool[k]] = "open" \/ ~Owned(pool[k]) => sqlite'[c].view = pool[k]
      /\ sqlite[c].state \in {"new", "idle"}
  BY <1>1, TakenOK DEF PoolOK
<1>3. SQLiteOK'
  BY <1>1, <1>2 DEF PoolOK, SQLiteOK
<1>4. ShutOK'
  BY <1>1, <1>2 DEF PoolOK, ShutOK
<1>5. c \notin stranded /\ \A o \in Conns : Live(o) => conn[o].inner # c
  BY <1>2 DEF PoolOK, HeldOK
<1> QED
  BY <1>1, <1>2, <1>3, <1>4, <1>5

LEMMA PoolNext ==
    ASSUME TypeOK, RegistryOK, PoolOK, [Next]_vars
    PROVE  PoolOK'
<1>1. ASSUME NEW k \in Connectors, NEW d \in Dsns, OpenConnector(k, d) PROVE PoolOK'
  <2>1. /\ ~Opened(k) /\ phase' = [phase EXCEPT ![k] = "open"]
        /\ \A l \in Connectors : l # k => dsn'[l] = dsn[l] /\ pool'[l] = pool[l]
        /\ UNCHANGED <<shut, sqlite, conn, stranded>>
    BY <1>1 DEF OpenConnector, OpenMemory, OpenFile, TypeOK, Opened
  <2>2. \A l \in Connectors :
          /\ Opened(l) => l # k /\ Opened(l)' /\ phase'[l] = phase[l]
          /\ phase'[l] = "closed" => l # k /\ phase[l] = "closed"
    BY <2>1 DEF TypeOK, Opened
  <2>3. SQLiteOK'
    BY <2>1, <2>2 DEF PoolOK, SQLiteOK, Owned
  <2>4. ConnOK'
    BY <2>1, <2>2 DEF PoolOK, ConnOK, Live
  <2>5. HeldOK'
    BY <2>1 DEF PoolOK, HeldOK, Live
  <2>6. ShutOK'
    BY <2>1, <2>2 DEF PoolOK, ShutOK, Owned
  <2> QED
    BY <2>3, <2>4, <2>5, <2>6 DEF PoolOK
<1>2. ASSUME NEW k \in Connectors, NEW o \in Conns, NEW c \in Inners, Connect(k, o, c)
      PROVE  PoolOK'
  <2>1. /\ Opened(k) /\ ~Live(o)
        /\ Take(k, c) /\ sqlite' = [sqlite EXCEPT ![c] = Taken(k, c)]
        /\ UNCHANGED <<connectorVars, shut, stranded>>
    BY <1>2 DEF Connect, MayConnect, Opened, Live
  <2>2. /\ SQLiteOK' /\ ShutOK'
        /\ \A d \in Inners : d # c => sqlite'[d] = sqlite[d]
        /\ sqlite'[c].state = "used" /\ sqlite'[c].of = pool[k]
        /\ c \notin stranded /\ \A p \in Conns : Live(p) => conn[p].inner # c
    BY <2>1, PoolTake
  <2>3. /\ Live(o)' /\ conn'[o].of = k /\ conn'[o].inner = c
        /\ \A p \in Conns : p # o => conn'[p] = conn[p] /\ (Live(p)' <=> Live(p))
    BY <1>2 DEF Connect, TypeOK, Live
  <2>4. ConnOK'
    BY <2>1, <2>2, <2>3 DEF PoolOK, ConnOK, connectorVars, Opened
  <2>5. HeldOK'
    <3>1. \A p, q \in Conns : Live(p)' /\ Live(q)' /\ conn'[p].inner = conn'[q].inner => p = q
      BY <2>2, <2>3 DEF PoolOK, HeldOK
    <3>2. \A d \in stranded : sqlite'[d].state = "used" /\ \A p \in Conns : Live(p)' => conn'[p].inner # d
      BY <2>2, <2>3 DEF PoolOK, HeldOK, TypeOK
    <3>3. \A d \in Inners \ stranded : sqlite'[d].state = "used" => \E p \in Conns : Live(p)' /\ conn'[p].inner = d
      <4>1. ASSUME NEW d \in Inners \ stranded, sqlite'[d].state = "used", d # c
            PROVE  \E p \in Conns : Live(p)' /\ conn'[p].inner = d
        <5>1. PICK p \in Conns : Live(p) /\ conn[p].inner = d
          BY <2>2, <4>1 DEF PoolOK, HeldOK
        <5> QED
          BY <5>1, <2>1, <2>3
      <4> QED
        BY <2>3, <4>1
    <3>4. \A d \in Inners : sqlite'[d].state \in {"new", "idle"} => \A p \in Conns : Live(p)' => conn'[p].inner # d
      BY <2>2, <2>3 DEF PoolOK, HeldOK
    <3> QED
      BY <2>1, <3>1, <3>2, <3>3, <3>4 DEF HeldOK
  <2> QED
    BY <2>2, <2>4, <2>5 DEF PoolOK
<1>3. ASSUME NEW k \in Connectors, NEW c \in Inners, ConnectFail(k, c) PROVE PoolOK'
  <2>1. /\ Opened(k) /\ Take(k, c) /\ sqlite' = [sqlite EXCEPT ![c] = Taken(k, c)]
        /\ UNCHANGED <<connectorVars, shut, conn>> /\ stranded' = stranded \cup {c}
    BY <1>3 DEF ConnectFail, MayConnect, Opened
  <2>2. /\ SQLiteOK' /\ ShutOK'
        /\ \A d \in Inners : d # c => sqlite'[d] = sqlite[d]
        /\ sqlite'[c].state = "used" /\ sqlite'[c].of = pool[k]
        /\ c \notin stranded /\ \A p \in Conns : Live(p) => conn[p].inner # c
    BY <2>1, PoolTake
  <2>3. ConnOK'
    BY <2>1, <2>2 DEF PoolOK, ConnOK, Live, connectorVars, Opened
  <2>4. HeldOK'
    BY <2>1, <2>2 DEF PoolOK, HeldOK, Live, TypeOK
  <2> QED
    BY <2>2, <2>3, <2>4 DEF PoolOK
<1>4. ASSUME NEW o \in Conns, Fetch(o) \/ MeetLost(o) PROVE PoolOK'
  <2>1. conn \in [Conns -> DriverConn] /\ conn[o] \in DriverConn
    BY DEF TypeOK
  <2>2. CASE Fetch(o)
    <3>1. /\ \A p \in Conns : p # o => conn'[p] = conn[p]
          /\ conn'[o] = [[conn[o] EXCEPT !.state = "used"] EXCEPT !.hit = FALSE]
          /\ conn[o].state = "idle"
      BY <2>1, <2>2 DEF Fetch
    <3>2. conn'[o].state = "used" /\ conn'[o].of = conn[o].of /\ conn'[o].inner = conn[o].inner
      BY <2>1, <3>1 DEF DriverConn
    <3> QED
      BY <2>2, <3>1, <3>2, PoolSame DEF Fetch, Live
  <2>3. CASE MeetLost(o)
    <3>1. /\ \A p \in Conns : p # o => conn'[p] = conn[p]
          /\ conn'[o] = [[conn[o] EXCEPT !.dead = TRUE] EXCEPT !.hit = TRUE]
      BY <2>1, <2>3 DEF MeetLost
    <3>2. conn'[o].state = conn[o].state /\ conn'[o].of = conn[o].of /\ conn'[o].inner = conn[o].inner
      BY <2>1, <3>1 DEF DriverConn
    <3> QED
      BY <2>3, <3>1, <3>2, PoolSame DEF MeetLost, Live
  <2> QED
    BY <1>4, <2>2, <2>3
<1>11. ASSUME NEW o \in Conns, TakeHandle(o) \/ DropHandle(o) \/ MeetLostUnmarked(o) PROVE PoolOK'
  <2>1. \A p \in Conns : /\ Live(p)' <=> Live(p)
                         /\ conn'[p].of = conn[p].of /\ conn'[p].inner = conn[p].inner
    BY <1>11, HandleStep DEF Live
  <2> QED
    BY <1>11, <2>1, PoolSame DEF TakeHandle, DropHandle, MeetLostUnmarked
<1>5. ASSUME NEW o \in Conns, Release(o) \/ Expire(o) PROVE PoolOK'
  <2>1. CASE CloseConn(o)
    BY <1>5, <2>1, PoolClose DEF Release, Expire, Live
  <2>2. CASE conn' = [conn EXCEPT ![o].state = "idle"] /\ UNCHANGED sqlite /\ conn[o].state = "used"
    <3>1. \A p \in Conns : /\ Live(p)' <=> Live(p)
                           /\ conn'[p].of = conn[p].of /\ conn'[p].inner = conn[p].inner
      BY <2>2 DEF Live, TypeOK, DriverConn
    <3> QED
      BY <1>5, <2>2, <3>1, PoolSame DEF Release, Expire
  <2> QED
    BY <1>5, <2>1, <2>2 DEF Release, Expire
<1>6. ASSUME NEW o \in Conns, Create(o) PROVE PoolOK'
  BY <1>6, PoolSame DEF Create, Live
<1>7. ASSUME NEW c \in Inners, Lose(c) PROVE PoolOK'
  <2>1. /\ sqlite[c].state = "used" /\ c \notin stranded
        /\ UNCHANGED <<connectorVars, shut, conn, stranded>>
    BY <1>7 DEF Lose, PoolOK, HeldOK, Live
  <2>2. /\ \A d \in Inners : d # c => sqlite'[d] = sqlite[d]
        /\ sqlite'[c].state = "closed" /\ sqlite'[c].of = sqlite[c].of
        /\ sqlite'[c].view = sqlite[c].view
    BY <1>7 DEF Lose, TypeOK, SQLiteConn
  <2>3. SQLiteOK' /\ ConnOK'
    BY <2>1, <2>2 DEF PoolOK, SQLiteOK, ConnOK, Live, connectorVars, Opened, Owned
  <2>4. HeldOK'
    BY <2>1, <2>2 DEF PoolOK, HeldOK, Live, TypeOK
  <2>5. ShutOK'
    BY <2>1, <2>2 DEF PoolOK, ShutOK, connectorVars, Owned
  <2> QED
    BY <2>3, <2>4, <2>5 DEF PoolOK
<1>8. ASSUME NEW k \in Connectors, CloseStart(k) PROVE PoolOK'
  <2>1. \A l \in Connectors : /\ Opened(l)' <=> Opened(l)
                              /\ phase'[l] = "open" => phase[l] = "open"
                              /\ phase'[l] = "closed" => phase[l] = "closed"
    BY <1>8 DEF CloseStart, TypeOK, Opened
  <2>2. UNCHANGED <<dsn, pool, shut, sqlite, conn, stranded>>
    BY <1>8 DEF CloseStart
  <2> QED
    BY <2>1, <2>2 DEF PoolOK, SQLiteOK, ConnOK, HeldOK, ShutOK, Live, Owned
<1>9. ASSUME NEW k \in Connectors, CloseEnd(k) PROVE PoolOK'
  <2>1. \A l \in Connectors : /\ Opened(l)' <=> Opened(l)
                              /\ phase'[l] = "open" => phase[l] = "open"
                              /\ phase'[l] = "closed" /\ l # k => phase[l] = "closed"
    BY <1>9 DEF CloseEnd, TypeOK, Opened
  <2>2. UNCHANGED <<dsn, pool, conn, stranded>> /\ Opened(k) /\ pool[k] \in Connectors
    BY <1>9 DEF CloseEnd, Opened, TypeOK
  <2>3. CASE ~Owned(k)
    <3>1. UNCHANGED <<shut, sqlite>>
      BY <1>9, <2>3 DEF CloseEnd
    <3> QED
      BY <2>1, <2>2, <2>3, <3>1 DEF PoolOK, SQLiteOK, ConnOK, HeldOK, ShutOK, Live, Owned
  <2>4. CASE Owned(k)
    <3>1. pool[k] = k
      BY <2>2, <2>4, PairMade DEF RegistryOK
    <3>2. shut' = shut \cup {k}
      BY <1>9, <2>4, <3>1 DEF CloseEnd, CloseInner
    <3>3. \A c \in Inners :
            /\ sqlite'[c].of = sqlite[c].of /\ sqlite'[c].view = sqlite[c].view
            /\ IF sqlite[c].of = k /\ sqlite[c].state = "idle" THEN sqlite'[c].state = "closed"
               ELSE sqlite'[c].state = sqlite[c].state
      BY <1>9, <2>4, <3>1 DEF CloseEnd, CloseInner, Pooled, TypeOK, SQLiteConn
    <3>4. SQLiteOK'
      BY <2>1, <2>2, <3>3 DEF PoolOK, SQLiteOK, Owned
    <3>5. ConnOK'
      BY <2>1, <2>2, <3>3 DEF PoolOK, ConnOK, Live
    <3>6. HeldOK'
      BY <2>2, <3>3 DEF PoolOK, HeldOK, Live, TypeOK
    <3>7. ShutOK'
      BY <2>1, <2>2, <3>2, <3>3 DEF PoolOK, ShutOK, Owned
    <3> QED
      BY <3>4, <3>5, <3>6, <3>7 DEF PoolOK
  <2> QED
    BY <2>3, <2>4
<1>10. ASSUME UNCHANGED vars PROVE PoolOK'
  BY <1>10, PoolSame DEF vars, connectorVars, Live
<1> QED
  BY <1>1, <1>2, <1>3, <1>4, <1>5, <1>6, <1>7, <1>8, <1>9, <1>10, <1>11 DEF Next

-----------------------------------------------------------------------------
(* The tables.                                                             *)

\* Steps that make no table and no connector.
LEMMA StoreSame ==
    ASSUME StoreOK, UNCHANGED <<dsn, pool, dbMap, specs, tables>>,
           \A k \in Connectors : Opened(k) => Opened(k)',
           \A p \in Connectors : specs[p] \subseteq Connectors,
           \A f \in Files : tables[f] \subseteq Connectors,
           \A c \in Inners : sqlite[c].of \in Connectors => sqlite'[c].of = sqlite[c].of,
           \A c \in Inners : tables[c] \subseteq Connectors
    PROVE  StoreOK'
<1>1. PlacedOK'
  BY DEF StoreOK, PlacedOK
<1>2. AgreeOK'
  BY DEF StoreOK, AgreeOK
<1> QED
  BY <1>1, <1>2 DEF StoreOK

LEMMA StoreNext ==
    ASSUME TypeOK, RegistryOK, PoolOK, StoreOK, [Next]_vars, RegistryOK'
    PROVE  StoreOK'
<1>t. /\ \A p \in Connectors : specs[p] \subseteq Connectors
      /\ \A f \in Files : tables[f] \subseteq Connectors
      /\ \A c \in Inners : tables[c] \subseteq Connectors
  BY DEF TypeOK, Databases
<1>1. ASSUME NEW k \in Connectors, OpenConnector(k, Memory) PROVE StoreOK'
  <2>1. /\ ~Opened(k) /\ Opened(k)'
        /\ \A l \in Connectors : l # k => /\ Opened(l)' = Opened(l)
                                          /\ dsn'[l] = dsn[l] /\ pool'[l] = pool[l]
        /\ UNCHANGED <<dbMap, sqlite, specs, tables>>
    BY <1>1 DEF OpenConnector, OpenMemory, TypeOK, Opened
  <2>2. PlacedOK'
    BY <1>t, <2>1 DEF StoreOK, PlacedOK
  <2>3. AgreeOK'
    BY <2>1 DEF StoreOK, AgreeOK
  <2> QED
    BY <2>2, <2>3 DEF StoreOK
<1>2. ASSUME NEW k \in Connectors, NEW f \in Files, OpenConnector(k, f) PROVE StoreOK'
  <2>1. /\ ~Opened(k) /\ Opened(k)'
        /\ \A l \in Connectors : l # k => /\ Opened(l)' = Opened(l)
                                          /\ dsn'[l] = dsn[l] /\ pool'[l] = pool[l]
        /\ \A g \in Files : g # f => dbMap'[g] = dbMap[g]
        /\ dbMap'[f] = IF dbMap[f] = None THEN k ELSE dbMap[f]
        /\ UNCHANGED <<sqlite, specs, tables>>
    BY <1>2 DEF OpenConnector, OpenFile, TypeOK, Opened
  <2>2. PlacedOK'
    BY <1>t, <2>1 DEF StoreOK, PlacedOK
  <2>3. specs[k] = {}
    <3>1. ASSUME NEW l \in specs[k] PROVE FALSE
      <4>1. l \in Connectors /\ Opened(l) /\ pool[l] = k
        BY <1>t DEF StoreOK, PlacedOK
      <4> QED
        BY <4>1, <2>1, PairMade DEF RegistryOK
    <3> QED
      BY <3>1
  <2>4. AgreeOK'
    <3>1. \A g \in Files : g # f => (dbMap[g] = None => tables[g] = {}) /\ (dbMap[g] # None => specs[dbMap[g]] = tables[g])
      BY DEF StoreOK, AgreeOK
    <3>2. dbMap[f] # None => specs[dbMap[f]] = tables[f]
      BY DEF StoreOK, AgreeOK
    <3>3. dbMap[f] = None => tables[f] = {}
      BY DEF StoreOK, AgreeOK
    <3>4. dbMap'[f] # None /\ specs[dbMap'[f]] = tables[f]
      BY <2>1, <2>3, <3>2, <3>3
    <3> QED
      BY <2>1, <3>1, <3>4 DEF AgreeOK
  <2> QED
    BY <2>2, <2>4 DEF StoreOK
<1>3. ASSUME NEW o \in Conns, Create(o) PROVE StoreOK'
  <2> DEFINE k == conn[o].of
  <2> DEFINE c == conn[o].inner
  <2>1. /\ k \in Connectors /\ c \in Inners /\ Opened(k) /\ sqlite[c].of = pool[k]
        /\ pool[k] \in Connectors /\ dsn[k] \in Dsns
    BY <1>3 DEF Create, PoolOK, ConnOK, Live, TypeOK
  <2>2. /\ specs' = [specs EXCEPT ![pool[k]] = @ \cup {k}]
        /\ tables' = [tables EXCEPT ![IF Owned(k) THEN c ELSE dsn[k]] = @ \cup {k}]
        /\ UNCHANGED <<phase, dsn, pool, dbMap, sqlite>>
    BY <1>3 DEF Create, Catalog, Database, connectorVars, registryVars
  <2> HIDE DEF k, c
  <2>3. specs'[pool[k]] = specs[pool[k]] \cup {k} /\ \A p \in Connectors : p # pool[k] => specs'[p] = specs[p]
    BY <2>1, <2>2 DEF TypeOK
  <2>4. CASE Owned(k)
    <3>1. /\ tables'[c] = tables[c] \cup {k}
          /\ \A d \in Databases : d # c => tables'[d] = tables[d]
      BY <2>1, <2>2, <2>4 DEF TypeOK, Databases
    <3>2. pool[k] = k
      BY <2>1, <2>4, PairMade DEF RegistryOK
    <3>3. \A f \in Files : tables'[f] = tables[f]
      BY <2>1, <3>1 DEF Databases
    <3>4. PlacedOK'
      <4>1. \A p \in Connectors : \A l \in specs'[p] : Opened(l)' /\ pool'[l] = p
        BY <2>1, <2>2, <2>3 DEF StoreOK, PlacedOK, Opened
      <4>2. \A f \in Files : \A l \in tables'[f] : Opened(l)' /\ dsn'[l] = f
        BY <2>2, <3>3 DEF StoreOK, PlacedOK, Opened
      <4>3. \A d \in Inners : \A l \in tables'[d] : sqlite'[d].of = l /\ l \in specs'[l]
        BY <1>t, <2>1, <2>2, <2>3, <3>1, <3>2 DEF StoreOK, PlacedOK, Databases
      <4> QED
        BY <4>1, <4>2, <4>3 DEF PlacedOK
    <3>5. \A f \in Files : dbMap[f] # pool[k]
      BY <2>1, <2>4, <3>2 DEF RegistryOK, MakersOK, Owned
    <3>6. \A f \in Files : dbMap[f] # None => specs'[dbMap[f]] = specs[dbMap[f]]
      BY <2>3, <3>5 DEF TypeOK
    <3>7. AgreeOK'
      BY <2>2, <3>3, <3>6 DEF StoreOK, AgreeOK
    <3> QED
      BY <3>4, <3>7 DEF StoreOK
  <2>5. CASE ~Owned(k)
    <3>1. dsn[k] \in Files /\ dbMap[dsn[k]] = pool[k] /\ dbMap[dsn[k]] # None
      BY <2>1, <2>5 DEF RegistryOK, PairsOK, Owned
    <3>2. /\ tables'[dsn[k]] = tables[dsn[k]] \cup {k}
          /\ \A d \in Databases : d # dsn[k] => tables'[d] = tables[d]
      BY <2>2, <2>5, <3>1 DEF TypeOK, Databases
    <3>3. PlacedOK'
      <4>1. \A p \in Connectors : \A l \in specs'[p] : Opened(l)' /\ pool'[l] = p
        BY <2>1, <2>2, <2>3 DEF StoreOK, PlacedOK, Opened
      <4>2. \A f \in Files : \A l \in tables'[f] : Opened(l)' /\ dsn'[l] = f
        BY <2>1, <2>2, <3>2 DEF StoreOK, PlacedOK, Opened, Databases
      <4>3. \A d \in Inners : \A l \in tables'[d] : sqlite'[d].of = l /\ l \in specs'[l]
        BY <1>t, <2>2, <2>3, <3>1, <3>2 DEF StoreOK, PlacedOK, Databases
      <4> QED
        BY <4>1, <4>2, <4>3 DEF PlacedOK
    <3>4. ASSUME NEW f \in Files, f # dsn[k], dbMap[f] # None PROVE dbMap[f] # pool[k]
      BY <3>1, <3>4 DEF RegistryOK, MakersOK
    <3>5. AgreeOK'
      <4>1. ASSUME NEW f \in Files PROVE IF dbMap'[f] = None THEN tables'[f] = {} ELSE specs'[dbMap'[f]] = tables'[f]
        <5>1. CASE f = dsn[k]
          BY <5>1, <2>2, <2>3, <3>1, <3>2 DEF StoreOK, AgreeOK
        <5>2. CASE f # dsn[k]
          <6>1. dbMap[f] # None => specs'[dbMap[f]] = specs[dbMap[f]]
            BY <5>2, <2>3, <3>4 DEF TypeOK
          <6>2. tables'[f] = tables[f]
            BY <5>2, <3>2 DEF Databases
          <6> QED
            BY <2>2, <6>1, <6>2 DEF StoreOK, AgreeOK
        <5> QED
          BY <5>1, <5>2
      <4> QED
        BY <4>1 DEF AgreeOK
    <3> QED
      BY <3>3, <3>5 DEF StoreOK
  <2> QED
    BY <2>4, <2>5
<1>4. ASSUME UNCHANGED <<dsn, pool, dbMap, specs, tables>>, \A k \in Connectors : Opened(k) => Opened(k)',
             \A c \in Inners : sqlite[c].of \in Connectors => sqlite'[c].of = sqlite[c].of
      PROVE  StoreOK'
  BY <1>4, <1>t, StoreSame
<1>5. ASSUME NEW k \in Connectors, NEW c \in Inners, Opened(k), Take(k, c),
             sqlite' = [sqlite EXCEPT ![c] = Taken(k, c)],
             UNCHANGED <<connectorVars, registryVars, specs, tables>>
      PROVE  StoreOK'
  <2>1. sqlite'[c] = Taken(k, c) /\ \A d \in Inners : d # c => sqlite'[d] = sqlite[d]
    BY <1>5 DEF TypeOK
  <2>2. sqlite[c].of \in Connectors => Taken(k, c).of = sqlite[c].of
    <3>1. sqlite[c].state = "new" => sqlite[c].of = None
      BY DEF PoolOK, SQLiteOK
    <3>2. sqlite[c].state # "new" => sqlite[c].of = pool[k]
      BY <1>5 DEF Take, Pooled
    <3>3. Taken(k, c).of = pool[k]
      BY <1>5, TakenOK DEF PoolOK
    <3> QED
      BY <3>1, <3>2, <3>3
  <2> QED
    BY <1>5, <2>1, <2>2, <1>4 DEF connectorVars, registryVars, Opened
<1>6. ASSUME NEW k \in Connectors, NEW o \in Conns, NEW c \in Inners, Connect(k, o, c)
      PROVE  StoreOK'
  BY <1>5, <1>6 DEF Connect, MayConnect, Opened
<1>7. ASSUME NEW k \in Connectors, NEW c \in Inners, ConnectFail(k, c) PROVE StoreOK'
  BY <1>5, <1>7 DEF ConnectFail, MayConnect, Opened
<1>8. ASSUME NEW o \in Conns, \/ Fetch(o) \/ MeetLost(o)
                              \/ TakeHandle(o) \/ DropHandle(o) \/ MeetLostUnmarked(o)
      PROVE  StoreOK'
  BY <1>4, <1>8 DEF Fetch, MeetLost, TakeHandle, DropHandle, MeetLostUnmarked,
                    connectorVars, registryVars, Opened
<1>9. ASSUME NEW o \in Conns, Release(o) \/ Expire(o) PROVE StoreOK'
  <2>1. UNCHANGED <<phase, dsn, pool, dbMap, specs, tables>>
    BY <1>9 DEF Release, Expire, connectorVars, registryVars
  <2>2. CASE CloseConn(o)
    <3>a. Live(o)
      BY <1>9 DEF Release, Expire, Live
    <3>1. conn[o].inner \in Inners /\ sqlite[conn[o].inner].state \in {"used", "closed"}
      <4>1. conn[o].inner \in Inners
        BY <3>a DEF PoolOK, ConnOK
      <4>2. sqlite[conn[o].inner].state \in {"new", "idle", "used", "closed"}
        BY <4>1 DEF TypeOK, SQLiteConn
      <4>3. sqlite[conn[o].inner].state \notin {"new", "idle"}
        BY <3>a, <4>1 DEF PoolOK, HeldOK
      <4> QED
        BY <4>1, <4>2, <4>3
    <3>2. GivenBack(conn[o].inner).of = sqlite[conn[o].inner].of
      BY <3>1, GivenBackOK
    <3>3. \A c \in Inners : sqlite'[c].of = sqlite[c].of
      BY <2>2, <3>1, <3>2 DEF CloseConn, TypeOK
    <3> QED
      BY <1>4, <2>1, <3>3 DEF Opened
  <2>3. CASE UNCHANGED sqlite
    BY <1>4, <2>1, <2>3 DEF Opened
  <2> QED
    BY <1>9, <2>2, <2>3 DEF Release, Expire
<1>10. ASSUME NEW c \in Inners, Lose(c) PROVE StoreOK'
  <2>1. \A d \in Inners : sqlite'[d].of = sqlite[d].of
    BY <1>10 DEF Lose, TypeOK, SQLiteConn
  <2> QED
    BY <1>4, <1>10, <2>1 DEF Lose, connectorVars, registryVars, Opened
<1>11. ASSUME NEW k \in Connectors, CloseStart(k) PROVE StoreOK'
  BY <1>4, <1>11 DEF CloseStart, TypeOK, Opened
<1>12. ASSUME NEW k \in Connectors, CloseEnd(k) PROVE StoreOK'
  <2>1. ASSUME NEW c \in Inners PROVE sqlite'[c].of = sqlite[c].of
    <3>1. sqlite[c] \in SQLiteConn
      BY DEF TypeOK
    <3>2. sqlite'[c] = sqlite[c] \/ sqlite'[c] = [sqlite[c] EXCEPT !.state = "closed"]
      BY <1>12 DEF CloseEnd, CloseInner
    <3> QED
      BY <3>1, <3>2 DEF SQLiteConn
  <2> QED
    BY <1>4, <1>12, <2>1 DEF CloseEnd, registryVars, TypeOK, Opened
<1>13. ASSUME UNCHANGED vars PROVE StoreOK'
  BY <1>4, <1>13 DEF vars, Opened
<1> QED
  BY <1>1, <1>2, <1>3, <1>6, <1>7, <1>8, <1>9, <1>10, <1>11, <1>12, <1>13 DEF Next

-----------------------------------------------------------------------------
(* Dead connections.                                                       *)

LEMMA DeadNext ==
    ASSUME TypeOK, DeadOK, [Next]_vars
    PROVE  DeadOK'
<1>t. conn \in [Conns -> DriverConn] /\ failed \in [Conns -> Nat]
  BY DEF TypeOK
<1>s. ASSUME NEW o \in Conns, \A p \in Conns : p # o => conn'[p] = conn[p] /\ failed'[p] = failed[p],
             conn'[o].state \in {"new", "idle"} => ~conn'[o].dead,
             conn'[o].state = "used" /\ conn'[o].dead => conn'[o].hit,
             failed'[o] = IF conn'[o].dead THEN 1 ELSE 0
      PROVE  DeadOK'
  BY <1>s DEF DeadOK
<1>1. ASSUME NEW k \in Connectors, NEW o \in Conns, NEW c \in Inners, Connect(k, o, c)
      PROVE  DeadOK'
  <2>1. /\ ~conn'[o].dead /\ ~conn'[o].hit /\ conn'[o].state = "used" /\ failed' = failed
        /\ \A p \in Conns : p # o => conn'[p] = conn[p]
    BY <1>1, <1>t DEF Connect
  <2>2. failed[o] = 0
    BY <1>1 DEF Connect, DeadOK
  <2> QED
    BY <1>s, <2>1, <2>2
<1>2. ASSUME NEW o \in Conns, Fetch(o) PROVE DeadOK'
  <2>1. /\ conn'[o] = [[conn[o] EXCEPT !.state = "used"] EXCEPT !.hit = FALSE]
        /\ \A p \in Conns : p # o => conn'[p] = conn[p]
        /\ conn[o].state = "idle" /\ failed' = failed
    BY <1>2, <1>t DEF Fetch
  <2>2. conn'[o].state = "used" /\ conn'[o].hit = FALSE /\ conn'[o].dead = conn[o].dead
    BY <1>t, <2>1 DEF DriverConn
  <2>3. ~conn[o].dead /\ failed[o] = 0
    BY <2>1 DEF DeadOK
  <2> QED
    BY <1>s, <2>1, <2>2, <2>3
<1>3. ASSUME NEW o \in Conns, Release(o) \/ Expire(o) PROVE DeadOK'
  <2>1. /\ \A p \in Conns : p # o => conn'[p] = conn[p]
        /\ \/ conn'[o] = [conn[o] EXCEPT !.state = "idle"] /\ ~conn[o].dead
           \/ conn'[o] = [[conn[o] EXCEPT !.state = "closed"] EXCEPT !.handle = FALSE]
    BY <1>3, <1>t DEF Release, Expire, CloseConn, IsValid
  <2>2. conn[o] \in DriverConn
    BY <1>t
  <2>3. /\ conn'[o].state \in {"idle", "closed"} /\ conn'[o].dead = conn[o].dead
        /\ conn'[o].state = "idle" => ~conn[o].dead
    <3>1. CASE conn'[o] = [conn[o] EXCEPT !.state = "idle"] /\ ~conn[o].dead
      BY <2>2, <3>1 DEF DriverConn
    <3>2. CASE conn'[o] = [[conn[o] EXCEPT !.state = "closed"] EXCEPT !.handle = FALSE]
      BY <2>2, <3>2 DEF DriverConn
    <3> QED
      BY <2>1, <3>1, <3>2
  <2>4. failed' = failed /\ failed[o] = IF conn[o].dead THEN 1 ELSE 0
    BY <1>3 DEF Release, Expire, DeadOK
  <2> QED
    BY <1>s, <2>1, <2>2, <2>3, <2>4
<1>4. ASSUME NEW o \in Conns, MeetLost(o) PROVE DeadOK'
  <2>1. /\ conn'[o] = [[conn[o] EXCEPT !.dead = TRUE] EXCEPT !.hit = TRUE]
        /\ \A p \in Conns : p # o => conn'[p] = conn[p] /\ failed'[p] = failed[p]
        /\ conn[o].state = "used"
        /\ failed'[o] = IF conn[o].dead /\ conn[o].hit THEN failed[o] ELSE failed[o] + 1
    BY <1>4, <1>t DEF MeetLost, Noted
  <2>2. conn'[o].state = "used" /\ conn'[o].hit = TRUE /\ conn'[o].dead = TRUE
    BY <1>t, <2>1 DEF DriverConn
  <2>3. (conn[o].dead => conn[o].hit) /\ failed[o] = IF conn[o].dead THEN 1 ELSE 0
    BY <2>1 DEF DeadOK
  <2>4. failed'[o] = 1
    BY <2>1, <2>3
  <2> QED
    BY <1>s, <2>1, <2>2, <2>4
<1>6. ASSUME NEW o \in Conns, TakeHandle(o) \/ DropHandle(o) \/ MeetLostUnmarked(o) PROVE DeadOK'
  <2>1. /\ \A p \in Conns : p # o => conn'[p] = conn[p]
        /\ conn'[o].state = conn[o].state /\ conn'[o].dead = conn[o].dead
        /\ conn'[o].hit = TRUE \/ conn'[o].hit = conn[o].hit
    BY <1>6, HandleStep
  <2>2. failed' = failed
    <3>1. CASE MeetLostUnmarked(o)
      <4>1. ~conn[o].dead \/ (conn[o].dead /\ conn[o].hit)
        BY <3>1 DEF MeetLostUnmarked, DeadOK
      <4>2. failed' = [failed EXCEPT ![o] = failed[o]]
        BY <3>1, <4>1 DEF MeetLostUnmarked, Noted
      <4> QED
        BY <1>t, <4>2
    <3>2. CASE TakeHandle(o) \/ DropHandle(o)
      BY <3>2 DEF TakeHandle, DropHandle
    <3> QED
      BY <1>6, <3>1, <3>2
  <2>3. /\ conn[o].state \in {"new", "idle"} => ~conn[o].dead
        /\ conn[o].state = "used" /\ conn[o].dead => conn[o].hit
        /\ failed[o] = IF conn[o].dead THEN 1 ELSE 0
    BY DEF DeadOK
  <2> QED
    BY <1>s, <2>1, <2>2, <2>3
<1>5. ASSUME UNCHANGED <<conn, failed>> PROVE DeadOK'
  BY <1>5 DEF DeadOK
<1> QED
  <2>1. CASE \/ \E k \in Connectors, d \in Dsns : OpenConnector(k, d)
             \/ \E k \in Connectors, c \in Inners : ConnectFail(k, c)
             \/ \E o \in Conns : Create(o)
             \/ \E c \in Inners : Lose(c)
             \/ \E k \in Connectors : CloseStart(k) \/ CloseEnd(k)
             \/ UNCHANGED vars
    BY <2>1, <1>5 DEF OpenConnector, ConnectFail, Create, Lose, CloseStart, CloseEnd, vars
  <2> QED
    BY <1>1, <1>2, <1>3, <1>4, <1>6, <2>1 DEF Next

-----------------------------------------------------------------------------
(* The theorems.                                                           *)

LEMMA ConnInvariant == Spec => []ConnInv
<1>1. ASSUME ConnInv, [Next]_vars PROVE ConnInv'
  <2>1. TypeOK'
    BY <1>1, TypeNext DEF ConnInv, PoolOK
  <2>2. RegistryOK'
    BY <1>1, RegistryNext DEF ConnInv
  <2>3. PoolOK'
    BY <1>1, PoolNext DEF ConnInv
  <2>4. StoreOK'
    BY <1>1, <2>2, StoreNext DEF ConnInv
  <2>5. DeadOK'
    BY <1>1, DeadNext DEF ConnInv
  <2> QED
    BY <2>1, <2>2, <2>3, <2>4, <2>5 DEF ConnInv
<1> QED
  BY <1>1, ConnInit, PTL DEF Spec

\* Type correctness: a connector always uses a pair that some connector made
\* and the registry maps DSNs to such pairs, whatever is opened, lost and
\* closed (driver.go).
THEOREM ConnTypeCorrect == Spec => []TypeOK
<1>1. ConnInv => TypeOK
  BY DEF ConnInv
<1> QED
  BY <1>1, ConnInvariant, PTL

\* Although all connectors share one registry, a Conn finds no object of
\* another store in its catalog or in SQLite, INFORMATION_SCHEMA shows the
\* catalog its statements use, and that catalog has what its SQLite database
\* has: for a file nothing else, for a private in-memory DSN also what other
\* Conns of the sql.DB created (Driver.OpenConnector, newDBAndCatalog and
\* internalSQLiteDriver.Open).
THEOREM OwnStoreKept == Spec => []OwnStore
<1>1. ASSUME ConnInv PROVE OwnStore
  <2> USE DEF ConnInv
  <2>0. ASSUME NEW o \in Conns, Live(o)
        PROVE  /\ conn[o].of \in Connectors /\ conn[o].inner \in Inners /\ Opened(conn[o].of)
               /\ pool[conn[o].of] \in Connectors /\ dsn[conn[o].of] \in Dsns
               /\ sqlite[conn[o].inner].of = pool[conn[o].of]
    BY <1>1, <2>0 DEF PoolOK, ConnOK, TypeOK
  <2>1. Isolated
    <3>1. ASSUME NEW o \in Conns, Live(o), NEW k \in specs[Catalog(o)] PROVE SameStore(k, conn[o].of)
      <4>1. k \in Connectors /\ Opened(k) /\ pool[k] = pool[conn[o].of]
        BY <1>1, <2>0, <3>1 DEF TypeOK, StoreOK, PlacedOK, Catalog
      <4> QED
        BY <1>1, <2>0, <3>1, <4>1, SamePair DEF RegistryOK
    <3>2. ASSUME NEW o \in Conns, Live(o), Owned(conn[o].of), NEW k \in tables[Database(o)]
          PROVE  SameStore(k, conn[o].of)
      <4>1. sqlite[conn[o].inner].of = k
        BY <1>1, <2>0, <3>2 DEF StoreOK, PlacedOK, Database
      <4> QED
        BY <1>1, <2>0, <3>2, <4>1, PairMade DEF RegistryOK, SameStore
    <3>3. ASSUME NEW o \in Conns, Live(o), ~Owned(conn[o].of), NEW k \in tables[Database(o)]
          PROVE  SameStore(k, conn[o].of)
      <4>1. dsn[conn[o].of] \in Files /\ k \in tables[dsn[conn[o].of]]
        BY <2>0, <3>3 DEF Owned, Database
      <4>2. dsn[k] = dsn[conn[o].of]
        BY <1>1, <4>1 DEF StoreOK, PlacedOK
      <4> QED
        BY <3>3, <4>2 DEF SameStore, Owned
    <3> QED
      BY <3>1, <3>2, <3>3 DEF Isolated
  <2>2. FileShared
    <3>1. ASSUME NEW o \in Conns, Live(o), ~Owned(conn[o].of) PROVE specs[Catalog(o)] = tables[Database(o)]
      <4>1. dsn[conn[o].of] \in Files /\ Database(o) = dsn[conn[o].of]
        BY <2>0, <3>1 DEF Owned, Database
      <4>2. dbMap[dsn[conn[o].of]] # None /\ pool[conn[o].of] = dbMap[dsn[conn[o].of]]
        BY <1>1, <2>0, <3>1 DEF RegistryOK, PairsOK
      <4> QED
        BY <1>1, <4>1, <4>2 DEF StoreOK, AgreeOK, Catalog
    <3> QED
      BY <3>1 DEF FileShared
  <2>3. InfoSchemaBound
    <3>1. ASSUME NEW o \in Conns, Live(o), phase[conn[o].of] = "open"
          PROVE  sqlite[conn[o].inner].view = Catalog(o)
      <4>1. sqlite[conn[o].inner].state # "new"
        BY <1>1, <2>0, <3>1 DEF PoolOK, SQLiteOK
      <4>2. LET p == pool[conn[o].of] IN phase[p] = "open" \/ ~Owned(p)
        BY <1>1, <2>0, <3>1, PairMade DEF RegistryOK
      <4> QED
        BY <1>1, <2>0, <3>1, <4>1, <4>2 DEF PoolOK, SQLiteOK, Catalog
    <3> QED
      BY <3>1 DEF InfoSchemaBound
  <2>4. MemoryWithin
    <3>1. ASSUME NEW o \in Conns, Live(o), Owned(conn[o].of), NEW k \in tables[Database(o)]
          PROVE  k \in specs[Catalog(o)]
      <4>1. sqlite[conn[o].inner].of = k /\ k \in specs[k]
        BY <1>1, <2>0, <3>1 DEF StoreOK, PlacedOK, Database
      <4> QED
        BY <2>0, <3>1, <4>1 DEF Catalog
    <3> QED
      BY <3>1 DEF MemoryWithin
  <2> QED
    BY <2>1, <2>2, <2>3, <2>4 DEF OwnStore
<1> QED
  BY <1>1, ConnInvariant, PTL

\* The inner pool is accounted for: an SQLite connection is checked out
\* exactly while one Conn holds it, and none is left once a private in-memory
\* sql.DB and its Conns are closed, except for those that a failed
\* connector.Connect stranded (Conn.Close, connector.Close).
THEOREM InnersReleased == Spec => []InnerReleased
<1>1. ASSUME ConnInv PROVE InnerReleased
  <2> USE DEF ConnInv
  <2>1. InnerAccounted
    <3>1. ASSUME NEW c \in Inners \ stranded, sqlite[c].state = "used"
          PROVE  Cardinality({o \in Conns : Live(o) /\ conn[o].inner = c}) = 1
      <4>1. PICK o \in Conns : Live(o) /\ conn[o].inner = c
        BY <1>1, <3>1 DEF PoolOK, HeldOK
      <4>2. {p \in Conns : Live(p) /\ conn[p].inner = c} = {o}
        BY <1>1, <4>1 DEF PoolOK, HeldOK
      <4> QED
        BY <4>2, FS_Singleton
    <3>2. ASSUME NEW c \in Inners \ stranded, sqlite[c].state \in {"new", "idle"}
          PROVE  {o \in Conns : Live(o) /\ conn[o].inner = c} = {}
      BY <1>1, <3>2 DEF PoolOK, HeldOK
    <3> QED
      BY <3>1, <3>2 DEF InnerAccounted
  <2>2. MemoryReleased
    <3>1. ASSUME NEW k \in Connectors, phase[k] = "closed", Owned(k),
                 \A o \in Conns : conn[o].of = k => ~Live(o),
                 NEW c \in Inners \ stranded, sqlite[c].of = k
          PROVE  sqlite[c].state = "closed"
      <4>1. sqlite[c].state # "idle" /\ sqlite[c].state # "new"
        BY <1>1, <3>1 DEF PoolOK, ShutOK, SQLiteOK
      <4>2. ASSUME sqlite[c].state = "used" PROVE FALSE
        <5>1. PICK o \in Conns : Live(o) /\ conn[o].inner = c
          BY <1>1, <3>1, <4>2 DEF PoolOK, HeldOK
        <5>2. conn[o].of \in Connectors /\ Opened(conn[o].of) /\ pool[conn[o].of] = k
          BY <1>1, <3>1, <5>1 DEF PoolOK, ConnOK
        <5>3. conn[o].of = k
          BY <1>1, <3>1, <5>2, PairMade DEF RegistryOK
        <5> QED
          BY <3>1, <5>1, <5>3
      <4>3. sqlite[c].state \in {"new", "idle", "used", "closed"}
        BY <1>1 DEF TypeOK, SQLiteConn
      <4> QED
        BY <4>1, <4>2, <4>3
    <3> QED
      BY <3>1 DEF MemoryReleased
  <2> QED
    BY <2>1, <2>2 DEF InnerReleased
<1> QED
  BY <1>1, ConnInvariant, PTL

\* From the request on that first gets ErrBadConn for a lost SQLite
\* connection no other request meets the loss, whatever Commit, Rollback and
\* prepared statements met before: translateConnDone marks the Conn dead, and
\* Conn.IsValid keeps it from being handed out again.
THEOREM DeadIsRetired == Spec => []BadConnRetires
<1>1. ConnInv => BadConnRetires
  BY DEF ConnInv, DeadOK, BadConnRetires
<1> QED
  BY <1>1, ConnInvariant, PTL
=============================================================================
