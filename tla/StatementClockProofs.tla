------------------------ MODULE StatementClockProofs ------------------------
(***************************************************************************)
(* Proofs about the statement clock, for any connections and statements.   *)
(* Each theorem names what it excludes of panics, overlapping statements   *)
(* and reopened connections; prepared statements are always there.         *)
(***************************************************************************)
EXTENDS StatementClock, TLAPS

\* Two Conns never hold the same SQLite connection.
InnerExclusive ==
    \A o, q \in Conns : inner[o] # None /\ inner[o] = inner[q] => o = q

\* A statement runs on an open Conn and began in the past.
Placed(s) ==
    /\ on[s] \in Conns
    /\ inner[on[s]] \in InnerConns
    /\ started[s] <= now

ActivePlaced == \A s \in Stmts : Active(s) => Placed(s)

\* A frozen clock belongs to an active statement of a Conn that has it.
FrozenBy(c) ==
    LET s == clock[c].token IN
    /\ s \in Stmts
    /\ Active(s)
    /\ how[s] # "prepared"
    /\ inner[on[s]] = c
    /\ owns[on[s]]
    /\ clock[c].nanos = started[s]

FrozenOwned == \A c \in InnerConns : clock[c].nanos # 0 => FrozenBy(c)

\* The clock an active statement reads is unset or was set after it began.
ClockAhead ==
    \A s \in Stmts :
        (Active(s) /\ how[s] # "prepared") =>
            LET c == inner[on[s]] IN clock[c].nanos = 0 \/ clock[c].nanos >= started[s]

\* A statement that has not begun has evaluated nothing.
NewUnseen == \A s \in Stmts : phase[s] = "new" => seen[s] = {}

\* No statement panics: a script that does leaves a clock frozen.
NoPanic == "panic" \notin Environment

ClockInv ==
    /\ TypeOK
    /\ NewUnseen
    /\ InnerExclusive
    /\ ActivePlaced
    /\ FrozenOwned
    /\ ClockAhead
    /\ NoInstantFromBefore

LEMMA ClockInit == Init => ClockInv
BY DEF Init, ClockInv, TypeOK, Clock, InnerExclusive, ActivePlaced, Active,
       FrozenOwned, ClockAhead, NoInstantFromBefore, NewUnseen

LEMMA ClockNext == NoPanic /\ ClockInv /\ [Next]_vars => ClockInv'
<1> SUFFICES ASSUME NoPanic, ClockInv, [Next]_vars PROVE ClockInv'
  OBVIOUS
<1> USE EnvironmentAssumption DEF ClockInv
<1>1. ASSUME NEW o \in Conns, NEW c \in InnerConns, NewConn(o, c) PROVE ClockInv'
  <2>1. /\ inner' = [inner EXCEPT ![o] = c] /\ inner[o] = None
        /\ \A q \in Conns : inner[q] # c
        /\ UNCHANGED <<clock, phase, how, on, started, seen, now>>
    BY <1>1 DEF NewConn, CheckedOut, stmtVars
  <2>2. \A s \in Stmts : Active(s) => on[s] \in Conns /\ on[s] # o
    BY <2>1 DEF ActivePlaced, Placed
  <2>3. \A q \in Conns : q # o => inner'[q] = inner[q] /\ owns'[q] = owns[q]
    BY <1>1, <2>1 DEF NewConn, TypeOK
  <2>4. TypeOK'
    BY <1>1, <2>1 DEF NewConn, TypeOK, OpenSQLite
  <2>5. InnerExclusive'
    BY <2>1 DEF InnerExclusive, TypeOK
  <2>6. ActivePlaced'
    BY <2>1, <2>2, <2>3 DEF ActivePlaced, Placed, Active
  <2>7. FrozenOwned'
    BY <2>1, <2>2, <2>3 DEF FrozenOwned, FrozenBy, Active
  <2>8. ClockAhead'
    BY <2>1, <2>2, <2>3 DEF ClockAhead, Active
  <2>9. NoInstantFromBefore' /\ NewUnseen'
    BY <2>1 DEF NoInstantFromBefore, NewUnseen
  <2> QED
    BY <2>4, <2>5, <2>6, <2>7, <2>8, <2>9
<1>2. ASSUME NEW o \in Conns, Close(o) PROVE ClockInv'
  <2>1. /\ inner' = [inner EXCEPT ![o] = None] /\ owns' = [owns EXCEPT ![o] = FALSE]
        /\ UNCHANGED <<clock, opened, table, phase, how, on, started, seen, now>>
    BY <1>2 DEF Close, stmtVars
  <2>2. \A s \in Stmts : Active(s) => on[s] \in Conns /\ on[s] # o
    BY <1>2 DEF Close, ActiveOn, ActivePlaced, Placed
  <2>3. \A q \in Conns : q # o => inner'[q] = inner[q] /\ owns'[q] = owns[q]
    BY <2>1 DEF TypeOK
  <2>4. TypeOK'
    BY <2>1 DEF TypeOK
  <2>5. InnerExclusive'
    BY <2>1 DEF InnerExclusive, TypeOK
  <2>6. ActivePlaced'
    BY <2>1, <2>2, <2>3 DEF ActivePlaced, Placed, Active
  <2>7. FrozenOwned'
    BY <2>1, <2>2, <2>3 DEF FrozenOwned, FrozenBy, Active
  <2>8. ClockAhead'
    BY <2>1, <2>2, <2>3 DEF ClockAhead, Active
  <2>9. NoInstantFromBefore' /\ NewUnseen'
    BY <2>1 DEF NoInstantFromBefore, NewUnseen
  <2> QED
    BY <2>4, <2>5, <2>6, <2>7, <2>8, <2>9
<1>3. ASSUME NEW s \in Stmts, NEW o \in Conns, NEW h \in {"exec", "query"}, Begin(s, o, h)
      PROVE  ClockInv'
  <2>1. /\ phase[s] = "new" /\ inner[o] # None
        /\ phase' = [phase EXCEPT ![s] = "running"] /\ how' = [how EXCEPT ![s] = h]
        /\ on' = [on EXCEPT ![s] = o] /\ started' = [started EXCEPT ![s] = now]
        /\ clock' = IF owns[o]
                    THEN [clock EXCEPT ![inner[o]] = [nanos |-> now, token |-> s]]
                    ELSE clock
        /\ UNCHANGED <<opened, table, inner, owns, seen, now>>
    BY <1>3 DEF Begin, Start, connVars
  <2>2. inner[o] \in InnerConns /\ ~Active(s)
    BY <2>1 DEF TypeOK, Active
  <2>3. /\ Active(s)' /\ on'[s] = o /\ started'[s] = now /\ how'[s] = h
        /\ \A r \in Stmts : r # s => /\ Active(r)' = Active(r) /\ on'[r] = on[r]
                                     /\ started'[r] = started[r] /\ how'[r] = how[r]
    BY <2>1 DEF TypeOK, Active
  <2>4. TypeOK'
    BY <2>1, <2>2 DEF TypeOK, Clock
  <2>5. InnerExclusive'
    BY <2>1 DEF InnerExclusive
  <2>6. ActivePlaced'
    BY <2>1, <2>2, <2>3 DEF ActivePlaced, Placed, TypeOK
  <2>7. FrozenOwned'
    <3>1. CASE owns[o]
      <4>1. /\ clock'[inner[o]] = [nanos |-> now, token |-> s]
            /\ \A c \in InnerConns : c # inner[o] => clock'[c] = clock[c]
        BY <2>1, <2>2, <3>1 DEF TypeOK
      <4> QED
        BY <2>1, <2>2, <2>3, <3>1, <4>1 DEF FrozenOwned, FrozenBy
    <3>2. CASE ~owns[o]
      BY <2>1, <2>2, <2>3, <3>2 DEF FrozenOwned, FrozenBy
    <3> QED
      BY <3>1, <3>2
  <2>8. ClockAhead'
    <3>1. ASSUME NEW r \in Stmts, Active(r)', (how[r] # "prepared")'
          PROVE  LET c == inner[on'[r]] IN clock'[c].nanos = 0 \/ clock'[c].nanos >= started'[r]
      <4>1. started'[r] <= now /\ started'[r] \in Nat /\ now \in Nat
        BY <2>1, <2>2, <2>3, <3>1 DEF ActivePlaced, Placed, TypeOK
      <4>2. CASE owns[o] /\ inner[on'[r]] = inner[o]
        BY <2>1, <2>2, <4>1, <4>2 DEF TypeOK
      <4>3. CASE r # s /\ ~(owns[o] /\ inner[on'[r]] = inner[o])
        BY <2>1, <2>2, <2>3, <3>1, <4>3 DEF ClockAhead, ActivePlaced, Placed, TypeOK
      <4>4. CASE r = s /\ ~owns[o]
        <5>1. clock[inner[o]].nanos = 0
          BY <2>2, <4>4 DEF FrozenOwned, FrozenBy, InnerExclusive, ActivePlaced, Placed
        <5> QED
          BY <2>1, <2>3, <4>4, <5>1
      <4> QED
        BY <2>3, <4>2, <4>3, <4>4
    <3> QED
      BY <2>1, <3>1 DEF ClockAhead
  <2>9. NoInstantFromBefore' /\ NewUnseen'
    <3>1. seen[s] = {}
      BY <2>1 DEF NewUnseen
    <3>2. NoInstantFromBefore'
      BY <2>1, <2>3, <3>1 DEF NoInstantFromBefore
    <3>3. NewUnseen'
      BY <2>1 DEF NewUnseen, TypeOK
    <3> QED
      BY <3>2, <3>3
  <2> QED
    BY <2>4, <2>5, <2>6, <2>7, <2>8, <2>9
<1>4. ASSUME NEW s \in Stmts, NEW o \in Conns, BeginPrepared(s, o) PROVE ClockInv'
  <2>1. /\ phase[s] = "new" /\ inner[o] # None
        /\ phase' = [phase EXCEPT ![s] = "running"] /\ how' = [how EXCEPT ![s] = "prepared"]
        /\ on' = [on EXCEPT ![s] = o] /\ started' = [started EXCEPT ![s] = now]
        /\ UNCHANGED <<clock, opened, table, inner, owns, seen, now>>
    BY <1>4 DEF BeginPrepared, connVars
  <2>2. inner[o] \in InnerConns /\ ~Active(s)
    BY <2>1 DEF TypeOK, Active
  <2>3. /\ Active(s)' /\ on'[s] = o /\ started'[s] = now /\ how'[s] = "prepared"
        /\ \A r \in Stmts : r # s => /\ Active(r)' = Active(r) /\ on'[r] = on[r]
                                     /\ started'[r] = started[r] /\ how'[r] = how[r]
    BY <2>1 DEF TypeOK, Active
  <2>4. TypeOK'
    BY <2>1 DEF TypeOK
  <2>5. InnerExclusive'
    BY <2>1 DEF InnerExclusive
  <2>6. ActivePlaced'
    BY <2>1, <2>2, <2>3 DEF ActivePlaced, Placed, TypeOK
  <2>7. FrozenOwned'
    BY <2>1, <2>2, <2>3 DEF FrozenOwned, FrozenBy
  <2>8. ClockAhead'
    BY <2>1, <2>2, <2>3 DEF ClockAhead
  <2>9. NoInstantFromBefore' /\ NewUnseen'
    BY <2>1, <2>3 DEF NoInstantFromBefore, NewUnseen, TypeOK
  <2> QED
    BY <2>4, <2>5, <2>6, <2>7, <2>8, <2>9
<1>5. ASSUME NEW s \in Stmts, Evaluate(s) PROVE ClockInv'
  <2>1. /\ Active(s) /\ seen' = [seen EXCEPT ![s] = @ \cup {Instant(inner[on[s]])}]
        /\ UNCHANGED <<clock, opened, table, inner, owns, phase, how, on, started, now>>
    BY <1>5 DEF Evaluate, connVars
  <2>2. on[s] \in Conns /\ inner[on[s]] \in InnerConns /\ started[s] <= now
    BY <2>1 DEF ActivePlaced, Placed
  <2>3. Instant(inner[on[s]]) \in Nat
    BY <2>2 DEF Instant, TypeOK, Clock
  <2>4. how[s] # "prepared" => Instant(inner[on[s]]) >= started[s]
    BY <2>1, <2>2 DEF Instant, ClockAhead, TypeOK
  <2>5. TypeOK'
    BY <2>1, <2>3 DEF TypeOK
  <2>6. NoInstantFromBefore'
    BY <2>1, <2>4 DEF NoInstantFromBefore, TypeOK
  <2>7. NewUnseen'
    BY <2>1 DEF NewUnseen, Active, TypeOK
  <2>8. InnerExclusive' /\ ActivePlaced' /\ FrozenOwned' /\ ClockAhead'
    BY <2>1 DEF InnerExclusive, ActivePlaced, Placed, Active, FrozenOwned, FrozenBy, ClockAhead
  <2> QED
    BY <2>5, <2>6, <2>7, <2>8
<1>6. ASSUME NEW s \in Stmts, HandOff(s) PROVE ClockInv'
  <2>1. /\ phase[s] = "running" /\ phase' = [phase EXCEPT ![s] = "rows"]
        /\ UNCHANGED <<clock, opened, table, inner, owns, how, on, started, seen, now>>
    BY <1>6 DEF HandOff, connVars
  <2>2. \A r \in Stmts : Active(r)' = Active(r)
    BY <2>1 DEF Active, TypeOK
  <2>3. TypeOK' /\ NewUnseen'
    BY <2>1 DEF TypeOK, NewUnseen
  <2>4. InnerExclusive' /\ ActivePlaced' /\ FrozenOwned' /\ ClockAhead' /\ NoInstantFromBefore'
    BY <2>1, <2>2 DEF InnerExclusive, ActivePlaced, Placed, FrozenOwned, FrozenBy, ClockAhead,
                      NoInstantFromBefore
  <2> QED
    BY <2>3, <2>4
<1>7. ASSUME NEW s \in Stmts, Return(s) \/ CloseRows(s) PROVE ClockInv'
  <2>1. /\ Active(s) /\ phase' = [phase EXCEPT ![s] = "done"]
        /\ IF how[s] = "prepared" THEN clock' = clock ELSE End(on[s], s)
        /\ UNCHANGED <<opened, table, inner, owns, how, on, started, seen, now>>
    BY <1>7 DEF Return, CloseRows, Active, connVars
  <2>2. on[s] \in Conns /\ inner[on[s]] \in InnerConns
    BY <2>1 DEF ActivePlaced, Placed
  <2>3. ~Active(s)' /\ \A r \in Stmts : r # s => Active(r)' = Active(r)
    BY <2>1 DEF Active, TypeOK
  <2>4. \A c \in InnerConns :
            /\ clock'[c] = clock[c] \/ clock'[c] = [nanos |-> 0, token |-> None]
            /\ FrozenBy(c) /\ clock[c].token = s => clock'[c].nanos = 0
    <3>1. CASE how[s] = "prepared"
      BY <2>1, <3>1 DEF FrozenBy
    <3>2. CASE how[s] # "prepared"
      BY <2>1, <2>2, <3>2 DEF End, FrozenBy, TypeOK
    <3> QED
      BY <3>1, <3>2
  <2>5. TypeOK'
    <3>1. clock' \in [InnerConns -> Clock]
      BY <2>1, <2>2 DEF End, TypeOK, Clock
    <3> QED
      BY <2>1, <3>1 DEF TypeOK
  <2>6. InnerExclusive' /\ ActivePlaced' /\ NoInstantFromBefore' /\ NewUnseen'
    BY <2>1, <2>3 DEF InnerExclusive, ActivePlaced, Placed, NoInstantFromBefore, NewUnseen, TypeOK
  <2>7. FrozenOwned'
    <3>1. ASSUME NEW c \in InnerConns, clock'[c].nanos # 0
          PROVE  FrozenBy(c)'
      <4>1. clock'[c] = clock[c] /\ clock[c].nanos # 0
        BY <2>4, <3>1
      <4>2. FrozenBy(c) /\ clock[c].token # s
        BY <2>4, <3>1, <4>1 DEF FrozenOwned
      <4> QED
        BY <2>1, <2>3, <4>1, <4>2 DEF FrozenBy
    <3> QED
      BY <3>1 DEF FrozenOwned
  <2>8. ClockAhead'
    <3>1. ASSUME NEW r \in Stmts, Active(r)', how[r] # "prepared"
          PROVE  clock'[inner[on[r]]].nanos = 0 \/ clock'[inner[on[r]]].nanos >= started[r]
      <4>1. Active(r) /\ inner[on[r]] \in InnerConns
        BY <2>3, <3>1 DEF ActivePlaced, Placed
      <4> QED
        BY <2>4, <3>1, <4>1 DEF ClockAhead
    <3> QED
      BY <2>1, <3>1 DEF ClockAhead
  <2> QED
    BY <2>5, <2>6, <2>7, <2>8
<1>8. ASSUME Tick PROVE ClockInv'
  <2>1. now' = now + 1 /\ UNCHANGED <<clock, opened, table, inner, owns, phase, how, on, started, seen>>
    BY <1>8 DEF Tick, connVars, stmtVars
  <2>2. TypeOK'
    BY <2>1 DEF TypeOK
  <2>3. ActivePlaced'
    BY <2>1 DEF ActivePlaced, Placed, Active, TypeOK
  <2>4. InnerExclusive' /\ FrozenOwned' /\ ClockAhead' /\ NoInstantFromBefore' /\ NewUnseen'
    BY <2>1 DEF InnerExclusive, FrozenOwned, FrozenBy, Active, ClockAhead, NoInstantFromBefore,
                NewUnseen
  <2> QED
    BY <2>2, <2>3, <2>4
<1>9. ASSUME UNCHANGED vars PROVE ClockInv'
  BY <1>9 DEF vars, TypeOK, InnerExclusive, ActivePlaced, Placed, Active, FrozenOwned, FrozenBy,
              ClockAhead, NoInstantFromBefore, NewUnseen
<1>10. ASSUME NEW s \in Stmts, Panic(s) PROVE ClockInv'
  BY <1>10 DEF Panic, NoPanic
<1> QED
  BY <1>1, <1>2, <1>3, <1>4, <1>5, <1>6, <1>7, <1>8, <1>9, <1>10 DEF Next

LEMMA ClockAlways == NoPanic => (Spec => []ClockInv)
<1> SUFFICES ASSUME NoPanic PROVE Spec => []ClockInv
  OBVIOUS
<1>1. ClockInv /\ [Next]_vars => ClockInv'
  BY ClockNext
<1> QED
  BY ClockInit, <1>1, PTL DEF Spec

\* A clock is frozen only while the statement that froze it is active, even
\* when statements overlap on a Conn and end in any order
\* (statement_clock.go:54-61).
THEOREM FrozenSafe == NoPanic => (Spec => []FrozenOnlyByActive)
<1>1. ClockInv => FrozenOnlyByActive
  BY DEF ClockInv, FrozenOwned, FrozenBy, FrozenOnlyByActive
<1> QED
  BY ClockAlways, <1>1, PTL

\* No statement reads an instant from before it began, also on an SQLite
\* connection that earlier statements and Conns have used.
THEOREM NoOldInstant == NoPanic => (Spec => []NoInstantFromBefore)
<1>1. ClockInv => NoInstantFromBefore
  BY DEF ClockInv
<1> QED
  BY ClockAlways, <1>1, PTL

-----------------------------------------------------------------------------
(* Type correctness, whatever the application does.                        *)

TypePlaced == TypeOK /\ ActivePlaced

LEMMA ClockType ==
    ASSUME TypeOK, NEW o \in Conns, NEW s \in Stmts, Start(o, s) \/ End(o, s)
    PROVE  clock' \in [InnerConns -> Clock]
<1>1. [nanos |-> now, token |-> s] \in Clock /\ [nanos |-> 0, token |-> None] \in Clock
  BY DEF TypeOK, Clock
<1> QED
  BY <1>1 DEF Start, End, TypeOK

LEMMA TypePlacedNext == TypePlaced /\ [Next]_vars => TypePlaced'
<1> SUFFICES ASSUME TypePlaced, [Next]_vars PROVE TypePlaced'
  OBVIOUS
<1> USE EnvironmentAssumption DEF TypePlaced, ActivePlaced, Placed, Active
<1>1. ASSUME NEW o \in Conns, NEW c \in InnerConns, NewConn(o, c) PROVE TypePlaced'
  <2>1. TypeOK'
    BY <1>1 DEF NewConn, OpenSQLite, stmtVars, TypeOK
  <2>2. ActivePlaced'
    BY <1>1 DEF NewConn, stmtVars, TypeOK
  <2> QED
    BY <2>1, <2>2
<1>2. ASSUME NEW o \in Conns, Close(o) PROVE TypePlaced'
  <2>1. TypeOK'
    BY <1>2 DEF Close, stmtVars, TypeOK
  <2>2. ActivePlaced'
    BY <1>2 DEF Close, ActiveOn, stmtVars, TypeOK
  <2> QED
    BY <2>1, <2>2
<1>3. ASSUME NEW s \in Stmts, NEW o \in Conns, NEW h \in {"exec", "query"}, Begin(s, o, h)
      PROVE  TypePlaced'
  <2>1. TypeOK'
    BY <1>3, ClockType DEF Begin, connVars, TypeOK
  <2>2. ActivePlaced'
    BY <1>3 DEF Begin, connVars, TypeOK
  <2> QED
    BY <2>1, <2>2
<1>4. ASSUME NEW s \in Stmts, NEW o \in Conns, BeginPrepared(s, o) PROVE TypePlaced'
  <2>1. TypeOK'
    BY <1>4 DEF BeginPrepared, connVars, TypeOK
  <2>2. ActivePlaced'
    BY <1>4 DEF BeginPrepared, connVars, TypeOK
  <2> QED
    BY <2>1, <2>2
<1>5. ASSUME NEW s \in Stmts, Evaluate(s) PROVE TypePlaced'
  <2>1. Instant(inner[on[s]]) \in Nat
    BY <1>5 DEF Evaluate, Instant, TypeOK, Clock
  <2>2. TypeOK'
    BY <1>5, <2>1 DEF Evaluate, connVars, TypeOK
  <2>3. ActivePlaced'
    BY <1>5 DEF Evaluate, connVars
  <2> QED
    BY <2>2, <2>3
<1>6. ASSUME NEW s \in Stmts, Return(s) \/ HandOff(s) \/ Panic(s) \/ CloseRows(s)
      PROVE  TypePlaced'
  <2>1. UNCHANGED <<connVars, how, on, started, seen, now>> /\ Active(s)
    BY <1>6 DEF Return, HandOff, Panic, CloseRows
  <2>2. clock' \in [InnerConns -> Clock]
    <3>1. clock' = clock \/ End(on[s], s)
      BY <1>6 DEF Return, HandOff, Panic, CloseRows
    <3>2. on[s] \in Conns
      BY <2>1
    <3> QED
      BY <3>1, <3>2, ClockType DEF TypeOK
  <2>3. phase' \in [Stmts -> {"new", "running", "rows", "done"}]
    BY <1>6 DEF Return, HandOff, Panic, CloseRows, TypeOK
  <2>4. \A t \in Stmts : phase'[t] \in {"running", "rows"} => Active(t)
    BY <1>6 DEF Return, HandOff, Panic, CloseRows, TypeOK
  <2> QED
    BY <2>1, <2>2, <2>3, <2>4 DEF TypeOK, connVars
<1>7. ASSUME Tick PROVE TypePlaced'
  BY <1>7 DEF Tick, connVars, stmtVars, TypeOK
<1>8. ASSUME UNCHANGED vars PROVE TypePlaced'
  BY <1>8 DEF vars, TypeOK
<1> QED
  BY <1>1, <1>2, <1>3, <1>4, <1>5, <1>6, <1>7, <1>8 DEF Next

\* Type correctness: under every behaviour of the application, panics
\* included, a statement that is active runs on a Conn that holds an SQLite
\* connection, and statementClocks holds only connections that were opened
\* (internal/statement_clock.go).
THEOREM ClockTypeCorrect == Spec => []TypeOK
<1>1. Init => TypePlaced
  BY DEF Init, TypePlaced, TypeOK, Clock, ActivePlaced, Active
<1>2. TypePlaced => TypeOK
  BY DEF TypePlaced
<1> QED
  BY <1>1, <1>2, TypePlacedNext, PTL DEF Spec

-----------------------------------------------------------------------------
(* One instant for a statement.                                            *)

\* The application runs one statement at a time on a Conn, and the outer
\* pool keeps its Conns.
OneAtATime == "overlap" \notin Environment
PoolKept == "reopen" \notin Environment

\* A Conn has the clock of its SQLite connection.
ClocksOwned ==
    /\ opened \subseteq CheckedOut
    /\ \A o \in Conns : inner[o] # None => owns[o]

Sole == \A s, t \in Stmts : Active(s) /\ Active(t) /\ on[s] = on[t] => s = t

\* The clock an active statement reads is its own, set when it began.
ClockIsMine ==
    \A s \in Stmts :
        Active(s) /\ how[s] # "prepared" =>
            clock[inner[on[s]]] = [nanos |-> started[s], token |-> s] /\ started[s] # 0

InstantInv ==
    /\ TypePlaced /\ now # 0
    /\ InnerExclusive /\ ClocksOwned /\ Sole /\ ClockIsMine /\ NewUnseen /\ OneInstant

LEMMA InstantNext == OneAtATime /\ PoolKept /\ InstantInv /\ [Next]_vars => InstantInv'
<1> SUFFICES ASSUME OneAtATime, PoolKept, InstantInv, [Next]_vars PROVE InstantInv'
  OBVIOUS
<1> USE EnvironmentAssumption DEF InstantInv
<1>0. TypePlaced'
  BY TypePlacedNext
<1>p. TypeOK /\ \A s \in Stmts : Active(s) => on[s] \in Conns /\ inner[on[s]] \in InnerConns
  BY DEF TypePlaced, ActivePlaced, Placed
<1>1. ASSUME NEW o \in Conns, NEW c \in InnerConns, NewConn(o, c) PROVE InstantInv'
  <2>1. /\ inner[o] = None /\ inner' = [inner EXCEPT ![o] = c] /\ \A q \in Conns : inner[q] # c
        /\ opened' = opened \cup {c}
        /\ UNCHANGED <<clock, phase, how, on, started, seen, now>>
    BY <1>1 DEF NewConn, CheckedOut, stmtVars
  <2>2. c \notin opened
    BY <2>1 DEF ClocksOwned, CheckedOut
  <2>3. owns'[o] /\ \A q \in Conns : q # o => owns'[q] = owns[q] /\ inner'[q] = inner[q]
    BY <1>1, <1>p, <2>1, <2>2 DEF NewConn, OpenSQLite, TypeOK
  <2>4. inner'[o] = c
    BY <1>p, <2>1 DEF TypeOK
  <2>5. \A s \in Stmts : Active(s) => on[s] # o
    BY <1>p, <2>1
  <2>6. InnerExclusive'
    BY <2>1, <2>3, <2>4 DEF InnerExclusive
  <2>7. ClocksOwned'
    <3>1. \A d \in opened' : \E q \in Conns : inner'[q] = d
      <4>1. ASSUME NEW d \in opened PROVE \E q \in Conns : inner'[q] = d
        <5>1. PICK q \in Conns : inner[q] = d
          BY DEF ClocksOwned, CheckedOut
        <5>2. q # o
          BY <1>p, <2>1, <5>1 DEF TypeOK
        <5> QED
          BY <2>3, <5>1, <5>2
      <4> QED
        BY <2>1, <2>4, <4>1
    <3> QED
      BY <3>1, <2>3 DEF ClocksOwned, CheckedOut
  <2>8. ClockIsMine'
    BY <1>p, <2>1, <2>3, <2>5 DEF ClockIsMine, Active
  <2> QED
    BY <1>0, <2>1, <2>6, <2>7, <2>8 DEF Sole, NewUnseen, OneInstant, Active
<1>2. ASSUME NEW o \in Conns, Close(o) PROVE InstantInv'
  BY <1>2 DEF Close, PoolKept
<1>3. ASSUME NEW s \in Stmts, NEW o \in Conns, NEW h \in {"exec", "query", "prepared"},
             phase[s] = "new", inner[o] # None, ActiveOn(o) = {},
             phase' = [phase EXCEPT ![s] = "running"], how' = [how EXCEPT ![s] = h],
             on' = [on EXCEPT ![s] = o], started' = [started EXCEPT ![s] = now],
             IF h = "prepared" THEN clock' = clock ELSE Start(o, s),
             UNCHANGED <<connVars, seen, now>>
      PROVE  InstantInv'
  <2>1. \A t \in Stmts : t # s => /\ phase'[t] = phase[t] /\ how'[t] = how[t]
                                  /\ on'[t] = on[t] /\ started'[t] = started[t]
    BY <1>3, <1>p DEF TypeOK
  <2>2. phase'[s] = "running" /\ how'[s] = h /\ on'[s] = o /\ started'[s] = now /\ seen[s] = {}
    BY <1>3, <1>p DEF TypeOK, NewUnseen
  <2>3. \A t \in Stmts : Active(t) => t # s /\ on[t] # o
    BY <1>3 DEF ActiveOn, Active
  <2>4. inner[o] \in InnerConns /\ owns[o]
    BY <1>3, <1>p DEF TypeOK, ClocksOwned
  <2>5. \A q \in Conns : q # o => inner[q] # inner[o]
    BY <2>4 DEF InnerExclusive
  <2>6. /\ h # "prepared" => clock'[inner[o]] = [nanos |-> now, token |-> s]
        /\ \A c \in InnerConns : c # inner[o] => clock'[c] = clock[c]
    BY <1>3, <1>p, <2>4 DEF Start, TypeOK
  <2>7. Sole'
    BY <2>1, <2>2, <2>3 DEF Sole, Active
  <2>8. ClockIsMine'
    <3>1. ASSUME NEW t \in Stmts, t # s, Active(t), how[t] # "prepared"
          PROVE  clock'[inner[on[t]]] = [nanos |-> started[t], token |-> t] /\ started[t] # 0
      BY <3>1, <1>p, <2>3, <2>5, <2>6 DEF ClockIsMine
    <3> QED
      BY <1>3, <2>1, <2>2, <2>6, <3>1 DEF ClockIsMine, Active, connVars
  <2>9. NewUnseen' /\ OneInstant'
    BY <1>3, <2>1, <2>2 DEF NewUnseen, OneInstant
  <2> QED
    BY <1>0, <1>3, <2>7, <2>8, <2>9 DEF InnerExclusive, ClocksOwned, CheckedOut, connVars
<1>4. ASSUME NEW s \in Stmts, NEW o \in Conns, NEW h \in {"exec", "query"}, Begin(s, o, h)
      PROVE  InstantInv'
  BY <1>3, <1>4 DEF Begin, OneAtATime
<1>5. ASSUME NEW s \in Stmts, NEW o \in Conns, BeginPrepared(s, o) PROVE InstantInv'
  <2>1. /\ phase[s] = "new" /\ inner[o] # None /\ ActiveOn(o) = {}
        /\ phase' = [phase EXCEPT ![s] = "running"] /\ how' = [how EXCEPT ![s] = "prepared"]
        /\ on' = [on EXCEPT ![s] = o] /\ started' = [started EXCEPT ![s] = now]
        /\ clock' = clock /\ UNCHANGED <<connVars, seen, now>>
    BY <1>5 DEF BeginPrepared, OneAtATime
  <2> QED
    BY <1>3, <2>1
<1>6. ASSUME NEW s \in Stmts, Evaluate(s) PROVE InstantInv'
  <2>1. /\ UNCHANGED <<clock, opened, table, inner, owns, phase, how, on, started, now>> /\ Active(s)
        /\ seen' = [seen EXCEPT ![s] = @ \cup {Instant(inner[on[s]])}]
    BY <1>6 DEF Evaluate, connVars
  <2>2. how[s] # "prepared" => Instant(inner[on[s]]) = started[s]
    <3>1. ASSUME how[s] # "prepared" PROVE Instant(inner[on[s]]) = started[s]
      <4>1. clock[inner[on[s]]] = [nanos |-> started[s], token |-> s] /\ started[s] # 0
        BY <2>1, <3>1 DEF ClockIsMine
      <4>2. clock[inner[on[s]]].nanos = started[s]
        BY <4>1
      <4> QED
        BY <4>1, <4>2 DEF Instant
    <3> QED
      BY <3>1
  <2>3. OneInstant' /\ NewUnseen'
    BY <1>p, <2>1, <2>2 DEF OneInstant, NewUnseen, TypeOK, Active
  <2> QED
    BY <1>0, <2>1, <2>3 DEF InnerExclusive, ClocksOwned, CheckedOut, Sole, ClockIsMine, Active
<1>7. ASSUME NEW s \in Stmts, Return(s) \/ HandOff(s) \/ Panic(s) \/ CloseRows(s)
      PROVE  InstantInv'
  <2>1. UNCHANGED <<opened, table, inner, owns, how, on, started, seen, now>> /\ Active(s)
    BY <1>7 DEF Return, HandOff, Panic, CloseRows, connVars, Active
  <2>2. \A t \in Stmts : t # s => phase'[t] = phase[t]
    BY <1>7, <1>p DEF Return, HandOff, Panic, CloseRows, TypeOK
  <2>3. phase'[s] \in {"rows", "done"} /\ (phase'[s] = "rows" => clock' = clock)
    BY <1>7, <1>p DEF Return, HandOff, Panic, CloseRows, TypeOK
  <2>4. \A c \in InnerConns : c # inner[on[s]] => clock'[c] = clock[c]
    <3>1. clock' = clock \/ End(on[s], s)
      BY <1>7 DEF Return, HandOff, Panic, CloseRows
    <3> QED
      BY <3>1, <1>p DEF End, TypeOK
  <2>5. \A t \in Stmts : (Active(t) /\ t # s => inner[on[t]] # inner[on[s]]) /\ (Active(t)' => Active(t))
    BY <1>p, <2>1, <2>2, <2>3 DEF Sole, InnerExclusive, Active
  <2>6. ClockIsMine'
    <3>1. ASSUME NEW t \in Stmts, t # s, Active(t), how[t] # "prepared"
          PROVE  clock'[inner[on[t]]] = clock[inner[on[t]]]
      BY <3>1, <1>p, <2>4, <2>5
    <3> QED
      BY <2>1, <2>2, <2>3, <2>5, <3>1 DEF ClockIsMine, Active
  <2>7. Sole' /\ NewUnseen' /\ OneInstant'
    BY <2>1, <2>2, <2>3, <2>5 DEF Sole, NewUnseen, OneInstant
  <2> QED
    BY <1>0, <2>1, <2>6, <2>7 DEF InnerExclusive, ClocksOwned, CheckedOut
<1>8. ASSUME UNCHANGED <<clock, opened, table, inner, owns, phase, how, on, started, seen>>, now' # 0
      PROVE  InstantInv'
  BY <1>0, <1>8 DEF InnerExclusive, ClocksOwned, CheckedOut, Sole, ClockIsMine, NewUnseen, OneInstant, Active
<1>9. ASSUME Tick \/ UNCHANGED vars PROVE InstantInv'
  BY <1>8, <1>9, <1>p DEF Tick, connVars, stmtVars, vars, TypeOK
<1> QED
  BY <1>1, <1>2, <1>4, <1>5, <1>6, <1>7, <1>9 DEF Next

\* All CURRENT_* calls of a statement return the instant it began at, even
\* after a statement that panicked left the clock of the SQLite connection
\* frozen: Start overwrites it.  With overlapping statements or connections
\* that the outer pool lets go, withStatementClock returns something else
\* (statement_clock.go:17-31).
THEOREM InstantIsOne == OneAtATime /\ PoolKept => (Spec => []OneInstant)
<1> SUFFICES ASSUME OneAtATime, PoolKept PROVE Spec => []OneInstant
  OBVIOUS
<1>1. Init => InstantInv
  BY DEF Init, InstantInv, TypePlaced, TypeOK, Clock, ActivePlaced, Active, InnerExclusive,
         ClocksOwned, CheckedOut, Sole, ClockIsMine, NewUnseen, OneInstant
<1>2. InstantInv /\ [Next]_vars => InstantInv'
  BY InstantNext
<1>3. InstantInv => OneInstant
  BY DEF InstantInv
<1> QED
  BY <1>1, <1>2, <1>3, PTL DEF Spec
=============================================================================
