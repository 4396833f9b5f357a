-------------------------- MODULE ComplianceProofs --------------------------
(***************************************************************************)
(* Proofs about specctl run-compliance on one file, for any file, any      *)
(* capacity of the pipe and any number of attempts, whatever the worker    *)
(* does.                                                                   *)
(***************************************************************************)
EXTENDS Compliance, TLAPS

USE SuiteAssumption, LineAssumption

-----------------------------------------------------------------------------
(* The worker and its setup.                                               *)

Cases == 1..suite.n

Points == {"open", "loop", "run", "exited", "crashed"}
Conns == (SUBSET Cases) \cup {NoConn}
Replays == Seq(Cases)

WorkerType ==
    [at : Points, case : Nat, conn : Conns, stmts : Replays, scoped : SUBSET Cases,
     broken : SUBSET Cases, lost : SUBSET Cases]

\* Setup case p is there for worker w, or it is known why not.
Found(w, p) ==
    \/ w.conn # NoConn /\ p \in w.conn \cup w.scoped
    \/ p \in w.broken \cup w.lost

SetupInv ==
    /\ suite \in Suites
    /\ worker \in WorkerType
    /\ worker.at = "open" => worker.case = 1
    /\ worker.at \in {"loop", "run"} => worker.case \in 1..(suite.n + 1)
    /\ worker.at = "run" => worker.case <= suite.n
    /\ worker.at \in {"loop", "run"} =>
          \A p \in suite.prepare : p < worker.case => Found(worker, p)

-----------------------------------------------------------------------------
(* The lines, numbered: 2c - 1 is the start marker of case c, 2c its       *)
(* result.                                                                 *)

IsLine(l, k) ==
    /\ k <= 2 * suite.n
    /\ \/ l.start > 0 /\ k = 2 * l.start - 1
       \/ l.start = 0 /\ k = 2 * l.index

Got == 2 * Len(report) + (IF current = 0 THEN 0 ELSE 1)
InHand == IF hand = NoLine THEN 0 ELSE 1
Written == Got + InHand + Len(pipe)

\* The lines that a worker has written for the record when it is at point a of
\* case c, those of the workers before it included.
Due(a, c) ==
    IF a = "exited" THEN 2 * suite.n
    ELSE IF a = "open" \/ c < start THEN 2 * (start - 1)
    ELSE IF a = "loop" THEN 2 * (c - 1) ELSE 2 * c - 1

StreamOK ==
    /\ hand # NoLine => IsLine(hand, Got + 1)
    /\ \A j \in 1..Len(pipe) : IsLine(pipe[j], Got + InHand + j)
    /\ worker.at # "crashed" => Written = Due(worker.at, worker.case)

\* The one line about a file that does not parse.
IsSkip(l) == l.start = 0 /\ l.index = 0 /\ l.status = "skip"

SkipOK ==
    /\ hand # NoLine => IsSkip(hand)
    /\ \A j \in 1..Len(pipe) : IsSkip(pipe[j])
    /\ worker.at \in {"open", "exited", "crashed"}
    /\ Len(report) + InHand + Len(pipe) <= 1
    /\ worker.at = "open" => Len(report) + InHand + Len(pipe) = 0
    /\ worker.at = "exited" => Len(report) + InHand + Len(pipe) = 1

ClosedOK == closed => pipe = <<>> /\ hand = NoLine /\ ~Alive

\* The report as long as it goes on.
ReportOK ==
    /\ Len(report) <= IF suite.parses THEN suite.n ELSE 1
    /\ \A i \in 1..Len(report) : IF suite.parses THEN report[i].index = i ELSE IsSkip(report[i])

\* The case that has started is the next one.
CurrentOK == current # 0 => suite.parses /\ current = Len(report) + 1 /\ current <= suite.n

Complete == Len(report) = IF suite.parses THEN suite.n ELSE 1

LaunchOK == IF suite.parses THEN start = Len(report) + 1 ELSE report = <<>>

ParentInv ==
    /\ suite \in Suites
    /\ place \in {"launch", "read", "drain", "wait", "done"}
    /\ start \in 1..(suite.n + 1) /\ current \in Nat /\ attempt \in Nat /\ killed \in BOOLEAN
    /\ report \in Seq(Line)
    /\ place # "done" => ReportOK
    /\ place = "launch" => LaunchOK
    /\ place \in {"read", "drain", "wait"} => CurrentOK
    /\ place = "drain" => killed
    /\ CasesReported

StreamInv ==
    /\ pipe \in Seq(Line) /\ hand \in Line \cup {NoLine} /\ closed \in BOOLEAN
    /\ ClosedOK
    /\ place # "read" => ~Alive
    /\ place = "read" => IF suite.parses THEN StreamOK ELSE SkipOK
    /\ place = "wait" => closed /\ (current # 0 \/ killed \/ worker.at = "crashed" \/ Complete)

CompInv == SetupInv /\ ParentInv /\ StreamInv

-----------------------------------------------------------------------------
(* The worker's setup, step by step.                                       *)

LEMMA ReportedSetup ==
    ASSUME SetupInv, worker.at = "run", NEW status, NEW w \in WorkerType,
           Reported(worker.case, status, w),
           \A p \in suite.prepare : p < worker.case + 1 => Found(w, p)
    PROVE  SetupInv'
<1> DEFINE c == worker.case
<1>1. /\ suite' = suite /\ suite \in Suites /\ suite.n \in Nat
      /\ c \in Nat /\ c <= suite.n
      /\ worker' = [w EXCEPT !.at = "loop", !.case = c + 1]
  BY DEF SetupInv, WorkerType, Reported, parentVars
<1>2. /\ worker'.at = "loop" /\ worker'.case = c + 1 /\ worker'.conn = w.conn
      /\ worker'.scoped = w.scoped /\ worker'.broken = w.broken /\ worker'.lost = w.lost
  BY <1>1 DEF WorkerType
<1>3. WorkerType' = WorkerType
  BY <1>1 DEF WorkerType, Conns, Replays, Cases
<1>5. worker' \in WorkerType
  <2>1. "loop" \in Points /\ c + 1 \in Nat
    BY <1>1 DEF Points
  <2> QED
    BY <1>1, <2>1 DEF WorkerType
<1>4. ASSUME NEW p \in suite.prepare, p < c + 1
      PROVE  Found(worker, p)'
  BY <1>2, <1>4 DEF Found
<1> QED
  BY <1>1, <1>2, <1>3, <1>4, <1>5 DEF SetupInv

\* What the cases before the one that runs have set up.
LEMMA BeforeCase ==
    ASSUME SetupInv, worker.at = "run"
    PROVE  /\ suite \in Suites /\ worker \in WorkerType
           /\ worker.case \in Cases /\ suite.prepare \subseteq Cases
           /\ worker.conn \in Conns /\ worker.stmts \in Replays
           /\ worker.scoped \in SUBSET Cases /\ worker.lost \in SUBSET Cases
           /\ \A p \in suite.prepare : p < worker.case => Found(worker, p)
           /\ \A p \in suite.prepare : p < worker.case + 1 => p < worker.case \/ p = worker.case
<1>1. /\ worker.conn \in Conns /\ worker.stmts \in Replays
      /\ worker.scoped \in SUBSET Cases /\ worker.lost \in SUBSET Cases
  BY DEF SetupInv, WorkerType
<1>2. /\ suite \in Suites /\ worker \in WorkerType
      /\ worker.case \in Cases /\ suite.prepare \subseteq Cases
      /\ \A p \in suite.prepare : p < worker.case => Found(worker, p)
  BY DEF SetupInv, Cases
<1>3. ASSUME NEW p \in suite.prepare, p < worker.case + 1
      PROVE  p < worker.case \/ p = worker.case
  BY <1>2, <1>3 DEF Cases
<1> QED
  BY <1>1, <1>2, <1>3

LEMMA BrokenSetup ==
    ASSUME SetupInv, worker.at = "run"
    PROVE  /\ Broken(worker, worker.case) \in WorkerType
           /\ \A p \in suite.prepare :
                 p < worker.case + 1 => Found(Broken(worker, worker.case), p)
<1> DEFINE c == worker.case
           w == Broken(worker, c)
<1>1. CASE c \in suite.prepare
  <2>1. w = [worker EXCEPT !.broken = @ \cup {c}]
    BY <1>1 DEF Broken
  <2>2. w \in WorkerType
    BY <2>1, BeforeCase DEF WorkerType
  <2>3. w.conn = worker.conn /\ w.scoped = worker.scoped /\ w.lost = worker.lost
        /\ w.broken = worker.broken \cup {c}
    BY <2>1, BeforeCase DEF WorkerType
  <2> QED
    BY <2>2, <2>3, BeforeCase DEF Found
<1>2. CASE c \notin suite.prepare
  BY <1>2, BeforeCase DEF Broken
<1> QED
  BY <1>1, <1>2

LEMMA SucceededSetup ==
    ASSUME SetupInv, worker.at = "run", Connected
    PROVE  /\ Succeeded(worker, worker.case) \in WorkerType
           /\ \A p \in suite.prepare :
                 p < worker.case + 1 => Found(Succeeded(worker, worker.case), p)
<1> DEFINE c == worker.case
           w == Succeeded(worker, c)
<1>0. worker.conn \in SUBSET Cases /\ worker.stmts \in Seq(Cases) /\ c \in Cases
  BY BeforeCase DEF Conns, Replays, Connected
<1>c. \A C \in SUBSET Cases : C # NoConn
  BY BeforeCase DEF Cases
<1>d. worker.conn \cup {c} \in Conns
  BY <1>0 DEF Conns
<1>1. CASE c \notin suite.prepare
  BY <1>1, BeforeCase DEF Succeeded
<1>2. CASE c \in suite.prepare /\ c \in suite.invalid
  <2>1. w = [worker EXCEPT !.conn = @ \cup {c}]
    BY <1>2 DEF Succeeded
  <2>2. w \in WorkerType
    BY <1>0, <1>d, <2>1, BeforeCase DEF WorkerType
  <2>3. w.conn = worker.conn \cup {c} /\ w.scoped = worker.scoped /\ w.lost = worker.lost
        /\ w.broken = worker.broken
    BY <2>1, BeforeCase DEF WorkerType
  <2>4. w.conn # NoConn
    BY <1>0, <1>c, <2>3
  <2> QED
    BY <2>2, <2>3, <2>4, BeforeCase DEF Found
<1>3. CASE c \in suite.prepare /\ c \notin suite.invalid /\ c \in suite.temp
  <2>1. w = [worker EXCEPT !.scoped = @ \cup {c}]
    BY <1>3 DEF Succeeded
  <2>2. w \in WorkerType
    BY <1>0, <1>d, <2>1, BeforeCase DEF WorkerType
  <2>3. w.conn = worker.conn /\ w.scoped = worker.scoped \cup {c} /\ w.lost = worker.lost
        /\ w.broken = worker.broken
    BY <2>1, BeforeCase DEF WorkerType
  <2> QED
    BY <2>2, <2>3, BeforeCase DEF Found, Connected
<1>4. CASE c \in suite.prepare /\ c \notin suite.invalid /\ c \notin suite.temp
  <2>1. w = [worker EXCEPT !.stmts = Append(@, c), !.conn = @ \cup {c}]
    BY <1>4 DEF Succeeded
  <2>2. Append(worker.stmts, c) \in Replays
    BY <1>0 DEF Replays
  <2>3. w \in WorkerType
    BY <1>d, <2>1, <2>2, BeforeCase DEF WorkerType
  <2>4. w.conn = worker.conn \cup {c} /\ w.scoped = worker.scoped /\ w.lost = worker.lost
        /\ w.broken = worker.broken
    BY <2>1, BeforeCase DEF WorkerType
  <2>5. w.conn # NoConn
    BY <1>0, <1>c, <2>4
  <2> QED
    BY <2>3, <2>4, <2>5, BeforeCase DEF Found
<1> QED
  BY <1>1, <1>2, <1>3, <1>4

\* What RunTimeout leaves of the worker.
TimedOut(c, conn) ==
    [worker EXCEPT
       !.conn = conn,
       !.lost = @ \union ({c} \cap suite.prepare)
                  \union IF conn = NoConn THEN worker.conn \union worker.scoped
                         ELSE worker.conn \ conn]

LEMMA TimedOutSetup ==
    ASSUME SetupInv, worker.at = "run", Connected, NEW conn \in Reopened
    PROVE  /\ TimedOut(worker.case, conn) \in WorkerType
           /\ \A p \in suite.prepare :
                 p < worker.case + 1 => Found(TimedOut(worker.case, conn), p)
<1> DEFINE c == worker.case
           w == TimedOut(c, conn)
           gone == IF conn = NoConn THEN worker.conn \union worker.scoped
                   ELSE worker.conn \ conn
<1>0. /\ worker.conn \in SUBSET Cases /\ worker.stmts \in Seq(Cases) /\ c \in Cases
      /\ worker.scoped \in SUBSET Cases /\ worker.lost \in SUBSET Cases
  BY BeforeCase DEF Conns, Replays, Connected
<1>1. ASSUME NEW j \in 0..Len(worker.stmts)
      PROVE  {worker.stmts[i] : i \in 1..j} \in SUBSET Cases
  BY <1>0
<1>2. conn \in Conns
  <2>1. CASE conn = NoConn
    BY <2>1 DEF Conns
  <2>2. CASE \E j \in 0..Len(worker.stmts) : conn = {worker.stmts[i] : i \in 1..j}
    BY <1>1, <2>2 DEF Conns
  <2> QED
    BY <2>1, <2>2 DEF Reopened
<1>3. worker.lost \cup ({c} \cap suite.prepare) \cup gone \in SUBSET Cases
  BY <1>0
<1>4. w = [worker EXCEPT !.conn = conn, !.lost = worker.lost \cup ({c} \cap suite.prepare) \cup gone]
  BY DEF TimedOut
<1> HIDE DEF gone, w
<1>5. w \in WorkerType
  BY <1>2, <1>3, <1>4, BeforeCase DEF WorkerType
<1>6. /\ w.conn = conn /\ w.scoped = worker.scoped /\ w.broken = worker.broken
      /\ w.lost = worker.lost \cup ({c} \cap suite.prepare) \cup gone
  BY <1>4, BeforeCase DEF WorkerType
<1>7. ASSUME NEW p \in suite.prepare, p < c \/ p = c
      PROVE  Found(w, p)
  BY <1>6, <1>7, BeforeCase DEF Found, gone
<1> QED
  BY <1>5, <1>7, BeforeCase DEF w

\* A step of the worker that sets up nothing.
LEMMA MovedSetup ==
    ASSUME SetupInv, suite' = suite, NEW a \in Points, NEW k \in Nat,
           worker' = [worker EXCEPT !.at = a, !.case = k],
           a = "open" => k = 1,
           a \in {"loop", "run"} => k \in 1..(suite.n + 1),
           a = "run" => k <= suite.n,
           a \in {"loop", "run"} => \A p \in suite.prepare : p < k => Found(worker, p)
    PROVE  SetupInv'
<1>1. WorkerType' = WorkerType
  BY DEF WorkerType, Conns, Replays, Cases
<1>2. worker \in WorkerType
  BY DEF SetupInv
<1>3. worker' \in WorkerType
  BY <1>2 DEF WorkerType
<1>4. /\ worker'.at = a /\ worker'.case = k /\ worker'.conn = worker.conn
      /\ worker'.scoped = worker.scoped /\ worker'.broken = worker.broken
      /\ worker'.lost = worker.lost
  BY <1>2 DEF WorkerType
<1>5. ASSUME NEW p, Found(worker, p)
      PROVE  Found(worker, p)'
  BY <1>4, <1>5 DEF Found
<1> QED
  BY <1>1, <1>3, <1>4, <1>5 DEF SetupInv

\* The worker's program counter is all that changes.
LEMMA AtSetup ==
    ASSUME SetupInv, suite' = suite, NEW a \in {"exited", "crashed"},
           worker' = [worker EXCEPT !.at = a]
    PROVE  SetupInv'
<1>1. worker \in WorkerType
  BY DEF SetupInv
<1>2. worker.case \in Nat /\ worker' = [worker EXCEPT !.at = a, !.case = worker.case]
  BY <1>1 DEF WorkerType
<1>3. a \in Points
  BY DEF Points
<1> QED
  BY <1>2, <1>3, MovedSetup

LEMMA OpenSetup ==
    ASSUME SetupInv, WorkerOpen
    PROVE  SetupInv'
<1>0. suite' = suite /\ worker.at = "open" /\ worker \in WorkerType
      /\ suite.n \in Nat /\ suite.prepare \subseteq 1..suite.n
  BY DEF WorkerOpen, SetupInv, parentVars
<1>1. CASE worker' = [worker EXCEPT !.at = "exited"]
  BY <1>0, <1>1, AtSetup
<1>2. CASE worker' = [worker EXCEPT !.at = "loop"]
  <2>1. worker.case = 1
    BY <1>0 DEF SetupInv
  <2>2. worker' = [worker EXCEPT !.at = "loop", !.case = 1]
    BY <1>0, <1>2, <2>1 DEF WorkerType
  <2>3. /\ "loop" \in Points /\ 1 \in Nat /\ 1 \in 1..(suite.n + 1)
        /\ \A p \in suite.prepare : ~(p < 1)
    BY <1>0 DEF Points
  <2> QED
    BY <1>0, <2>2, <2>3, MovedSetup
<1> QED
  BY <1>1, <1>2 DEF WorkerOpen

LEMMA NextSetup ==
    ASSUME SetupInv, WorkerNext
    PROVE  SetupInv'
<1> DEFINE c == worker.case
<1>0. suite' = suite /\ worker.at = "loop" /\ worker \in WorkerType
      /\ suite.n \in Nat /\ suite.prepare \subseteq 1..suite.n
      /\ c \in Nat /\ c \in 1..(suite.n + 1)
      /\ \A p \in suite.prepare : p < c => Found(worker, p)
  BY DEF WorkerNext, SetupInv, WorkerType, parentVars
<1>1. CASE worker' = [worker EXCEPT !.at = "exited"]
  BY <1>0, <1>1, AtSetup
<1>2. CASE c <= suite.n /\ PassedOver(c) /\ worker' = [worker EXCEPT !.case = c + 1]
  <2>1. worker' = [worker EXCEPT !.at = "loop", !.case = c + 1]
    BY <1>0, <1>2 DEF WorkerType
  <2>2. ASSUME NEW p \in suite.prepare, p < c + 1
        PROVE  p < c
    BY <1>0, <1>2, <2>2 DEF PassedOver
  <2>3. "loop" \in Points /\ c + 1 \in Nat /\ c + 1 \in 1..(suite.n + 1)
    BY <1>0, <1>2 DEF Points
  <2> HIDE DEF c
  <2> QED
    BY <1>0, <2>1, <2>2, <2>3, MovedSetup
<1>3. CASE c <= suite.n /\ worker' = [worker EXCEPT !.at = "run"]
  <2>1. worker' = [worker EXCEPT !.at = "run", !.case = c] /\ "run" \in Points
    BY <1>0, <1>3 DEF WorkerType, Points
  <2> HIDE DEF c
  <2> QED
    BY <1>0, <1>3, <2>1, MovedSetup
<1> QED
  BY <1>1, <1>2, <1>3 DEF WorkerNext

LEMMA SetupStep ==
    ASSUME SetupInv, [CompNext]_compVars
    PROVE  SetupInv'
<1>1. CASE WorkerOpen
  BY <1>1, OpenSetup
<1>2. CASE WorkerNext
  BY <1>2, NextSetup
<1>3. CASE RunSkip
  BY <1>3, BrokenSetup, ReportedSetup DEF RunSkip
<1>4. CASE RunError
  BY <1>4, BrokenSetup, ReportedSetup DEF RunError
<1>5. CASE RunOk
  BY <1>5, SucceededSetup, ReportedSetup DEF RunOk
<1>6. CASE RunTimeout
  <2>1. /\ worker.at = "run" /\ Connected
        /\ \E conn \in Reopened : Reported(worker.case, "timeout", TimedOut(worker.case, conn))
    BY <1>6 DEF RunTimeout, TimedOut
  <2> QED
    BY <2>1, TimedOutSetup, ReportedSetup
<1>7. CASE suite' = suite /\ worker' = worker
  BY <1>7 DEF SetupInv, WorkerType, Conns, Replays, Cases, Found
<1>8. CASE suite' = suite /\ worker' = [worker EXCEPT !.at = "crashed"]
  BY <1>8, AtSetup
<1>9. CASE suite' = suite /\ worker' = NewWorker
  BY <1>9 DEF SetupInv, WorkerType, Points, Conns, Replays, Cases, NewWorker
<1> QED
  BY <1>1, <1>2, <1>3, <1>4, <1>5, <1>6, <1>7, <1>8, <1>9
  DEF CompNext, WorkerStep, ParentStep, WorkerCrash, Launch, Receive, Watchdog, Drain, Reap,
      Scan, Interrupt, Killed, compVars, parentVars, streamVars

LEMMA InitSetup ==
    ASSUME CompInit
    PROVE  SetupInv
<1>1. suite \in Suites /\ worker = NoWorker
  BY DEF CompInit
<1>2. {} \in Conns /\ <<>> \in Replays /\ "open" \in Points /\ "exited" \in Points
  BY DEF Conns, Replays, Points
<1>3. NewWorker \in WorkerType
  BY <1>2 DEF WorkerType, NewWorker
<1>4. NoWorker \in WorkerType /\ NoWorker.at = "exited"
  BY <1>2, <1>3 DEF WorkerType, NoWorker
<1> QED
  BY <1>1, <1>4 DEF SetupInv

\* With the invariant, a case finds the setup it needs.
LEMMA SetupShown ==
    ASSUME SetupInv
    PROVE  SetupSeen
<1>1. ASSUME NEW p, Found(worker, p)
      PROVE  p \in Available \cup worker.broken \cup worker.lost
  BY <1>1 DEF Found, Available, Connected
<1>2. ASSUME worker.at = "run", ~Skipped(worker.case), NEW p \in suite.uses[worker.case]
      PROVE  p \in Available \cup worker.lost
  <2>1. p \in suite.prepare /\ p < worker.case
    BY <1>2, BeforeCase DEF Cases
  <2>2. Found(worker, p) /\ p \notin worker.broken
    BY <1>2, <2>1, BeforeCase DEF Skipped
  <2> QED
    BY <1>1, <2>2
<1> QED
  BY <1>1, <1>2 DEF SetupSeen, SetupInv

-----------------------------------------------------------------------------
(* The lines, step by step.                                                *)

LEMMA AppendIs ==
    ASSUME NEW s \in Seq(Line), NEW l \in Line
    PROVE  /\ Append(s, l) \in Seq(Line) /\ Len(s) \in Nat
           /\ Len(Append(s, l)) = Len(s) + 1
           /\ DOMAIN s = 1..Len(s) /\ DOMAIN Append(s, l) = 1..(Len(s) + 1)
           /\ \A i \in 1..Len(s) : Append(s, l)[i] = s[i] /\ s[i] \in Line
           /\ Append(s, l)[Len(s) + 1] = l
OBVIOUS

LEMMA LinesAre ==
    ASSUME NEW c \in Nat, NEW s \in Statuses
    PROVE  /\ StartLine(c) \in Line /\ StartLine(c).start = c
           /\ ResultLine(c, s) \in Line /\ ResultLine(c, s).start = 0
           /\ ResultLine(c, s).index = c /\ ResultLine(c, s).status = s
<1>1. 0 \in Nat /\ "" \in Statuses
  BY DEF Statuses
<1>2. StartLine(c) \in Line /\ ResultLine(c, s) \in Line
  BY <1>1 DEF StartLine, ResultLine, Line
<1>3. StartLine(c).start = c
  BY DEF StartLine
<1>4. ResultLine(c, s).start = 0 /\ ResultLine(c, s).index = c /\ ResultLine(c, s).status = s
  BY DEF ResultLine
<1> QED
  BY <1>2, <1>3, <1>4

\* What is known of the file and of the worker's case.
LEMMA Bounds ==
    ASSUME CompInv
    PROVE  /\ suite.n \in Nat /\ suite.parses \in BOOLEAN
           /\ start \in Nat /\ start >= 1 /\ start <= suite.n + 1
           /\ worker.at \in Points /\ worker.case \in Nat
           /\ worker.at \in {"loop", "run"} => worker.case >= 1 /\ worker.case <= suite.n + 1
           /\ worker.at = "run" => worker.case <= suite.n
           /\ Len(report) \in Nat /\ Len(pipe) \in Nat /\ current \in Nat
           /\ Got \in Nat /\ InHand \in {0, 1} /\ Written \in Nat
<1>1. /\ suite \in Suites /\ suite.n \in Nat /\ suite.parses \in BOOLEAN
      /\ worker \in WorkerType /\ start \in 1..(suite.n + 1)
      /\ report \in Seq(Line) /\ pipe \in Seq(Line) /\ current \in Nat
  BY DEF CompInv, SetupInv, ParentInv, StreamInv
<1>2. worker.at \in Points /\ worker.case \in Nat
  BY <1>1 DEF WorkerType
<1>3. Len(report) \in Nat /\ Len(pipe) \in Nat
  BY <1>1
<1>4. Got \in Nat /\ InHand \in {0, 1} /\ Written \in Nat
  BY <1>1, <1>3 DEF Got, InHand, Written
<1> QED
  BY <1>1, <1>2, <1>3, <1>4 DEF CompInv, SetupInv

\* The worker writes no line.
Silent == pipe' = pipe /\ Due(worker'.at, worker'.case) = Due(worker.at, worker.case)

\* The worker writes the next line.
Writes(l) ==
    /\ l \in Line /\ pipe' = Append(pipe, l)
    /\ IsLine(l, Due(worker.at, worker.case) + 1)
    /\ Due(worker'.at, worker'.case) = Due(worker.at, worker.case) + 1

LEMMA ReportedLine ==
    ASSUME CompInv, worker.at = "run", NEW status \in Statuses, NEW w \in WorkerType,
           Reported(worker.case, status, w)
    PROVE  /\ worker'.at = "loop"
           /\ Silent \/ \E l : Writes(l)
<1> DEFINE c == worker.case
<1>1. worker'.at = "loop" /\ worker'.case = c + 1
  BY DEF Reported, WorkerType
<1>2. CASE c < start
  BY <1>1, <1>2, Bounds DEF Reported, Silent, Due
<1>3. CASE ~(c < start)
  <2> DEFINE l == ResultLine(c, status)
  <2>1. l \in Line /\ l.start = 0 /\ l.index = c
    BY Bounds, LinesAre
  <2>2. pipe' = Append(pipe, l)
    BY <1>3 DEF Reported, WriteLine
  <2>3. Due("run", c) = 2 * c - 1 /\ Due("loop", c + 1) = 2 * c
    BY <1>3, Bounds DEF Due
  <2>4. IsLine(l, 2 * c)
    BY <2>1, Bounds DEF IsLine
  <2> HIDE DEF l
  <2>5. Writes(l)
    BY <1>1, <2>1, <2>2, <2>3, <2>4, Bounds DEF Writes
  <2> QED
    BY <1>1, <2>5
<1> QED
  BY <1>2, <1>3

\* What a step of the worker does to the lines of a file that parses.
LEMMA WorkerLines ==
    ASSUME CompInv, place = "read", suite.parses, StreamOK, WorkerStep
    PROVE  /\ Alive /\ UNCHANGED <<parentVars, hand, closed>>
           /\ \/ pipe' = pipe /\ worker'.at = "crashed"
              \/ worker'.at \in {"loop", "run", "exited"} /\ Silent
              \/ worker'.at \in {"loop", "run"} /\ \E l : Writes(l)
<1> DEFINE c == worker.case
<1>0. worker \in WorkerType
  BY DEF CompInv, SetupInv
<1>1. CASE WorkerOpen
  <2>1. worker.at = "open" /\ worker'.at = "loop" /\ worker'.case = c /\ pipe' = pipe
    BY <1>0, <1>1 DEF WorkerOpen, WorkerType
  <2>2. c = 1
    BY <2>1 DEF CompInv, SetupInv
  <2>3. Silent
    BY <2>1, <2>2, Bounds DEF Silent, Due
  <2> QED
    BY <1>1, <2>1, <2>3 DEF WorkerOpen, Alive
<1>2. CASE WorkerNext
  <2>0. worker.at = "loop" /\ UNCHANGED <<parentVars, hand, closed>>
    BY <1>2 DEF WorkerNext
  <2>1. CASE c > suite.n /\ worker' = [worker EXCEPT !.at = "exited"] /\ pipe' = pipe
    <3>1. worker'.at = "exited"
      BY <1>0, <2>1 DEF WorkerType
    <3>2. Silent
      BY <2>0, <2>1, <3>1, Bounds DEF Silent, Due
    <3> QED
      BY <2>0, <3>1, <3>2 DEF Alive
  <2>2. CASE PassedOver(c) /\ worker' = [worker EXCEPT !.case = c + 1] /\ pipe' = pipe
    <3>1. worker'.at = "loop" /\ worker'.case = c + 1
      BY <1>0, <2>0, <2>2 DEF WorkerType
    <3>2. Silent
      BY <2>0, <2>2, <3>1, Bounds DEF Silent, Due, PassedOver
    <3> QED
      BY <2>0, <3>1, <3>2 DEF Alive
  <2>3. CASE c <= suite.n /\ c < start /\ worker' = [worker EXCEPT !.at = "run"] /\ pipe' = pipe
    <3>1. worker'.at = "run" /\ worker'.case = c
      BY <1>0, <2>3 DEF WorkerType
    <3>2. Silent
      BY <2>0, <2>3, <3>1, Bounds DEF Silent, Due
    <3> QED
      BY <2>0, <3>1, <3>2 DEF Alive
  <2>4. CASE /\ c <= suite.n /\ ~(c < start) /\ worker' = [worker EXCEPT !.at = "run"]
             /\ WriteLine(StartLine(c))
    <3> DEFINE l == StartLine(c)
    <3>1. worker'.at = "run" /\ worker'.case = c
      BY <1>0, <2>4 DEF WorkerType
    <3>2. l \in Line /\ l.start = c /\ c > 0 /\ pipe' = Append(pipe, l)
      <4>1. c \in Nat /\ c > 0 /\ "" \in Statuses
        BY <2>0, Bounds DEF Statuses
      <4> QED
        BY <2>4, <4>1, LinesAre DEF WriteLine
    <3>3. Due("loop", c) = 2 * (c - 1) /\ Due("run", c) = 2 * c - 1
      BY <2>4, Bounds DEF Due
    <3>4. IsLine(l, 2 * (c - 1) + 1)
      BY <2>4, <3>2, Bounds DEF IsLine
    <3> HIDE DEF l
    <3>5. Writes(l)
      BY <2>0, <3>1, <3>2, <3>3, <3>4, Bounds DEF Writes
    <3> QED
      BY <2>0, <3>1, <3>5 DEF Alive
  <2> QED
    BY <1>2, <2>1, <2>2, <2>3, <2>4 DEF WorkerNext
<1>s. \A s \in {"skip", "pass", "fail", "error", "timeout"} : s \in Statuses
  BY DEF Statuses
<1>3. ASSUME worker.at = "run", NEW status \in Statuses, NEW w \in WorkerType,
             Reported(worker.case, status, w)
      PROVE  /\ Alive /\ UNCHANGED <<parentVars, hand, closed>>
             /\ worker'.at = "loop" /\ (Silent \/ \E l : Writes(l))
  BY <1>3, ReportedLine DEF Reported, Alive
<1>4. CASE RunSkip
  <2>1. worker.at = "run" /\ Reported(worker.case, "skip", Broken(worker, worker.case))
    BY <1>4 DEF RunSkip
  <2> QED
    BY <1>3, <1>s, <2>1, BrokenSetup DEF CompInv
<1>5. CASE RunError
  <2>1. worker.at = "run"
        /\ \E status \in {"skip", "pass", "error"} :
              Reported(worker.case, status, Broken(worker, worker.case))
    BY <1>5 DEF RunError
  <2> QED
    BY <1>3, <1>s, <2>1, BrokenSetup DEF CompInv
<1>6. CASE RunOk
  <2>1. worker.at = "run" /\ Connected
        /\ \E status \in {"pass", "fail"} :
              Reported(worker.case, status, Succeeded(worker, worker.case))
    BY <1>6 DEF RunOk
  <2> QED
    BY <1>3, <1>s, <2>1, SucceededSetup DEF CompInv
<1>7. CASE RunTimeout
  <2>1. /\ worker.at = "run" /\ Connected
        /\ \E conn \in Reopened : Reported(worker.case, "timeout", TimedOut(worker.case, conn))
    BY <1>7 DEF RunTimeout, TimedOut
  <2> QED
    BY <1>3, <1>s, <2>1, TimedOutSetup DEF CompInv
<1>8. CASE WorkerCrash
  BY <1>0, <1>8 DEF WorkerCrash, WorkerType, streamVars
<1> QED
  BY <1>1, <1>2, <1>4, <1>5, <1>6, <1>7, <1>8 DEF WorkerStep

\* The parent's part depends on nothing else.
ParentSame == UNCHANGED <<suite, place, attempt, start, current, killed, report>>

LEMMA ParentKept ==
    ASSUME ParentInv, ParentSame
    PROVE  ParentInv'
BY DEF ParentInv, ParentSame, ReportOK, LaunchOK, CurrentOK, CasesReported, IsSkip, IsTerminal

LEMMA CrashedStream ==
    ASSUME StreamOK, ParentSame, hand' = hand, pipe' = pipe, worker'.at = "crashed"
    PROVE  StreamOK'
<1>1. Got' = Got /\ InHand' = InHand
  BY DEF ParentSame, Got, InHand
<1> QED
  BY <1>1 DEF StreamOK, IsLine, ParentSame

LEMMA SilentStream ==
    ASSUME StreamOK, ParentSame, hand' = hand, worker.at # "crashed", Silent
    PROVE  StreamOK'
<1>1. Got' = Got /\ InHand' = InHand /\ Written' = Written
  BY DEF ParentSame, Got, InHand, Written, Silent
<1>2. Due(worker.at, worker.case)' = Due(worker'.at, worker'.case)
  BY DEF ParentSame, Due
<1> QED
  BY <1>1, <1>2 DEF StreamOK, Silent, IsLine, ParentSame

LEMMA WritesStream ==
    ASSUME CompInv, StreamOK, ParentSame, hand' = hand, worker.at # "crashed",
           NEW l, Writes(l)
    PROVE  StreamOK'
<1>1. Got' = Got /\ InHand' = InHand /\ suite' = suite
  BY DEF ParentSame, Got, InHand
<1>2. /\ pipe \in Seq(Line) /\ l \in Line /\ pipe' = Append(pipe, l)
      /\ IsLine(l, Due(worker.at, worker.case) + 1)
      /\ Written = Due(worker.at, worker.case)
      /\ Due(worker'.at, worker'.case) = Written + 1
  BY DEF Writes, CompInv, StreamInv, StreamOK
<1>3. Written = Got + InHand + Len(pipe)
  BY DEF Written
<1>4. Len(pipe') = Len(pipe) + 1 /\ Written' = Written + 1
  <2>1. Len(pipe') = Len(pipe) + 1
    BY <1>2, AppendIs
  <2>2. Written' = Got + InHand + Len(pipe')
    BY <1>1 DEF Written
  <2>3. Got \in Nat /\ InHand \in Nat /\ Len(pipe) \in Nat
    BY Bounds
  <2> QED
    BY <1>3, <2>1, <2>2, <2>3
<1>5. Due(worker.at, worker.case)' = Due(worker'.at, worker'.case)
  BY DEF ParentSame, Due
<1>6. ASSUME NEW j \in 1..Len(pipe')
      PROVE  IsLine(pipe'[j], Got + InHand + j)
  <2>1. CASE j \in 1..Len(pipe)
    BY <1>2, <2>1, AppendIs DEF StreamOK
  <2>2. CASE j = Len(pipe) + 1
    <3>1. pipe'[j] = l
      BY <1>2, <2>2, AppendIs
    <3>2. Got \in Nat /\ InHand \in Nat /\ Len(pipe) \in Nat
      BY Bounds
    <3>3. Got + InHand + j = Written + 1
      BY <1>3, <2>2, <3>2
    <3> QED
      BY <1>2, <3>1, <3>3
  <2> QED
    BY <1>4, <2>1, <2>2, Bounds
<1>7. hand' # NoLine => IsLine(hand', Got + 1)
  BY DEF StreamOK
<1> QED
  BY <1>1, <1>2, <1>4, <1>5, <1>6, <1>7 DEF StreamOK, IsLine

LEMMA WorkerStream ==
    ASSUME CompInv, WorkerStep
    PROVE  ParentInv' /\ StreamInv'
<1>0. Alive /\ place = "read" /\ ~closed /\ worker \in WorkerType
  BY DEF CompInv, SetupInv, StreamInv, ClosedOK, WorkerStep, WorkerOpen, WorkerNext, RunSkip, RunError,
         RunOk, RunTimeout, WorkerCrash, Alive
<1>1. CASE suite.parses
  <2>1. StreamOK
    BY <1>0, <1>1 DEF CompInv, StreamInv
  <2>2. /\ ParentSame /\ hand' = hand /\ closed' = closed
        /\ \/ pipe' = pipe /\ worker'.at = "crashed"
           \/ worker'.at \in {"loop", "run", "exited"} /\ Silent
           \/ worker'.at \in {"loop", "run"} /\ \E l : Writes(l)
    BY <1>0, <1>1, <2>1, WorkerLines DEF ParentSame, parentVars
  <2>3. worker.at # "crashed"
    BY <1>0 DEF Alive
  <2>4. StreamOK'
    <3>1. CASE pipe' = pipe /\ worker'.at = "crashed"
      BY <2>1, <2>2, <3>1, CrashedStream
    <3>2. CASE Silent
      BY <2>1, <2>2, <2>3, <3>2, SilentStream
    <3>3. CASE \E l : Writes(l)
      BY <2>1, <2>2, <2>3, <3>3, WritesStream
    <3> QED
      BY <2>2, <3>1, <3>2, <3>3
  <2>5. pipe' \in Seq(Line)
    BY <2>2, AppendIs DEF CompInv, StreamInv, Silent, Writes
  <2>6. ParentInv'
    BY <2>2, ParentKept DEF CompInv
  <2>7. suite' = suite /\ place' = "read" /\ ~closed'
    BY <1>0, <2>2 DEF ParentSame
  <2> QED
    BY <1>1, <2>2, <2>4, <2>5, <2>6, <2>7 DEF CompInv, StreamInv, ClosedOK
<1>2. CASE ~suite.parses
  <2>1. SkipOK
    BY <1>0, <1>2 DEF CompInv, StreamInv
  <2>2. worker.at = "open"
    BY <1>0, <2>1 DEF SkipOK, Alive
  <2>3. /\ ParentSame /\ hand' = hand /\ closed' = closed
        /\ \/ pipe' = pipe /\ worker' = [worker EXCEPT !.at = "crashed"]
           \/ pipe' = Append(pipe, ResultLine(0, "skip")) /\ worker' = [worker EXCEPT !.at = "exited"]
    BY <1>2, <2>2 DEF WorkerStep, WorkerOpen, WorkerNext, RunSkip, RunError, RunOk, RunTimeout,
                      WorkerCrash, WriteLine, ParentSame, parentVars, streamVars
  <2>4. ResultLine(0, "skip") \in Line /\ IsSkip(ResultLine(0, "skip"))
    <3>1. "skip" \in Statuses
      BY DEF Statuses
    <3> QED
      BY <3>1, LinesAre DEF IsSkip
  <2>5. pipe \in Seq(Line) /\ Len(pipe) \in Nat /\ Len(report) \in Nat /\ InHand \in {0, 1}
    BY Bounds DEF CompInv, StreamInv
  <2>6. Len(pipe) = 0 /\ Len(report) = 0 /\ InHand = 0
    BY <2>1, <2>2, <2>5 DEF SkipOK
  <2>7. report' = report /\ InHand' = 0
    BY <2>3, <2>6 DEF ParentSame, InHand
  <2>8. SkipOK' /\ pipe' \in Seq(Line)
    <3>1. CASE pipe' = pipe /\ worker' = [worker EXCEPT !.at = "crashed"]
      <4>1. worker'.at = "crashed"
        BY <1>0, <3>1 DEF WorkerType
      <4> QED
        BY <2>1, <2>3, <2>5, <2>6, <2>7, <3>1, <4>1 DEF SkipOK, IsSkip
    <3>2. CASE /\ pipe' = Append(pipe, ResultLine(0, "skip"))
               /\ worker' = [worker EXCEPT !.at = "exited"]
      <4>1. worker'.at = "exited"
        BY <1>0, <3>2 DEF WorkerType
      <4>2. pipe' \in Seq(Line) /\ Len(pipe') = 1 /\ pipe'[1] = ResultLine(0, "skip")
        BY <2>4, <2>5, <2>6, <3>2, AppendIs
      <4> QED
        BY <2>1, <2>3, <2>4, <2>6, <2>7, <4>1, <4>2 DEF SkipOK, IsSkip
    <3> QED
      BY <2>3, <3>1, <3>2
  <2>9. ParentInv'
    BY <2>3, ParentKept DEF CompInv
  <2>10. suite' = suite /\ place' = "read" /\ ~closed'
    BY <1>0, <2>3 DEF ParentSame
  <2> QED
    BY <1>2, <2>3, <2>8, <2>9, <2>10 DEF CompInv, StreamInv, ClosedOK
<1> QED
  BY <1>1, <1>2, Bounds

\* The worker is killed, or the context ends.
LEMMA KilledStream ==
    ASSUME CompInv, Interrupt
    PROVE  ParentInv' /\ StreamInv'
<1>1. ParentSame /\ hand' = hand /\ pipe' = pipe /\ closed' = closed
  BY DEF Interrupt, ParentSame, streamVars
<1>2. ParentInv'
  BY <1>1, ParentKept DEF CompInv
<1>3. worker \in WorkerType
  BY DEF CompInv, SetupInv
<1>4. CASE worker' = worker
  BY <1>1, <1>2, <1>4
  DEF CompInv, StreamInv, ParentSame, ClosedOK, StreamOK, SkipOK, Alive, IsSkip, IsLine, Got, InHand,
      Written, Due, Complete
<1>5. CASE worker' = [worker EXCEPT !.at = "crashed"]
  <2>1. worker'.at = "crashed" /\ ~Alive'
    BY <1>3, <1>5 DEF WorkerType, Alive
  <2>2. StreamOK => StreamOK'
    BY <1>1, <2>1, CrashedStream
  <2>3. SkipOK => SkipOK'
    BY <1>1, <2>1 DEF SkipOK, IsSkip, InHand, ParentSame
  <2> QED
    BY <1>1, <1>2, <2>1, <2>2, <2>3 DEF CompInv, StreamInv, ParentSame, ClosedOK, Complete
<1> QED
  BY <1>4, <1>5 DEF Interrupt, Killed

\* A line moves from the pipe into the goroutine's hand.
LEMMA ScanStream ==
    ASSUME CompInv, Scan
    PROVE  ParentInv' /\ StreamInv'
<1>1. ParentSame /\ worker' = worker /\ hand = NoLine /\ ~closed
  BY DEF Scan, ParentSame, parentVars
<1>2. ParentInv'
  BY <1>1, ParentKept DEF CompInv
<1>3. Got' = Got /\ suite' = suite /\ report' = report /\ place' = place /\ InHand = 0
      /\ Alive' = Alive
      /\ Due(worker.at, worker.case)' = Due(worker.at, worker.case)
  BY <1>1 DEF ParentSame, Got, InHand, Alive, Due
<1>4. CASE pipe # <<>> /\ hand' = Head(pipe) /\ pipe' = Tail(pipe) /\ closed' = closed
  <2>1. /\ Len(pipe) \in Nat /\ Len(pipe) >= 1 /\ pipe' \in Seq(Line) /\ Len(pipe') = Len(pipe) - 1
        /\ hand' = pipe[1] /\ hand' \in Line
        /\ \A j \in 1..(Len(pipe) - 1) : pipe'[j] = pipe[j + 1]
    BY <1>4 DEF CompInv, StreamInv
  <2>2. hand' # NoLine /\ InHand' = 1
    BY <2>1 DEF InHand
  <2>3. Got \in Nat
    BY Bounds
  <2>4. Written' = Written
    BY <1>3, <2>1, <2>2, <2>3 DEF Written
  <2>5. ASSUME StreamOK
        PROVE  StreamOK'
    <3>1. IsLine(hand', Got + 1)
      BY <1>3, <2>1, <2>3, <2>5 DEF StreamOK
    <3>2. ASSUME NEW j \in 1..Len(pipe')
          PROVE  IsLine(pipe'[j], Got + 1 + j)
      <4>1. j \in Nat /\ j + 1 \in 1..Len(pipe) /\ pipe'[j] = pipe[j + 1]
        BY <2>1
      <4>2. Got + 0 + (j + 1) = Got + 1 + j
        BY <2>3, <4>1
      <4> QED
        BY <1>3, <2>5, <4>1, <4>2 DEF StreamOK
    <3> QED
      BY <1>1, <1>3, <2>2, <2>4, <2>5, <3>1, <3>2 DEF StreamOK, IsLine
  <2>6. ASSUME SkipOK
        PROVE  SkipOK'
    <3>1. IsSkip(hand') /\ \A j \in 1..Len(pipe') : IsSkip(pipe'[j])
      BY <2>1, <2>6 DEF SkipOK
    <3>2. Len(report) \in Nat
      BY Bounds
    <3> QED
      BY <1>1, <1>3, <2>1, <2>2, <2>6, <3>1, <3>2 DEF SkipOK, IsSkip
  <2> QED
    BY <1>1, <1>2, <1>3, <1>4, <2>1, <2>5, <2>6 DEF CompInv, StreamInv, ClosedOK
<1>5. CASE pipe = <<>> /\ ~Alive /\ closed' = TRUE /\ pipe' = pipe /\ hand' = hand
  <2>1. StreamOK => StreamOK'
    BY <1>1, <1>3, <1>5 DEF StreamOK, IsLine, InHand, Written
  <2>2. SkipOK => SkipOK'
    BY <1>1, <1>3, <1>5 DEF SkipOK, IsSkip, InHand
  <2> QED
    BY <1>1, <1>2, <1>3, <1>5, <2>1, <2>2 DEF CompInv, StreamInv, ClosedOK, ParentSame, Complete
<1> QED
  BY <1>4, <1>5 DEF Scan

-----------------------------------------------------------------------------
(* The parent, step by step.                                               *)

\* A report that goes on names its cases in order and holds no terminal line.
LEMMA ReportShown ==
    ASSUME report \in Seq(Line), suite.parses \in BOOLEAN, ReportOK
    PROVE  \A i \in DOMAIN report : report[i].index \in {0, i} /\ ~IsTerminal(report[i])
BY DEF ReportOK, IsTerminal, IsSkip

\* A terminal line ends it.
LEMMA TerminalShown ==
    ASSUME report \in Seq(Line), suite.parses \in BOOLEAN, ReportOK, suite' = suite,
           NEW kind \in Statuses, report' = Append(report, Terminal(kind))
    PROVE  report' \in Seq(Line) /\ CasesReported'
<1> DEFINE l == Terminal(kind)
<1>1. l \in Line /\ l.index = 0
  BY LinesAre DEF Terminal
<1> HIDE DEF l
<1>2. /\ report' \in Seq(Line) /\ Len(report) \in Nat /\ Len(report') = Len(report) + 1
      /\ DOMAIN report' = 1..(Len(report) + 1) /\ DOMAIN report = 1..Len(report)
      /\ report'[Len(report')] = l /\ report' # <<>>
  BY <1>1, AppendIs DEF l
<1>3. ASSUME NEW i \in DOMAIN report'
      PROVE  /\ report'[i].index \in {0, i}
             /\ IsTerminal(report'[i]) => i = Len(report')
  <2>1. CASE i \in DOMAIN report
    <3>1. report'[i] = report[i]
      BY <1>1, <1>2, <2>1, AppendIs DEF l
    <3> QED
      BY <2>1, <3>1, ReportShown
  <2>2. CASE i = Len(report')
    BY <1>1, <1>2, <2>2
  <2> QED
    BY <1>2, <2>1, <2>2
<1> QED
  BY <1>1, <1>2, <1>3 DEF CasesReported, IsTerminal

\* A result that the worker or the parent adds is that of the next case.
LEMMA ResultAdded ==
    ASSUME report \in Seq(Line), suite.parses, suite.n \in Nat, ReportOK, suite' = suite,
           NEW l \in Line, report' = Append(report, l), l.index = Len(report) + 1,
           Len(report) < suite.n, place' # "done"
    PROVE  report' \in Seq(Line) /\ ReportOK' /\ CasesReported' /\ Len(report') = Len(report) + 1
<1>1. report' \in Seq(Line) /\ Len(report) \in Nat /\ Len(report') = Len(report) + 1
  BY AppendIs
<1>2. ASSUME NEW i \in 1..Len(report')
      PROVE  report'[i].index = i
  <2>1. CASE i \in 1..Len(report)
    BY <2>1, AppendIs DEF ReportOK
  <2>2. CASE i = Len(report) + 1
    BY <2>2, AppendIs
  <2> QED
    BY <1>1, <2>1, <2>2
<1>3. ReportOK'
  BY <1>1, <1>2 DEF ReportOK
<1>4. \A i \in DOMAIN report' : report'[i].index \in {0, i} /\ ~(report'[i].index = 0)
  BY <1>1, <1>2
<1> QED
  BY <1>1, <1>3, <1>4 DEF CasesReported, IsTerminal

LEMMA LaunchStream ==
    ASSUME CompInv, Launch
    PROVE  ParentInv' /\ StreamInv'
<1>0. /\ suite' = suite /\ start' = start /\ place = "launch"
      /\ suite \in Suites /\ suite.n \in Nat /\ suite.parses \in BOOLEAN
      /\ start \in 1..(suite.n + 1) /\ current \in Nat /\ attempt \in Nat /\ killed \in BOOLEAN
      /\ report \in Seq(Line) /\ Len(report) \in Nat /\ ReportOK /\ LaunchOK /\ ~Alive
  BY Bounds DEF Launch, CompInv, ParentInv, StreamInv
<1>1. CASE /\ attempt = MaxAttempts /\ place' = "done"
           /\ UNCHANGED <<attempt, current, killed, report, streamVars, worker>>
  <2>1. CasesReported'
    BY <1>0, <1>1, ReportShown DEF CasesReported, IsTerminal
  <2>2. ParentInv'
    BY <1>0, <1>1, <2>1 DEF ParentInv
  <2> QED
    BY <1>0, <1>1, <2>2 DEF CompInv, StreamInv, ClosedOK, Alive, streamVars
<1>2. CASE /\ place' = "done" /\ report' = Append(report, Terminal("notStarted"))
           /\ UNCHANGED <<attempt, current, killed, streamVars, worker>>
  <2>1. "notStarted" \in Statuses
    BY DEF Statuses
  <2>2. report' \in Seq(Line) /\ CasesReported'
    BY <1>0, <1>2, <2>1, TerminalShown
  <2>3. ParentInv'
    BY <1>0, <1>2, <2>2 DEF ParentInv
  <2> QED
    BY <1>0, <1>2, <2>3 DEF CompInv, StreamInv, ClosedOK, Alive, streamVars
<1>3. CASE /\ place' = "read" /\ attempt' = attempt + 1 /\ current' = 0 /\ killed' = FALSE
           /\ worker' = NewWorker /\ pipe' = <<>> /\ hand' = NoLine /\ closed' = FALSE
           /\ UNCHANGED report
  <2>1. ReportOK' /\ CurrentOK'
    BY <1>0, <1>3 DEF ReportOK, CurrentOK, IsSkip
  <2>2. CasesReported'
    BY <1>0, <1>3, ReportShown DEF CasesReported, IsTerminal
  <2>3. ParentInv'
    <3>1. attempt' \in Nat /\ current' \in Nat
      BY <1>0, <1>3
    <3>2. suite' \in Suites /\ start' \in 1..(suite'.n + 1) /\ killed' \in BOOLEAN
      BY <1>0, <1>3
    <3>3. report' \in Seq(Line) /\ place' = "read"
      BY <1>0, <1>3
    <3> QED
      BY <2>1, <2>2, <3>1, <3>2, <3>3 DEF ParentInv
  <2>4. worker'.at = "open" /\ Len(pipe') = 0 /\ InHand' = 0 /\ pipe' \in Seq(Line)
    BY <1>3 DEF NewWorker, InHand
  <2>5. CASE suite.parses
    <3>1. Got' = 2 * (start - 1)
      BY <1>0, <1>3, <2>5 DEF Got, LaunchOK
    <3>2. Written' = 2 * (start - 1)
      BY <1>0, <2>4, <3>1 DEF Written
    <3>3. Due("open", worker'.case) = 2 * (start - 1)
      BY DEF Due
    <3>4. StreamOK'
      BY <1>0, <1>3, <2>4, <3>2, <3>3 DEF StreamOK, Due
    <3> QED
      BY <1>0, <1>3, <2>3, <2>4, <2>5, <3>4 DEF StreamInv, ClosedOK
  <2>6. CASE ~suite.parses
    <3>1. SkipOK'
      BY <1>0, <1>3, <2>4, <2>6 DEF SkipOK, LaunchOK
    <3> QED
      BY <1>0, <1>3, <2>3, <2>4, <2>6, <3>1 DEF StreamInv, ClosedOK
  <2> QED
    BY <1>0, <2>5, <2>6
<1> QED
  BY <1>1, <1>2, <1>3 DEF Launch

\* The parent takes the line in the goroutine's hand.
LEMMA TakenStream ==
    ASSUME CompInv, place = "read", hand # NoLine, hand' = NoLine,
           current' = hand.start,
           report' = IF hand.start = 0 THEN Append(report, hand) ELSE report,
           UNCHANGED <<suite, place, attempt, start, killed, pipe, closed, worker>>
    PROVE  ParentInv' /\ StreamInv'
<1>0. /\ suite \in Suites /\ suite.n \in Nat /\ suite.parses \in BOOLEAN
      /\ start \in 1..(suite.n + 1) /\ current \in Nat /\ attempt \in Nat /\ killed \in BOOLEAN
      /\ report \in Seq(Line) /\ Len(report) \in Nat /\ ReportOK /\ CurrentOK
      /\ hand \in Line /\ pipe \in Seq(Line) /\ Len(pipe) \in Nat /\ Got \in Nat
      /\ closed \in BOOLEAN /\ ~closed
  BY Bounds DEF CompInv, ParentInv, StreamInv, ClosedOK
<1>1. hand.start \in Nat /\ hand.index \in Nat
  BY <1>0 DEF Line
<1>2. InHand = 1 /\ InHand' = 0
  BY DEF InHand
<1>3. CASE suite.parses
  <2>1. StreamOK /\ IsLine(hand, Got + 1)
    BY <1>3 DEF CompInv, StreamInv, StreamOK
  <2>2. /\ Got' = Got + 1 /\ report' \in Seq(Line) /\ ReportOK' /\ CurrentOK' /\ CasesReported'
    <3>1. CASE hand.start = 0
      <4>1. current # 0 /\ hand.index = Len(report) + 1
        BY <1>0, <1>1, <2>1, <3>1 DEF IsLine, Got
      <4>2. Len(report) < suite.n
        BY <1>0, <4>1 DEF CurrentOK
      <4>3. report' \in Seq(Line) /\ ReportOK' /\ CasesReported' /\ Len(report') = Len(report) + 1
        BY <1>0, <1>3, <3>1, <4>1, <4>2, ResultAdded
      <4>4. Got' = Got + 1
        BY <1>0, <3>1, <4>1, <4>3 DEF Got
      <4> QED
        BY <3>1, <4>3, <4>4 DEF CurrentOK
    <3>2. CASE hand.start # 0
      <4>1. current = 0 /\ hand.start = Len(report) + 1 /\ hand.start <= suite.n
        <5>1. hand.start > 0 /\ Got + 1 = 2 * hand.start - 1 /\ Got + 1 <= 2 * suite.n
          BY <1>1, <2>1, <3>2 DEF IsLine
        <5>2. Got = 2 * Len(report) + (IF current = 0 THEN 0 ELSE 1)
          BY DEF Got
        <5>3. current = 0
          <6>1. ASSUME current # 0
                PROVE  FALSE
            <7>1. 2 * Len(report) + 3 = 2 * hand.start
              BY <1>0, <1>1, <5>1, <5>2, <6>1
            <7> QED
              BY <1>0, <1>1, <7>1
          <6> QED
            BY <6>1
        <5>4. 2 * Len(report) + 2 = 2 * hand.start
          BY <1>0, <1>1, <5>1, <5>2, <5>3
        <5>5. hand.start = Len(report) + 1
          BY <1>0, <1>1, <5>4
        <5> QED
          BY <1>0, <1>1, <5>1, <5>3, <5>5
      <4>2. report' = report
        BY <3>2
      <4>3. Got' = Got + 1
        BY <1>0, <3>2, <4>1, <4>2 DEF Got
      <4>4. ReportOK' /\ CurrentOK'
        BY <1>0, <1>3, <4>1, <4>2 DEF ReportOK, CurrentOK
      <4>5. CasesReported'
        BY <4>2 DEF CompInv, ParentInv, CasesReported, IsTerminal
      <4> QED
        BY <1>0, <4>2, <4>3, <4>4, <4>5
    <3> QED
      BY <3>1, <3>2
  <2>3. ParentInv'
    BY <1>0, <1>1, <2>2 DEF ParentInv
  <2>4. Written' = Written
    BY <1>0, <1>2, <2>2 DEF Written
  <2>5. ASSUME NEW j \in 1..Len(pipe)
        PROVE  IsLine(pipe[j], Got + 1 + j)
    BY <1>2, <2>1 DEF StreamOK
  <2>6. \A j \in 1..Len(pipe) : Got + 1 + 0 + j = Got + 1 + j
    BY <1>0
  <2>7. StreamOK'
    BY <1>2, <2>1, <2>2, <2>4, <2>5, <2>6 DEF StreamOK, IsLine, Due
  <2> QED
    BY <1>0, <1>3, <2>3, <2>7 DEF StreamInv, ClosedOK
<1>4. CASE ~suite.parses
  <2>1. SkipOK /\ IsSkip(hand)
    BY <1>4 DEF CompInv, StreamInv, SkipOK
  <2>2. Len(report) = 0 /\ Len(pipe) = 0 /\ worker.at # "open"
    BY <1>0, <1>2, <2>1 DEF SkipOK
  <2>3. report' = Append(report, hand) /\ current' = 0
    BY <2>1 DEF IsSkip
  <2>4. report' \in Seq(Line) /\ Len(report') = 1 /\ report'[1] = hand
    BY <1>0, <2>2, <2>3, AppendIs
  <2>5. ReportOK' /\ CurrentOK'
    BY <1>4, <2>1, <2>3, <2>4 DEF ReportOK, CurrentOK, IsSkip
  <2>6. CasesReported'
    BY <1>4, <2>1, <2>4 DEF CasesReported, IsTerminal, IsSkip
  <2>7. ParentInv'
    BY <1>0, <2>3, <2>4, <2>5, <2>6 DEF ParentInv
  <2>8. SkipOK'
    BY <1>2, <2>1, <2>2, <2>4 DEF SkipOK, IsSkip
  <2> QED
    BY <1>0, <1>4, <2>7, <2>8 DEF StreamInv, ClosedOK
<1> QED
  BY <1>0, <1>3, <1>4

\* The stream has ended.
LEMMA EndedStream ==
    ASSUME CompInv, place = "read", closed, place' = "wait",
           UNCHANGED <<suite, attempt, start, current, killed, report, streamVars, worker>>
    PROVE  ParentInv' /\ StreamInv'
<1>0. /\ suite.n \in Nat /\ suite.parses \in BOOLEAN /\ Len(report) \in Nat /\ current \in Nat
      /\ worker.at \in Points /\ pipe = <<>> /\ hand = NoLine /\ ~Alive
  BY Bounds DEF CompInv, StreamInv, ClosedOK
<1>1. ParentInv'
  <2>1. ReportOK' /\ CurrentOK' /\ CasesReported'
    BY DEF CompInv, ParentInv, ReportOK, CurrentOK, CasesReported, IsSkip, IsTerminal
  <2> QED
    BY <2>1 DEF CompInv, ParentInv
<1>2. current # 0 \/ worker.at = "crashed" \/ Complete
  <2>1. Len(pipe) = 0 /\ InHand = 0 /\ worker.at \in {"exited", "crashed"}
    BY <1>0 DEF InHand, Points, Alive
  <2>2. CASE suite.parses /\ worker.at = "exited" /\ current = 0
    <3>1. Written = 2 * suite.n
      BY <2>2 DEF CompInv, StreamInv, StreamOK, Due
    <3>2. Written = 2 * Len(report)
      BY <1>0, <2>1, <2>2 DEF Written, Got
    <3> QED
      BY <1>0, <2>2, <3>1, <3>2 DEF Complete
  <2>3. CASE ~suite.parses /\ worker.at = "exited"
    BY <1>0, <2>1, <2>3 DEF CompInv, StreamInv, SkipOK, Complete
  <2> QED
    BY <1>0, <2>1, <2>2, <2>3
<1>3. ~Alive' /\ ClosedOK' /\ Complete' = Complete
  BY <1>0 DEF Alive, ClosedOK, Complete, streamVars
<1> QED
  BY <1>1, <1>2, <1>3 DEF CompInv, StreamInv, streamVars

LEMMA WatchdogStream ==
    ASSUME CompInv, Watchdog
    PROVE  ParentInv' /\ StreamInv'
<1>1. ParentInv'
  <2>1. ReportOK' /\ CurrentOK' /\ CasesReported'
    BY DEF CompInv, ParentInv, ReportOK, CurrentOK, CasesReported, IsSkip, IsTerminal, Watchdog
  <2> QED
    BY <2>1 DEF CompInv, ParentInv, Watchdog
<1>2. ~Alive'
  <2>1. CASE Alive
    BY <2>1 DEF CompInv, SetupInv, WorkerType, Watchdog, Killed, Alive
  <2>2. CASE ~Alive
    BY <2>2 DEF Watchdog, Killed, Alive
  <2> QED
    BY <2>1, <2>2
<1> QED
  BY <1>1, <1>2 DEF CompInv, StreamInv, Watchdog, ClosedOK, streamVars

LEMMA DrainStream ==
    ASSUME CompInv, Drain
    PROVE  ParentInv' /\ StreamInv'
<1>1. /\ UNCHANGED <<suite, attempt, start, current, killed, report, pipe, closed, worker>>
      /\ killed /\ ~Alive /\ place = "drain"
      /\ \/ place' = "drain" /\ hand' = NoLine
         \/ place' = "wait" /\ closed /\ hand' = NoLine
  BY DEF Drain, CompInv, ParentInv, StreamInv
<1>2. ParentInv'
  <2>1. ReportOK' /\ CurrentOK' /\ CasesReported'
    BY <1>1 DEF CompInv, ParentInv, ReportOK, CurrentOK, CasesReported, IsSkip, IsTerminal
  <2> QED
    BY <1>1, <2>1 DEF CompInv, ParentInv
<1> QED
  BY <1>1, <1>2 DEF CompInv, StreamInv, ClosedOK, Alive

LEMMA ReapStream ==
    ASSUME CompInv, Reap
    PROVE  ParentInv' /\ StreamInv'
<1>0. /\ UNCHANGED <<suite, attempt, current, killed, streamVars, worker>>
      /\ place = "wait" /\ ReportOK /\ CurrentOK /\ ~Alive
      /\ suite \in Suites /\ suite.n \in Nat /\ suite.parses \in BOOLEAN
      /\ start \in 1..(suite.n + 1) /\ current \in Nat /\ attempt \in Nat /\ killed \in BOOLEAN
      /\ report \in Seq(Line) /\ Len(report) \in Nat
      /\ current # 0 \/ killed \/ worker.at = "crashed" \/ Complete
  BY Bounds DEF Reap, CompInv, ParentInv, StreamInv
<1>1. pipe' \in Seq(Line) /\ hand' \in Line \cup {NoLine} /\ closed' \in BOOLEAN
      /\ ClosedOK' /\ ~Alive'
  BY <1>0 DEF CompInv, StreamInv, ClosedOK, Alive, streamVars
<1>2. CASE current = 0
  <2>1. place' = "done" /\ start' = start
    BY <1>2 DEF Reap
  <2>2. report' \in Seq(Line) /\ CasesReported'
    <3>1. CASE killed \/ worker.at = "crashed"
      <4>1. PICK kind \in {"wedged", "failed"} : report' = Append(report, Terminal(kind))
        BY <1>2, <3>1 DEF Reap
      <4>2. kind \in Statuses
        BY DEF Statuses
      <4> QED
        BY <1>0, <4>1, <4>2, TerminalShown
    <3>2. CASE ~killed /\ worker.at # "crashed"
      <4>1. report' = report /\ Complete
        BY <1>0, <1>2, <3>2 DEF Reap
      <4>2. Len(report) = suite.n \/ (report # <<>> /\ report[Len(report)].index = 0)
        <5>1. CASE suite.parses
          BY <4>1, <5>1 DEF Complete
        <5>2. CASE ~suite.parses
          <6>1. Len(report) = 1 /\ IsSkip(report[1])
            BY <1>0, <4>1, <5>2 DEF Complete, ReportOK
          <6>2. report # <<>>
            BY <6>1
          <6> QED
            BY <6>1, <6>2 DEF IsSkip
        <5> QED
          BY <5>1, <5>2
      <4> QED
        BY <1>0, <4>1, <4>2, ReportShown DEF CasesReported, IsTerminal
    <3> QED
      BY <3>1, <3>2
  <2>3. ParentInv'
    BY <1>0, <2>1, <2>2 DEF ParentInv
  <2> QED
    BY <1>1, <2>1, <2>3 DEF StreamInv
<1>3. CASE current # 0
  <2>1. PICK status \in {"killed", "panic"} :
             report' = Append(report, ResultLine(current, status))
    BY <1>3 DEF Reap
  <2>2. place' = "launch" /\ start' = current + 1
    BY <1>3 DEF Reap, Resume
  <2>3. suite.parses /\ current = Len(report) + 1 /\ current <= suite.n
    BY <1>0, <1>3 DEF CurrentOK
  <2> DEFINE l == ResultLine(current, status)
  <2>4. status \in Statuses
    BY DEF Statuses
  <2>5. l \in Line /\ l.index = current
    BY <1>0, <2>4, LinesAre
  <2> HIDE DEF l
  <2>6. report' = Append(report, l) /\ Len(report) < suite.n /\ place' # "done"
    BY <1>0, <2>1, <2>2, <2>3 DEF l
  <2>7. report' \in Seq(Line) /\ ReportOK' /\ CasesReported' /\ Len(report') = Len(report) + 1
    BY <1>0, <2>3, <2>5, <2>6, ResultAdded
  <2>8. LaunchOK' /\ start' \in 1..(suite'.n + 1)
    BY <1>0, <2>2, <2>3, <2>7 DEF LaunchOK
  <2>9. ParentInv'
    BY <1>0, <2>2, <2>7, <2>8 DEF ParentInv
  <2> QED
    BY <1>1, <2>2, <2>9 DEF StreamInv
<1> QED
  BY <1>2, <1>3

-----------------------------------------------------------------------------
LEMMA InitStream ==
    ASSUME CompInit
    PROVE  ParentInv /\ StreamInv
<1>1. /\ suite \in Suites /\ suite.n \in Nat /\ suite.parses \in BOOLEAN
      /\ report = <<>> /\ report \in Seq(Line) /\ Len(report) = 0 /\ place = "launch"
  BY DEF CompInit
<1>2. ReportOK /\ LaunchOK /\ CasesReported
  BY <1>1 DEF CompInit, ReportOK, LaunchOK, CasesReported
<1>3. ParentInv
  <2>1. start \in 1..(suite.n + 1) /\ current \in Nat /\ attempt \in Nat /\ killed \in BOOLEAN
    <3>1. start = 1 /\ current = 0 /\ attempt = 0
      BY DEF CompInit
    <3>2. start \in 1..(suite.n + 1) /\ current \in Nat /\ attempt \in Nat
      BY <1>1, <3>1
    <3>3. killed \in BOOLEAN
      BY DEF CompInit
    <3> QED
      BY <3>2, <3>3
  <2> QED
    BY <1>1, <1>2, <2>1 DEF ParentInv
<1>4. ~Alive
  <2>1. worker.at = "exited"
    BY DEF CompInit, NoWorker, NewWorker
  <2> QED
    BY <2>1 DEF Alive
<1>5. pipe \in Seq(Line) /\ hand \in Line \cup {NoLine} /\ closed = FALSE
  BY DEF CompInit
<1> QED
  BY <1>1, <1>3, <1>4, <1>5 DEF StreamInv, ClosedOK

LEMMA CompStep ==
    ASSUME CompInv, [CompNext]_compVars
    PROVE  CompInv'
<1>1. SetupInv'
  BY SetupStep DEF CompInv
<1>2. ParentInv' /\ StreamInv'
  <2>1. CASE WorkerStep
    BY <2>1, WorkerStream
  <2>2. CASE Launch
    BY <2>2, LaunchStream
  <2>3. CASE Receive
    BY <2>3, TakenStream, EndedStream DEF Receive, streamVars
  <2>4. CASE Watchdog
    BY <2>4, WatchdogStream
  <2>5. CASE Drain
    BY <2>5, DrainStream
  <2>6. CASE Reap
    BY <2>6, ReapStream
  <2>7. CASE Scan
    BY <2>7, ScanStream
  <2>8. CASE Interrupt
    BY <2>8, KilledStream
  <2>9. CASE UNCHANGED compVars
    <3>1. ParentSame /\ UNCHANGED <<pipe, hand, closed, worker>>
      BY <2>9 DEF compVars, parentVars, streamVars, ParentSame
    <3>2. ParentInv'
      BY <3>1, ParentKept DEF CompInv
    <3> QED
      BY <3>1, <3>2
      DEF CompInv, StreamInv, ParentSame, ClosedOK, StreamOK, SkipOK, Alive, IsSkip, IsLine, Got,
          InHand, Written, Due, Complete
  <2> QED
    BY <2>1, <2>2, <2>3, <2>4, <2>5, <2>6, <2>7, <2>8, <2>9 DEF CompNext, ParentStep
<1> QED
  BY <1>1, <1>2 DEF CompInv

\* The report of a file lists its cases in order, each once, and stops early only
\* with a line that says so or when the attempts are used up; and every case runs
\* against the setup it builds on, in each of the workers that runFileIsolated
\* starts.  For any file, any pipe and any number of attempts, whatever the
\* workers do and whenever the watchdog fires.
THEOREM ReportIsExact == CompSpec => []ReportsExact
<1>1. CompInit => CompInv
  BY InitSetup, InitStream DEF CompInv
<1>2. CompInv /\ [CompNext]_compVars => CompInv'
  BY CompStep
<1>3. CompInv => ReportsExact
  BY SetupShown DEF CompInv, ParentInv, ReportsExact
<1> QED
  BY <1>1, <1>2, <1>3, PTL DEF CompSpec
=============================================================================
