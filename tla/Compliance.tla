----------------------------- MODULE Compliance -----------------------------
(***************************************************************************)
(* specctl run-compliance on one file of the suite: runFileIsolated starts   *)
(* a worker process, reads a start marker and a result per case from its     *)
(* stdout and kills it when it stays silent; runWorker and fileRunner run    *)
(* the cases.  The parent goes on after a lost case in a fresh worker, which *)
(* first replays the setup cases.                                           *)
(*                                                                         *)
(* The worker may stop at any point, for good: it is given no fairness.      *)
(* The watchdog may fire at any time after the last line, as a worker that   *)
(* is only slow looks like one that hangs.  A line that a kill cuts off is   *)
(* no JSON and is dropped, as if it had not been written.                   *)
(***************************************************************************)
EXTENDS Integers, Sequences, FiniteSets

CONSTANTS Suites,       \* the files
          NoLine, NoConn,
          PipeLines,    \* lines that the worker's stdout pipe holds
          MaxAttempts   \* 500 in the code

(***************************************************************************)
(* A file has the cases 1..n, if it parses.  Of these, `prepare` set up the *)
(* database, `temp` with an object that lives for one script only; `skip`   *)
(* are skipped by the rules of the runner, and `invalid` are setup that the  *)
(* database ought to reject.  uses[c] are the earlier setup cases whose     *)
(* objects case c names; every setup case creates one.                      *)
(***************************************************************************)
ASSUME SuiteAssumption ==
  \A f \in Suites : /\ f.n \in Nat /\ f.parses \in BOOLEAN
                    /\ f.prepare \subseteq 1..f.n
                    /\ \A c \in 1..f.n : f.uses[c] \subseteq {p \in f.prepare : p < c}
                    /\ \A C \in SUBSET (1..f.n) : NoConn # C

\* A start marker, which has no status, or a result.
Statuses == {"", "pass", "fail", "error", "skip", "timeout",
             "panic", "killed", "notStarted", "wedged", "failed"}
Line == [start : Nat, index : Nat, status : Statuses]

ASSUME LineAssumption == NoLine \notin Line /\ PipeLines \in Nat /\ MaxAttempts \in Nat

VARIABLES
  suite,   \* the file
  place, attempt, start, current, killed, report, interrupted,   \* the parent
  pipe, hand, closed,    \* stdout, the reading goroutine and its channel
  worker                 \* the worker process and its fileRunner

parentVars == <<suite, place, attempt, start, current, killed, report, interrupted>>
streamVars == <<pipe, hand, closed>>
compVars == <<parentVars, streamVars, worker>>

StartLine(c)     == [start |-> c, index |-> 0, status |-> ""]
ResultLine(c, s) == [start |-> 0, index |-> c, status |-> s]

\* conn is what the connection's database holds; stmts, scoped and broken are
\* setup.stmts, setup.temp and setup.failed.  lost is a history variable: the
\* setup that timed out or that a reopened connection lacks.
NewWorker == [at |-> "open", case |-> 1, conn |-> {}, stmts |-> <<>>, scoped |-> {},
              broken |-> {}, lost |-> {}]
NoWorker  == [NewWorker EXCEPT !.at = "exited"]
Alive     == worker.at \in {"open", "loop", "run"}

CompInit ==
  /\ suite \in Suites
  /\ place = "launch" /\ attempt = 0 /\ start = 1 /\ current = 0 /\ killed = FALSE
  /\ report = <<>> /\ interrupted = FALSE
  /\ pipe = <<>> /\ hand = NoLine /\ closed = FALSE /\ worker = NoWorker

-----------------------------------------------------------------------------
(***************************************************************************)
(* The worker.                                                             *)
(***************************************************************************)
\* Encode: the write waits while the pipe is full.
WriteLine(line) == Len(pipe) < PipeLines /\ pipe' = Append(pipe, line)

\* LoadSuiteFile and fileRunner.open
WorkerOpen ==
  /\ worker.at = "open"
  /\ \/ ~suite.parses /\ WriteLine(ResultLine(0, "skip"))
        /\ worker' = [worker EXCEPT !.at = "exited"]
     \/ suite.parses /\ UNCHANGED pipe
        /\ worker' = [worker EXCEPT !.at = "loop"]
  /\ UNCHANGED <<parentVars, hand, closed>>

\* Mutant: the cases before start are passed over, setup included.
PassedOverAll(c) == c < start

\* Cases before start are passed over, except for setup.
PassedOver(c) == c < start /\ c \notin suite.prepare

WorkerNext ==
  /\ worker.at = "loop"
  /\ LET c == worker.case
     IN \/ c > suite.n /\ worker' = [worker EXCEPT !.at = "exited"] /\ UNCHANGED pipe
        \/ c <= suite.n /\ PassedOver(c)
           /\ worker' = [worker EXCEPT !.case = c + 1] /\ UNCHANGED pipe
        \/ c <= suite.n /\ ~PassedOver(c)
           /\ worker' = [worker EXCEPT !.at = "run"]
           /\ IF c < start THEN UNCHANGED pipe ELSE WriteLine(StartLine(c))
  /\ UNCHANGED <<parentVars, hand, closed>>

\* The result of case c; a replayed one is not written.
Reported(c, status, w) ==
  /\ worker' = [w EXCEPT !.at = "loop", !.case = c + 1]
  /\ IF c < start THEN UNCHANGED pipe ELSE WriteLine(ResultLine(c, status))
  /\ UNCHANGED <<parentVars, hand, closed>>

\* setup.failed
Broken(w, c) == IF c \in suite.prepare THEN [w EXCEPT !.broken = @ \union {c}] ELSE w

Skipped(c) == c \in suite.skip \/ suite.uses[c] \cap worker.broken # {}

RunSkip ==
  /\ worker.at = "run" /\ Skipped(worker.case)
  /\ Reported(worker.case, "skip", Broken(worker, worker.case))

\* exec without a connection panics, which it turns into an error at once.
Connected == worker.conn # NoConn

\* What a statement finds: the temp objects are prepended to every case.
Available == IF ~Connected THEN {} ELSE worker.conn \union worker.scoped

\* The statement fails: any may, and it must where it names an object that is
\* not there.  A query may be one that is meant to fail; it is skipped when the
\* error names setup that has failed, which it used under no name of its own.
RunError ==
  LET c == worker.case
      query == {"error", "pass"} \union IF worker.broken = {} THEN {} ELSE {"skip"}
  IN /\ worker.at = "run" /\ ~Skipped(c)
     /\ \E status \in IF c \in suite.invalid THEN {"pass"}
                      ELSE IF c \in suite.prepare THEN {"error"} ELSE query :
          Reported(c, status, Broken(worker, c))

\* An invalid setup statement that is accepted makes its object all the same.
Succeeded(w, c) ==
  CASE c \notin suite.prepare -> w
    [] c \in suite.prepare /\ c \in suite.invalid -> [w EXCEPT !.conn = @ \union {c}]
    [] c \in suite.prepare \ suite.invalid /\ c \in suite.temp ->
         [w EXCEPT !.scoped = @ \union {c}]
    [] OTHER -> [w EXCEPT !.stmts = Append(@, c), !.conn = @ \union {c}]

RunOk ==
  LET c == worker.case
  IN /\ worker.at = "run" /\ ~Skipped(c)
     /\ Connected /\ suite.uses[c] \subseteq Available
     /\ \E status \in IF c \in suite.invalid THEN {"fail"}
                      ELSE IF c \in suite.prepare THEN {"pass"} ELSE {"pass", "fail"} :
          Reported(c, status, Succeeded(worker, c))

\* What open may leave: a new in-memory database with the statements replayed
\* up to the one that fails, or no connection.
Reopened == {NoConn} \union
            {{worker.stmts[i] : i \in 1..j} : j \in 0..Len(worker.stmts)}

\* exec gives up on the statement, and the connection is replaced.
RunTimeout ==
  LET c == worker.case
  IN /\ worker.at = "run" /\ ~Skipped(c) /\ Connected
     /\ \E conn \in Reopened :
          Reported(c, "timeout",
            [worker EXCEPT
               !.conn = conn,
               !.lost = @ \union ({c} \cap suite.prepare)
                          \union IF conn = NoConn THEN worker.conn \union worker.scoped
                                 ELSE worker.conn \ conn])

\* The process dies, or is told to by a failed open or write.
WorkerCrash ==
  Alive /\ worker' = [worker EXCEPT !.at = "crashed"] /\ UNCHANGED <<parentVars, streamVars>>

-----------------------------------------------------------------------------
(***************************************************************************)
(* The parent.                                                             *)
(***************************************************************************)
Terminal(kind) == ResultLine(0, kind)

\* The head of the attempt loop.  Start fails for the system's reasons, and
\* when the context is done.
Launch ==
  /\ place = "launch"
  /\ \/ attempt = MaxAttempts /\ place' = "done"
        /\ UNCHANGED <<attempt, current, killed, report, streamVars, worker>>
     \/ attempt < MaxAttempts /\ place' = "done"
        /\ report' = Append(report, Terminal("notStarted"))
        /\ UNCHANGED <<attempt, current, killed, streamVars, worker>>
     \/ attempt < MaxAttempts /\ ~interrupted
        /\ place' = "read" /\ attempt' = attempt + 1 /\ current' = 0 /\ killed' = FALSE
        /\ worker' = NewWorker /\ pipe' = <<>> /\ hand' = NoLine /\ closed' = FALSE
        /\ UNCHANGED report
  /\ UNCHANGED <<suite, start, interrupted>>

\* The goroutine that scans stdout.  A line of 64 MiB or more would end it while
\* the worker lives, and leave Reap to wait for a worker that nobody kills: lines
\* are taken to be shorter.
Scan ==
  /\ place # "launch" /\ hand = NoLine /\ ~closed
  /\ \/ pipe # <<>> /\ hand' = Head(pipe) /\ pipe' = Tail(pipe) /\ UNCHANGED closed
     \/ pipe = <<>> /\ ~Alive /\ closed' = TRUE /\ UNCHANGED <<pipe, hand>>
  /\ UNCHANGED <<parentVars, worker>>

\* case l, ok := <-lines
Receive ==
  /\ place = "read"
  /\ \/ /\ hand # NoLine /\ hand' = NoLine
        /\ current' = hand.start
        /\ report' = IF hand.start = 0 THEN Append(report, hand) ELSE report
        /\ UNCHANGED place
     \/ closed /\ place' = "wait" /\ UNCHANGED <<current, report, hand>>
  /\ UNCHANGED <<suite, attempt, start, killed, interrupted, pipe, closed, worker>>

Killed(w) == IF Alive THEN [w EXCEPT !.at = "crashed"] ELSE w

\* Mutant: the watchdog stops reading without killing the worker.
WatchdogLetsLive ==
  /\ place = "read"
  /\ place' = "drain" /\ killed' = TRUE
  /\ UNCHANGED <<suite, attempt, start, current, report, interrupted, streamVars, worker>>

\* case <-watchdog.C
Watchdog ==
  /\ place = "read"
  /\ place' = "drain" /\ killed' = TRUE /\ worker' = Killed(worker)
  /\ UNCHANGED <<suite, attempt, start, current, report, interrupted, streamVars>>

\* for range lines {}
Drain ==
  /\ place = "drain"
  /\ \/ hand # NoLine /\ hand' = NoLine /\ UNCHANGED place
     \/ hand = NoLine /\ closed /\ place' = "wait" /\ UNCHANGED hand
  /\ UNCHANGED <<suite, attempt, start, current, killed, report, interrupted,
                 pipe, closed, worker>>

\* Mutant: the case that was lost is run again.
ResumeAt(c) == c

\* Where the next worker starts.
Resume(c) == c + 1

\* cmd.Wait and what follows it.
Reap ==
  /\ place = "wait"
  /\ IF current = 0
     THEN /\ place' = "done"
          /\ report' = IF killed THEN Append(report, Terminal("wedged"))
                       ELSE IF worker.at = "crashed" THEN Append(report, Terminal("failed"))
                       ELSE report
          /\ UNCHANGED start
     ELSE /\ place' = "launch" /\ start' = Resume(current)
          /\ report' = Append(report, ResultLine(current, IF killed THEN "killed" ELSE "panic"))
  /\ UNCHANGED <<suite, attempt, current, killed, interrupted, streamVars, worker>>

\* The context ends, and with it, at once or later, the worker.
Interrupt ==
  /\ place # "done"
  /\ \/ ~interrupted /\ interrupted' = TRUE /\ UNCHANGED worker
     \/ interrupted /\ Alive /\ worker' = Killed(worker) /\ UNCHANGED interrupted
  /\ UNCHANGED <<suite, place, attempt, start, current, killed, report, streamVars>>

-----------------------------------------------------------------------------
WorkerStep == \/ WorkerOpen \/ WorkerNext
              \/ RunSkip \/ RunError \/ RunOk \/ RunTimeout \/ WorkerCrash
ParentStep == Launch \/ Receive \/ Watchdog \/ Drain \/ Reap

CompNext == WorkerStep \/ ParentStep \/ Scan \/ Interrupt

\* The parent's goroutines and its timer run; nothing is asked of the worker.
CompSpec == CompInit /\ [][CompNext]_compVars /\ WF_compVars(ParentStep) /\ WF_compVars(Scan)

-----------------------------------------------------------------------------
\* A line that is about no case; "skip" stands for a file that does not parse.
IsTerminal(r) == r.index = 0 /\ r.status # "skip"

\* The report lists the cases of the file in order, each once, whatever workers
\* crash, hang or answer late, and stops before the last case only if a line at
\* its end says so or the attempts are used up (runFileIsolated).
CasesReported ==
  /\ \A i \in DOMAIN report : report[i].index \in {0, i}
  /\ \A i \in DOMAIN report : IsTerminal(report[i]) => i = Len(report)
  /\ place = "done" => \/ Len(report) = suite.n
                       \/ report # <<>> /\ report[Len(report)].index = 0
                       \/ attempt = MaxAttempts

\* A case finds the setup of every earlier setup case, also in a worker that
\* did not run it for the record, unless that is known to have failed or ran
\* into a timeout (runWorker: "so later cases see their tables").
SetupSeen ==
  /\ worker.at \in {"loop", "run"} =>
       \A p \in suite.prepare : p < worker.case =>
         p \in Available \union worker.broken \union worker.lost
  /\ worker.at = "run" /\ ~Skipped(worker.case) =>
       \A p \in suite.uses[worker.case] : p \in Available \union worker.lost

\* Property: the report of a file is complete and in order, and its cases ran
\* against the setup they build on.
ReportsExact == CasesReported /\ SetupSeen

\* Property: a file ends, even if its worker hangs or crashes time and again.
FileEnds == <>(place = "done")
=============================================================================
