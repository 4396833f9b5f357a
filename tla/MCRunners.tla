----------------------------- MODULE MCRunners -----------------------------
(***************************************************************************)
(* The two programs that run statement after statement and must come to an  *)
(* end: a script in the driver and a file in specctl run-compliance.  They  *)
(* share no state; a behavior is one of either.                             *)
(***************************************************************************)
EXTENDS Script, Compliance

VARIABLE program
runnerVars == <<program, vars, compVars>>

File(n, prepare, temp, skip, invalid, uses) ==
  [n |-> n, parses |-> TRUE, prepare |-> prepare, temp |-> temp, skip |-> skip,
   invalid |-> invalid, uses |-> uses]
MCSuites ==
  {File(3, {1, 2}, {2}, {}, {}, <<{}, {}, {1, 2}>>),
   File(3, {1, 2}, {}, {}, {}, <<{}, {1}, {2}>>),
   File(3, {1, 3}, {}, {1}, {}, <<{}, {1}, {}>>),
   File(3, {1}, {}, {}, {1}, <<{}, {}, {1}>>),
   File(4, {2}, {}, {}, {}, <<{}, {}, {2}, {2}>>),
   [File(0, {}, {}, {}, {}, <<>>) EXCEPT !.parses = FALSE]}

\* No file is under way.
CompIdle == /\ suite = File(0, {}, {}, {}, {}, <<>>)
            /\ place = "done" /\ attempt = 0 /\ start = 1 /\ current = 0 /\ killed = FALSE
            /\ report = <<>> /\ interrupted = FALSE
            /\ pipe = <<>> /\ hand = NoLine /\ closed = FALSE /\ worker = NoWorker

RunnersInit == Init /\ \/ program = "script" /\ CompIdle
                       \/ program = "compliance" /\ CompInit
ScriptStep == program = "script" /\ (Next \/ Disturb) /\ UNCHANGED compVars
FileStep   == program = "compliance" /\ CompNext /\ UNCHANGED vars
RunnersNext == (ScriptStep \/ FileStep) /\ UNCHANGED program

ScriptRuns(A) == program = "script" /\ A /\ UNCHANGED <<program, compVars>>
FileRuns(A)   == program = "compliance" /\ A /\ UNCHANGED <<program, vars>>
RunnersSpec == /\ RunnersInit /\ [][RunnersNext]_runnerVars
               /\ \A s \in Sessions : WF_runnerVars(ScriptRuns(Step(s)))
               /\ WF_runnerVars(FileRuns(ParentStep)) /\ WF_runnerVars(FileRuns(Scan))
=============================================================================
