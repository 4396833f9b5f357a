------------------------------- MODULE Windows -------------------------------
(***************************************************************************)
(* Window functions and MATCH_RECOGNIZE, which the analyzer rewrites to a    *)
(* window function of its own: matchRecognizeWindow buffers the partition    *)
(* like a RANGE frame and runs the program of RowPattern over it.           *)
(***************************************************************************)
EXTENDS WindowFrame, RowPattern

W == INSTANCE WindowResult
       WITH part <- [c |-> over, keys |-> input.keys, vals |-> input.vals]

Init == Partition(C!Clauses)

\* matchRecognizeWindow.Done: the first call runs the pattern over the whole
\* partition.  A pattern that does not compile fails the query.
ValueMatch ==
  /\ over.unit = "match"
  /\ Len(keys) = Len(input.keys) /\ Len(out) = cur /\ cur < Len(keys)
  /\ LET program == mrCompile(over.pattern)
     IN /\ program # NoProgram
        /\ inner' = IF inner # None THEN inner
                    ELSE compute(program, rows, over.longest, over.toNextRow)
  /\ out' = Append(out, inner'[cur + 1])
  /\ UNCHANGED <<over, input, keys, rows, cur, innerS, innerE>>

Finished == /\ \/ Len(out) = Len(input.keys) /\ cur = Len(out)
               \/ over.unit = "match" /\ mrCompile(over.pattern) = NoProgram
            /\ UNCHANGED vars

Next == FrameNext \/ ValueMatch \/ Finished
Spec == Init /\ [][Next]_vars

-----------------------------------------------------------------------------
\* The aggregators deliver what the window clause promises, row by row: the
\* incremental states, the binary search for RANGE bounds, the reuse of an
\* instance and the pattern program are not visible in the results.
Implements == W!Spec
=============================================================================
