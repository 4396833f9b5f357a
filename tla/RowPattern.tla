------------------------------ MODULE RowPattern ------------------------------
(***************************************************************************)
(* The row pattern engine of MATCH_RECOGNIZE (internal/match_recognize.go): *)
(* a pattern is compiled to a program of variable tests, splits and jumps,  *)
(* and run over a partition by a Pike VM, which keeps one thread for each   *)
(* program position, in order of preference.                               *)
(*                                                                         *)
(* A partition is a sequence of sets: the pattern variables whose predicate *)
(* holds in each row.  Row positions count from 0, program positions from 1.*)
(***************************************************************************)
EXTENDS Integers, Sequences, SequencesExt

CONSTANT MaxProgram     \* bound on the size of a program, mrMaxProgram

NoBound == -1           \* an absent quantifier bound
NoProgram == <<>>        \* no program: compilation failed

Inst(op, v) == [op |-> op, v |-> v, x |-> 0, y |-> 0]
Emit(c, op, v) == Append(c, Inst(op, v))

\* A split prefers x; the reluctant form prefers to leave the loop.
setSplit(c, at, body, exit, reluctant) ==
  [c EXCEPT ![at].x = IF reluctant THEN exit ELSE body,
            ![at].y = IF reluctant THEN body ELSE exit]

RECURSIVE Compile(_, _), CompileAlt(_, _), CompileTimes(_, _, _), CompileUpTo(_, _, _, _)

\* Counted repetition is unrolled.
CompileTimes(c, body, n) ==
  IF n = 0 THEN c ELSE CompileTimes(Compile(c, body), body, n - 1)

\* n optional copies, each of which may leave to the end of all.
CompileUpTo(c, body, n, reluctant) ==
  IF n = 0 THEN c
  ELSE LET split == Len(c) + 1
           rest  == CompileUpTo(Compile(Emit(c, "split", 0), body),
                                body, n - 1, reluctant)
       IN  setSplit(rest, split, split + 1, Len(rest) + 1, reluctant)

\* Alternatives in order of preference; all but the last jump to the end.
CompileAlt(c, cs) ==
  IF Len(cs) = 1 THEN Compile(c, cs[1])
  ELSE LET split == Len(c) + 1
           first == Compile(Emit(c, "split", 0), cs[1])
           jump  == Len(first) + 1
           rest  == CompileAlt(Emit(first, "jmp", 0), Tail(cs))
       IN  [rest EXCEPT ![split].x = split + 1, ![split].y = jump + 1,
                        ![jump].x = Len(rest) + 1]

Compile(c, p) ==
  CASE p.t = "v"     -> Emit(c, "var", p.v)
    [] p.t = "empty" -> c
    [] p.t \in {"start", "end"} -> Emit(c, p.t, 0)
    [] p.t = "cat"   -> FoldLeft(Compile, c, p.c)
    [] p.t = "alt"   -> CompileAlt(c, p.c)
    [] p.t = "q" /\ p.hi = NoBound ->
         LET head == CompileTimes(c, p.c[1], p.lo)
             loop == Len(head) + 1
             body == Compile(Emit(head, "split", 0), p.c[1])
             back == [Emit(body, "jmp", 0) EXCEPT ![Len(body) + 1].x = loop]
         IN  setSplit(back, loop, loop + 1, Len(back) + 1, p.r)
    [] p.t = "q" /\ p.hi # NoBound ->
         CompileUpTo(CompileTimes(c, p.c[1], p.lo), p.c[1], p.hi - p.lo, p.r)

\* A quantifier whose bounds are out of order or over the program's size is
\* refused, unless it stands in a body that is repeated no times: that one is
\* not compiled.  The bounds are numbers: boundValue refuses NULL and negative
\* ones before.
RECURSIVE BoundsAllowed(_)
BoundsAllowed(p) ==
  /\ p.t = "q" => /\ p.hi = NoBound \/ p.lo <= p.hi
                  /\ p.lo <= MaxProgram /\ p.hi <= MaxProgram
  /\ ~(p.t = "q" /\ p.hi = 0) => \A k \in DOMAIN p.c : BoundsAllowed(p.c[k])

mrCompile(p) ==
  IF ~BoundsAllowed(p) THEN NoProgram
  ELSE LET program == Emit(Compile(<<>>, p), "match", 0)
       IN  IF Len(program) > MaxProgram THEN NoProgram ELSE program

(***************************************************************************)
(* The VM.  A thread is a program position and the variables matched so     *)
(* far; add follows splits and jumps and drops a thread whose position was  *)
(* already visited at this row.                                            *)
(***************************************************************************)
RECURSIVE add(_, _, _, _, _)
\* t = [list, visited]; n is the number of rows.
add(program, n, t, th, pos) ==
  IF th.pc \in t.visited THEN t
  ELSE LET in   == program[th.pc]
           seen == [t EXCEPT !.visited = @ \cup {th.pc}]
           go(u, pc) == add(program, n, u, [th EXCEPT !.pc = pc], pos)
       IN  CASE in.op = "jmp"   -> go(seen, in.x)
             [] in.op = "split" -> go(go(seen, in.x), in.y)
             [] in.op = "start" -> IF pos = 0 THEN go(seen, th.pc + 1) ELSE seen
             [] in.op = "end"   -> IF pos = n THEN go(seen, th.pc + 1) ELSE seen
             [] OTHER           -> [seen EXCEPT !.list = Append(@, th)]

NoThreads == [list |-> <<>>, visited |-> {}]
NoMatch   == [found |-> FALSE, end |-> 0, path |-> <<>>]

\* One pass over the threads at row pos: a match ends the pass, unless the
\* longest match is wanted.
Pass(program, rows, longest, clist, pos, best) ==
  FoldLeft(LAMBDA a, th :
             LET in == program[th.pc]
             IN  CASE a.stop -> a
                   [] ~a.stop /\ in.op = "match" ->
                        IF longest /\ a.best.found /\ pos <= a.best.end THEN a
                        ELSE [a EXCEPT !.best = [found |-> TRUE, end |-> pos,
                                                 path |-> th.path],
                                       !.stop = ~longest]
                   [] ~a.stop /\ in.op = "var" ->
                        IF pos < Len(rows) /\ in.v \in rows[pos + 1]
                        THEN [a EXCEPT !.next =
                                add(program, Len(rows), @,
                                    [pc |-> th.pc + 1, path |-> Append(th.path, in.v)],
                                    pos + 1)]
                        ELSE a,
           [best |-> best, stop |-> FALSE, next |-> NoThreads], clist)

RECURSIVE runFrom(_, _, _, _, _, _)
runFrom(program, rows, longest, clist, pos, best) ==
  IF clist = <<>> THEN best
  ELSE LET a == Pass(program, rows, longest, clist, pos, best)
       IN  runFrom(program, rows, longest, a.next.list, pos + 1, a.best)

run(program, rows, longest, start) ==
  runFrom(program, rows, longest,
          add(program, Len(rows), NoThreads, [pc |-> 1, path |-> <<>>], start).list,
          start, NoMatch)

(***************************************************************************)
(* compute: matches are numbered from 1; an empty one is attached to its    *)
(* start row with row number 0 and no variable.  Each row gets the list of  *)
(* its memberships.                                                        *)
(***************************************************************************)
RECURSIVE computeFrom(_, _, _, _, _, _, _)
computeFrom(program, rows, longest, toNextRow, s, mn, results) ==
  IF s >= Len(rows) THEN results
  ELSE LET m == run(program, rows, longest, s)
           entered == [j \in DOMAIN results |->
             IF j - 1 \in s..(m.end - 1)
             THEN Append(results[j], [mn |-> mn + 1, mrn |-> j - s, v |-> m.path[j - s]])
             ELSE IF m.end = s /\ j - 1 = s
             THEN Append(results[j], [mn |-> mn + 1, mrn |-> 0, v |-> 0])
             ELSE results[j]]
       IN  IF ~m.found
           THEN computeFrom(program, rows, longest, toNextRow, s + 1, mn, results)
           ELSE computeFrom(program, rows, longest, toNextRow,
                            IF toNextRow \/ m.end = s THEN s + 1 ELSE m.end,
                            mn + 1, entered)

compute(program, rows, longest, toNextRow) ==
  computeFrom(program, rows, longest, toNextRow, 0, 0, [j \in DOMAIN rows |-> <<>>])
=============================================================================
