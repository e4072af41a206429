------------------------------- MODULE Heights -------------------------------
(***************************************************************************)
(* The heights WellFormed asks for, found by following the code of a       *)
(* function from its first instruction.  An instruction that is reached in *)
(* several ways gets the height of one of them, and WellFormed then tells  *)
(* whether the others agree.  The program computes nothing of the kind.    *)
(***************************************************************************)
EXTENDS Bytecode

\* Where the call may be after the instruction at p, and at which height, if the
\* stack of the call has height h before it.
Onward(fn, p, h) ==
    IF p + 1 \in DOMAIN fn.code /\ IsOp(fn, p)
    THEN {<<q, h - Pops(fn, p) + Pushes(fn, p)>> : q \in Successors(fn, p)}
    ELSE {}

\* The offsets with their heights that at most n instructions lead to, and those
\* of them that fewer do not.
Start(fn) == {<<0, fn.arity + 1>>}
Round(fn, before) ==
    LET new == (UNION {Onward(fn, r[1], r[2]) : r \in before.last}) \ before.all
    IN  [all |-> before.all \cup new, last |-> new]
Rounds(fn) ==
    LET upto[n \in Nat] == IF n = 0 THEN [all |-> Start(fn), last |-> Start(fn)]
                           ELSE Round(fn, upto[n - 1])
    IN  upto

\* There are no more offsets than bytes.
Reached(fn) == Rounds(fn)[Len(fn.code)].all

HeightsOf(fn) ==
    LET reached == Reached(fn)
    IN  [p \in {r[1] : r \in reached} |-> (CHOOSE r \in reached : r[1] = p)[2]]

\* What the compiler makes, with the heights.
WithHeight(fn) ==
    [arity |-> fn.arity, main |-> fn.main, code |-> fn.code, lines |-> fn.lines,
     constants |-> fn.constants, height |-> HeightsOf(fn)]
Annotated(program) == [f \in DOMAIN program |-> WithHeight(program[f])]
=============================================================================
