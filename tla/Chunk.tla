-------------------------------- MODULE Chunk --------------------------------
(***************************************************************************)
(* The line numbers of a chunk, src/src/chunk.c.  A chunk keeps the source *)
(* line of every byte of its code by run-length encoding: "lines" is a     *)
(* sequence of runs, each a number of bytes and the line they come from.   *)
(* The C array holds the two numbers of a run one after the other.         *)
(***************************************************************************)
EXTENDS Integers, Sequences, FiniteSetsExt

Run(count, line) == [count |-> count, line |-> line]

\* chunk_write, for n bytes of one line: the last run grows or a new one begins.
WriteLines(lines, n, line) ==
    IF n = 0 THEN lines
    ELSE IF lines # <<>> /\ lines[Len(lines)].line = line
    THEN [lines EXCEPT ![Len(lines)].count = @ + n]
    ELSE Append(lines, Run(n, line))

\* chunk_get_line: the line of the first run that ends past the offset, or 0.
LineOf(lines, offset) ==
    LET End[r \in 0 .. Len(lines)] == IF r = 0 THEN 0 ELSE End[r - 1] + lines[r].count
        past == {r \in DOMAIN lines : End[r] > offset}
    IN  IF past = {} THEN 0 ELSE lines[Min(past)].line
=============================================================================
