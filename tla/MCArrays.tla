------------------------------- MODULE MCArrays -------------------------------
(***************************************************************************)
(* A small instance of Arrays for TLC: all there is to do with a few       *)
(* arrays, and all walks over more arrays than the C stack has room for,   *)
(* nested and not circular.                                                *)
(***************************************************************************)
EXTENDS Arrays

CONSTANTS n, len    \* a number and a native function

MCScalars == {n, len}
MCNatives == {len}

\* Bounds on what is made array by array.
Few == Len(arrays) <= 3 /\ Cardinality(Cells) <= 4

\* [n], and in each of the others the one before.
Nested == [a \in Ids |-> [values |-> <<IF a = 1 THEN n ELSE a - 1>>, capacity |-> 1]]

\* What Make does, called once for each array.
Nest == Change /\ arrays = <<>> /\ arrays' = Nested

MCNext == Nest \/ (Next /\ (Few' \/ UNCHANGED arrays))

MCSpec == Init /\ [][MCNext]_vars /\ WF_vars(Walk)
=============================================================================
