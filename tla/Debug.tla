-------------------------------- MODULE Debug --------------------------------
(***************************************************************************)
(* The listing of a function's code that debug builds print after they     *)
(* compiled it, src/src/debug.c.  It decodes the bytes on its own, beside  *)
(* vm_run.  What is printed of an instruction is its offset, its line, the *)
(* constant or the target of a jump; the texts are left out.               *)
(***************************************************************************)
EXTENDS Bytecode, Chunk

\* The instructions instruction_dump lists without an operand, with a byte,
\* with the index of a constant on one byte and on two, and with a jump.
ListedAlone ==
    {"RETURN", "POP", "ZERO", "ONE", "TRUE", "FALSE", "NULL", "NOT", "POSITIVE", "NEGATIVE",
     "ADD", "SUBTRACT", "MULTIPLY", "DIVIDE", "MODULO", "EQUAL", "NOT_EQUAL", "GREATER",
     "GREATER_EQUAL", "LESS", "LESS_EQUAL", "SUBSCRIPT_GET", "SUBSCRIPT_SET"}
ListedWithByte == {"GET_LOCAL", "SET_LOCAL", "CALL", "ARRAY"}
ListedWithConstant ==
    {"DECL_GLOBAL", "DECL_GLOBAL_CONST", "GET_GLOBAL", "SET_GLOBAL", "CONSTANT"}
ListedWithConstant16 ==
    {"DECL_GLOBAL_16", "DECL_GLOBAL_CONST_16", "GET_GLOBAL_16", "SET_GLOBAL_16", "CONSTANT_16"}
ListedJumps == {"JUMP", "JUMP_IF_TRUE", "JUMP_IF_FALSE", "JUMP_BACK"}

\* Mutant: an index on two bytes is passed over as if it had one.
ListedNextShort(fn, p) ==
    IF ~IsOp(fn, p) \/ OpAt(fn, p) \in ListedAlone THEN p + 1
    ELSE IF OpAt(fn, p) \in ListedWithByte \cup ListedWithConstant \cup ListedWithConstant16
    THEN p + 2 ELSE p + 3

\* Where instruction_dump goes on; an unknown code counts for one byte.
ListedNext(fn, p) ==
    IF ~IsOp(fn, p) \/ OpAt(fn, p) \in ListedAlone THEN p + 1
    ELSE IF OpAt(fn, p) \in ListedWithByte \cup ListedWithConstant THEN p + 2
    ELSE p + 3

ListedShort(fn, p) == Byte(fn, p + 1) * ByteSize + Byte(fn, p + 2)

\* The constant that is printed: its index in fn.constants.
ListedConstant(fn, p) ==
    IF OpAt(fn, p) \in ListedWithConstant16 THEN ListedShort(fn, p) + 1 ELSE Byte(fn, p + 1) + 1

\* The target printed for a jump.
ListedTarget(fn, p) ==
    LET sign == IF OpAt(fn, p) = "JUMP_BACK" THEN -1 ELSE 1
    IN  p + 3 + sign * ListedShort(fn, p)

\* The line number is printed unless the byte before has the same.
ShowsLine(fn, p) == ~(p > 0 /\ LineOf(fn.lines, p) = LineOf(fn.lines, p - 1))

\* One more instruction is listed, unless the end is reached.
ListedOn(fn, before) ==
    IF before.at >= Len(fn.code) THEN before
    ELSE [at |-> ListedNext(fn, before.at), listed |-> before.listed \cup {before.at}]

\* chunk_dump: the offsets that are listed, no more of them than there are bytes.
Listing(fn) ==
    LET upto[n \in Nat] == IF n = 0 THEN [at |-> 0, listed |-> {}] ELSE ListedOn(fn, upto[n - 1])
    IN  upto
Listed(fn) == Listing(fn)[Len(fn.code)].listed
=============================================================================
