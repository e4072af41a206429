------------------------------ MODULE Bytecode ------------------------------
(***************************************************************************)
(* Compiled programs: op_code.h, chunk.h and ObjectFunction.               *)
(*                                                                         *)
(* A function is a record [arity, main, code, constants, height]: code is  *)
(* the bytes of its chunk, offset p being code[p + 1], and main tells a    *)
(* script from a function.  A program is a sequence of functions.  The     *)
(* width of a byte is a parameter, so that a small model reaches the       *)
(* limits of the operands; the bytes of operation codes are not counted    *)
(* among them.                                                             *)
(*                                                                         *)
(* WellFormed says when bytecode keeps the stack of a call in order.  It   *)
(* needs height[p] for every offset p that can be reached: the number of   *)
(* stack slots the call uses when the instruction there starts, whatever   *)
(* way it was reached.  The compiler of parser.c never computes heights;   *)
(* that its output has them is what makes local variables stay where it    *)
(* thinks they are.                                                        *)
(***************************************************************************)
EXTENDS Stdlib

CONSTANT UINT8_MAX

ASSUME ByteAssumption == UINT8_MAX \in Nat \ {0}

\* One byte, and two.
ByteSize == UINT8_MAX + 1
UINT16_MAX == ByteSize * ByteSize - 1

\* In the order of enum OpCode.
OpCodes == << "RETURN", "POP",
              "JUMP", "JUMP_IF_TRUE", "JUMP_IF_FALSE", "JUMP_BACK",
              "DECL_GLOBAL", "DECL_GLOBAL_CONST", "GET_GLOBAL", "SET_GLOBAL",
              "DECL_GLOBAL_16", "DECL_GLOBAL_CONST_16", "GET_GLOBAL_16", "SET_GLOBAL_16",
              "GET_LOCAL", "SET_LOCAL",
              "CONSTANT", "CONSTANT_16",
              "ZERO", "ONE", "TRUE", "FALSE", "NULL",
              "NOT", "POSITIVE", "NEGATIVE",
              "ADD", "SUBTRACT", "MULTIPLY", "DIVIDE", "MODULO",
              "EQUAL", "NOT_EQUAL", "GREATER", "GREATER_EQUAL", "LESS", "LESS_EQUAL",
              "SUBSCRIPT_GET", "SUBSCRIPT_SET",
              "CALL", "ARRAY" >>

Literals == {"ZERO", "ONE", "TRUE", "FALSE", "NULL"}
UnaryOps == {"NOT", "POSITIVE", "NEGATIVE"}
BinaryOps == {"ADD", "SUBTRACT", "MULTIPLY", "DIVIDE", "MODULO", "EQUAL", "NOT_EQUAL",
              "GREATER", "GREATER_EQUAL", "LESS", "LESS_EQUAL"}
DeclGlobalOps == {"DECL_GLOBAL", "DECL_GLOBAL_CONST", "DECL_GLOBAL_16", "DECL_GLOBAL_CONST_16"}
GetGlobalOps == {"GET_GLOBAL", "GET_GLOBAL_16"}
SetGlobalOps == {"SET_GLOBAL", "SET_GLOBAL_16"}
GlobalOps == DeclGlobalOps \cup GetGlobalOps \cup SetGlobalOps
ConstantOps == {"CONSTANT", "CONSTANT_16"}
ConditionalJumps == {"JUMP_IF_TRUE", "JUMP_IF_FALSE"}

ByteOperand == {"DECL_GLOBAL", "DECL_GLOBAL_CONST", "GET_GLOBAL", "SET_GLOBAL",
                "GET_LOCAL", "SET_LOCAL", "CONSTANT", "CALL", "ARRAY"}
ShortOperand == {"JUMP", "JUMP_IF_TRUE", "JUMP_IF_FALSE", "JUMP_BACK",
                 "DECL_GLOBAL_16", "DECL_GLOBAL_CONST_16", "GET_GLOBAL_16", "SET_GLOBAL_16",
                 "CONSTANT_16"}

Byte(fn, p) == fn.code[p + 1]

\* The byte at p of fn is an operation code.
IsOp(fn, p) == Byte(fn, p) + 1 \in DOMAIN OpCodes
OpAt(fn, p) == OpCodes[Byte(fn, p) + 1]

\* vm_read_byte and vm_read_16 after the operation code; the high byte is first.
Operand(fn, p) ==
    IF OpAt(fn, p) \in ShortOperand THEN Byte(fn, p + 1) * ByteSize + Byte(fn, p + 2)
                                   ELSE Byte(fn, p + 1)

\* The offset of the instruction that follows the one at p.
NextOffset(fn, p) ==
    IF OpAt(fn, p) \in ShortOperand THEN p + 3
    ELSE IF OpAt(fn, p) \in ByteOperand THEN p + 2
    ELSE p + 1

ConstantAt(fn, p) == fn.constants[Operand(fn, p) + 1]
-----------------------------------------------------------------------------
\* Values taken from and put on the stack by the instruction at p, jumps aside.
\* A call takes the callee and its arguments.
Pops(fn, p) ==
    LET op == OpAt(fn, p)
    IN  IF op \in DeclGlobalOps \cup UnaryOps \cup {"POP", "RETURN"} THEN 1
        ELSE IF op \in SetGlobalOps \cup ConditionalJumps \cup {"SET_LOCAL"} THEN 1
        ELSE IF op \in BinaryOps \cup {"SUBSCRIPT_GET"} THEN 2
        ELSE IF op = "SUBSCRIPT_SET" THEN 3
        ELSE IF op = "CALL" THEN Operand(fn, p) + 1
        ELSE IF op = "ARRAY" THEN Operand(fn, p)
        ELSE 0

Pushes(fn, p) ==
    IF OpAt(fn, p) \in DeclGlobalOps \cup {"POP", "JUMP", "JUMP_BACK"} THEN 0 ELSE 1

Successors(fn, p) ==
    LET op == OpAt(fn, p)
        next == NextOffset(fn, p)
    IN  IF op = "RETURN" THEN {}
        ELSE IF op = "JUMP" THEN {next + Operand(fn, p)}
        ELSE IF op = "JUMP_BACK" THEN {next - Operand(fn, p)}
        ELSE IF op \in ConditionalJumps THEN {next, next + Operand(fn, p)}
        ELSE {next}

\* The operand of the instruction at p names something that exists: a string
\* for a global, a constant, a local below the values the instruction uses.
OperandFits(fn, p) ==
    LET op == OpAt(fn, p)
    IN  /\ op \in GlobalOps \cup ConstantOps => Operand(fn, p) + 1 \in DOMAIN fn.constants
        /\ op \in GlobalOps => ConstantAt(fn, p).type = "STRING"
        /\ op \in {"GET_LOCAL", "SET_LOCAL"} =>
              Operand(fn, p) \in 1 .. fn.height[p] - Pops(fn, p) - 1

\* Slot 0 of a call holds the function, and only RETURN may take it: a script
\* ends with nothing else left on the stack.
WellFormedAt(fn, p) ==
    /\ IsOp(fn, p)
    /\ OpAt(fn, p) \in ByteOperand \cup ShortOperand => Operand(fn, p) \in Nat
    /\ OperandFits(fn, p)
    /\ OpAt(fn, p) # "RETURN" => fn.height[p] - Pops(fn, p) >= 1
    /\ OpAt(fn, p) = "RETURN" /\ fn.main => fn.height[p] = 1
    /\ \A q \in Successors(fn, p) :
          /\ q \in DOMAIN fn.height
          /\ fn.height[q] = fn.height[p] - Pops(fn, p) + Pushes(fn, p)

WellFormedConstant(v, program) ==
    /\ v \in Value /\ v.type \in {"NUMBER", "STRING", "FUNCTION"}
    /\ v.type = "STRING" => v.as \in Strings
    /\ v.type = "FUNCTION" => v.as \in DOMAIN program /\ ~program[v.as].main

WellFormedFunction(fn, program) ==
    /\ fn.arity \in Nat
    /\ \A c \in DOMAIN fn.constants : WellFormedConstant(fn.constants[c], program)
    /\ DOMAIN fn.height \subseteq Nat
    /\ \A p \in DOMAIN fn.height : fn.height[p] \in Nat \ {0} /\ WellFormedAt(fn, p)
    /\ fn.main => fn.arity = 0
    /\ 0 \in DOMAIN fn.height
    /\ fn.height[0] = fn.arity + 1

WellFormed(program) ==
    /\ DOMAIN program \subseteq Nat
    /\ \A f \in DOMAIN program : WellFormedFunction(program[f], program)

\* No call uses more than its share of the stack of values.
FitsWindows(program) ==
    \A f \in DOMAIN program : \A p \in DOMAIN program[f].height : program[f].height[p] <= UINT8_MAX
=============================================================================
