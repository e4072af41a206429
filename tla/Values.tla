------------------------------- MODULE Values -------------------------------
(***************************************************************************)
(* Values of the language and the operators on them: value.c, object.c,    *)
(* value_array.c and op_code.c.                                            *)
(*                                                                         *)
(* A value is a type and a payload.  The kind of a TYPE_OBJECT is folded   *)
(* into the type.  The payload of a number is the number, of a boolean 0 or*)
(* 1, of a string its identity in the string pool (equal strings are the   *)
(* same object), of an array its place in the heap, of a function its place*)
(* in the program, of a C function its place in Builtins.                  *)
(*                                                                         *)
(* Data is abstracted: arithmetic may give any of Numbers, and building a  *)
(* string any of Strings.  An operator whose result is so abstracted       *)
(* returns the set of its possible results.  Undefined stands for a C      *)
(* undefined behaviour: the program may do anything from there on.         *)
(***************************************************************************)
EXTENDS Integers, Sequences

CONSTANTS
    Numbers,    \* the numbers arithmetic can produce
    Strings     \* the identities of interned strings

ASSUME NumbersAssumption == Numbers \subseteq Int /\ Numbers # {}
ASSUME StringsAssumption == Strings \subseteq Nat /\ Strings # {}

ObjectTypes == {"STRING", "FUNCTION", "ARRAY"}
Types == {"CFUNC", "NUMBER", "BOOL", "NULL", "ERROR"} \cup ObjectTypes
Value == [type : Types, as : Int]

Number(n) == [type |-> "NUMBER", as |-> n]
Bool(b) == [type |-> "BOOL", as |-> IF b THEN 1 ELSE 0]
Null == [type |-> "NULL", as |-> 0]
Error == [type |-> "ERROR", as |-> 0]
String(s) == [type |-> "STRING", as |-> s]
Function(f) == [type |-> "FUNCTION", as |-> f]
Array(a) == [type |-> "ARRAY", as |-> a]
CFunction(c) == [type |-> "CFUNC", as |-> c]

Undefined == [type |-> "UNDEFINED", as |-> 0]

SomeNumber == {Number(n) : n \in Numbers}
SomeString == {String(s) : s \in Strings}
EitherBool == {Bool(TRUE), Bool(FALSE)}

BothNumbers(a, b) == a.type = "NUMBER" /\ b.type = "NUMBER"
BothStrings(a, b) == a.type = "STRING" /\ b.type = "STRING"

\* value_truthy
Truthy(v) == v.type # "NULL" /\ v # Bool(FALSE)

\* value_equal.  Two C functions are never equal, not even to themselves.  Two
\* arrays that are not the same object are compared item by item; their
\* contents are not looked at here and both answers are possible.
EqualResults(a, b) ==
    IF a.type # b.type \/ a.type \in {"CFUNC", "ERROR"} THEN {Bool(FALSE)}
    ELSE IF a.type = "NULL" THEN {Bool(TRUE)}
    ELSE IF a.type = "ARRAY" /\ a # b THEN EitherBool
    ELSE {Bool(a.as = b.as)}
-----------------------------------------------------------------------------
(* Operators; as in op_code.c the right operand comes first. *)

OpNot(v) == Bool(~Truthy(v))

OpPositive(v) == IF v.type = "NUMBER" THEN v ELSE Error

OpNegative(v) == IF v.type = "NUMBER" THEN Number(-v.as) ELSE Error

OpAdd(b, a) ==
    IF BothNumbers(a, b) THEN SomeNumber
    ELSE IF BothStrings(a, b) THEN SomeString
    ELSE {Error}

OpSubtract(b, a) == IF BothNumbers(a, b) THEN SomeNumber ELSE {Error}

\* string_multiply takes a size_t: converting a negative double is undefined.
Repeat(n) == IF n.as < 0 THEN {Undefined} ELSE SomeString

OpMultiply(b, a) ==
    IF BothNumbers(a, b) THEN SomeNumber
    ELSE IF a.type = "STRING" /\ b.type = "NUMBER" THEN Repeat(b)
    ELSE IF a.type = "NUMBER" /\ b.type = "STRING" THEN Repeat(a)
    ELSE {Error}

OpDivide(b, a) ==
    IF BothNumbers(a, b) /\ b.as # 0 THEN SomeNumber ELSE {Error}

\* Unlike op_divide, op_modulo does not test its divisor.
OpModulo(b, a) ==
    IF ~BothNumbers(a, b) THEN {Error}
    ELSE IF b.as = 0 THEN {Undefined}
    ELSE SomeNumber

OpGreater(b, a) ==
    IF BothNumbers(a, b) THEN {Bool(a.as > b.as)}
    ELSE IF ~BothStrings(a, b) THEN {Error}
    ELSE IF a = b THEN {Bool(FALSE)}
    ELSE EitherBool

OpGreaterEqual(b, a) ==
    IF BothNumbers(a, b) THEN {Bool(a.as >= b.as)}
    ELSE IF ~BothStrings(a, b) THEN {Error}
    ELSE IF a = b THEN {Bool(TRUE)}
    ELSE EitherBool
-----------------------------------------------------------------------------
(* Arrays live in a heap: a sequence of sequences of values. *)

Items(heap, a) == heap[a.as]

\* Indices count from the end when they are negative.
InRange(i, n) == i >= -n /\ i < n
Place(i, n) == IF i < 0 THEN i + n + 1 ELSE i + 1

\* The length of a string is not kept, so an index may be in range or not.
OpSubscriptGet(collection, index, heap) ==
    IF collection.type = "STRING" /\ index.type = "NUMBER" THEN SomeString \cup {Error}
    ELSE IF collection.type = "ARRAY" /\ index.type = "NUMBER"
    THEN LET n == Len(Items(heap, collection))
         IN  IF InRange(index.as, n) THEN {Items(heap, collection)[Place(index.as, n)]}
             ELSE {Error}
    ELSE {Error}

CanSubscriptSet(collection, index, heap) ==
    /\ collection.type = "ARRAY" /\ index.type = "NUMBER"
    /\ InRange(index.as, Len(Items(heap, collection)))

\* The value of collection[index] = value, and the heap it leaves.
OpSubscriptSet(collection, index, value, heap) ==
    IF CanSubscriptSet(collection, index, heap)
    THEN [value |-> value,
          heap |-> LET n == Len(Items(heap, collection))
                   IN  [heap EXCEPT ![collection.as][Place(index.as, n)] = value]]
    ELSE [value |-> Error, heap |-> heap]
=============================================================================
