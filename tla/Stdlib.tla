------------------------------- MODULE Stdlib -------------------------------
(***************************************************************************)
(* The native functions of src/src/stdlib: what a call may return and what *)
(* it does to the heap of arrays.  The files, the clock, the environment   *)
(* and the terminal are outside: their answers are any the C code allows.  *)
(***************************************************************************)
EXTENDS Values

CONSTANTS
    MaxArrays,   \* bound: no array is made when the heap has so many
    MaxItems     \* bound: no item is pushed on an array that has so many

ASSUME BoundsAssumption == MaxArrays \in Nat /\ MaxItems \in Nat

\* In the order vm_init registers them.
Builtins == << "assert", "clock", "input", "int", "ls", "cd", "getenv",
               "len", "pop", "print", "push", "str", "type" >>

\* A call that changes no array returns one of these values.
Returns(values, heap) == {[value |-> v, heap |-> heap] : v \in values}

NewArray(heap, items) == [value |-> Array(Len(heap) + 1), heap |-> Append(heap, items)]

AspicAssert(args, heap) ==
    Returns(IF Len(args) # 1 \/ ~Truthy(args[1]) THEN {Error} ELSE {Bool(TRUE)}, heap)

AspicClock(args, heap) ==
    Returns(IF Len(args) > 0 THEN {Error} ELSE SomeNumber, heap)

\* A literal that is not a number in its base gives an error.
ParsedInt(args) ==
    IF Len(args) = 2 /\ ~(args[2].type = "NUMBER" /\ args[2].as \in 2 .. 36)
    THEN {Error}
    ELSE SomeNumber \cup {Error}

AspicInt(args, heap) ==
    Returns(IF Len(args) \notin 1 .. 2 THEN {Error}
            ELSE IF args[1].type = "STRING" THEN ParsedInt(args)
            ELSE IF args[1].type \in {"NUMBER", "BOOL"} THEN {Number(args[1].as)}
            ELSE {Error}, heap)

StrResults(args) ==
    IF Len(args) # 1 \/ args[1].type = "ARRAY" THEN {Error}
    ELSE IF args[1].type = "STRING" THEN {args[1]}
    ELSE SomeString

AspicStr(args, heap) == Returns(StrResults(args), heap)

\* The prompt is what str() returns, taken to be a string without a look at its
\* type: the error str() makes of an array is read as one.
AspicInput(args, heap) ==
    Returns(IF Len(args) > 1 THEN {Error}
            ELSE IF Len(args) = 1 /\ Error \in StrResults(args) THEN {Undefined}
            ELSE SomeString \cup {Null}, heap)

AspicLen(args, heap) ==
    Returns(IF Len(args) # 1 THEN {Error}
            ELSE IF args[1].type = "STRING" THEN {n \in SomeNumber : n.as >= 0}
            ELSE IF args[1].type = "ARRAY" THEN {Number(Len(Items(heap, args[1])))}
            ELSE {Error}, heap)

\* pop() and push() join the two halves of their type test with && instead of
\* ||: no argument ever fails it, and what is not an array is used as one.
AspicPop(args, heap) ==
    IF Len(args) # 1 THEN Returns({Error}, heap)
    ELSE IF args[1].type # "ARRAY" THEN Returns({Undefined}, heap)
    ELSE LET items == Items(heap, args[1])
         IN  IF items = <<>> THEN Returns({Error}, heap)
             ELSE Returns({items[Len(items)]},
                          [heap EXCEPT ![args[1].as] = SubSeq(items, 1, Len(items) - 1)])

AspicPush(args, heap) ==
    IF Len(args) # 2 THEN Returns({Error}, heap)
    ELSE IF args[1].type # "ARRAY" THEN Returns({Undefined}, heap)
    ELSE IF Len(Items(heap, args[1])) >= MaxItems THEN {}
    ELSE Returns({args[1]}, [heap EXCEPT ![args[1].as] = Append(@, args[2])])

AspicPrint(args, heap) == Returns({Null}, heap)

\* type() builds an error when it is not given one argument, and drops it.
AspicType(args, heap) == Returns(SomeString, heap)

AspicOsLs(args, heap) ==
    IF Len(args) > 1 THEN Returns({Error}, heap)
    ELSE IF Len(args) = 1 /\ args[1].type # "STRING" THEN Returns({Undefined}, heap)
    ELSE Returns({Error}, heap)
         \cup IF Len(heap) >= MaxArrays THEN {}
              ELSE {NewArray(heap, <<>>)} \cup {NewArray(heap, <<s>>) : s \in SomeString}

AspicOsCd(args, heap) ==
    Returns(IF Len(args) # 1 \/ args[1].type # "STRING" THEN {Error} ELSE {Null, Error}, heap)

AspicOsGetenv(args, heap) ==
    Returns(IF Len(args) # 1 \/ args[1].type # "STRING" THEN {Error}
            ELSE SomeString \cup {Null}, heap)

\* What the native function fn may do with these arguments.
BuiltinResults(fn, args, heap) ==
    CASE fn = "assert" -> AspicAssert(args, heap)
      [] fn = "clock"  -> AspicClock(args, heap)
      [] fn = "input"  -> AspicInput(args, heap)
      [] fn = "int"    -> AspicInt(args, heap)
      [] fn = "ls"     -> AspicOsLs(args, heap)
      [] fn = "cd"     -> AspicOsCd(args, heap)
      [] fn = "getenv" -> AspicOsGetenv(args, heap)
      [] fn = "len"    -> AspicLen(args, heap)
      [] fn = "pop"    -> AspicPop(args, heap)
      [] fn = "print"  -> AspicPrint(args, heap)
      [] fn = "push"   -> AspicPush(args, heap)
      [] fn = "str"    -> AspicStr(args, heap)
      [] fn = "type"   -> AspicType(args, heap)
=============================================================================
