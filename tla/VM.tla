--------------------------------- MODULE VM ---------------------------------
(***************************************************************************)
(* The virtual machine, src/src/vm.c: one stack of values shared by all    *)
(* calls, a stack of call frames that are windows on it, and the global    *)
(* variables.  vm_interpret may be called again and again, as the REPL     *)
(* does: the globals, the heap and the values left in the unused part of   *)
(* the stack survive from one script to the next.                          *)
(*                                                                         *)
(* One iteration of the loop of vm_run is one step: fetch, execute, and the*)
(* test for an error left on the top of the stack.                         *)
(***************************************************************************)
EXTENDS Bytecode

CONSTANTS
    Program,       \* the functions of every script that will be run
    Absent,        \* a global that is not declared
    VM_FRAMES_MAX,
    MaxSessions    \* bound on the calls of vm_interpret

ASSUME ProgramAssumption == WellFormed(Program)
ASSUME FramesAssumption == VM_FRAMES_MAX \in Nat /\ VM_FRAMES_MAX >= 1
ASSUME SessionsAssumption == MaxSessions \in Nat

\* Mutant: the stack has the size of one frame.
StackOfOneFrame == UINT8_MAX

VM_STACK_MAX == VM_FRAMES_MAX * UINT8_MAX

VARIABLES
    stack,         \* vm.stack; what is above stack_top is stale, not cleared
    stack_top,     \* vm.stack_top - vm.stack
    frames,        \* vm.frames: [function, ip, slots]
    frame_count,
    globals,       \* vm.globals, as the map Hashtable implements
    answer,        \* what the last call of the hash table returned
    heap,          \* the items of every array made so far
    pc,            \* "idle", "running" in vm_run, "undefined" after C undefined behaviour
    result,        \* what vm_interpret returned
    sessions,      \* how often vm_interpret was called
    pushed         \* history: the last value vm_push was given while the script ran

stack_vars == <<stack, stack_top>>
frame_vars == <<frames, frame_count>>
global_vars == <<globals, answer>>
vars == <<stack, stack_top, frames, frame_count, globals, answer, heap, pc, result,
          sessions, pushed>>

G == INSTANCE GlobalTable WITH Keys <- Strings, Values <- Value, table <- globals

Slots == 0 .. VM_STACK_MAX - 1
Scripts == {f \in DOMAIN Program : Program[f].main}

\* A call of fn that begins, with its window at slots.
Frame(fn, slots) == [function |-> fn, ip |-> 0, slots |-> slots]

\* The VM is a C global: zeroed memory, and type 0 is TYPE_CFUNC.
Zeroed == CFunction(0)
NoFunction == [arity |-> 0, main |-> TRUE, code |-> <<>>, constants |-> <<>>, height |-> <<>>]

Init ==
    /\ stack = [s \in Slots |-> Zeroed]
    /\ stack_top = 0
    /\ frames = [n \in 0 .. VM_FRAMES_MAX - 1 |-> Frame(NoFunction, 0)]
    /\ frame_count = 0
    /\ globals = [s \in Strings |->
                    IF s \in DOMAIN Builtins THEN [value |-> CFunction(s), read_only |-> FALSE]
                                             ELSE Absent]
    /\ answer = G!Answer("init", TRUE)
    /\ heap = <<>>
    /\ pc = "idle"
    /\ result = "OK"
    /\ sessions = 0
    /\ pushed = Zeroed
-----------------------------------------------------------------------------
(* vm_interpret *)

BeginInterpret == pc = "idle" /\ sessions < MaxSessions /\ sessions' = sessions + 1

\* The script compiles; vm_run starts on it.
Interpret(script) ==
    /\ BeginInterpret
    /\ stack' = [stack EXCEPT ![0] = Function(script)]
    /\ stack_top' = 1
    /\ frames' = [frames EXCEPT ![0] = Frame(Program[script], 0)]
    /\ frame_count' = 1
    /\ pushed' = Function(script)
    /\ pc' = "running"
    /\ UNCHANGED <<global_vars, heap, result>>

\* parser_compile returns NULL, after vm_reset_stack.
CompileError ==
    /\ BeginInterpret
    /\ stack_top' = 0 /\ frame_count' = 0
    /\ result' = "COMPILE_ERROR"
    /\ UNCHANGED <<stack, frames, global_vars, heap, pc, pushed>>
-----------------------------------------------------------------------------
(* vm_run *)

frame == frames[frame_count - 1]
fun == frame.function
ip == frame.ip

Peek(distance) == stack[stack_top - 1 - distance]

\* The values of the top n slots, from the bottom.
TopValues(n) == [k \in 1 .. n |-> stack[stack_top - n + k - 1]]

\* The next instruction is one of ops.
Fetch(ops) == pc = "running" /\ IsOp(fun, ip) /\ OpAt(fun, ip) \in ops

\* The instruction pointer after the instruction.
Goto(offset) == frames' = [frames EXCEPT ![frame_count - 1].ip = offset]
GoOn == Goto(NextOffset(fun, ip)) /\ UNCHANGED frame_count

\* Mutant: nobody looks for an error.
EndIterationUntested(new_stack, new_top) ==
    /\ stack' = new_stack
    /\ stack_top' = new_top
    /\ UNCHANGED <<pc, result>>

\* The end of an iteration: a write past the stack is undefined behaviour, and
\* an error on the top of the stack is reported, popped, and ends the script.
EndIteration(new_stack, new_top) ==
    /\ stack' = new_stack
    /\ \/ /\ new_top \notin 1 .. VM_STACK_MAX
          /\ stack_top' = new_top
          /\ pc' = "undefined"
          /\ UNCHANGED result
       \/ /\ new_top \in 1 .. VM_STACK_MAX
          /\ new_stack[new_top - 1].type = "ERROR"
          /\ stack_top' = new_top - 1
          /\ pc' = "idle"
          /\ result' = "RUNTIME_ERROR"
       \/ /\ new_top \in 1 .. VM_STACK_MAX
          /\ new_stack[new_top - 1].type # "ERROR"
          /\ stack_top' = new_top
          /\ UNCHANGED <<pc, result>>

\* Takes n values from the stack and pushes v.  What was popped stays in memory.
PopAndPush(n, v) ==
    \/ /\ v # Undefined
       /\ EndIteration([stack EXCEPT ![stack_top - n] = v], stack_top - n + 1)
       /\ pushed' = v
    \/ /\ v = Undefined
       /\ pc' = "undefined"
       /\ UNCHANGED <<stack_vars, result, pushed>>

PopOnly(n) == EndIteration(stack, stack_top - n) /\ UNCHANGED pushed

\* An instruction that works on the stack alone and goes on with the next.
Simple(n, v) ==
    /\ PopAndPush(n, v)
    /\ GoOn
    /\ UNCHANGED <<global_vars, heap, sessions>>
-----------------------------------------------------------------------------
(* The instructions. *)

\* Mutant: the result is pushed on what the call has left.
ReturnOnTop ==
    /\ Fetch({"RETURN"})
    /\ frame_count' = frame_count - 1
    /\ Goto(NextOffset(fun, ip))
    /\ \/ /\ frame_count = 1
          /\ pc' = "idle"
          /\ result' = "OK"
          /\ UNCHANGED <<stack_vars, pushed>>
       \/ /\ frame_count > 1
          /\ PopOnly(0)
    /\ UNCHANGED <<global_vars, heap, sessions>>

\* The call ends: its frame goes, and its result replaces the callee and the
\* arguments.  The return of the script itself ends vm_run, without the test
\* for an error.
Return ==
    /\ Fetch({"RETURN"})
    /\ frame_count' = frame_count - 1
    /\ Goto(NextOffset(fun, ip))
    /\ \/ /\ frame_count = 1
          /\ stack' = [stack EXCEPT ![frame.slots] = Peek(0)]
          /\ stack_top' = frame.slots + 1
          /\ pc' = "idle"
          /\ result' = "OK"
          /\ UNCHANGED pushed
       \/ /\ frame_count > 1
          /\ EndIteration([stack EXCEPT ![frame.slots] = Peek(0)], frame.slots + 1)
          /\ pushed' = Peek(0)
    /\ UNCHANGED <<global_vars, heap, sessions>>

Pop ==
    /\ Fetch({"POP"})
    /\ PopOnly(1)
    /\ GoOn
    /\ UNCHANGED <<global_vars, heap, sessions>>

JumpTaken ==
    \/ OpAt(fun, ip) = "JUMP_IF_TRUE" /\ Truthy(Peek(0))
    \/ OpAt(fun, ip) = "JUMP_IF_FALSE" /\ ~Truthy(Peek(0))

\* The condition stays on the stack.
Jump ==
    /\ Fetch({"JUMP", "JUMP_BACK"} \cup ConditionalJumps)
    /\ LET next == NextOffset(fun, ip)
           op == OpAt(fun, ip)
       IN  Goto(IF op = "JUMP_BACK" THEN next - Operand(fun, ip)
                ELSE IF op = "JUMP" \/ JumpTaken THEN next + Operand(fun, ip)
                ELSE next)
    /\ PopOnly(0)
    /\ UNCHANGED <<frame_count, global_vars, heap, sessions>>

Name == ConstantAt(fun, ip).as

\* vm_decl_global: the table is written whether the name is new or not.
DeclGlobal ==
    /\ Fetch(DeclGlobalOps)
    /\ G!Set(Name, Peek(0), OpAt(fun, ip) \in {"DECL_GLOBAL_CONST", "DECL_GLOBAL_CONST_16"})
    /\ \/ answer'[2] /\ PopOnly(1)
       \/ ~answer'[2] /\ PopAndPush(1, Error)
    /\ GoOn
    /\ UNCHANGED <<heap, sessions>>

\* vm_push_global_value
GetGlobal ==
    /\ Fetch(GetGlobalOps)
    /\ G!Get(Name)
    /\ \/ answer'[2] = Absent /\ PopAndPush(0, Error)
       \/ answer'[2] # Absent /\ PopAndPush(0, answer'[2])
    /\ GoOn
    /\ UNCHANGED <<heap, sessions>>

\* Mutant: the assignment declares the global again.
SetGlobalAnew ==
    /\ Fetch(SetGlobalOps)
    /\ G!Set(Name, Peek(0), FALSE)
    /\ PopOnly(0)
    /\ GoOn
    /\ UNCHANGED <<heap, sessions>>

\* vm_update_global_value: the value stays on the stack, an error is put above it.
SetGlobal ==
    /\ Fetch(SetGlobalOps)
    /\ G!Update(Name, Peek(0))
    /\ \/ answer'[2] = "SUCCESS" /\ PopOnly(0)
       \/ answer'[2] # "SUCCESS" /\ PopAndPush(0, Error)
    /\ GoOn
    /\ UNCHANGED <<heap, sessions>>

GetLocal ==
    /\ Fetch({"GET_LOCAL"})
    /\ Simple(0, stack[frame.slots + Operand(fun, ip)])

\* Mutant: the slot is counted from the bottom of the stack.
SetLocalFromTheBottom ==
    /\ Fetch({"SET_LOCAL"})
    /\ EndIteration([stack EXCEPT ![Operand(fun, ip)] = Peek(0)], stack_top)
    /\ GoOn
    /\ UNCHANGED <<global_vars, heap, sessions, pushed>>

SetLocal ==
    /\ Fetch({"SET_LOCAL"})
    /\ EndIteration([stack EXCEPT ![frame.slots + Operand(fun, ip)] = Peek(0)], stack_top)
    /\ GoOn
    /\ UNCHANGED <<global_vars, heap, sessions, pushed>>

Constant ==
    /\ Fetch(ConstantOps)
    /\ Simple(0, ConstantAt(fun, ip))

LiteralValue(op) ==
    IF op = "ZERO" THEN Number(0)
    ELSE IF op = "ONE" THEN Number(1)
    ELSE IF op = "NULL" THEN Null
    ELSE Bool(op = "TRUE")

Literal ==
    /\ Fetch(Literals)
    /\ Simple(0, LiteralValue(OpAt(fun, ip)))

UnaryValue(op, v) ==
    IF op = "NOT" THEN OpNot(v) ELSE IF op = "POSITIVE" THEN OpPositive(v) ELSE OpNegative(v)

Unary ==
    /\ Fetch(UnaryOps)
    /\ Simple(1, UnaryValue(OpAt(fun, ip), Peek(0)))

\* OP_LESS and OP_LESS_EQUAL are the two others with their operands swapped.
BinaryResults(op, b, a) ==
    CASE op = "ADD" -> OpAdd(b, a)
      [] op = "SUBTRACT" -> OpSubtract(b, a)
      [] op = "MULTIPLY" -> OpMultiply(b, a)
      [] op = "DIVIDE" -> OpDivide(b, a)
      [] op = "MODULO" -> OpModulo(b, a)
      [] op = "EQUAL" -> EqualResults(a, b)
      [] op = "NOT_EQUAL" -> {OpNot(v) : v \in EqualResults(a, b)}
      [] op = "GREATER" -> OpGreater(b, a)
      [] op = "GREATER_EQUAL" -> OpGreaterEqual(b, a)
      [] op = "LESS" -> OpGreater(a, b)
      [] op = "LESS_EQUAL" -> OpGreaterEqual(a, b)

Binary ==
    /\ Fetch(BinaryOps)
    /\ \E v \in BinaryResults(OpAt(fun, ip), Peek(0), Peek(1)) : Simple(2, v)

SubscriptGet ==
    /\ Fetch({"SUBSCRIPT_GET"})
    /\ \E v \in OpSubscriptGet(Peek(1), Peek(0), heap) : Simple(2, v)

SubscriptSet ==
    /\ Fetch({"SUBSCRIPT_SET"})
    /\ LET set == OpSubscriptSet(Peek(2), Peek(1), Peek(0), heap)
       IN  PopAndPush(3, set.value) /\ heap' = set.heap
    /\ GoOn
    /\ UNCHANGED <<global_vars, sessions>>

Argc == Operand(fun, ip)
Callee == Peek(Argc)

CallNative ==
    /\ Fetch({"CALL"})
    /\ Callee.type = "CFUNC"
    /\ \E r \in BuiltinResults(Builtins[Callee.as], TopValues(Argc), heap) :
          /\ PopAndPush(Argc + 1, r.value)
          /\ heap' = r.heap
    /\ GoOn
    /\ UNCHANGED <<global_vars, sessions>>

\* Mutants: the window begins at the first argument; there is no limit; the
\* caller does not go on behind the call.
CallFunctionWith(first, limit, offset) ==
    /\ Fetch({"CALL"})
    /\ Callee.type = "FUNCTION"
    /\ Program[Callee.as].arity = Argc
    /\ frame_count < limit
    /\ frames' = [frames EXCEPT ![frame_count - 1].ip = offset,
                                ![frame_count] = Frame(Program[Callee.as], first)]
    /\ frame_count' = frame_count + 1
    /\ PopOnly(0)
    /\ UNCHANGED <<global_vars, heap, sessions>>
CallFunctionAtArguments ==
    CallFunctionWith(stack_top - Argc, VM_FRAMES_MAX, NextOffset(fun, ip))
CallFunctionUnlimited ==
    CallFunctionWith(stack_top - (Argc + 1), VM_FRAMES_MAX + 1, NextOffset(fun, ip))
CallFunctionAgain ==
    CallFunctionWith(stack_top - (Argc + 1), VM_FRAMES_MAX, ip)

\* The callee and the arguments stay where they are and become the bottom of
\* the new call's window.
CallFunction ==
    /\ Fetch({"CALL"})
    /\ Callee.type = "FUNCTION"
    /\ Program[Callee.as].arity = Argc
    /\ frame_count < VM_FRAMES_MAX
    /\ frames' = [frames EXCEPT ![frame_count - 1].ip = NextOffset(fun, ip),
                                ![frame_count] = Frame(Program[Callee.as],
                                                       stack_top - (Argc + 1))]
    /\ frame_count' = frame_count + 1
    /\ PopOnly(0)
    /\ UNCHANGED <<global_vars, heap, sessions>>

\* A wrong number of arguments, no frame left, or something that is no function.
CallRefused ==
    /\ Fetch({"CALL"})
    /\ Callee.type # "CFUNC"
    /\ Callee.type = "FUNCTION" => \/ Program[Callee.as].arity # Argc
                                   \/ frame_count = VM_FRAMES_MAX
    /\ Simple(0, Error)

MakeArray ==
    /\ Fetch({"ARRAY"})
    /\ Len(heap) < MaxArrays
    /\ LET n == Operand(fun, ip)
           array == NewArray(heap, TopValues(n))
       IN  PopAndPush(n, array.value) /\ heap' = array.heap
    /\ GoOn
    /\ UNCHANGED <<global_vars, sessions>>

Step ==
    \/ Return \/ Pop \/ Jump
    \/ DeclGlobal \/ GetGlobal \/ SetGlobal \/ GetLocal \/ SetLocal
    \/ Constant \/ Literal \/ Unary \/ Binary
    \/ SubscriptGet \/ SubscriptSet
    \/ CallNative \/ CallFunction \/ CallRefused
    \/ MakeArray

Next ==
    \/ \E script \in Scripts : Interpret(script)
    \/ CompileError
    \/ Step

Spec == Init /\ [][Next]_vars

\* vm_run is a loop that nothing else runs beside.  Every instruction moves ip.
FairSpec == Spec /\ WF_frame_vars(Step)
-----------------------------------------------------------------------------
(* Properties. *)

TypeOK ==
    /\ stack \in [Slots -> Value] /\ stack_top \in Nat
    /\ DOMAIN frames = 0 .. VM_FRAMES_MAX - 1
    /\ \A n \in DOMAIN frames : frames[n].ip \in Nat /\ frames[n].slots \in Nat
    /\ frame_count \in 0 .. VM_FRAMES_MAX
    /\ DOMAIN globals = Strings
    /\ \A n \in Strings : globals[n] = Absent \/ globals[n] \in G!Bindings
    /\ heap \in Seq(Seq(Value)) /\ Len(heap) <= MaxArrays
    /\ pc \in {"idle", "running", "undefined"}
    /\ result \in {"OK", "COMPILE_ERROR", "RUNTIME_ERROR"}
    /\ sessions \in 0 .. MaxSessions
    /\ pushed \in Value

\* What the code of call n counts on finding in its window when it goes on.
HeightOf(n) == frames[n].function.height[frames[n].ip]

\* The windows of the calls lie on the stack as the compiler reckons without
\* ever looking: each begins where its caller put the function, the caller's
\* own values end there, and the last one ends at the top.  Locals are found by
\* their slot because of this, whatever branches, calls and returns came before.
WindowsMatch ==
    pc = "running" =>
        /\ frame_count >= 1 /\ frames[0].slots = 0
        /\ \A n \in 0 .. frame_count - 1 : frames[n].ip \in DOMAIN frames[n].function.height
        /\ \A n \in 0 .. frame_count - 2 : frames[n + 1].slots + 1 = frames[n].slots + HeightOf(n)
        /\ stack_top = frames[frame_count - 1].slots + HeightOf(frame_count - 1)

\* Slot 0 of every window holds the function that is called, to the end.
CalleeInSlotZero ==
    pc = "running" =>
        \A n \in 0 .. frame_count - 1 :
            \E f \in DOMAIN Program : /\ stack[frames[n].slots] = Function(f)
                                      /\ frames[n].function = Program[f]

\* A value the language can hand on.
Sound(v) ==
    /\ v.type # "ERROR"
    /\ v.type = "ARRAY" => v.as \in DOMAIN heap
    /\ v.type = "FUNCTION" => v.as \in DOMAIN Program

\* Errors are not values: the test after each instruction looks at the top of
\* the stack only, and still none is left below it, kept in a variable or put
\* in an array, from one script to the next.  Nor is any array or function used
\* that was not made.
ErrorsDoNotEscape ==
    /\ pc = "running" => \A s \in 0 .. stack_top - 1 : Sound(stack[s])
    /\ \A n \in Strings : globals[n] # Absent => Sound(globals[n].value)
    /\ \A a \in DOMAIN heap : \A i \in DOMAIN heap[a] : Sound(heap[a][i])

\* VM_STACK_MAX leaves UINT8_MAX slots to a frame.  If no call needs more, the
\* stack is never left; vm_push itself does not look.
StackFits ==
    FitsWindows(Program) /\ VM_FRAMES_MAX >= 2 => stack_top <= VM_STACK_MAX

\* A call leaves the values and the frames of its callers alone.
CallersUntouched ==
    [][ pc = "running" =>
            /\ \A s \in 0 .. frame.slots - 1 : stack'[s] = stack[s]
            /\ \A n \in 0 .. frame_count - 2 : frames'[n] = frames[n] ]_vars

IsConst(name) == globals[name] # Absent /\ globals[name].read_only

\* A constant changes only in a step that is reported as an error and ends the
\* script: its own redeclaration.
ConstantsKept ==
    [][ \A n \in Strings :
            IsConst(n) /\ globals'[n] # globals[n] => pc' = "idle" /\ result' = "RUNTIME_ERROR" ]_vars

\* hashtable.h says "The read_only mecanism prevents from updating a value once
\* it's inserted." The redeclaration of a constant reports an error after it
\* has put the new value in its place.
ReadOnlyNeverUpdated ==
    [][ \A n \in Strings : IsConst(n) => globals'[n] = globals[n] ]_vars

\* vm.h says of vm_last_value "Get last value pushed to the stack. Useful for
\* REPL.", and the REPL prints it when a script ends well.
LastValueIsLastPushed ==
    pc = "idle" /\ sessions > 0 /\ result = "OK" => stack[stack_top] = pushed

\* The next step calls this native function.
Calls(fn) == Fetch({"CALL"}) /\ Callee.type = "CFUNC" /\ Builtins[Callee.as] = fn
Refused == pc' = "idle" /\ result' = "RUNTIME_ERROR"

\* "push() expects an array" and "pop() expects an array": given something else
\* they return that error.
ArraysExpected ==
    [][ (Calls("push") \/ Calls("pop")) /\ Argc > 0 /\ Peek(Argc - 1).type # "ARRAY" => Refused ]_vars
=============================================================================
