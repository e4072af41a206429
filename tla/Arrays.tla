-------------------------------- MODULE Arrays --------------------------------
(***************************************************************************)
(* Arrays, src/src/value_array.c, and the two walks over them:             *)
(* value_equal (src/src/value.c), which compares item by item, and         *)
(* value_print, which tracks the arrays it has met so as not to print a    *)
(* circular one forever.                                                   *)
(*                                                                         *)
(* An array is an object of its own and never freed while the program runs:*)
(* it is known by its number, and may hold itself.  A step of a walk is the*)
(* treatment of one item.  The calls a walk is made of are on a stack, as  *)
(* they are in C, and the C stack is finite.                               *)
(***************************************************************************)
EXTENDS Integers, Sequences, FiniteSets

CONSTANTS
    Scalars,        \* the values that are not arrays
    Natives,        \* those of them that are native functions
    MinCapacity,    \* the least capacity value_array_push allocates
    PRINT_MAX_COLLECTIONS,
    MaxDepth,       \* how many calls of a walk the C stack holds
    MaxArrays,      \* bound on the arrays
    MaxCount,       \* bound on the items of an array
    MaxItems        \* bound on the items of all arrays

Ids == 1 .. MaxArrays

ASSUME ScalarsAssumption == Scalars \cap Ids = {} /\ Natives \subseteq Scalars
ASSUME CapacityAssumption == MinCapacity \in Nat /\ MinCapacity >= 1
ASSUME BoundsAssumption == MaxArrays \in Nat /\ MaxCount \in Nat /\ MaxItems \in Nat
\* The C stack holds as many calls as value_print can be in, which the code bounds.
ASSUME DepthAssumption ==
    /\ MaxDepth \in Nat \ {0} /\ PRINT_MAX_COLLECTIONS \in Nat
    /\ PRINT_MAX_COLLECTIONS <= MaxDepth

VARIABLES
    arrays,     \* the arrays made so far: [values, capacity]
    work,       \* "idle", in a walk "equal" or "print", "done" when it is over,
                \* or "crashed" when the C stack ran out
    roots,      \* what the last walk was asked to compare or to print
    stack,      \* the calls of the walk: [left, right, next] or [array, next]
    answer,     \* what value_equal answered
    objects     \* the arrays value_print tracks, in the order it met them

walk_vars == <<roots, stack, answer, objects>>
vars == <<arrays, work, walk_vars>>

Values == Scalars \cup DOMAIN arrays
Items(a) == arrays[a].values
Count(a) == Len(Items(a))

Init ==
    /\ arrays = <<>>
    /\ work = "idle"
    /\ roots = <<>> /\ stack = <<>>
    /\ answer = "none"
    /\ objects = <<>>
-----------------------------------------------------------------------------
(* The operations on an array.                                             *)

Cells == UNION {{a} \X DOMAIN Items(a) : a \in DOMAIN arrays}
Room(n) == Cardinality(Cells) + n <= MaxItems

Change == work = "idle" /\ UNCHANGED <<work, walk_vars>>

\* make_array: the values are copied into an array that has just their size.
Make ==
    /\ Change
    /\ Len(arrays) < MaxArrays
    /\ \E n \in 0 .. MaxCount : \E values \in [1 .. n -> Values] :
          Room(n) /\ arrays' = Append(arrays, [values |-> values, capacity |-> n])

\* Mutant: the array has grown when it holds more than its capacity.
GrownLate(a) ==
    IF arrays[a].capacity < Count(a)
    THEN IF arrays[a].capacity < MinCapacity THEN MinCapacity ELSE arrays[a].capacity * 2
    ELSE arrays[a].capacity

\* The capacity that one more value needs.
Grown(a) ==
    IF arrays[a].capacity < Count(a) + 1
    THEN IF arrays[a].capacity < MinCapacity THEN MinCapacity ELSE arrays[a].capacity * 2
    ELSE arrays[a].capacity

\* value_array_push
Push(a, value) ==
    /\ Change
    /\ Room(1) /\ Count(a) < MaxCount
    /\ arrays' = [arrays EXCEPT ![a] = [values |-> Append(Items(a), value),
                                        capacity |-> Grown(a)]]

\* value_array_pop; on an empty array it only makes an error.
Pop(a) ==
    /\ Change
    /\ Count(a) > 0
    /\ arrays' = [arrays EXCEPT ![a].values = SubSeq(Items(a), 1, Count(a) - 1)]

\* op_subscript_set; negative indices count from the end, and others out of
\* range only make an error.
Set(a, index, value) ==
    /\ Change
    /\ index >= -Count(a) /\ index < Count(a)
    /\ arrays' = [arrays EXCEPT
                    ![a].values[IF index < 0 THEN index + Count(a) + 1 ELSE index + 1] = value]
-----------------------------------------------------------------------------
(* A call of value_equal or value_rprinter on one value.                   *)

\* A call is made by the last one of calls.
Call(calls, call, kind) ==
    \/ /\ Len(calls) < MaxDepth
       /\ stack' = Append(calls, call)
       /\ work' = kind
    \/ /\ Len(calls) = MaxDepth
       /\ stack' = calls
       /\ work' = "crashed"

\* A call is over, and the last one of calls goes on, if there is one.
Return(calls) ==
    /\ stack' = calls
    /\ work' = IF calls = <<>> THEN "done" ELSE work

\* Mutant: there is no test for the same object.
SameScalar(v, w) == v = w /\ v \in Scalars \ Natives

\* One object, or two equal scalars.  Native functions have no case in value_equal.
Same(v, w) == v = w /\ v \notin Natives

Different(v, w) ==
    /\ ~Same(v, w)
    /\ (v \in DOMAIN arrays /\ w \in DOMAIN arrays) => Count(v) # Count(w)

EndEqual(calls) == Return(calls) /\ answer' = IF calls = <<>> THEN "true" ELSE "none"

\* value_equal; a difference ends all the calls.
Equal(v, w, calls) ==
    /\ UNCHANGED arrays
    /\ \/ Same(v, w) /\ EndEqual(calls)
       \/ Different(v, w) /\ Return(<<>>) /\ answer' = "false"
       \/ /\ ~Same(v, w) /\ ~Different(v, w)
          /\ Call(calls, [left |-> v, right |-> w, next |-> 1], "equal")
          /\ answer' = "none"

\* Mutant: the search ends too early.
TrackedBefore(v, tracked) == \E k \in 1 .. Len(tracked) - 1 : tracked[k] = v

Tracked(v, tracked) == \E k \in DOMAIN tracked : tracked[k] = v

\* Mutant: what is printed is not tracked.
PrintUntracked(v, calls, tracked) ==
    /\ UNCHANGED arrays
    /\ answer' = "none"
    /\ objects' = tracked
    /\ \/ v \in Scalars /\ Return(calls)
       \/ v \notin Scalars /\ Call(calls, [array |-> v, next |-> 1], "print")

\* value_rprinter: an array that is tracked, or cannot be, is only [...].
PrintValue(v, calls, tracked) ==
    /\ UNCHANGED arrays
    /\ answer' = "none"
    /\ \/ /\ v \in Scalars \/ Tracked(v, tracked) \/ Len(tracked) = PRINT_MAX_COLLECTIONS
          /\ Return(calls)
          /\ objects' = tracked
       \/ /\ v \notin Scalars /\ ~Tracked(v, tracked) /\ Len(tracked) < PRINT_MAX_COLLECTIONS
          /\ objects' = Append(tracked, v)
          /\ Call(calls, [array |-> v, next |-> 1], "print")
-----------------------------------------------------------------------------
(* The walks.                                                              *)

BeginEqual(a, b) ==
    /\ work = "idle"
    /\ roots' = <<a, b>>
    /\ Equal(a, b, <<>>)
    /\ UNCHANGED objects

BeginPrint(a) ==
    /\ work = "idle"
    /\ roots' = <<a>>
    /\ PrintValue(a, <<>>, <<>>)

call == stack[Len(stack)]
Callers == SubSeq(stack, 1, Len(stack) - 1)

\* The call on the top of the stack, when it has treated one more item.
GoneOn == Append(Callers, [call EXCEPT !.next = @ + 1])

\* Mutant: the loop does not count.
EqualItemAgain ==
    /\ work = "equal"
    /\ call.next <= Count(call.left)
    /\ Equal(Items(call.left)[call.next], Items(call.right)[call.next], stack)
    /\ UNCHANGED <<roots, objects>>

EqualItem ==
    /\ work = "equal"
    /\ call.next <= Count(call.left)
    /\ Equal(Items(call.left)[call.next], Items(call.right)[call.next], GoneOn)
    /\ UNCHANGED <<roots, objects>>

EqualReturn ==
    /\ work = "equal"
    /\ call.next > Count(call.left)
    /\ EndEqual(Callers)
    /\ UNCHANGED <<arrays, roots, objects>>

PrintItem ==
    /\ work = "print"
    /\ call.next <= Count(call.array)
    /\ PrintValue(Items(call.array)[call.next], GoneOn, objects)
    /\ UNCHANGED roots

PrintReturn ==
    /\ work = "print"
    /\ call.next > Count(call.array)
    /\ Return(Callers)
    /\ UNCHANGED <<arrays, roots, answer, objects>>

\* The program goes on with the answer.
GoOn ==
    /\ work = "done" /\ work' = "idle"
    /\ roots' = <<>> /\ answer' = "none" /\ objects' = <<>>
    /\ UNCHANGED <<arrays, stack>>

Walk == EqualItem \/ EqualReturn \/ PrintItem \/ PrintReturn

Next ==
    \/ Make
    \/ \E a \in DOMAIN arrays :
          \/ \E v \in Values : Push(a, v) \/ \E i \in -MaxCount .. MaxCount : Set(a, i, v)
          \/ Pop(a)
          \/ \E b \in DOMAIN arrays : BeginEqual(a, b)
          \/ BeginPrint(a)
    \/ Walk
    \/ GoOn

\* Nothing else runs while a walk does.
Spec == Init /\ [][Next]_vars /\ WF_vars(Walk)
-----------------------------------------------------------------------------
(* Properties.                                                             *)

ValueArray == [values : Seq(Values), capacity : Nat]
EqualCall == [left : DOMAIN arrays, right : DOMAIN arrays, next : 1 .. MaxCount + 1]
PrintCall == [array : DOMAIN arrays, next : 1 .. MaxCount + 1]

\* No array holds more values than there is memory for, and no walk goes past
\* the end of one.
TypeOK ==
    /\ arrays \in Seq(ValueArray) /\ Len(arrays) <= MaxArrays
    /\ \A a \in DOMAIN arrays : Count(a) <= MaxCount /\ Count(a) <= arrays[a].capacity
    /\ work \in {"idle", "equal", "print", "done", "crashed"}
    /\ roots \in Seq(DOMAIN arrays)
    /\ Len(stack) <= MaxDepth
    /\ work \in {"equal", "crashed"} => stack \in Seq(EqualCall)
    /\ work = "print" => stack \in Seq(PrintCall)
    /\ work = "equal" => \A k \in DOMAIN stack :
          /\ Count(stack[k].left) = Count(stack[k].right)
          /\ stack[k].next <= Count(stack[k].left) + 1
    /\ work = "print" => \A k \in DOMAIN stack : stack[k].next <= Count(stack[k].array) + 1
    /\ work \in {"idle", "done"} <=> stack = <<>>
    /\ answer \in {"true", "false", "none"}
    /\ objects \in Seq(DOMAIN arrays)

Pairs == {pair \in (DOMAIN arrays) \X (DOMAIN arrays) : pair[1] # pair[2]}

\* Values nobody can tell apart, if the arrays that alike pairs are so.
Alike(v, w, alike) == (v = w /\ v \notin Natives) \/ <<v, w>> \in alike

\* Nothing that is in two arrays that alike pairs tells them apart.
Bisimulation(alike) ==
    \A a, b \in DOMAIN arrays : <<a, b>> \in alike =>
        /\ Count(a) = Count(b)
        /\ \A i \in 1 .. Count(a) : Alike(Items(a)[i], Items(b)[i], alike)

\* When value_equal answers, it is right: two arrays are equal if and only if
\* there is a way to take them, and what they hold, for alike in which nothing
\* differs.  Sharing, circular arrays and the shortcut for the same object do
\* not change the answer; but for a native function, which is equal to nothing
\* while an array that holds it is equal to itself.
EqualIsBisimilar ==
    answer # "none" =>
        ((answer = "true") <=>
             \E alike \in SUBSET Pairs :
                 Bisimulation(alike) /\ Alike(roots[1], roots[2], alike))

Holds(a, b) == \E i \in DOMAIN Items(a) : Items(a)[i] = b

\* From a, one can go on forever from an array to one that it holds.
Circular(a) ==
    \E endless \in SUBSET DOMAIN arrays :
        a \in endless /\ \A b \in endless : \E c \in endless : Holds(b, c)

\* From a, the arrays that hold each other, one more than there is room for calls.
WaysDown(a) ==
    {way \in [1 .. MaxDepth + 1 -> DOMAIN arrays] :
        way[1] = a /\ \A k \in 1 .. MaxDepth : Holds(way[k], way[k + 1])}

\* At one place of a and b are c and d.
HoldBoth(a, b, c, d) ==
    \E i \in DOMAIN Items(a) \cap DOMAIN Items(b) : Items(a)[i] = c /\ Items(b)[i] = d

\* Going down from a and from b, by the same places, one never meets the same
\* array on both sides for as many steps as the C stack has room for calls.
DeepTogether(a, b) ==
    \E left \in WaysDown(a), right \in WaysDown(b) :
        /\ \A k \in 1 .. MaxDepth + 1 : left[k] # right[k]
        /\ \A k \in 1 .. MaxDepth : HoldBoth(left[k], right[k], left[k + 1], right[k + 1])

\* The C stack runs out only in a comparison, value_equal remembering nothing of
\* where it was, and only if both arrays are nested, alike, deeper than it has
\* room for calls.  Only circular ones are, unless there are more arrays than that.
OverflowsOnlyOnDeep ==
    work = "crashed" =>
        /\ Len(roots) = 2 /\ DeepTogether(roots[1], roots[2])
        /\ Len(arrays) <= MaxDepth => Circular(roots[1]) /\ Circular(roots[2])

\* S has all that its arrays hold.
Closed(S) == \A b \in S : \A c \in DOMAIN arrays : Holds(b, c) => c \in S

\* The array a, what it holds, what that holds, and so on.
Reach(a) == {b \in DOMAIN arrays : \A S \in SUBSET DOMAIN arrays : a \in S /\ Closed(S) => b \in S}

\* When value_print is done, it has printed the items of every array that can be
\* reached, of each once, unless it came to its limit.
PrintsAllOnce ==
    /\ \A j, k \in DOMAIN objects : objects[j] = objects[k] => j = k
    /\ \A k \in DOMAIN objects : Len(roots) = 1 /\ objects[k] \in Reach(roots[1])
    /\ Len(objects) <= PRINT_MAX_COLLECTIONS
    /\ (work = "done" /\ Len(roots) = 1) =>
           \/ Len(objects) = PRINT_MAX_COLLECTIONS
           \/ \A b \in Reach(roots[1]) : \E k \in DOMAIN objects : objects[k] = b

\* Every walk ends, whatever holds what.
WalksEnd == work \in {"equal", "print"} ~> work \in {"done", "crashed"}
=============================================================================
