------------------------------ MODULE VMProofs ------------------------------
(***************************************************************************)
(* Theorems about VM, for every well-formed program, every byte width,     *)
(* number of frames and bound.  The machine never looks where it writes:   *)
(* that its types hold, that windows match and that no error escapes all   *)
(* rest on each other, so one inductive invariant carries the three.  The  *)
(* program runs the machine as VM has it, so all that holds from the       *)
(* command line to the exit, and the exit status tells how a script ended. *)
(***************************************************************************)
EXTENDS Repl, TLAPS

\* A value in use: not an error, and what it refers to exists.
Good(v, h) ==
    /\ v \in Value
    /\ v.type # "ERROR"
    /\ v.type = "ARRAY" => v.as \in DOMAIN h
    /\ v.type = "FUNCTION" => v.as \in DOMAIN Program
    /\ v.type = "CFUNC" => v.as \in DOMAIN Builtins

\* What an operator or a native function gives.
Result(v, h) == v = Undefined \/ v = Error \/ Good(v, h)

GoodHeap(h) ==
    /\ h \in Seq(Seq(Value))
    /\ Len(h) <= MaxArrays
    /\ \A a \in DOMAIN h : \A k \in DOMAIN h[a] : Good(h[a][k], h)

\* The arrays of h are still there.
Grows(h, h2) == GoodHeap(h2) /\ Len(h) <= Len(h2)
-----------------------------------------------------------------------------
(* Values and operators. *)

\* A value in use stays one when arrays are added or changed.
LEMMA GoodGrows ==
  ASSUME NEW v, NEW h, NEW h2, h \in Seq(Seq(Value)), h2 \in Seq(Seq(Value)),
         Len(h) <= Len(h2), Good(v, h)
  PROVE  Good(v, h2)
BY DEF Good

\* Results that refer to nothing are fine whatever there is.
LEMMA PlainResults ==
  ASSUME NEW h
  PROVE  /\ Result(Error, h) /\ Result(Undefined, h)
         /\ \A v \in SomeNumber \cup SomeString \cup EitherBool \cup {Null} : Good(v, h)
         /\ \A b \in BOOLEAN : Good(Bool(b), h)
         /\ \A n \in Int : Good(Number(n), h)
<1> USE NumbersAssumption, StringsAssumption
<1> QED
  BY DEF Result, Good, SomeNumber, SomeString, EitherBool, Null, Bool, Number, String,
         Value, Types, ObjectTypes

\* A unary operator gives a value or an error.
LEMMA UnaryGood ==
  ASSUME NEW op, NEW v \in Value, NEW h
  PROVE  Result(UnaryValue(op, v), h)
<1>1. Result(OpNot(v), h)
  BY PlainResults DEF OpNot, Truthy, Result
<1>2. v.type = "NUMBER" => Good(v, h) /\ v.as \in Int
  BY DEF Good, Value
<1>3. Result(OpPositive(v), h)
  BY <1>2, PlainResults DEF OpPositive, Result
<1>4. Result(OpNegative(v), h)
  BY <1>2, PlainResults DEF OpNegative, Result
<1>5. QED
  BY <1>1, <1>3, <1>4 DEF UnaryValue

\* So does a binary one.
LEMMA BinaryGood ==
  ASSUME NEW op \in BinaryOps, NEW b \in Value, NEW a \in Value, NEW h,
         NEW r \in BinaryResults(op, b, a)
  PROVE  Result(r, h)
<1> DEFINE Plain == SomeNumber \cup SomeString \cup EitherBool \cup {Error, Undefined}
<1>1. \A v \in Plain : Result(v, h)
  BY PlainResults DEF Result
<1>2. \A p \in BOOLEAN : Bool(p) \in EitherBool
  BY DEF EitherBool
<1>3. \A x, y \in Value : /\ OpAdd(x, y) \subseteq Plain /\ OpSubtract(x, y) \subseteq Plain
                          /\ OpMultiply(x, y) \subseteq Plain /\ OpDivide(x, y) \subseteq Plain
                          /\ OpModulo(x, y) \subseteq Plain
  BY DEF OpAdd, OpSubtract, OpMultiply, OpDivide, OpModulo, Repeat
<1>4. \A x, y \in Value : OpGreater(x, y) \subseteq Plain /\ OpGreaterEqual(x, y) \subseteq Plain
  <2>2. \A x, y : Bool(x > y) \in EitherBool /\ Bool(x >= y) \in EitherBool
    BY DEF EitherBool, Bool
  <2>3. {Bool(TRUE), Bool(FALSE)} \subseteq EitherBool
    BY <1>2
  <2>4. QED
    BY <1>2, <2>2, <2>3 DEF OpGreater, OpGreaterEqual
<1>5. EqualResults(a, b) \subseteq EitherBool
  BY <1>2 DEF EqualResults
<1>6. \A v : OpNot(v) \in EitherBool
  BY <1>2 DEF OpNot
<1>7. r \in Plain
  <2> HIDE DEF Plain
  <2>1. EitherBool \subseteq Plain
    BY DEF Plain
  <2>2. op \in {"ADD", "SUBTRACT", "MULTIPLY", "DIVIDE", "MODULO"} => r \in Plain
    BY <1>3 DEF BinaryResults
  <2>3. op \in {"GREATER", "GREATER_EQUAL", "LESS", "LESS_EQUAL"} => r \in Plain
    BY <1>4 DEF BinaryResults
  <2>4. op \in {"EQUAL", "NOT_EQUAL"} => r \in Plain
    BY <1>5, <1>6, <2>1 DEF BinaryResults
  <2>5. QED
    BY <2>2, <2>3, <2>4 DEF BinaryOps
<1>8. QED
  BY <1>1, <1>7

\* An item read from an array is a value in use.
LEMMA SubscriptGetGood ==
  ASSUME NEW h, GoodHeap(h), NEW c, Good(c, h), NEW x, Good(x, h),
         NEW r \in OpSubscriptGet(c, x, h)
  PROVE  Result(r, h)
<1>1. CASE r \in SomeString \cup {Error}
  BY <1>1, PlainResults DEF Result
<1>2. CASE r \notin SomeString \cup {Error}
  <2>1. /\ c.type = "ARRAY" /\ x.type = "NUMBER"
        /\ InRange(x.as, Len(h[c.as]))
        /\ r = h[c.as][Place(x.as, Len(h[c.as]))]
    BY <1>2 DEF OpSubscriptGet, Items
  <2>2. c.as \in DOMAIN h /\ h[c.as] \in Seq(Value) /\ x.as \in Int
    BY <2>1 DEF Good, Value, GoodHeap
  <2>3. Place(x.as, Len(h[c.as])) \in DOMAIN h[c.as]
    BY <2>1, <2>2 DEF InRange, Place
  <2>4. QED
    BY <2>1, <2>2, <2>3 DEF GoodHeap, Result
<1>3. QED
  BY <1>1, <1>2

\* Writing a place of a sequence leaves its length.
LEMMA WritePlace ==
  ASSUME NEW S, NEW s \in Seq(S), NEW i, NEW e \in S
  PROVE  [s EXCEPT ![i] = e] \in Seq(S) /\ DOMAIN [s EXCEPT ![i] = e] = DOMAIN s
<1> DEFINE t == [s EXCEPT ![i] = e]
<1>1. Len(s) \in Nat /\ s \in [1 .. Len(s) -> S] /\ DOMAIN s = 1 .. Len(s)
  OBVIOUS
<1>2. DOMAIN t = 1 .. Len(s) /\ \A k \in 1 .. Len(s) : t[k] \in S
  BY <1>1
<1>3. t = [k \in 1 .. Len(s) |-> t[k]]
  BY <1>1
<1>4. [k \in 1 .. Len(s) |-> t[k]] \in Seq(S)
  <2> HIDE DEF t
  <2>1. QED
    BY <1>1, <1>2
<1>5. QED
  BY <1>1, <1>2, <1>3, <1>4

\* A heap stays good when an array is replaced by one of good items.
LEMMA HeapReplace ==
  ASSUME NEW h, GoodHeap(h), NEW a \in DOMAIN h, NEW items \in Seq(Value),
         \A k \in DOMAIN items : Good(items[k], h)
  PROVE  Grows(h, [h EXCEPT ![a] = items])
<1> DEFINE h2 == [h EXCEPT ![a] = items]
<1>1. h \in Seq(Seq(Value)) /\ h2 \in Seq(Seq(Value)) /\ Len(h2) = Len(h) /\ DOMAIN h2 = DOMAIN h
  BY DEF GoodHeap
<1>2. ASSUME NEW b \in DOMAIN h2, NEW k \in DOMAIN h2[b]
      PROVE  Good(h2[b][k], h2)
  <2>1. Good(h2[b][k], h)
    BY <1>1, <1>2 DEF GoodHeap
  <2>2. QED
    BY <1>1, <2>1 DEF Good
<1>3. Len(h) <= MaxArrays
  BY DEF GoodHeap
<1>4. GoodHeap(h2)
  BY <1>1, <1>2, <1>3 DEF GoodHeap
<1>5. QED
  BY <1>1, <1>4 DEF Grows

\* A heap stays good when an array of good items is made.
LEMMA HeapAppend ==
  ASSUME NEW h, GoodHeap(h), Len(h) < MaxArrays, NEW items \in Seq(Value),
         \A k \in DOMAIN items : Good(items[k], h)
  PROVE  /\ Grows(h, NewArray(h, items).heap)
         /\ Good(NewArray(h, items).value, NewArray(h, items).heap)
<1> USE BoundsAssumption
<1> DEFINE h2 == Append(h, items)
<1>1. /\ h \in Seq(Seq(Value)) /\ h2 \in Seq(Seq(Value))
      /\ Len(h2) = Len(h) + 1 /\ Len(h2) <= MaxArrays
      /\ DOMAIN h2 = DOMAIN h \cup {Len(h) + 1}
      /\ \A b \in DOMAIN h : h2[b] = h[b]
      /\ h2[Len(h) + 1] = items
  BY DEF GoodHeap
<1>2. ASSUME NEW b \in DOMAIN h2, NEW k \in DOMAIN h2[b]
      PROVE  Good(h2[b][k], h2)
  <2>1. Good(h2[b][k], h)
    BY <1>1, <1>2 DEF GoodHeap
  <2>2. QED
    BY <1>1, <2>1 DEF Good
<1>3. GoodHeap(h2)
  BY <1>1, <1>2 DEF GoodHeap
<1>4. Good(Array(Len(h) + 1), h2)
  BY <1>1 DEF Good, Array, Value, Types, ObjectTypes
<1>5. QED
  BY <1>1, <1>3, <1>4 DEF Grows, NewArray

\* A heap is no smaller than itself.
LEMMA HeapSame ==
  ASSUME NEW h, GoodHeap(h)
  PROVE  Grows(h, h)
BY DEF Grows, GoodHeap

\* Writing an item keeps the heap good.
LEMMA SubscriptSetGood ==
  ASSUME NEW h, GoodHeap(h), NEW c, Good(c, h), NEW x, Good(x, h), NEW v, Good(v, h)
  PROVE  /\ Grows(h, OpSubscriptSet(c, x, v, h).heap)
         /\ Result(OpSubscriptSet(c, x, v, h).value, OpSubscriptSet(c, x, v, h).heap)
<1>1. CASE ~CanSubscriptSet(c, x, h)
  BY <1>1, HeapSame, PlainResults DEF OpSubscriptSet
<1>2. CASE CanSubscriptSet(c, x, h)
  <2> DEFINE place == Place(x.as, Len(h[c.as]))
             items == [h[c.as] EXCEPT ![place] = v]
  <2>1. c.as \in DOMAIN h /\ h[c.as] \in Seq(Value) /\ x.as \in Int /\ v \in Value
    BY <1>2 DEF CanSubscriptSet, Good, Value, GoodHeap
  <2>2. items \in Seq(Value) /\ \A k \in DOMAIN items : Good(items[k], h)
    <3>1. items \in Seq(Value) /\ DOMAIN items = DOMAIN h[c.as]
      BY <2>1, WritePlace
    <3>2. ASSUME NEW k \in DOMAIN items
          PROVE  Good(items[k], h)
      <4>1. items[k] = v \/ items[k] = h[c.as][k]
        BY <2>1, <3>1
      <4>2. Good(h[c.as][k], h)
        BY <2>1, <3>1 DEF GoodHeap
      <4>3. QED
        BY <4>1, <4>2
    <3>3. QED
      BY <3>1, <3>2
  <2>3. Grows(h, [h EXCEPT ![c.as] = items])
    BY <2>1, <2>2, HeapReplace
  <2>4. /\ OpSubscriptSet(c, x, v, h).heap = [h EXCEPT ![c.as] = items]
        /\ OpSubscriptSet(c, x, v, h).value = v
    BY <1>2 DEF OpSubscriptSet, Items
  <2>5. h \in Seq(Seq(Value)) /\ [h EXCEPT ![c.as] = items] \in Seq(Seq(Value))
    BY <2>3 DEF Grows, GoodHeap
  <2>6. Good(v, [h EXCEPT ![c.as] = items])
    BY <2>3, <2>5, GoodGrows DEF Grows
  <2>7. QED
    BY <2>3, <2>4, <2>6 DEF Result
<1>3. QED
  BY <1>1, <1>2
-----------------------------------------------------------------------------
(* Native functions. *)

\* What a native function gives is a value in use or an error, and the heap it
\* leaves is good.
Fine(r, h) == Result(r.value, r.heap) /\ Grows(h, r.heap)

\* Arguments are values in use.
GoodArgs(args, h) == args \in Seq(Value) /\ \A k \in DOMAIN args : Good(args[k], h)

\* A native function that leaves the heap alone.
LEMMA ReturnsFine ==
  ASSUME NEW h, GoodHeap(h), NEW values, \A v \in values : Result(v, h)
  PROVE  \A r \in Returns(values, h) : Fine(r, h)
BY HeapSame DEF Returns, Fine

\* The functions that only look at their arguments.
LEMMA PlainBuiltinsFine ==
  ASSUME NEW h, GoodHeap(h), NEW args, GoodArgs(args, h)
  PROVE  /\ \A r \in AspicAssert(args, h) \cup AspicClock(args, h) : Fine(r, h)
         /\ \A r \in AspicOsCd(args, h) \cup AspicOsGetenv(args, h) : Fine(r, h)
         /\ \A r \in AspicPrint(args, h) \cup AspicType(args, h) : Fine(r, h)
         /\ \A r \in AspicStr(args, h) \cup AspicInput(args, h) : Fine(r, h)
         /\ \A r \in AspicInt(args, h) \cup AspicLen(args, h) : Fine(r, h)
<1> DEFINE Plain == SomeNumber \cup SomeString \cup EitherBool \cup {Null, Error, Undefined}
<1>1. \A v \in Plain : Result(v, h)
  BY PlainResults DEF Result
<1>2. \A values : values \subseteq Plain => \A r \in Returns(values, h) : Fine(r, h)
  BY <1>1, ReturnsFine
<1>3. {Bool(TRUE), Bool(FALSE)} \subseteq Plain
  BY DEF EitherBool
<1>4. \A r \in AspicAssert(args, h) \cup AspicClock(args, h) : Fine(r, h)
  BY <1>2, <1>3 DEF AspicAssert, AspicClock
<1>5. \A r \in AspicOsCd(args, h) \cup AspicOsGetenv(args, h) : Fine(r, h)
  BY <1>2 DEF AspicOsCd, AspicOsGetenv
<1>6. \A r \in AspicPrint(args, h) \cup AspicType(args, h) \cup AspicInput(args, h) : Fine(r, h)
  BY <1>2 DEF AspicPrint, AspicType, AspicInput
<1>7. Len(args) = 1 => Good(args[1], h)
  BY DEF GoodArgs
<1>8. \A v \in StrResults(args) : Result(v, h)
  BY <1>1, <1>7 DEF StrResults, Result
<1>9. \A r \in AspicStr(args, h) : Fine(r, h)
  BY <1>8, ReturnsFine DEF AspicStr
<1>10. \A n \in Int : Result(Number(n), h)
  BY PlainResults DEF Result
<1>11. Len(args) \in 1 .. 2 => args[1].as \in Int
  BY DEF GoodArgs, Good, Value
<1>12. \A r \in AspicInt(args, h) : Fine(r, h)
  <2>1. ParsedInt(args) \subseteq Plain
    BY DEF ParsedInt
  <2>2. Len(args) \in 1 .. 2 => \A r \in Returns({Number(args[1].as)}, h) : Fine(r, h)
    BY <1>10, <1>11, ReturnsFine
  <2>3. \A r \in Returns({Error}, h) \cup Returns(ParsedInt(args), h) : Fine(r, h)
    BY <1>2, <2>1
  <2>4. QED
    BY <2>2, <2>3 DEF AspicInt
<1>13. \A r \in AspicLen(args, h) : Fine(r, h)
  <2>1. Len(args) = 1 /\ args[1].type = "ARRAY" => Len(Items(h, args[1])) \in Int
    BY <1>7 DEF Good, GoodHeap, Items
  <2>2. Len(args) = 1 /\ args[1].type = "ARRAY" =>
           \A r \in Returns({Number(Len(Items(h, args[1])))}, h) : Fine(r, h)
    BY <1>10, <2>1, ReturnsFine
  <2>3. \A r \in Returns({Error}, h) \cup Returns({n \in SomeNumber : n.as >= 0}, h) : Fine(r, h)
    BY <1>2
  <2>4. QED
    BY <2>2, <2>3 DEF AspicLen
<1>14. QED
  BY <1>4, <1>5, <1>6, <1>9, <1>12, <1>13

\* pop() gives an item of its array, and what remains are items of it.
LEMMA PopFine ==
  ASSUME NEW h, GoodHeap(h), NEW args, GoodArgs(args, h), NEW r \in AspicPop(args, h)
  PROVE  Fine(r, h)
<1>1. CASE Len(args) # 1 \/ args[1].type # "ARRAY"
  <2>1. \E v \in {Error, Undefined} : r \in Returns({v}, h)
    BY <1>1 DEF AspicPop
  <2>2. QED
    BY <2>1, PlainResults, ReturnsFine
<1>2. CASE Len(args) = 1 /\ args[1].type = "ARRAY"
  <2> DEFINE a == args[1].as
             items == h[a]
             rest == SubSeq(items, 1, Len(items) - 1)
  <2>1. a \in DOMAIN h /\ items \in Seq(Value) /\ \A k \in DOMAIN items : Good(items[k], h)
    BY <1>2 DEF GoodArgs, Good, GoodHeap
  <2>2. CASE items = <<>>
    <3>1. r \in Returns({Error}, h)
      BY <1>2, <2>2 DEF AspicPop, Items
    <3>2. QED
      BY <3>1, PlainResults, ReturnsFine
  <2>3. CASE items # <<>>
    <3>1. r.value = items[Len(items)] /\ r.heap = [h EXCEPT ![a] = rest]
      BY <1>2, <2>3 DEF AspicPop, Items, Returns
    <3>2. Good(r.value, h)
      BY <2>1, <2>3, <3>1
    <3>3. rest \in Seq(Value) /\ \A k \in DOMAIN rest : Good(rest[k], h)
      BY <2>1, <2>3
    <3>4. Grows(h, r.heap)
      <4> HIDE DEF rest
      <4>1. Grows(h, [h EXCEPT ![a] = rest])
        BY <2>1, <3>3, HeapReplace
      <4>2. QED
        BY <3>1, <4>1
    <3>5. Good(r.value, r.heap)
      BY <3>2, <3>4, GoodGrows DEF Grows, GoodHeap
    <3>6. QED
      BY <3>4, <3>5 DEF Fine, Result
  <2>4. QED
    BY <2>2, <2>3
<1>3. QED
  BY <1>1, <1>2 DEF GoodArgs

\* push() puts one more value in use in its array.
LEMMA PushFine ==
  ASSUME NEW h, GoodHeap(h), NEW args, GoodArgs(args, h), NEW r \in AspicPush(args, h)
  PROVE  Fine(r, h)
<1>1. CASE Len(args) # 2 \/ args[1].type # "ARRAY"
  <2>1. \E v \in {Error, Undefined} : r \in Returns({v}, h)
    BY <1>1 DEF AspicPush
  <2>2. QED
    BY <2>1, PlainResults, ReturnsFine
<1>2. CASE Len(args) = 2 /\ args[1].type = "ARRAY"
  <2> DEFINE a == args[1].as
             items == h[a]
             more == Append(items, args[2])
  <2>1. a \in DOMAIN h /\ items \in Seq(Value) /\ \A k \in DOMAIN items : Good(items[k], h)
    BY <1>2 DEF GoodArgs, Good, GoodHeap
  <2>2. Good(args[1], h) /\ Good(args[2], h) /\ args[2] \in Value
    <3>1. 1 \in DOMAIN args /\ 2 \in DOMAIN args
      BY <1>2 DEF GoodArgs
    <3>2. QED
      BY <3>1 DEF GoodArgs, Good
  <2>3. r.value = args[1] /\ r.heap = [h EXCEPT ![a] = more]
    BY <1>2 DEF AspicPush, Items, Returns
  <2>4. more \in Seq(Value) /\ \A k \in DOMAIN more : Good(more[k], h)
    <3>1. /\ more \in Seq(Value) /\ DOMAIN more = DOMAIN items \cup {Len(items) + 1}
          /\ \A k \in DOMAIN items : more[k] = items[k]
          /\ more[Len(items) + 1] = args[2]
      BY <2>1, <2>2
    <3>2. QED
      BY <2>1, <2>2, <3>1
  <2>5. Grows(h, r.heap)
    <3> HIDE DEF more
    <3>1. Grows(h, [h EXCEPT ![a] = more])
      BY <2>1, <2>4, HeapReplace
    <3>2. QED
      BY <2>3, <3>1
  <2>6. Good(r.value, r.heap)
    BY <2>2, <2>3, <2>5, GoodGrows DEF Grows, GoodHeap
  <2>7. QED
    BY <2>5, <2>6 DEF Fine, Result
<1>3. QED
  BY <1>1, <1>2 DEF GoodArgs

\* ls() makes an array of strings.
LEMMA LsFine ==
  ASSUME NEW h, GoodHeap(h), NEW args, GoodArgs(args, h), NEW r \in AspicOsLs(args, h)
  PROVE  Fine(r, h)
<1>1. CASE r \in Returns({Error}, h) \cup Returns({Undefined}, h)
  BY <1>1, PlainResults, ReturnsFine
<1>2. CASE ~(r \in Returns({Error}, h) \cup Returns({Undefined}, h))
  <2>1. /\ ~(Len(h) >= MaxArrays)
        /\ r \in {NewArray(h, <<>>)} \cup {NewArray(h, <<v>>) : v \in SomeString}
    BY <1>2 DEF AspicOsLs
  <2>2. Len(h) < MaxArrays
    BY <2>1, BoundsAssumption DEF GoodHeap
  <2>3. PICK items : /\ r = NewArray(h, items)
                     /\ items = <<>> \/ \E v \in SomeString : items = <<v>>
    BY <2>1
  <2>4. \A v \in SomeString : Good(v, h) /\ v \in Value
    BY PlainResults DEF Good
  <2>5. items \in Seq(Value) /\ \A k \in DOMAIN items : Good(items[k], h)
    <3>1. CASE items = <<>>
      BY <3>1
    <3>2. ASSUME NEW v \in SomeString, items = <<v>>
          PROVE  items \in Seq(Value) /\ \A k \in DOMAIN items : Good(items[k], h)
      BY <2>4, <3>2
    <3>3. QED
      BY <2>3, <3>1, <3>2
  <2>6. QED
    BY <2>2, <2>3, <2>5, HeapAppend DEF Fine, Result
<1>3. QED
  BY <1>1, <1>2

\* Every native function gives a value in use or an error, whatever values in
\* use it is called with.
LEMMA BuiltinFine ==
  ASSUME NEW h, GoodHeap(h), NEW args, GoodArgs(args, h), NEW c \in DOMAIN Builtins,
         NEW r \in BuiltinResults(Builtins[c], args, h)
  PROVE  Fine(r, h)
<1>1. Builtins[c] \in {"assert", "clock", "input", "int", "ls", "cd", "getenv",
                       "len", "pop", "print", "push", "str", "type"}
  BY DEF Builtins
<1>2. CASE Builtins[c] \in {"pop", "push", "ls"}
  BY <1>2, PopFine, PushFine, LsFine DEF BuiltinResults
<1>3. CASE Builtins[c] \in {"assert", "clock", "cd", "getenv", "print", "type"}
  BY <1>3, PlainBuiltinsFine DEF BuiltinResults
<1>4. CASE Builtins[c] \in {"input", "int", "len", "str"}
  BY <1>4, PlainBuiltinsFine DEF BuiltinResults
<1>5. QED
  BY <1>1, <1>2, <1>3, <1>4
-----------------------------------------------------------------------------
(* The inductive invariant. *)

Functions == {Program[f] : f \in DOMAIN Program}
CallFrame == [function : Functions \cup {NoFunction}, ip : Nat, slots : Nat]

StackTyped ==
    /\ stack \in [Slots -> Value] /\ stack_top \in Nat
    /\ pc \in {"idle", "running", "undefined"}
    /\ result \in {"OK", "COMPILE_ERROR", "RUNTIME_ERROR"}
    /\ pushed \in Value

FramesTyped ==
    frames \in [0 .. VM_FRAMES_MAX - 1 -> CallFrame] /\ frame_count \in 0 .. VM_FRAMES_MAX

GoodGlobals ==
    /\ DOMAIN globals = Strings
    /\ \A n \in Strings : globals[n] = Absent \/ /\ globals[n] \in G!Bindings
                                                 /\ Good(globals[n].value, heap)

\* While a script runs, what is below the top of the stack is in use.
StackInUse ==
    pc = "running" => /\ stack_top \in 1 .. VM_STACK_MAX
                      /\ \A s \in 0 .. stack_top - 1 : Good(stack[s], heap)

\* And every call is of a function of the program.
ProgramRuns ==
    pc = "running" => \A n \in 0 .. frame_count - 1 : frames[n].function \in Functions

IInv ==
    /\ StackTyped /\ FramesTyped /\ sessions \in 0 .. MaxSessions
    /\ GoodHeap(heap) /\ GoodGlobals /\ StackInUse
    /\ ProgramRuns /\ WindowsMatch

\* The stack has a slot.
LEMMA StackNotEmpty == VM_STACK_MAX \in Nat /\ VM_STACK_MAX >= 1
<1>1. \A a, b \in Nat : a >= 1 /\ b >= 1 => a * b \in Nat /\ a * b >= 1
  OBVIOUS
<1>2. QED
  BY <1>1, FramesAssumption, ByteAssumption DEF VM_STACK_MAX

\* What the invariant says of the instruction that is next.
LEMMA CodeFacts ==
  ASSUME IInv, pc = "running"
  PROVE  /\ frame_count \in 1 .. VM_FRAMES_MAX /\ frame \in CallFrame
         /\ fun \in Functions /\ WellFormedFunction(fun, Program)
         /\ ip \in Nat /\ ip \in DOMAIN fun.height /\ WellFormedAt(fun, ip)
         /\ fun.height[ip] \in Nat \ {0}
         /\ stack_top = frame.slots + fun.height[ip]
<1>1. frame_count \in 1 .. VM_FRAMES_MAX /\ frame \in CallFrame
  BY FramesAssumption DEF IInv, FramesTyped, WindowsMatch, frame
<1>2. fun \in Functions
  BY <1>1 DEF IInv, ProgramRuns, frame, fun
<1>3. WellFormedFunction(fun, Program)
  BY <1>2, ProgramAssumption DEF Functions, WellFormed
<1>4. ip \in DOMAIN fun.height /\ stack_top = frame.slots + fun.height[ip]
  BY <1>1 DEF IInv, WindowsMatch, HeightOf, frame, fun, ip
<1>5. ip \in Nat /\ WellFormedAt(fun, ip) /\ fun.height[ip] \in Nat \ {0}
  BY <1>3, <1>4 DEF WellFormedFunction
<1>6. QED
  BY <1>1, <1>2, <1>3, <1>4, <1>5

\* An instruction takes and gives a number of values.
LEMMA PopsNat ==
  ASSUME NEW fn, NEW p, WellFormedAt(fn, p)
  PROVE  Pops(fn, p) \in Nat /\ Pushes(fn, p) \in {0, 1}
<1>1. OpAt(fn, p) \in {"CALL", "ARRAY"} => Operand(fn, p) \in Nat
  BY DEF WellFormedAt, ByteOperand
<1>2. QED
  BY <1>1 DEF Pops, Pushes

\* The stack is written with values in use, or an error on its top that ends
\* the script.
LEMMA EndKeepsValues ==
  ASSUME IInv, pc = "running", pushed' \in Value,
         NEW new_stack \in [Slots -> Value], NEW new_top \in Nat,
         EndIteration(new_stack, new_top),
         \A s \in 0 .. new_top - 1 :
            s \in Slots => Good(new_stack[s], heap') \/ (s = new_top - 1 /\ new_stack[s] = Error)
  PROVE  /\ StackTyped' /\ StackInUse'
         /\ pc' = "running" => stack_top' = new_top
<1> USE StackNotEmpty
<1>1. StackTyped'
  BY DEF EndIteration, IInv, StackTyped
<1>2. ASSUME pc' = "running"
      PROVE  /\ stack' = new_stack /\ stack_top' = new_top /\ new_top \in 1 .. VM_STACK_MAX
             /\ new_stack[new_top - 1].type # "ERROR"
  BY <1>2 DEF EndIteration
<1>3. ASSUME pc' = "running", NEW s \in 0 .. new_top - 1
      PROVE  Good(new_stack[s], heap')
  <2>1. s \in Slots
    BY <1>2, <1>3 DEF Slots
  <2>2. ~(s = new_top - 1 /\ new_stack[s] = Error)
    BY <1>2, <1>3 DEF Error
  <2>3. QED
    BY <2>1, <2>2
<1>4. QED
  BY <1>1, <1>2, <1>3 DEF StackInUse

\* The call goes on with the next instruction, and the stack has the height the
\* code counts on there.
LEMMA Advances ==
  ASSUME IInv, pc = "running", NEW next \in Nat, Goto(next), UNCHANGED frame_count,
         pc' = "running" =>
            /\ next \in Successors(fun, ip) /\ OpAt(fun, ip) # "RETURN"
            /\ stack_top' = stack_top - Pops(fun, ip) + Pushes(fun, ip)
  PROVE  FramesTyped' /\ ProgramRuns' /\ WindowsMatch'
<1>1. /\ frame_count \in 1 .. VM_FRAMES_MAX /\ frame \in CallFrame
      /\ WellFormedAt(fun, ip) /\ fun.height[ip] \in Nat \ {0}
      /\ stack_top = frame.slots + fun.height[ip]
  BY CodeFacts
<1>2. /\ frames \in [0 .. VM_FRAMES_MAX - 1 -> CallFrame]
      /\ frames' = [frames EXCEPT ![frame_count - 1].ip = next]
      /\ frame_count - 1 \in 0 .. VM_FRAMES_MAX - 1
  BY <1>1, FramesAssumption DEF IInv, FramesTyped, Goto
<1>3. /\ frames' \in [0 .. VM_FRAMES_MAX - 1 -> CallFrame]
      /\ \A n \in 0 .. VM_FRAMES_MAX - 1 : /\ frames'[n].function = frames[n].function
                                           /\ frames'[n].slots = frames[n].slots
                                           /\ n # frame_count - 1 => frames'[n] = frames[n]
      /\ frames'[frame_count - 1].ip = next
  BY <1>2 DEF CallFrame
<1>4. pc' = "running" => \A n \in 0 .. frame_count' - 1 : frames'[n].function \in Functions
  BY <1>1, <1>3, FramesAssumption DEF IInv, ProgramRuns
<1>5. ASSUME pc' = "running"
      PROVE  WindowsMatch'
  <2>1. next \in DOMAIN fun.height /\ fun.height[next] = fun.height[ip] - Pops(fun, ip) + Pushes(fun, ip)
    BY <1>1, <1>5 DEF WellFormedAt
  <2>2. frame_count' >= 1 /\ frames'[0].slots = 0
    BY <1>1, <1>3, FramesAssumption DEF IInv, WindowsMatch
  <2>3. \A n \in 0 .. frame_count' - 1 : frames'[n].ip \in DOMAIN frames'[n].function.height
    BY <1>1, <1>3, <2>1, FramesAssumption DEF IInv, WindowsMatch, fun, frame
  <2>4. \A n \in 0 .. frame_count' - 2 : HeightOf(n)' = HeightOf(n)
    BY <1>1, <1>3, FramesAssumption DEF HeightOf
  <2>5. \A n \in 0 .. frame_count' - 2 : frames'[n + 1].slots + 1 = frames'[n].slots + HeightOf(n)'
    <3>1. \A n \in 0 .. frame_count - 2 : frames[n + 1].slots + 1 = frames[n].slots + HeightOf(n)
      BY DEF IInv, WindowsMatch
    <3>2. ASSUME NEW n \in 0 .. frame_count' - 2
          PROVE  /\ n \in 0 .. frame_count - 2
                 /\ n \in 0 .. VM_FRAMES_MAX - 1 /\ n + 1 \in 0 .. VM_FRAMES_MAX - 1
      BY <1>1, FramesAssumption
    <3>3. QED
      BY <1>3, <2>4, <3>1, <3>2
  <2>6. stack_top' = frames'[frame_count' - 1].slots + frames'[frame_count' - 1].function.height[next]
    <3>1. fun.height[next] = stack_top' - frame.slots
      BY <1>1, <1>5, <2>1, PopsNat DEF CallFrame
    <3>2. frames'[frame_count - 1].function = fun /\ frames'[frame_count - 1].slots = frame.slots
      BY <1>1, <1>3, FramesAssumption DEF fun, frame
    <3>3. stack_top' \in Int /\ frame.slots \in Int
      <4>1. stack_top \in Nat
        BY DEF IInv, StackTyped
      <4>2. Pops(fun, ip) \in Nat /\ Pushes(fun, ip) \in Nat
        BY <1>1, PopsNat
      <4>3. QED
        BY <1>1, <1>5, <4>1, <4>2 DEF CallFrame
    <3>4. QED
      BY <3>1, <3>2, <3>3
  <2>7. QED
    BY <1>3, <2>2, <2>3, <2>5, <2>6 DEF WindowsMatch, HeightOf
<1>6. FramesTyped'
  BY <1>3 DEF IInv, FramesTyped
<1>7. QED
  BY <1>4, <1>5, <1>6 DEF ProgramRuns, WindowsMatch

\* An instruction that takes n values and puts a result.
LEMMA PopAndPushKeeps ==
  ASSUME IInv, pc = "running", Grows(heap, heap'), NEW n \in Nat, n <= stack_top,
         NEW v, Result(v, heap'), PopAndPush(n, v)
  PROVE  /\ StackTyped' /\ StackInUse'
         /\ pc' = "running" => stack_top' = stack_top - n + 1 /\ v # Error
<1>1. /\ stack \in [Slots -> Value] /\ stack_top \in 1 .. VM_STACK_MAX
      /\ \A s \in 0 .. stack_top - 1 : Good(stack[s], heap)
  BY DEF IInv, StackTyped, StackInUse
<1>2. CASE v = Undefined
  <2>1. PopAndPush(n, v) => pc' = "undefined" /\ UNCHANGED <<stack, stack_top, result, pushed>>
    BY <1>2 DEF PopAndPush, stack_vars
  <2>2. QED
    BY <2>1 DEF IInv, StackTyped, StackInUse
<1>3. CASE v # Undefined
  <2> DEFINE new_stack == [stack EXCEPT ![stack_top - n] = v]
             new_top == stack_top - n + 1
  <2>1. EndIteration(new_stack, new_top) /\ pushed' = v
    BY <1>3 DEF PopAndPush
  <2>2. v \in Value /\ (v = Error \/ Good(v, heap'))
    BY <1>3 DEF Result, Good, Error, Value, Types
  <2>3. new_stack \in [Slots -> Value] /\ new_top \in Nat
    <3>1. new_top \in Nat
      BY <1>1, StackNotEmpty
    <3>2. new_stack \in [Slots -> Value]
      BY <1>1, <2>2
    <3>3. QED
      BY <3>1, <3>2
  <2>4. \A s \in 0 .. stack_top - 1 : Good(stack[s], heap')
    BY <1>1, GoodGrows DEF IInv, GoodHeap, Grows
  <2>5. ASSUME NEW s \in 0 .. new_top - 1, s \in Slots
        PROVE  Good(new_stack[s], heap') \/ (s = new_top - 1 /\ new_stack[s] = Error)
    BY <1>1, <2>2, <2>4, <2>5, StackNotEmpty
  <2>6. StackTyped' /\ StackInUse' /\ (pc' = "running" => stack_top' = new_top)
    <3> HIDE DEF new_stack, new_top
    <3>1. QED
      BY <2>1, <2>2, <2>3, <2>5, EndKeepsValues
  <2>7. pc' = "running" => v # Error
    BY <1>1, <2>1, StackNotEmpty DEF EndIteration, Error, Slots
  <2>8. QED
    BY <2>6, <2>7
<1>4. QED
  BY <1>2, <1>3

\* An instruction that only takes values.
LEMMA PopOnlyKeeps ==
  ASSUME IInv, pc = "running", UNCHANGED heap, NEW n \in Nat, n <= stack_top, PopOnly(n)
  PROVE  /\ StackTyped' /\ StackInUse'
         /\ pc' = "running" => stack_top' = stack_top - n
<1>1. /\ stack \in [Slots -> Value] /\ stack_top \in 1 .. VM_STACK_MAX /\ pushed' \in Value
      /\ \A s \in 0 .. stack_top - 1 : Good(stack[s], heap')
  BY DEF IInv, StackTyped, StackInUse, PopOnly
<1>2. EndIteration(stack, stack_top - n) /\ stack_top - n \in Nat
  BY <1>1, StackNotEmpty DEF PopOnly
<1>3. \A s \in 0 .. (stack_top - n) - 1 : Good(stack[s], heap')
  BY <1>1, StackNotEmpty
<1>4. QED
  BY <1>1, <1>2, <1>3, EndKeepsValues

\* An instruction finds what it takes above slot 0 of its call.
LEMMA EnoughOnStack ==
  ASSUME IInv, pc = "running", OpAt(fun, ip) # "RETURN"
  PROVE  /\ Pops(fun, ip) \in Nat /\ Pops(fun, ip) < stack_top
         /\ frame.slots + Pops(fun, ip) < stack_top
         /\ NextOffset(fun, ip) \in Nat
<1>1. /\ ip \in Nat /\ fun.height[ip] \in Nat /\ WellFormedAt(fun, ip)
      /\ stack_top = frame.slots + fun.height[ip] /\ frame.slots \in Nat
  BY CodeFacts DEF CallFrame
<1>2. Pops(fun, ip) \in Nat
  BY <1>1, PopsNat
<1>3. fun.height[ip] - Pops(fun, ip) >= 1
  BY <1>1 DEF WellFormedAt
<1>4. NextOffset(fun, ip) \in Nat
  BY <1>1 DEF NextOffset
<1>5. QED
  BY <1>1, <1>2, <1>3, <1>4

\* What an instruction looks at is in use.
LEMMA PeekGood ==
  ASSUME IInv, pc = "running", NEW k \in Nat, k < stack_top
  PROVE  Good(Peek(k), heap) /\ Peek(k) \in Value
<1>1. stack_top \in 1 .. VM_STACK_MAX /\ \A s \in 0 .. stack_top - 1 : Good(stack[s], heap)
  BY DEF IInv, StackInUse
<1>2. Good(stack[stack_top - 1 - k], heap)
  BY <1>1, StackNotEmpty
<1>3. QED
  BY <1>2 DEF Peek, Good

\* Variables that are not written stay good while arrays are made and changed.
LEMMA GlobalsKept ==
  ASSUME IInv, UNCHANGED globals, Grows(heap, heap')
  PROVE  GoodGlobals'
BY GoodGrows DEF IInv, GoodGlobals, GoodHeap, Grows

\* An instruction that takes its values, puts its result and goes on, or puts an
\* error.
LEMMA ResultStep ==
  ASSUME IInv, pc = "running", OpAt(fun, ip) # "RETURN",
         Grows(heap, heap'), GoodGlobals', UNCHANGED sessions,
         NEW n \in Nat, n < stack_top, NEW v, Result(v, heap'), PopAndPush(n, v), GoOn,
         v # Error => /\ n = Pops(fun, ip) /\ Pushes(fun, ip) = 1
                      /\ NextOffset(fun, ip) \in Successors(fun, ip)
  PROVE  IInv'
<1>1. n <= stack_top
  BY DEF IInv, StackTyped
<1>2. /\ StackTyped' /\ StackInUse'
      /\ pc' = "running" => stack_top' = stack_top - n + 1 /\ v # Error
  BY <1>1, PopAndPushKeeps
<1>3. NextOffset(fun, ip) \in Nat /\ Goto(NextOffset(fun, ip)) /\ UNCHANGED frame_count
  BY EnoughOnStack DEF GoOn
<1>4. FramesTyped' /\ ProgramRuns' /\ WindowsMatch'
  BY <1>2, <1>3, Advances
<1>5. QED
  BY <1>2, <1>4 DEF IInv, Grows

\* An instruction that puts nothing.
LEMMA TakeStep ==
  ASSUME IInv, pc = "running", OpAt(fun, ip) # "RETURN",
         UNCHANGED heap, GoodGlobals', UNCHANGED sessions,
         NEW n \in Nat, n < stack_top, PopOnly(n),
         NEW next \in Nat, Goto(next), UNCHANGED frame_count,
         n = Pops(fun, ip) - Pushes(fun, ip), next \in Successors(fun, ip)
  PROVE  IInv'
<1>1. n <= stack_top
  BY DEF IInv, StackTyped
<1>2. /\ StackTyped' /\ StackInUse'
      /\ pc' = "running" => stack_top' = stack_top - n
  BY <1>1, PopOnlyKeeps
<1>3. stack_top - n = stack_top - Pops(fun, ip) + Pushes(fun, ip)
  <2>1. Pops(fun, ip) \in Nat /\ Pushes(fun, ip) \in {0, 1}
    BY CodeFacts, PopsNat
  <2>2. stack_top \in Nat
    BY DEF IInv, StackTyped
  <2>3. QED
    BY <2>1, <2>2
<1>4. FramesTyped' /\ ProgramRuns' /\ WindowsMatch'
  BY <1>2, <1>3, Advances
<1>5. GoodHeap(heap')
  BY DEF IInv
<1>6. QED
  BY <1>2, <1>4, <1>5 DEF IInv
-----------------------------------------------------------------------------
(* One lemma per instruction. *)

\* Taken and given values, and the way on.
LEMMA GoingOn ==
  ASSUME NEW fn, NEW p, OpAt(fn, p) \notin {"RETURN", "JUMP", "JUMP_BACK"}
  PROVE  NextOffset(fn, p) \in Successors(fn, p)
BY DEF Successors

LEMMA GivesOne ==
  ASSUME NEW fn, NEW p, OpAt(fn, p) \notin DeclGlobalOps \cup {"POP", "JUMP", "JUMP_BACK"}
  PROVE  Pushes(fn, p) = 1
BY DEF Pushes

LEMMA TakesNone ==
  ASSUME NEW fn, NEW p,
         OpAt(fn, p) \in Literals \cup ConstantOps \cup GetGlobalOps \cup {"GET_LOCAL"}
  PROVE  Pops(fn, p) = 0 /\ OpAt(fn, p) \notin DeclGlobalOps
                         /\ OpAt(fn, p) \notin {"RETURN", "POP", "JUMP", "JUMP_BACK"}
BY DEF Pops, Literals, ConstantOps, GetGlobalOps, DeclGlobalOps, UnaryOps, SetGlobalOps,
       ConditionalJumps, BinaryOps

\* A value in use is put without any being taken.
LEMMA PutStep ==
  ASSUME IInv, pc = "running",
         OpAt(fun, ip) \in Literals \cup ConstantOps \cup GetGlobalOps \cup {"GET_LOCAL"},
         UNCHANGED <<globals, heap, sessions>>,
         NEW v, Result(v, heap), PopAndPush(0, v), GoOn
  PROVE  IInv'
<1>1. /\ Pops(fun, ip) = 0 /\ Pushes(fun, ip) = 1 /\ OpAt(fun, ip) # "RETURN"
      /\ NextOffset(fun, ip) \in Successors(fun, ip)
  BY TakesNone, GivesOne, GoingOn
<1>2. 0 < stack_top
  BY <1>1, EnoughOnStack
<1>3. Grows(heap, heap') /\ Result(v, heap')
  BY HeapSame DEF IInv
<1>4. GoodGlobals'
  BY <1>3, GlobalsKept
<1>5. QED
  BY <1>1, <1>2, <1>3, <1>4, ResultStep

LEMMA LiteralStep ==
  ASSUME IInv, Literal
  PROVE  IInv'
<1>1. /\ pc = "running" /\ OpAt(fun, ip) \in Literals /\ UNCHANGED <<globals, heap, sessions>>
      /\ PopAndPush(0, LiteralValue(OpAt(fun, ip))) /\ GoOn
  BY DEF Literal, Fetch, Simple, global_vars
<1>2. Result(LiteralValue(OpAt(fun, ip)), heap)
  <2>1. \A b \in BOOLEAN : Result(Bool(b), heap)
    BY PlainResults DEF Result
  <2>2. Result(Number(0), heap) /\ Result(Number(1), heap) /\ Result(Null, heap)
    BY PlainResults DEF Result
  <2>3. QED
    BY <2>1, <2>2 DEF LiteralValue
<1>3. QED
  BY <1>1, <1>2, PutStep

\* A constant of the function that runs, as WellFormed says.
LEMMA ConstantGood ==
  ASSUME IInv, pc = "running", OpAt(fun, ip) \in GlobalOps \cup ConstantOps
  PROVE  Good(ConstantAt(fun, ip), heap)
         /\ (OpAt(fun, ip) \in GlobalOps => Name \in Strings)
<1>1. WellFormedFunction(fun, Program) /\ WellFormedAt(fun, ip)
  BY CodeFacts
<1>2. /\ Operand(fun, ip) + 1 \in DOMAIN fun.constants
      /\ OpAt(fun, ip) \in GlobalOps => ConstantAt(fun, ip).type = "STRING"
  BY <1>1 DEF WellFormedAt, OperandFits
<1>3. WellFormedConstant(ConstantAt(fun, ip), Program)
  BY <1>1, <1>2 DEF WellFormedFunction, ConstantAt
<1>4. QED
  BY <1>2, <1>3 DEF WellFormedConstant, Good, Name

LEMMA ConstantStep ==
  ASSUME IInv, Constant
  PROVE  IInv'
<1>1. /\ pc = "running" /\ OpAt(fun, ip) \in ConstantOps /\ UNCHANGED <<globals, heap, sessions>>
      /\ PopAndPush(0, ConstantAt(fun, ip)) /\ GoOn
  BY DEF Constant, Fetch, Simple, global_vars
<1>2. Result(ConstantAt(fun, ip), heap)
  BY <1>1, ConstantGood DEF Result
<1>3. QED
  BY <1>1, <1>2, PutStep

\* The slot of a local is one of its call's.
LEMMA LocalGood ==
  ASSUME IInv, pc = "running", OpAt(fun, ip) \in {"GET_LOCAL", "SET_LOCAL"}
  PROVE  /\ frame.slots + Operand(fun, ip) \in 0 .. stack_top - 1
         /\ Good(stack[frame.slots + Operand(fun, ip)], heap)
<1>1. /\ WellFormedAt(fun, ip) /\ frame.slots \in Nat /\ fun.height[ip] \in Nat
      /\ stack_top = frame.slots + fun.height[ip]
  BY CodeFacts DEF CallFrame
<1>2. Operand(fun, ip) \in 1 .. fun.height[ip] - Pops(fun, ip) - 1
  BY <1>1 DEF WellFormedAt, OperandFits
<1>3. Pops(fun, ip) \in Nat
  BY <1>1, PopsNat
<1>4. frame.slots + Operand(fun, ip) \in 0 .. stack_top - 1
  BY <1>1, <1>2, <1>3
<1>5. QED
  BY <1>4 DEF IInv, StackInUse

LEMMA GetLocalStep ==
  ASSUME IInv, GetLocal
  PROVE  IInv'
<1>1. /\ pc = "running" /\ OpAt(fun, ip) = "GET_LOCAL" /\ UNCHANGED <<globals, heap, sessions>>
      /\ PopAndPush(0, stack[frame.slots + Operand(fun, ip)]) /\ GoOn
  BY DEF GetLocal, Fetch, Simple, global_vars
<1>2. Result(stack[frame.slots + Operand(fun, ip)], heap)
  BY <1>1, LocalGood DEF Result
<1>3. QED
  BY <1>1, <1>2, PutStep

LEMMA GetGlobalStep ==
  ASSUME IInv, GetGlobal
  PROVE  IInv'
<1>1. /\ pc = "running" /\ OpAt(fun, ip) \in GetGlobalOps /\ UNCHANGED <<globals, heap, sessions>>
      /\ GoOn /\ G!Get(Name)
  BY DEF GetGlobal, Fetch, G!Get
<1>2. Name \in Strings
  BY <1>1, ConstantGood DEF GlobalOps
<1>3. answer'[2] = IF globals[Name] = Absent THEN Absent ELSE globals[Name].value
  BY <1>1 DEF G!Get, G!Answer
<1>4. PICK v : PopAndPush(0, v) /\ (v = Error \/ (v = answer'[2] /\ v # Absent))
  BY DEF GetGlobal
<1>5. Result(v, heap)
  BY <1>2, <1>3, <1>4 DEF IInv, GoodGlobals, Result
<1>6. QED
  BY <1>1, <1>4, <1>5, PutStep

\* Values are taken and a result is put.
LEMMA TakeAndPutStep ==
  ASSUME IInv, pc = "running",
         OpAt(fun, ip) \in UnaryOps \cup BinaryOps
                           \cup {"SUBSCRIPT_GET", "SUBSCRIPT_SET", "CALL", "ARRAY"},
         Grows(heap, heap'), UNCHANGED <<globals, sessions>>,
         NEW v, Result(v, heap'), PopAndPush(Pops(fun, ip), v), GoOn
  PROVE  IInv'
<1>1. /\ Pushes(fun, ip) = 1 /\ OpAt(fun, ip) # "RETURN"
      /\ NextOffset(fun, ip) \in Successors(fun, ip)
  BY GivesOne, GoingOn DEF UnaryOps, BinaryOps, DeclGlobalOps
<1>2. Pops(fun, ip) \in Nat /\ Pops(fun, ip) < stack_top
  BY <1>1, EnoughOnStack
<1>3. GoodGlobals'
  BY GlobalsKept
<1>4. QED
  BY <1>1, <1>2, <1>3, ResultStep

\* How many values each of them takes.
LEMMA Taken ==
  ASSUME NEW fn, NEW p
  PROVE  /\ OpAt(fn, p) \in UnaryOps => Pops(fn, p) = 1
         /\ OpAt(fn, p) \in BinaryOps \cup {"SUBSCRIPT_GET"} => Pops(fn, p) = 2
         /\ OpAt(fn, p) = "SUBSCRIPT_SET" => Pops(fn, p) = 3
         /\ OpAt(fn, p) = "CALL" => Pops(fn, p) = Operand(fn, p) + 1
         /\ OpAt(fn, p) = "ARRAY" => Pops(fn, p) = Operand(fn, p)
BY DEF Pops, UnaryOps, BinaryOps, DeclGlobalOps, SetGlobalOps, ConditionalJumps

LEMMA UnaryStep ==
  ASSUME IInv, Unary
  PROVE  IInv'
<1>1. /\ pc = "running" /\ OpAt(fun, ip) \in UnaryOps /\ UNCHANGED <<globals, heap, sessions>>
      /\ PopAndPush(1, UnaryValue(OpAt(fun, ip), Peek(0))) /\ GoOn
  BY DEF Unary, Fetch, Simple, global_vars
<1>2. Pops(fun, ip) = 1 /\ OpAt(fun, ip) # "RETURN"
  BY <1>1, Taken DEF UnaryOps
<1>3. Peek(0) \in Value
  <2>1. 0 < stack_top
    BY <1>1, <1>2, EnoughOnStack DEF IInv, StackTyped
  <2>2. QED
    BY <1>1, <2>1, PeekGood
<1>4. Result(UnaryValue(OpAt(fun, ip), Peek(0)), heap')
  BY <1>3, UnaryGood
<1>5. Grows(heap, heap')
  BY <1>1, HeapSame DEF IInv
<1>6. QED
  BY <1>1, <1>2, <1>4, <1>5, TakeAndPutStep

\* The two operands are in use.
LEMMA OperandsGood ==
  ASSUME IInv, pc = "running", OpAt(fun, ip) \in BinaryOps \cup {"SUBSCRIPT_GET"}
  PROVE  /\ Pops(fun, ip) = 2
         /\ Good(Peek(0), heap) /\ Good(Peek(1), heap)
         /\ Peek(0) \in Value /\ Peek(1) \in Value
<1>1. Pops(fun, ip) = 2 /\ OpAt(fun, ip) # "RETURN"
  BY Taken DEF BinaryOps
<1>2. 2 < stack_top /\ stack_top \in Nat
  BY <1>1, EnoughOnStack DEF IInv, StackTyped
<1>3. QED
  BY <1>1, <1>2, PeekGood

LEMMA BinaryStep ==
  ASSUME IInv, Binary
  PROVE  IInv'
<1>1. PICK v \in BinaryResults(OpAt(fun, ip), Peek(0), Peek(1)) : Simple(2, v)
  BY DEF Binary
<1>2. /\ pc = "running" /\ OpAt(fun, ip) \in BinaryOps /\ UNCHANGED <<globals, heap, sessions>>
      /\ PopAndPush(2, v) /\ GoOn
  BY <1>1 DEF Binary, Fetch, Simple, global_vars
<1>3. Result(v, heap')
  BY <1>2, OperandsGood, BinaryGood
<1>4. Grows(heap, heap')
  BY <1>2, HeapSame DEF IInv
<1>5. QED
  BY <1>2, <1>3, <1>4, OperandsGood, TakeAndPutStep

LEMMA SubscriptGetStep ==
  ASSUME IInv, SubscriptGet
  PROVE  IInv'
<1>1. PICK v \in OpSubscriptGet(Peek(1), Peek(0), heap) : Simple(2, v)
  BY DEF SubscriptGet
<1>2. /\ pc = "running" /\ OpAt(fun, ip) = "SUBSCRIPT_GET" /\ UNCHANGED <<globals, heap, sessions>>
      /\ PopAndPush(2, v) /\ GoOn
  BY <1>1 DEF SubscriptGet, Fetch, Simple, global_vars
<1>3. Result(v, heap')
  BY <1>2, OperandsGood, SubscriptGetGood DEF IInv
<1>4. Grows(heap, heap')
  BY <1>2, HeapSame DEF IInv
<1>5. QED
  BY <1>2, <1>3, <1>4, OperandsGood, TakeAndPutStep

LEMMA SubscriptSetStep ==
  ASSUME IInv, SubscriptSet
  PROVE  IInv'
<1> DEFINE set == OpSubscriptSet(Peek(2), Peek(1), Peek(0), heap)
<1>1. /\ pc = "running" /\ OpAt(fun, ip) = "SUBSCRIPT_SET" /\ UNCHANGED <<globals, sessions>>
      /\ PopAndPush(3, set.value) /\ heap' = set.heap /\ GoOn
  BY DEF SubscriptSet, Fetch, global_vars
<1>2. Pops(fun, ip) = 3 /\ 3 < stack_top /\ stack_top \in Nat
  BY <1>1, Taken, EnoughOnStack DEF IInv, StackTyped
<1>3. Good(Peek(0), heap) /\ Good(Peek(1), heap) /\ Good(Peek(2), heap)
  BY <1>1, <1>2, PeekGood
<1>4. Grows(heap, set.heap) /\ Result(set.value, set.heap)
  BY <1>3, SubscriptSetGood DEF IInv
<1>5. QED
  <2> HIDE DEF set
  <2>1. QED
    BY <1>1, <1>2, <1>4, TakeAndPutStep

\* The top n values, as a sequence.
LEMMA TopValuesGood ==
  ASSUME IInv, pc = "running", NEW n \in Nat, n <= stack_top
  PROVE  GoodArgs(TopValues(n), heap)
<1>1. stack_top \in 1 .. VM_STACK_MAX
  BY DEF IInv, StackInUse
<1>2. ASSUME NEW k \in 1 .. n
      PROVE  /\ Good(stack[stack_top - n + k - 1], heap)
             /\ stack[stack_top - n + k - 1] \in Value
  <2>1. stack_top - n + k - 1 \in 0 .. stack_top - 1
    BY <1>1, StackNotEmpty
  <2>2. QED
    BY <2>1 DEF IInv, StackInUse, Good
<1>3. TopValues(n) \in Seq(Value) /\ DOMAIN TopValues(n) = 1 .. n
  BY <1>2 DEF TopValues
<1>4. QED
  BY <1>2, <1>3 DEF GoodArgs, TopValues

LEMMA MakeArrayStep ==
  ASSUME IInv, MakeArray
  PROVE  IInv'
<1> DEFINE n == Operand(fun, ip)
           array == NewArray(heap, TopValues(n))
<1>1. /\ pc = "running" /\ OpAt(fun, ip) = "ARRAY" /\ UNCHANGED <<globals, sessions>>
      /\ Len(heap) < MaxArrays
      /\ PopAndPush(n, array.value) /\ heap' = array.heap /\ GoOn
  BY DEF MakeArray, Fetch, global_vars
<1>2. Pops(fun, ip) = n /\ n \in Nat /\ n <= stack_top
  <2>1. Pops(fun, ip) = n
    BY <1>1, Taken
  <2>2. n \in Nat /\ n < stack_top /\ stack_top \in Nat
    BY <1>1, <2>1, EnoughOnStack DEF IInv, StackTyped
  <2>3. QED
    BY <2>1, <2>2
<1>3. GoodArgs(TopValues(n), heap)
  BY <1>1, <1>2, TopValuesGood
<1>4. Grows(heap, array.heap) /\ Good(array.value, array.heap)
  BY <1>1, <1>3, HeapAppend DEF IInv, GoodArgs
<1>5. QED
  <2> HIDE DEF array, n
  <2>1. Result(array.value, array.heap)
    BY <1>4 DEF Result
  <2>2. QED
    BY <1>1, <1>2, <1>4, <2>1, TakeAndPutStep

\* What is called and its arguments are on the stack.
LEMMA CallFacts ==
  ASSUME IInv, pc = "running", OpAt(fun, ip) = "CALL"
  PROVE  /\ Pops(fun, ip) = Argc + 1 /\ Argc \in Nat /\ Argc + 1 < stack_top
         /\ frame.slots + Argc + 1 < stack_top
         /\ Good(Callee, heap)
<1>1. Pops(fun, ip) = Argc + 1
  BY Taken DEF Argc
<1>2. Argc \in Nat
  <2>1. WellFormedAt(fun, ip)
    BY CodeFacts
  <2>2. QED
    BY <2>1 DEF WellFormedAt, ByteOperand, Argc
<1>3. stack_top \in Nat /\ frame.slots \in Nat
  BY CodeFacts DEF IInv, StackTyped, CallFrame
<1>4. Argc + 1 < stack_top /\ frame.slots + Argc + 1 < stack_top
  BY <1>1, <1>2, <1>3, EnoughOnStack
<1>5. Good(Callee, heap)
  BY <1>2, <1>3, <1>4, PeekGood DEF Callee
<1>6. QED
  BY <1>1, <1>2, <1>4, <1>5

LEMMA CallNativeStep ==
  ASSUME IInv, CallNative
  PROVE  IInv'
<1>1. /\ pc = "running" /\ OpAt(fun, ip) = "CALL" /\ Callee.type = "CFUNC"
      /\ UNCHANGED <<globals, sessions>> /\ GoOn
  BY DEF CallNative, Fetch, global_vars
<1>2. PICK r \in BuiltinResults(Builtins[Callee.as], TopValues(Argc), heap) :
        PopAndPush(Argc + 1, r.value) /\ heap' = r.heap
  BY DEF CallNative
<1>3. /\ Pops(fun, ip) = Argc + 1 /\ Argc \in Nat /\ Argc <= stack_top
      /\ Callee.as \in DOMAIN Builtins
  BY <1>1, CallFacts DEF Good, IInv, StackTyped
<1>4. GoodArgs(TopValues(Argc), heap)
  BY <1>1, <1>3, TopValuesGood
<1>5. Fine(r, heap)
  BY <1>3, <1>4, BuiltinFine DEF IInv
<1>6. Grows(heap, heap') /\ Result(r.value, heap')
  BY <1>2, <1>5 DEF Fine
<1>7. QED
  BY <1>1, <1>2, <1>3, <1>6, TakeAndPutStep

LEMMA CallRefusedStep ==
  ASSUME IInv, CallRefused
  PROVE  IInv'
<1>1. /\ pc = "running" /\ OpAt(fun, ip) = "CALL" /\ UNCHANGED <<globals, heap, sessions>>
      /\ PopAndPush(0, Error) /\ GoOn
  BY DEF CallRefused, Fetch, Simple, global_vars
<1>2. 0 < stack_top
  BY <1>1, CallFacts DEF IInv, StackTyped
<1>3. Grows(heap, heap') /\ Result(Error, heap')
  BY <1>1, HeapSame, PlainResults DEF IInv
<1>4. GoodGlobals'
  BY <1>1, <1>3, GlobalsKept
<1>5. QED
  BY <1>1, <1>2, <1>3, <1>4, ResultStep

LEMMA PopStep ==
  ASSUME IInv, Pop
  PROVE  IInv'
<1>1. /\ pc = "running" /\ OpAt(fun, ip) = "POP" /\ UNCHANGED <<globals, heap, sessions>>
      /\ PopOnly(1) /\ Goto(NextOffset(fun, ip)) /\ UNCHANGED frame_count
  BY DEF Pop, Fetch, GoOn, global_vars
<1>2. Pops(fun, ip) = 1 /\ Pushes(fun, ip) = 0
  BY <1>1 DEF Pops, Pushes
<1>3. NextOffset(fun, ip) \in Nat /\ 1 < stack_top
  BY <1>1, <1>2, EnoughOnStack
<1>4. NextOffset(fun, ip) \in Successors(fun, ip)
  BY <1>1, GoingOn
<1>5. GoodGlobals'
  BY <1>1, HeapSame, GlobalsKept DEF IInv
<1>6. QED
  BY <1>1, <1>2, <1>3, <1>4, <1>5, TakeStep

LEMMA JumpStep ==
  ASSUME IInv, Jump
  PROVE  IInv'
<1>1. /\ pc = "running" /\ OpAt(fun, ip) \in {"JUMP", "JUMP_BACK"} \cup ConditionalJumps
      /\ UNCHANGED <<frame_count, globals, heap, sessions>> /\ PopOnly(0)
  BY DEF Jump, Fetch, global_vars
<1>2. PICK next \in Successors(fun, ip) : Goto(next)
  BY <1>1 DEF Jump, Successors, ConditionalJumps
<1>3. next \in Nat
  <2>1. WellFormedAt(fun, ip) /\ WellFormedFunction(fun, Program)
    BY <1>1, CodeFacts
  <2>2. next \in DOMAIN fun.height
    BY <2>1 DEF WellFormedAt
  <2>3. QED
    BY <2>1, <2>2 DEF WellFormedFunction
<1>4. Pops(fun, ip) = Pushes(fun, ip) /\ OpAt(fun, ip) # "RETURN"
  BY <1>1 DEF Pops, Pushes, ConditionalJumps, DeclGlobalOps, UnaryOps, SetGlobalOps, BinaryOps
<1>5. 0 < stack_top /\ Pops(fun, ip) - Pushes(fun, ip) = 0
  BY <1>1, <1>4, EnoughOnStack DEF IInv, StackTyped
<1>6. GoodGlobals'
  BY <1>1, HeapSame, GlobalsKept DEF IInv
<1>7. QED
  BY <1>1, <1>2, <1>3, <1>4, <1>5, <1>6, TakeStep

\* A variable takes a value in use.
LEMMA GlobalWritten ==
  ASSUME IInv, NEW k \in Strings, NEW b \in G!Bindings, Good(b.value, heap),
         globals' = [globals EXCEPT ![k] = b], UNCHANGED heap
  PROVE  GoodGlobals'
BY DEF IInv, GoodGlobals

LEMMA DeclGlobalStep ==
  ASSUME IInv, DeclGlobal
  PROVE  IInv'
<1> DEFINE ro == OpAt(fun, ip) \in {"DECL_GLOBAL_CONST", "DECL_GLOBAL_CONST_16"}
           b == [value |-> Peek(0), read_only |-> ro]
<1>1. /\ pc = "running" /\ OpAt(fun, ip) \in DeclGlobalOps /\ UNCHANGED <<heap, sessions>>
      /\ GoOn /\ Goto(NextOffset(fun, ip)) /\ UNCHANGED frame_count
      /\ globals' = [globals EXCEPT ![Name] = b]
  BY DEF DeclGlobal, Fetch, GoOn, G!Set
<1>2. Pops(fun, ip) = 1 /\ Pushes(fun, ip) = 0 /\ OpAt(fun, ip) # "RETURN"
      /\ OpAt(fun, ip) \in GlobalOps /\ OpAt(fun, ip) \notin {"JUMP", "JUMP_BACK"}
  BY <1>1 DEF Pops, Pushes, DeclGlobalOps, GlobalOps
<1>3. NextOffset(fun, ip) \in Nat /\ 1 < stack_top /\ stack_top \in Nat
  BY <1>1, <1>2, EnoughOnStack DEF IInv, StackTyped
<1>4. Good(Peek(0), heap) /\ Peek(0) \in Value
  BY <1>1, <1>3, PeekGood
<1>5. GoodGlobals'
  <2>1. b \in G!Bindings /\ b.value = Peek(0)
    BY <1>4 DEF G!Bindings
  <2>2. Name \in Strings
    BY <1>1, <1>2, ConstantGood
  <2> HIDE DEF b
  <2>3. QED
    BY <1>1, <1>4, <2>1, <2>2, GlobalWritten
<1>6. NextOffset(fun, ip) \in Successors(fun, ip)
  BY <1>2, GoingOn
<1>7. CASE PopOnly(1)
  BY <1>1, <1>2, <1>3, <1>5, <1>6, <1>7, TakeStep
<1>8. CASE PopAndPush(1, Error)
  <2>1. Grows(heap, heap') /\ Result(Error, heap')
    BY <1>1, HeapSame, PlainResults DEF IInv
  <2>2. QED
    BY <1>1, <1>2, <1>3, <1>5, <1>8, <2>1, ResultStep
<1>9. QED
  BY <1>7, <1>8 DEF DeclGlobal

LEMMA SetGlobalStep ==
  ASSUME IInv, SetGlobal
  PROVE  IInv'
<1>1. /\ pc = "running" /\ OpAt(fun, ip) \in SetGlobalOps /\ UNCHANGED <<heap, sessions>>
      /\ GoOn /\ Goto(NextOffset(fun, ip)) /\ UNCHANGED frame_count
      /\ G!Update(Name, Peek(0))
  BY DEF SetGlobal, Fetch, GoOn
<1>2. Pops(fun, ip) = 1 /\ Pushes(fun, ip) = 1 /\ OpAt(fun, ip) # "RETURN"
      /\ OpAt(fun, ip) \in GlobalOps /\ OpAt(fun, ip) \notin {"JUMP", "JUMP_BACK"}
  BY <1>1 DEF Pops, Pushes, SetGlobalOps, DeclGlobalOps, UnaryOps, GlobalOps
<1>3. NextOffset(fun, ip) \in Nat /\ 0 < stack_top /\ stack_top \in Nat
  BY <1>1, <1>2, EnoughOnStack DEF IInv, StackTyped
<1>4. Good(Peek(0), heap) /\ Peek(0) \in Value
  BY <1>1, <1>3, PeekGood
<1>5. Name \in Strings
  BY <1>1, <1>2, ConstantGood
<1>6. GoodGlobals'
  <2>1. CASE UNCHANGED globals
    BY <1>1, <2>1, HeapSame, GlobalsKept DEF IInv
  <2>2. CASE globals[Name] # Absent /\ globals' = [globals EXCEPT ![Name].value = Peek(0)]
    <3> DEFINE b == [globals[Name] EXCEPT !.value = Peek(0)]
    <3>1. globals[Name] \in G!Bindings
      BY <1>5, <2>2 DEF IInv, GoodGlobals
    <3>2. b \in G!Bindings /\ b.value = Peek(0)
      BY <1>4, <3>1 DEF G!Bindings
    <3>3. globals' = [globals EXCEPT ![Name] = b]
      BY <2>2
    <3> HIDE DEF b
    <3>4. QED
      BY <1>1, <1>4, <1>5, <3>2, <3>3, GlobalWritten
  <2>3. QED
    BY <1>1, <2>1, <2>2 DEF G!Update
<1>7. NextOffset(fun, ip) \in Successors(fun, ip)
  BY <1>2, GoingOn
<1>8. CASE PopOnly(0)
  BY <1>1, <1>2, <1>3, <1>6, <1>7, <1>8, TakeStep
<1>9. CASE PopAndPush(0, Error)
  <2>1. Grows(heap, heap') /\ Result(Error, heap')
    BY <1>1, HeapSame, PlainResults DEF IInv
  <2>2. QED
    BY <1>1, <1>2, <1>3, <1>6, <1>9, <2>1, ResultStep
<1>10. QED
  BY <1>8, <1>9 DEF SetGlobal

LEMMA SetLocalStep ==
  ASSUME IInv, SetLocal
  PROVE  IInv'
<1> DEFINE place == frame.slots + Operand(fun, ip)
           new_stack == [stack EXCEPT ![place] = Peek(0)]
<1>1. /\ pc = "running" /\ OpAt(fun, ip) = "SET_LOCAL"
      /\ UNCHANGED <<globals, heap, sessions, pushed, frame_count>>
      /\ EndIteration(new_stack, stack_top) /\ Goto(NextOffset(fun, ip))
  BY DEF SetLocal, Fetch, GoOn, global_vars
<1>2. /\ Pops(fun, ip) = 1 /\ Pushes(fun, ip) = 1
      /\ NextOffset(fun, ip) \in Successors(fun, ip)
  <2>1. Pops(fun, ip) = 1 /\ Pushes(fun, ip) = 1
    BY <1>1 DEF Pops, Pushes, DeclGlobalOps, UnaryOps
  <2>2. QED
    BY <1>1, <2>1, GoingOn
<1>3. NextOffset(fun, ip) \in Nat /\ 0 < stack_top /\ stack_top \in Nat
  BY <1>1, <1>2, EnoughOnStack DEF IInv, StackTyped
<1>4. Good(Peek(0), heap) /\ Peek(0) \in Value
  BY <1>1, <1>3, PeekGood
<1>5. /\ stack \in [Slots -> Value] /\ pushed' \in Value
      /\ \A s \in 0 .. stack_top - 1 : Good(stack[s], heap)
  BY <1>1 DEF IInv, StackTyped, StackInUse
<1>6. new_stack \in [Slots -> Value]
  BY <1>4, <1>5
<1>7. \A s \in 0 .. stack_top - 1 : s \in Slots => Good(new_stack[s], heap')
  BY <1>1, <1>4, <1>5
<1>8. StackTyped' /\ StackInUse' /\ (pc' = "running" => stack_top' = stack_top)
  <2> HIDE DEF new_stack
  <2>1. QED
    BY <1>1, <1>3, <1>5, <1>6, <1>7, EndKeepsValues
<1>9. FramesTyped' /\ ProgramRuns' /\ WindowsMatch'
  <2>1. stack_top = stack_top - Pops(fun, ip) + Pushes(fun, ip)
    BY <1>2, <1>3
  <2>2. QED
    BY <1>1, <1>2, <1>3, <1>8, <2>1, Advances
<1>10. GoodGlobals' /\ GoodHeap(heap')
  BY <1>1, HeapSame, GlobalsKept DEF IInv
<1>11. QED
  BY <1>1, <1>8, <1>9, <1>10 DEF IInv

\* The new window begins at the function that is called.
LEMMA CallFunctionStep ==
  ASSUME IInv, CallFunction
  PROVE  IInv'
<1> DEFINE next == NextOffset(fun, ip)
           callee == Program[Callee.as]
           first == stack_top - (Argc + 1)
<1>1. /\ pc = "running" /\ OpAt(fun, ip) = "CALL" /\ Callee.type = "FUNCTION"
      /\ callee.arity = Argc /\ frame_count < VM_FRAMES_MAX
      /\ frames' = [frames EXCEPT ![frame_count - 1].ip = next,
                                  ![frame_count] = Frame(callee, first)]
      /\ frame_count' = frame_count + 1
      /\ PopOnly(0) /\ UNCHANGED <<globals, heap, sessions>>
  BY DEF CallFunction, Fetch, global_vars
<1>2. /\ Argc \in Nat /\ Argc + 1 < stack_top /\ stack_top \in Nat
      /\ Pops(fun, ip) = Argc + 1 /\ Callee.as \in DOMAIN Program
  BY <1>1, CallFacts DEF Good, IInv, StackTyped
<1>3. /\ frame_count \in 1 .. VM_FRAMES_MAX /\ frame \in CallFrame
      /\ WellFormedAt(fun, ip) /\ fun.height[ip] \in Nat
      /\ stack_top = frame.slots + fun.height[ip]
  BY <1>1, CodeFacts
<1>4. /\ next \in Nat /\ next \in DOMAIN fun.height
      /\ fun.height[next] = fun.height[ip] - Argc
  <2>1. next \in Nat /\ next \in Successors(fun, ip) /\ Pushes(fun, ip) = 1
    BY <1>1, EnoughOnStack, GoingOn, GivesOne DEF DeclGlobalOps
  <2>2. next \in DOMAIN fun.height
        /\ fun.height[next] = fun.height[ip] - Pops(fun, ip) + Pushes(fun, ip)
    BY <1>3, <2>1 DEF WellFormedAt
  <2>3. QED
    BY <1>2, <1>3, <2>1, <2>2
<1>5. /\ callee \in Functions /\ 0 \in DOMAIN callee.height
      /\ callee.height[0] = Argc + 1
  BY <1>1, <1>2, ProgramAssumption DEF Functions, WellFormed, WellFormedFunction
<1>6. first \in Nat /\ first + (Argc + 1) = stack_top
      /\ first + 1 = frame.slots + fun.height[next]
  BY <1>2, <1>3, <1>4 DEF CallFrame
<1>7. StackTyped' /\ StackInUse' /\ (pc' = "running" => stack_top' = stack_top)
  BY <1>1, <1>2, PopOnlyKeeps
<1> HIDE DEF next, callee, first
<1>8. /\ frames \in [0 .. VM_FRAMES_MAX - 1 -> CallFrame]
      /\ frame_count - 1 \in 0 .. VM_FRAMES_MAX - 1 /\ frame_count \in 0 .. VM_FRAMES_MAX - 1
      /\ frame_count' = frame_count + 1 /\ frame_count \in Nat /\ frame_count >= 1
      /\ VM_FRAMES_MAX \in Nat
  BY <1>1, <1>3, FramesAssumption DEF IInv, FramesTyped
<1>9. Frame(callee, first) = [function |-> callee, ip |-> 0, slots |-> first]
      /\ Frame(callee, first) \in CallFrame
  BY <1>5, <1>6 DEF Frame, CallFrame
<1>10. /\ frames' \in [0 .. VM_FRAMES_MAX - 1 -> CallFrame]
       /\ frames'[frame_count] = Frame(callee, first)
       /\ frames'[frame_count - 1].function = fun /\ frames'[frame_count - 1].ip = next
       /\ frames'[frame_count - 1].slots = frame.slots
       /\ \A n \in 0 .. frame_count - 2 : frames'[n] = frames[n]
  <2> DEFINE caller == [frames[frame_count - 1] EXCEPT !.ip = next]
  <2>1. caller \in CallFrame /\ caller.function = fun /\ caller.ip = next /\ caller.slots = frame.slots
    BY <1>3, <1>4 DEF CallFrame, frame, fun
  <2>2. frames' = [frames EXCEPT ![frame_count - 1] = caller, ![frame_count] = Frame(callee, first)]
    BY <1>1
  <2> HIDE DEF caller
  <2>3. frame_count \in Int /\ frame_count # frame_count - 1
    BY <1>3, FramesAssumption
  <2>4. /\ frames' \in [0 .. VM_FRAMES_MAX - 1 -> CallFrame]
        /\ frames'[frame_count] = Frame(callee, first) /\ frames'[frame_count - 1] = caller
    BY <1>8, <1>9, <2>1, <2>2, <2>3
  <2>5. ASSUME NEW n \in 0 .. frame_count - 2
        PROVE  frames'[n] = frames[n]
    BY <1>8, <2>2, <2>3, FramesAssumption
  <2>6. QED
    BY <2>1, <2>4, <2>5
<1>11. FramesTyped' /\ ProgramRuns'
  <2>1. FramesTyped'
    BY <1>1, <1>3, <1>10, FramesAssumption DEF FramesTyped
  <2>2. \A n \in 0 .. frame_count' - 1 :
           n = frame_count \/ n = frame_count - 1 \/ n \in 0 .. frame_count - 2
    BY <1>1, <1>3, FramesAssumption
  <2>3. fun \in Functions /\ \A n \in 0 .. frame_count - 2 : frames[n].function \in Functions
    BY <1>1, <1>3, CodeFacts, FramesAssumption DEF IInv, ProgramRuns
  <2>4. QED
    BY <1>5, <1>9, <1>10, <2>1, <2>2, <2>3 DEF ProgramRuns
<1>12. ASSUME pc' = "running"
       PROVE  WindowsMatch'
  <2>1. /\ frames[0].slots = 0
        /\ \A n \in 0 .. frame_count - 1 : frames[n].ip \in DOMAIN frames[n].function.height
        /\ \A n \in 0 .. frame_count - 2 : frames[n + 1].slots + 1 = frames[n].slots + HeightOf(n)
    BY <1>1 DEF IInv, WindowsMatch
  <2>2. \A n \in 0 .. frame_count - 1 : frames'[n].slots = frames[n].slots
    BY <1>8, <1>10 DEF frame
  <2>3. frame_count' >= 1 /\ frames'[0].slots = 0
    BY <1>8, <2>1, <2>2
  <2>4. ASSUME NEW n \in 0 .. frame_count' - 1
        PROVE  frames'[n].ip \in DOMAIN frames'[n].function.height
    <3>1. CASE n = frame_count
      BY <1>5, <1>9, <1>10, <3>1
    <3>2. CASE n = frame_count - 1
      BY <1>4, <1>10, <3>2
    <3>3. CASE n \in 0 .. frame_count - 2
      BY <1>3, <1>10, <2>1, <3>3, FramesAssumption
    <3>4. QED
      BY <1>1, <1>3, <3>1, <3>2, <3>3, FramesAssumption
  <2>5. ASSUME NEW n \in 0 .. frame_count' - 2
        PROVE  frames'[n + 1].slots + 1 = frames'[n].slots + HeightOf(n)'
    <3>1. CASE n = frame_count - 1
      <4>1. HeightOf(n)' = fun.height[next] /\ frames'[n].slots = frame.slots
        BY <1>10, <3>1 DEF HeightOf
      <4>2. frames'[n + 1].slots = first
        BY <1>3, <1>9, <1>10, <3>1, FramesAssumption
      <4>3. QED
        BY <1>6, <4>1, <4>2
    <3>2. CASE n \in 0 .. frame_count - 2
      <4>1. HeightOf(n)' = HeightOf(n)
        BY <1>10, <3>2 DEF HeightOf
      <4>2. n \in 0 .. frame_count - 1 /\ n + 1 \in 0 .. frame_count - 1
        BY <1>3, <3>2, FramesAssumption
      <4>3. QED
        BY <2>1, <2>2, <3>2, <4>1, <4>2
    <3>3. QED
      BY <1>1, <1>3, <3>1, <3>2, FramesAssumption
  <2>6. stack_top' = frames'[frame_count' - 1].slots + HeightOf(frame_count - 1)'
    <3>1. frame_count' - 1 = frame_count
      BY <1>8
    <3>2. frames'[frame_count].function.height[frames'[frame_count].ip] = Argc + 1
      BY <1>5, <1>9, <1>10
    <3>3. frames'[frame_count].slots = first /\ stack_top' = stack_top
      BY <1>7, <1>9, <1>10, <1>12
    <3>4. QED
      BY <1>6, <3>1, <3>2, <3>3 DEF HeightOf
  <2>7. QED
    BY <2>3, <2>4, <2>5, <2>6 DEF WindowsMatch
<1>13. GoodGlobals' /\ GoodHeap(heap')
  BY <1>1, HeapSame, GlobalsKept DEF IInv
<1>14. QED
  BY <1>1, <1>7, <1>11, <1>12, <1>13 DEF IInv, WindowsMatch

\* The caller's window ends where the result is put.
LEMMA ReturnStep ==
  ASSUME IInv, Return
  PROVE  IInv'
<1> DEFINE new_stack == [stack EXCEPT ![frame.slots] = Peek(0)]
           caller == frame_count - 2
<1>1. /\ pc = "running" /\ OpAt(fun, ip) = "RETURN"
      /\ frame_count' = frame_count - 1
      /\ frames' = [frames EXCEPT ![frame_count - 1].ip = NextOffset(fun, ip)]
      /\ UNCHANGED <<globals, heap, sessions>>
  BY DEF Return, Fetch, Goto, global_vars
<1>2. /\ frame_count \in 1 .. VM_FRAMES_MAX /\ frame \in CallFrame
      /\ fun.height[ip] \in Nat \ {0} /\ ip \in Nat
      /\ stack_top = frame.slots + fun.height[ip]
      /\ VM_FRAMES_MAX \in Nat
  BY <1>1, CodeFacts, FramesAssumption
<1>3. /\ stack_top \in 1 .. VM_STACK_MAX /\ stack \in [Slots -> Value]
      /\ \A s \in 0 .. stack_top - 1 : Good(stack[s], heap)
      /\ frame.slots \in 0 .. stack_top - 1 /\ frame.slots + 1 \in 1 .. VM_STACK_MAX
  <2>1. /\ stack_top \in 1 .. VM_STACK_MAX /\ stack \in [Slots -> Value]
        /\ \A s \in 0 .. stack_top - 1 : Good(stack[s], heap)
    BY <1>1 DEF IInv, StackTyped, StackInUse
  <2>2. frame.slots \in Nat
    BY <1>2 DEF CallFrame
  <2>3. QED
    BY <1>2, <2>1, <2>2, StackNotEmpty
<1>4. Good(Peek(0), heap) /\ Peek(0) \in Value
  BY <1>1, <1>3, PeekGood, StackNotEmpty
<1>5. new_stack \in [Slots -> Value]
  BY <1>3, <1>4
<1>6. /\ frames' \in [0 .. VM_FRAMES_MAX - 1 -> CallFrame]
      /\ \A n \in 0 .. frame_count - 2 : frames'[n] = frames[n]
  <2>1. NextOffset(fun, ip) \in Nat
    BY <1>2 DEF NextOffset
  <2>2. frames \in [0 .. VM_FRAMES_MAX - 1 -> CallFrame] /\ frame_count - 1 \in 0 .. VM_FRAMES_MAX - 1
    BY <1>2 DEF IInv, FramesTyped
  <2>3. frames' \in [0 .. VM_FRAMES_MAX - 1 -> CallFrame]
    BY <1>1, <2>1, <2>2 DEF CallFrame
  <2>4. ASSUME NEW n \in 0 .. frame_count - 2
        PROVE  frames'[n] = frames[n]
    <3>1. n \in 0 .. VM_FRAMES_MAX - 1 /\ n # frame_count - 1
      BY <1>2
    <3>2. QED
      BY <1>1, <2>2, <3>1
  <2>5. QED
    BY <2>3, <2>4
<1>7. FramesTyped'
  BY <1>1, <1>2, <1>6 DEF FramesTyped
<1>8. GoodGlobals' /\ GoodHeap(heap') /\ sessions' \in 0 .. MaxSessions
  BY <1>1, HeapSame, GlobalsKept DEF IInv
<1>9. CASE frame_count = 1
  <2>1. /\ stack' = new_stack /\ stack_top' = frame.slots + 1
        /\ pc' = "idle" /\ result' = "OK" /\ UNCHANGED pushed
    BY <1>9 DEF Return
  <2>2. StackTyped' /\ StackInUse' /\ ProgramRuns' /\ WindowsMatch'
    BY <1>3, <1>5, <2>1, StackNotEmpty
       DEF IInv, StackTyped, StackInUse, ProgramRuns, WindowsMatch
  <2>3. QED
    BY <1>7, <1>8, <2>2 DEF IInv
<1>10. CASE frame_count > 1
  <2>1. EndIteration(new_stack, frame.slots + 1) /\ pushed' = Peek(0)
    BY <1>2, <1>10 DEF Return
  <2>2. frame.slots + 1 \in Nat /\ (frame.slots + 1) - 1 = frame.slots /\ frame.slots \in Nat
    BY <1>2 DEF CallFrame
  <2>3. ASSUME NEW s \in 0 .. (frame.slots + 1) - 1, s \in Slots
        PROVE  Good(new_stack[s], heap')
    <3>1. s \in 0 .. stack_top - 1
      BY <1>3, <2>2, <2>3, StackNotEmpty
    <3>2. QED
      BY <1>1, <1>3, <1>4, <2>3, <3>1
  <2>4. StackTyped' /\ StackInUse' /\ (pc' = "running" => stack_top' = frame.slots + 1)
    <3> HIDE DEF new_stack
    <3>1. QED
      BY <1>1, <1>4, <1>5, <2>1, <2>2, <2>3, EndKeepsValues
  <2>5. /\ frames[0].slots = 0
        /\ \A n \in 0 .. frame_count - 1 : frames[n].ip \in DOMAIN frames[n].function.height
        /\ \A n \in 0 .. frame_count - 2 : frames[n + 1].slots + 1 = frames[n].slots + HeightOf(n)
        /\ \A n \in 0 .. frame_count - 1 : frames[n].function \in Functions
    BY <1>1 DEF IInv, WindowsMatch, ProgramRuns
  <2>6. /\ frame_count' >= 1 /\ caller = frame_count' - 1
        /\ caller \in 0 .. frame_count - 2 /\ caller + 1 = frame_count - 1
        /\ 0 \in 0 .. frame_count - 2
        /\ frame_count' - 1 = frame_count - 2
    BY <1>1, <1>2, <1>10
  <2>7. \A n \in 0 .. frame_count - 2 : HeightOf(n)' = HeightOf(n)
    BY <1>6 DEF HeightOf
  <2>8. ProgramRuns'
    <3>1. \A n \in 0 .. frame_count - 2 : frames'[n].function \in Functions
      BY <1>2, <1>6, <2>5
    <3>2. QED
      BY <2>6, <3>1 DEF ProgramRuns
  <2>9. frame.slots + 1 = frames'[caller].slots + HeightOf(frame_count - 1)'
    <3>1. frames[caller + 1].slots + 1 = frames[caller].slots + HeightOf(caller)
      BY <2>5, <2>6
    <3>2. frames[caller + 1] = frame
      BY <2>6 DEF frame
    <3>3. frames'[caller] = frames[caller]
      BY <1>6, <2>6
    <3>4. HeightOf(frame_count - 1)' = HeightOf(caller)
      BY <2>6, <3>3 DEF HeightOf
    <3>5. QED
      BY <3>1, <3>2, <3>3, <3>4
  <2>10. /\ \A n \in 0 .. frame_count' - 1 : frames'[n].ip \in DOMAIN frames'[n].function.height
         /\ \A n \in 0 .. frame_count' - 2 : frames'[n + 1].slots + 1 = frames'[n].slots + HeightOf(n)'
    <3>1. \A n \in 0 .. frame_count' - 1 : n \in 0 .. frame_count - 2 /\ n \in 0 .. frame_count - 1
      BY <1>1, <1>2
    <3>2. \A n \in 0 .. frame_count' - 2 : n \in 0 .. frame_count - 2 /\ n + 1 \in 0 .. frame_count - 2
      BY <1>1, <1>2
    <3>3. QED
      BY <1>6, <2>5, <2>7, <3>1, <3>2
  <2>11. WindowsMatch'
    <3>1. frame_count' >= 1 /\ frames'[0].slots = 0
      BY <1>6, <2>5, <2>6
    <3>2. pc' = "running" => stack_top' = frames'[frame_count' - 1].slots + HeightOf(frame_count - 1)'
      BY <2>4, <2>6, <2>9
    <3>3. QED
      BY <2>10, <3>1, <3>2 DEF WindowsMatch
  <2>12. QED
    BY <1>7, <1>8, <2>4, <2>8, <2>11 DEF IInv
<1>11. QED
  BY <1>2, <1>9, <1>10

\* A script begins with itself in slot 0 of an empty stack.
LEMMA InterpretStep ==
  ASSUME IInv, NEW script \in Scripts, Interpret(script)
  PROVE  IInv'
<1> DEFINE fn == Program[script]
<1>1. /\ sessions < MaxSessions /\ sessions' = sessions + 1
      /\ stack' = [stack EXCEPT ![0] = Function(script)] /\ stack_top' = 1
      /\ frames' = [frames EXCEPT ![0] = Frame(fn, 0)] /\ frame_count' = 1
      /\ pushed' = Function(script) /\ pc' = "running"
      /\ UNCHANGED <<globals, heap, result>>
  BY DEF Interpret, BeginInterpret, global_vars
<1>2. /\ script \in DOMAIN Program /\ script \in Nat /\ fn \in Functions
      /\ 0 \in DOMAIN fn.height /\ fn.height[0] = 1
  BY ProgramAssumption DEF Scripts, WellFormed, WellFormedFunction, Functions
<1>3. Good(Function(script), heap) /\ Function(script) \in Value
  BY <1>2 DEF Good, Function, Value, Types, ObjectTypes
<1>4. stack \in [Slots -> Value] /\ 0 \in Slots
  BY StackNotEmpty DEF IInv, StackTyped, Slots
<1>5. stack' \in [Slots -> Value] /\ stack'[0] = Function(script)
  BY <1>1, <1>3, <1>4
<1>6. StackTyped' /\ StackInUse'
  <2>1. StackTyped'
    BY <1>1, <1>3, <1>5 DEF IInv, StackTyped
  <2>2. stack_top' \in 1 .. VM_STACK_MAX /\ \A s \in 0 .. stack_top' - 1 : s = 0
    BY <1>1, StackNotEmpty
  <2>3. QED
    BY <1>1, <1>3, <1>5, <2>1, <2>2 DEF StackInUse
<1> HIDE DEF fn
<1>7. /\ frames' \in [0 .. VM_FRAMES_MAX - 1 -> CallFrame]
      /\ frames'[0] = [function |-> fn, ip |-> 0, slots |-> 0]
  <2>1. frames \in [0 .. VM_FRAMES_MAX - 1 -> CallFrame] /\ 0 \in 0 .. VM_FRAMES_MAX - 1
    BY FramesAssumption DEF IInv, FramesTyped
  <2>2. Frame(fn, 0) = [function |-> fn, ip |-> 0, slots |-> 0] /\ Frame(fn, 0) \in CallFrame
    BY <1>2 DEF Frame, CallFrame
  <2>3. QED
    BY <1>1, <2>1, <2>2
<1>8. FramesTyped'
  BY <1>1, <1>7, FramesAssumption DEF FramesTyped
<1>9. ProgramRuns' /\ WindowsMatch'
  <2>1. \A n \in 0 .. frame_count' - 1 : n = 0
    BY <1>1
  <2>2. \A n \in 0 .. frame_count' - 2 : FALSE
    BY <1>1
  <2>3. ProgramRuns'
    BY <1>2, <1>7, <2>1 DEF ProgramRuns
  <2>4. /\ frame_count' >= 1 /\ frames'[0].slots = 0 /\ frame_count' - 1 = 0
        /\ stack_top' = frames'[0].slots + fn.height[0]
        /\ frames'[0].function = fn /\ frames'[0].ip = 0
    BY <1>1, <1>2, <1>7
  <2>5. QED
    BY <1>2, <2>1, <2>2, <2>3, <2>4 DEF WindowsMatch, HeightOf
<1>10. sessions' \in 0 .. MaxSessions
  BY <1>1, SessionsAssumption DEF IInv
<1>11. GoodGlobals' /\ GoodHeap(heap')
  BY <1>1, HeapSame, GlobalsKept DEF IInv
<1>12. QED
  BY <1>6, <1>8, <1>9, <1>10, <1>11 DEF IInv

\* Nothing runs after source that does not compile.
LEMMA CompileErrorStep ==
  ASSUME IInv, CompileError
  PROVE  IInv'
<1>1. /\ pc = "idle" /\ sessions < MaxSessions /\ sessions' = sessions + 1
      /\ stack_top' = 0 /\ frame_count' = 0 /\ result' = "COMPILE_ERROR"
      /\ UNCHANGED <<stack, frames, globals, heap, pc, pushed>>
  BY DEF CompileError, BeginInterpret, global_vars
<1>2. StackTyped' /\ FramesTyped'
  BY <1>1, FramesAssumption DEF IInv, StackTyped, FramesTyped
<1>3. StackInUse' /\ ProgramRuns' /\ WindowsMatch'
  BY <1>1 DEF StackInUse, ProgramRuns, WindowsMatch
<1>4. sessions' \in 0 .. MaxSessions
  BY <1>1, SessionsAssumption DEF IInv
<1>5. GoodGlobals' /\ GoodHeap(heap')
  BY <1>1, HeapSame, GlobalsKept DEF IInv
<1>6. QED
  BY <1>2, <1>3, <1>4, <1>5 DEF IInv

\* A step that changes nothing.
LEMMA Stutter ==
  ASSUME IInv, UNCHANGED vars
  PROVE  IInv'
<1>1. /\ UNCHANGED <<stack, stack_top, frames, frame_count, globals, heap, pc>>
      /\ UNCHANGED <<result, sessions, pushed>>
  BY DEF vars
<1>2. StackTyped' /\ FramesTyped' /\ sessions' \in 0 .. MaxSessions
  BY <1>1 DEF IInv, StackTyped, FramesTyped
<1>3. GoodHeap(heap') /\ GoodGlobals' /\ StackInUse' /\ ProgramRuns'
  BY <1>1 DEF IInv, GoodGlobals, StackInUse, ProgramRuns
<1>4. WindowsMatch'
  BY <1>1 DEF IInv, WindowsMatch, HeightOf
<1>5. QED
  BY <1>2, <1>3, <1>4 DEF IInv
-----------------------------------------------------------------------------
(* The invariant holds. *)

LEMMA InitIInv ==
  ASSUME Init
  PROVE  IInv
<1>1. Zeroed \in Value
  BY DEF Zeroed, CFunction, Value, Types
<1>2. StackTyped /\ sessions \in 0 .. MaxSessions
  BY <1>1, SessionsAssumption DEF Init, StackTyped
<1>3. FramesTyped
  BY FramesAssumption DEF Init, FramesTyped, Frame, CallFrame
<1>4. GoodHeap(heap)
  BY BoundsAssumption DEF Init, GoodHeap
<1>5. GoodGlobals
  <2>1. ASSUME NEW c \in DOMAIN Builtins
        PROVE  [value |-> CFunction(c), read_only |-> FALSE] \in G!Bindings
               /\ Good(CFunction(c), heap)
    BY DEF Builtins, CFunction, G!Bindings, Good, Value, Types
  <2>2. QED
    BY <2>1 DEF Init, GoodGlobals
<1>6. StackInUse /\ ProgramRuns /\ WindowsMatch
  BY DEF Init, StackInUse, ProgramRuns, WindowsMatch
<1>7. QED
  BY <1>2, <1>3, <1>4, <1>5, <1>6 DEF IInv

LEMMA NextIInv ==
  ASSUME IInv, [Next]_vars
  PROVE  IInv'
<1>1. CASE \E script \in Scripts : Interpret(script)
  BY <1>1, InterpretStep
<1>2. CASE CompileError
  BY <1>2, CompileErrorStep
<1>3. CASE Step
  <2>1. CASE Return \/ Pop \/ Jump
    BY <2>1, ReturnStep, PopStep, JumpStep
  <2>2. CASE DeclGlobal \/ GetGlobal \/ SetGlobal \/ GetLocal \/ SetLocal
    BY <2>2, DeclGlobalStep, GetGlobalStep, SetGlobalStep, GetLocalStep, SetLocalStep
  <2>3. CASE Constant \/ Literal \/ Unary \/ Binary
    BY <2>3, ConstantStep, LiteralStep, UnaryStep, BinaryStep
  <2>4. CASE SubscriptGet \/ SubscriptSet \/ MakeArray
    BY <2>4, SubscriptGetStep, SubscriptSetStep, MakeArrayStep
  <2>5. CASE CallNative \/ CallFunction \/ CallRefused
    BY <2>5, CallNativeStep, CallFunctionStep, CallRefusedStep
  <2>6. QED
    BY <1>3, <2>1, <2>2, <2>3, <2>4, <2>5 DEF Step
<1>4. CASE UNCHANGED vars
  BY <1>4, Stutter
<1>5. QED
  BY <1>1, <1>2, <1>3, <1>4 DEF Next

\* The inductive invariant holds of every run of every well-formed program.
THEOREM Invariant == Spec => []IInv
BY InitIInv, NextIInv, PTL DEF Spec

\* Every variable of the machine keeps its type; in particular an instruction
\* pointer never leaves the natural numbers and the call stack its array.
THEOREM TypeCorrect == Spec => []TypeOK
<1>1. IInv => TypeOK
  <2>1. IInv => \A n \in 0 .. VM_FRAMES_MAX - 1 : frames[n].ip \in Nat /\ frames[n].slots \in Nat
    BY DEF IInv, FramesTyped, CallFrame
  <2>2. QED
    BY <2>1 DEF IInv, StackTyped, FramesTyped, GoodHeap, GoodGlobals, TypeOK
<1>2. QED
  BY <1>1, Invariant, PTL

\* The windows of the calls always match the stack: the bytecode finds its
\* locals and its operands where the compiler put them, at every depth of calls.
THEOREM WindowsMatchHolds == Spec => []WindowsMatch
<1>1. IInv => WindowsMatch
  BY DEF IInv
<1>2. QED
  BY <1>1, Invariant, PTL

\* No error is ever left on the stack below the top, in a variable or in an
\* array, and nothing refers to an array or a function that was not made.
THEOREM ErrorsDoNotEscapeHolds == Spec => []ErrorsDoNotEscape
<1>1. IInv => ErrorsDoNotEscape
  <2>1. \A v : Good(v, heap) => Sound(v)
    BY DEF Good, Sound
  <2>2. QED
    BY <2>1 DEF IInv, StackInUse, GoodGlobals, GoodHeap, ErrorsDoNotEscape
<1>2. QED
  BY <1>1, Invariant, PTL
-----------------------------------------------------------------------------
(***************************************************************************)
(* More about the windows of calls, on top of the invariant: no step       *)
(* reaches below the window of the call that runs, the function that is    *)
(* called stays at its bottom, a program whose calls keep to their share   *)
(* of the stack never leaves it, and constants are kept.                   *)
(***************************************************************************)

\* The stack keeps everything below low.
KeepsBelow(low) == \A s \in Slots : s < low => stack'[s] = stack[s]

\* The new top is no higher than one above the old one.
RisesByOne == stack_top' <= stack_top + 1

\* The step goes on in the same call.
SameCalls ==
    /\ frame_count' = frame_count
    /\ \E next : Goto(next)

\* Nothing at or below the bottom of the window is written, in the same call.
Stays == KeepsBelow(frame.slots + 1) /\ RisesByOne /\ SameCalls

\* What ends an iteration writes is the stack it was given, or one value less.
LEMMA EndShape ==
  ASSUME NEW new_stack, NEW new_top \in Int, EndIteration(new_stack, new_top)
  PROVE  stack' = new_stack /\ stack_top' <= new_top
BY DEF EndIteration

LEMMA PopAndPushShape ==
  ASSUME IInv, pc = "running", NEW n \in Nat, frame.slots + n < stack_top,
         NEW v, PopAndPush(n, v)
  PROVE  KeepsBelow(frame.slots + 1) /\ RisesByOne
<1>1. stack_top \in Nat /\ stack \in [Slots -> Value] /\ frame.slots \in Nat
  BY CodeFacts DEF IInv, StackTyped, CallFrame
<1>2. CASE v = Undefined
  <2>1. UNCHANGED <<stack, stack_top>>
    BY <1>2 DEF PopAndPush, stack_vars
  <2>2. QED
    BY <1>1, <2>1 DEF KeepsBelow, RisesByOne
<1>3. CASE v # Undefined
  <2>1. EndIteration([stack EXCEPT ![stack_top - n] = v], stack_top - n + 1)
    BY <1>3 DEF PopAndPush
  <2>2. stack' = [stack EXCEPT ![stack_top - n] = v] /\ stack_top' <= stack_top - n + 1
        /\ stack_top' \in Int
    BY <1>1, <2>1, EndShape DEF EndIteration
  <2>3. \A s \in Slots : s < frame.slots + 1 => s # stack_top - n
    BY <1>1, StackNotEmpty DEF Slots
  <2>4. QED
    BY <1>1, <2>2, <2>3 DEF KeepsBelow, RisesByOne
<1>4. QED
  BY <1>2, <1>3

LEMMA PopOnlyShape ==
  ASSUME IInv, NEW n \in Nat, PopOnly(n)
  PROVE  stack' = stack /\ RisesByOne
<1>1. stack_top \in Nat
  BY DEF IInv, StackTyped
<1>2. stack' = stack /\ stack_top' <= stack_top - n /\ stack_top' \in Int
  BY <1>1, EndShape DEF PopOnly, EndIteration
<1>3. QED
  BY <1>1, <1>2 DEF RisesByOne

\* The step that calls a function of the program: its window begins at the
\* function, above the bottom of the caller's.
EntersAt(next, first, f) ==
    /\ first > frame.slots /\ first < stack_top
    /\ stack' = stack /\ stack[first] = Function(f)
    /\ frames' = [frames EXCEPT ![frame_count - 1].ip = next,
                                ![frame_count] = Frame(Program[f], first)]

Enters ==
    /\ KeepsBelow(frame.slots + 1) /\ RisesByOne
    /\ frame_count < VM_FRAMES_MAX /\ frame_count' = frame_count + 1
    /\ \E next, first \in Nat, f \in DOMAIN Program : EntersAt(next, first, f)

\* The step that returns.
Leaves ==
    /\ KeepsBelow(frame.slots) /\ RisesByOne
    /\ frame_count' = frame_count - 1
    /\ \E next : Goto(next)

\* An instruction that takes what it may take and puts a value stays.
LEMMA PutStays ==
  ASSUME IInv, pc = "running", OpAt(fun, ip) # "RETURN", NEW n \in Nat, n <= Pops(fun, ip),
         NEW v, PopAndPush(n, v), GoOn
  PROVE  Stays
<1>1. frame.slots + n < stack_top
  <2>1. stack_top \in Nat /\ frame.slots \in Nat
    BY CodeFacts DEF IInv, StackTyped, CallFrame
  <2>2. QED
    BY <2>1, EnoughOnStack
<1>2. QED
  BY <1>1, PopAndPushShape DEF Stays, SameCalls, GoOn

LEMMA TakeStays ==
  ASSUME IInv, NEW n \in Nat, PopOnly(n), NEW next, Goto(next), UNCHANGED frame_count
  PROVE  Stays
BY PopOnlyShape DEF Stays, SameCalls, KeepsBelow

\* Instructions that put one value for what they take.
LEMMA PlainStays ==
  ASSUME IInv, Literal \/ Constant \/ GetLocal \/ Unary \/ Binary \/ SubscriptGet
  PROVE  Stays
<1>1. CASE Literal \/ Constant \/ GetLocal
  <2>1. pc = "running" /\ GoOn /\ \E v : PopAndPush(0, v)
    BY <1>1 DEF Literal, Constant, GetLocal, Fetch, Simple
  <2>2. Pops(fun, ip) = 0 /\ OpAt(fun, ip) # "RETURN"
    BY <1>1, TakesNone DEF Literal, Constant, GetLocal, Fetch
  <2>3. 0 \in Nat /\ 0 <= Pops(fun, ip)
    BY <2>2
  <2>4. QED
    BY <2>1, <2>2, <2>3, PutStays
<1>2. CASE Unary
  <2>1. pc = "running" /\ OpAt(fun, ip) \in UnaryOps /\ GoOn /\ \E v : PopAndPush(1, v)
    BY <1>2 DEF Unary, Fetch, Simple
  <2>2. Pops(fun, ip) = 1 /\ OpAt(fun, ip) # "RETURN"
    BY <2>1, Taken DEF UnaryOps
  <2>3. 1 \in Nat /\ 1 <= Pops(fun, ip)
    BY <2>2
  <2>4. QED
    BY <2>1, <2>2, <2>3, PutStays
<1>3. CASE Binary \/ SubscriptGet
  <2>1. pc = "running" /\ OpAt(fun, ip) \in BinaryOps \cup {"SUBSCRIPT_GET"} /\ GoOn
        /\ \E v : PopAndPush(2, v)
    BY <1>3 DEF Binary, SubscriptGet, Fetch, Simple
  <2>2. Pops(fun, ip) = 2 /\ OpAt(fun, ip) # "RETURN"
    BY <2>1, Taken DEF BinaryOps
  <2>3. 2 \in Nat /\ 2 <= Pops(fun, ip)
    BY <2>2
  <2>4. QED
    BY <2>1, <2>2, <2>3, PutStays
<1>4. QED
  BY <1>1, <1>2, <1>3

\* Instructions on variables.
LEMMA VariableStays ==
  ASSUME IInv, DeclGlobal \/ GetGlobal \/ SetGlobal \/ SetLocal
  PROVE  Stays
<1>1. CASE SetLocal
  <2> DEFINE place == frame.slots + Operand(fun, ip)
  <2>1. /\ pc = "running" /\ OpAt(fun, ip) = "SET_LOCAL" /\ GoOn
        /\ EndIteration([stack EXCEPT ![place] = Peek(0)], stack_top)
    BY <1>1 DEF SetLocal, Fetch
  <2>2. stack_top \in Nat /\ stack \in [Slots -> Value] /\ frame.slots \in Nat
        /\ WellFormedAt(fun, ip) /\ fun.height[ip] \in Nat
    BY <2>1, CodeFacts DEF IInv, StackTyped, CallFrame
  <2>3. Operand(fun, ip) \in 1 .. fun.height[ip] - Pops(fun, ip) - 1 /\ Pops(fun, ip) \in Nat
    BY <2>1, <2>2, PopsNat DEF WellFormedAt, OperandFits
  <2>4. \A s \in Slots : s < frame.slots + 1 => s # place
    BY <2>2, <2>3, StackNotEmpty DEF Slots
  <2>5. stack' = [stack EXCEPT ![place] = Peek(0)] /\ stack_top' <= stack_top /\ stack_top' \in Int
    BY <2>1, <2>2, EndShape DEF EndIteration
  <2>6. QED
    BY <2>1, <2>2, <2>4, <2>5 DEF Stays, KeepsBelow, RisesByOne, SameCalls, GoOn
<1>2. CASE DeclGlobal
  <2>1. pc = "running" /\ OpAt(fun, ip) \in DeclGlobalOps /\ GoOn
    BY <1>2 DEF DeclGlobal, Fetch
  <2>2. Pops(fun, ip) = 1 /\ OpAt(fun, ip) # "RETURN"
    BY <2>1 DEF Pops, DeclGlobalOps
  <2>3. 1 \in Nat /\ 1 <= Pops(fun, ip)
    BY <2>2
  <2>4. PopOnly(1) \/ PopAndPush(1, Error)
    BY <1>2 DEF DeclGlobal
  <2>5. QED
    BY <2>1, <2>2, <2>3, <2>4, PutStays, TakeStays DEF GoOn
<1>3. CASE GetGlobal \/ SetGlobal
  <2>1. /\ pc = "running" /\ OpAt(fun, ip) \in GetGlobalOps \cup SetGlobalOps /\ GoOn
        /\ PopOnly(0) \/ \E v : PopAndPush(0, v)
    BY <1>3 DEF GetGlobal, SetGlobal, Fetch
  <2>2. OpAt(fun, ip) # "RETURN" /\ Pops(fun, ip) \in Nat
    BY <2>1, EnoughOnStack DEF GetGlobalOps, SetGlobalOps
  <2>3. 0 \in Nat /\ 0 <= Pops(fun, ip)
    BY <2>2
  <2>4. QED
    BY <2>1, <2>2, <2>3, PutStays, TakeStays DEF GoOn
<1>4. QED
  BY <1>1, <1>2, <1>3

\* Calls that make no frame, and arrays.
LEMMA NativeStays ==
  ASSUME IInv, CallNative \/ CallRefused \/ MakeArray \/ SubscriptSet
  PROVE  Stays
<1>1. CASE CallNative \/ CallRefused
  <2>1. /\ pc = "running" /\ OpAt(fun, ip) = "CALL" /\ GoOn
        /\ \E n \in {0, Argc + 1} : \E v : PopAndPush(n, v)
    BY <1>1 DEF CallNative, CallRefused, Fetch, Simple
  <2>2. Pops(fun, ip) = Argc + 1 /\ Argc \in Nat
    BY <2>1, CallFacts
  <2>3. \A n \in {0, Argc + 1} : n \in Nat /\ n <= Pops(fun, ip)
    BY <2>2
  <2>4. QED
    BY <2>1, <2>3, PutStays
<1>2. CASE MakeArray \/ SubscriptSet
  <2>1. /\ pc = "running" /\ OpAt(fun, ip) \in {"ARRAY", "SUBSCRIPT_SET"} /\ GoOn
        /\ \E v : PopAndPush(Pops(fun, ip), v)
    BY <1>2, Taken DEF MakeArray, SubscriptSet, Fetch
  <2>2. Pops(fun, ip) \in Nat /\ Pops(fun, ip) <= Pops(fun, ip)
    BY <2>1, EnoughOnStack
  <2>3. QED
    BY <2>1, <2>2, PutStays
<1>3. QED
  BY <1>1, <1>2

LEMMA CallEnters ==
  ASSUME IInv, CallFunction
  PROVE  Enters
<1> DEFINE first == stack_top - (Argc + 1)
           next == NextOffset(fun, ip)
           f == Callee.as
<1>1. /\ pc = "running" /\ OpAt(fun, ip) = "CALL" /\ Callee.type = "FUNCTION"
      /\ frame_count < VM_FRAMES_MAX /\ frame_count' = frame_count + 1
      /\ frames' = [frames EXCEPT ![frame_count - 1].ip = next,
                                  ![frame_count] = Frame(Program[f], first)]
      /\ PopOnly(0)
  BY DEF CallFunction, Fetch
<1>2. /\ Argc \in Nat /\ frame.slots + Argc + 1 < stack_top /\ f \in DOMAIN Program
      /\ Callee = Function(f)
  <2>1. /\ Argc \in Nat /\ frame.slots + Argc + 1 < stack_top /\ f \in DOMAIN Program
        /\ Callee \in Value
    BY <1>1, CallFacts DEF Good
  <2>2. QED
    BY <1>1, <2>1 DEF Value, Function
<1>3. stack_top \in Nat /\ frame.slots \in Nat
  BY <1>1, CodeFacts DEF IInv, StackTyped, CallFrame
<1>4. first \in Nat /\ first > frame.slots /\ first < stack_top
  BY <1>2, <1>3
<1>5. stack[first] = Function(f)
  <2>1. stack_top - 1 - Argc = first
    BY <1>2, <1>3
  <2>2. QED
    BY <1>2, <2>1 DEF Callee, Peek
<1>6. stack' = stack /\ RisesByOne
  BY <1>1, PopOnlyShape
<1>7. KeepsBelow(frame.slots + 1)
  BY <1>6 DEF KeepsBelow
<1> HIDE DEF first, next, f
<1>8. EntersAt(next, first, f)
  BY <1>1, <1>4, <1>5, <1>6 DEF EntersAt
<1>9. next \in Nat
  BY <1>1, EnoughOnStack DEF next
<1>10. QED
  BY <1>1, <1>2, <1>4, <1>6, <1>7, <1>8, <1>9 DEF Enters

LEMMA ReturnLeaves ==
  ASSUME IInv, Return
  PROVE  Leaves
<1> DEFINE new_stack == [stack EXCEPT ![frame.slots] = Peek(0)]
<1>1. /\ pc = "running" /\ frame_count' = frame_count - 1 /\ \E next : Goto(next)
  BY DEF Return, Fetch
<1>2. /\ stack_top \in Nat /\ frame.slots \in Nat /\ stack \in [Slots -> Value]
      /\ frame.slots < stack_top
  BY <1>1, CodeFacts DEF IInv, StackTyped, CallFrame
<1>3. stack' = new_stack /\ stack_top' <= frame.slots + 1 /\ stack_top' \in Int
  <2>1. \/ stack' = new_stack /\ stack_top' = frame.slots + 1
        \/ EndIteration(new_stack, frame.slots + 1)
    BY DEF Return
  <2>2. CASE EndIteration(new_stack, frame.slots + 1)
    BY <1>2, <2>2, EndShape DEF EndIteration
  <2>3. QED
    BY <1>2, <2>1, <2>2
<1>4. QED
  BY <1>1, <1>2, <1>3 DEF Leaves, KeepsBelow, RisesByOne

\* Every step of a script is one of the three.
LEMMA StepShape ==
  ASSUME IInv, Step
  PROVE  pc = "running" /\ (Stays \/ Enters \/ Leaves)
<1>1. CASE Pop \/ Jump
  <2>1. UNCHANGED frame_count /\ \E n \in {0, 1} : PopOnly(n)
    BY <1>1 DEF Pop, Jump, GoOn
  <2>2. \E next : Goto(next)
    BY <1>1 DEF Pop, Jump, GoOn
  <2>3. 0 \in Nat /\ 1 \in Nat
    OBVIOUS
  <2>4. QED
    BY <1>1, <2>1, <2>2, <2>3, TakeStays DEF Pop, Jump, Fetch
<1>2. CASE Literal \/ Constant \/ GetLocal \/ Unary \/ Binary \/ SubscriptGet
  BY <1>2, PlainStays DEF Literal, Constant, GetLocal, Unary, Binary, SubscriptGet, Fetch
<1>3. CASE DeclGlobal \/ GetGlobal \/ SetGlobal \/ SetLocal
  BY <1>3, VariableStays DEF DeclGlobal, GetGlobal, SetGlobal, SetLocal, Fetch
<1>4. CASE CallNative \/ CallRefused \/ MakeArray \/ SubscriptSet
  BY <1>4, NativeStays DEF CallNative, CallRefused, MakeArray, SubscriptSet, Fetch
<1>5. CASE CallFunction
  BY <1>5, CallEnters DEF CallFunction, Fetch
<1>6. CASE Return
  BY <1>6, ReturnLeaves DEF Return, Fetch
<1>7. QED
  BY <1>1, <1>2, <1>3, <1>4, <1>5, <1>6 DEF Step
-----------------------------------------------------------------------------
(* Callers. *)

\* A step changes the instruction pointer of the last call and nothing else of
\* the calls that go on.
LEMMA GotoShape ==
  ASSUME IInv, pc = "running", NEW next, Goto(next)
  PROVE  /\ \A n \in 0 .. frame_count - 2 : frames'[n] = frames[n]
         /\ \A n \in 0 .. frame_count - 1 : /\ frames'[n].slots = frames[n].slots
                                            /\ frames'[n].function = frames[n].function
<1>1. /\ frames \in [0 .. VM_FRAMES_MAX - 1 -> CallFrame] /\ frame_count \in 1 .. VM_FRAMES_MAX
      /\ VM_FRAMES_MAX \in Nat
      /\ frames' = [frames EXCEPT ![frame_count - 1].ip = next]
  BY CodeFacts, FramesAssumption DEF IInv, FramesTyped, Goto
<1>2. ASSUME NEW n \in 0 .. frame_count - 2
      PROVE  frames'[n] = frames[n]
  <2>1. n # frame_count - 1 /\ n \in 0 .. VM_FRAMES_MAX - 1
    BY <1>1
  <2>2. QED
    BY <1>1, <2>1
<1>3. ASSUME NEW n \in 0 .. frame_count - 1
      PROVE  frames'[n].slots = frames[n].slots /\ frames'[n].function = frames[n].function
  <2>1. n \in 0 .. VM_FRAMES_MAX - 1 /\ frames[n] \in CallFrame
    BY <1>1
  <2>2. QED
    BY <1>1, <2>1 DEF CallFrame
<1>4. QED
  BY <1>2, <1>3

LEMMA EnterShape ==
  ASSUME IInv, pc = "running", frame_count < VM_FRAMES_MAX, NEW next, NEW first, NEW fn,
         frames' = [frames EXCEPT ![frame_count - 1].ip = next,
                                  ![frame_count] = Frame(fn, first)]
  PROVE  /\ \A n \in 0 .. frame_count - 2 : frames'[n] = frames[n]
         /\ \A n \in 0 .. frame_count - 1 : /\ frames'[n].slots = frames[n].slots
                                            /\ frames'[n].function = frames[n].function
         /\ frames'[frame_count].slots = first /\ frames'[frame_count].function = fn
<1>1. /\ frames \in [0 .. VM_FRAMES_MAX - 1 -> CallFrame] /\ frame_count \in 1 .. VM_FRAMES_MAX - 1
      /\ VM_FRAMES_MAX \in Nat
  BY CodeFacts, FramesAssumption DEF IInv, FramesTyped
<1> DEFINE between == [frames EXCEPT ![frame_count - 1].ip = next]
<1>2. frames' = [between EXCEPT ![frame_count] = Frame(fn, first)]
  OBVIOUS
<1>3. DOMAIN between = 0 .. VM_FRAMES_MAX - 1
  BY <1>1
<1>4. ASSUME NEW n \in 0 .. frame_count - 1
      PROVE  /\ n # frame_count - 1 => between[n] = frames[n]
             /\ between[n].slots = frames[n].slots /\ between[n].function = frames[n].function
  <2>1. n \in 0 .. VM_FRAMES_MAX - 1 /\ frames[n] \in CallFrame
    BY <1>1
  <2>2. QED
    BY <1>1, <2>1 DEF CallFrame
<1> HIDE DEF between
<1>5. ASSUME NEW n \in 0 .. frame_count - 1
      PROVE  frames'[n] = between[n]
  <2>1. n # frame_count /\ n \in 0 .. VM_FRAMES_MAX - 1
    BY <1>1
  <2>2. QED
    BY <1>2, <1>3, <2>1
<1>6. frames'[frame_count] = Frame(fn, first)
  BY <1>1, <1>2, <1>3
<1>7. ASSUME NEW n \in 0 .. frame_count - 2
      PROVE  frames'[n] = frames[n]
  <2>1. n # frame_count - 1 /\ n \in 0 .. frame_count - 1
    BY <1>1
  <2>2. QED
    BY <1>4, <1>5, <2>1
<1>8. frames'[frame_count].slots = first /\ frames'[frame_count].function = fn
  BY <1>6 DEF Frame
<1>9. \A n \in 0 .. frame_count - 1 : /\ frames'[n].slots = frames[n].slots
                                       /\ frames'[n].function = frames[n].function
  BY <1>4, <1>5
<1>10. QED
  BY <1>7, <1>8, <1>9

\* A step leaves the values and the frames of the callers alone, whatever the
\* instruction: neither a wrong slot nor a return can reach them.
THEOREM CallersUntouchedHolds == Spec => CallersUntouched
<1> DEFINE Untouched == pc = "running" =>
              /\ \A s \in 0 .. frame.slots - 1 : stack'[s] = stack[s]
              /\ \A n \in 0 .. frame_count - 2 : frames'[n] = frames[n]
<1>1. ASSUME IInv, Next
      PROVE  Untouched
  <2>1. CASE pc = "running"
    <3>1. Step
      BY <1>1, <2>1 DEF Next, Interpret, CompileError, BeginInterpret
    <3>2. KeepsBelow(frame.slots)
      <4>1. CASE Leaves
        BY <4>1 DEF Leaves
      <4>2. CASE Stays \/ Enters
        <5>1. frame.slots \in Nat
          BY <1>1, <2>1, CodeFacts DEF CallFrame
        <5>2. QED
          BY <4>2, <5>1, StackNotEmpty DEF Stays, Enters, KeepsBelow, Slots
      <4>3. QED
        BY <1>1, <3>1, <4>1, <4>2, StepShape
    <3>3. \A n \in 0 .. frame_count - 2 : frames'[n] = frames[n]
      <4>1. CASE Stays \/ Leaves
        BY <1>1, <2>1, <4>1, GotoShape DEF Stays, Leaves, SameCalls
      <4>2. CASE Enters
        BY <1>1, <2>1, <4>2, EnterShape DEF Enters, EntersAt
      <4>3. QED
        BY <1>1, <3>1, <4>1, <4>2, StepShape
    <3>4. \A s \in 0 .. frame.slots - 1 : s \in Slots /\ s < frame.slots
      <4>1. frame.slots \in Nat /\ stack_top \in 1 .. VM_STACK_MAX /\ frame.slots < stack_top
        BY <1>1, <2>1, CodeFacts DEF CallFrame, IInv, StackInUse
      <4>2. QED
        BY <4>1, StackNotEmpty DEF Slots
    <3>5. QED
      BY <3>2, <3>3, <3>4 DEF KeepsBelow
  <2>2. QED
    BY <2>1
<1>2. ASSUME IInv, UNCHANGED vars
      PROVE  Untouched
  BY <1>2 DEF vars
<1>3. IInv /\ [Next]_vars => [Untouched]_vars
  BY <1>1, <1>2
<1>4. QED
  BY <1>3, Invariant, PTL DEF Spec, CallersUntouched
-----------------------------------------------------------------------------
(* The bottom of the windows. *)

\* Every window begins above those of the callers.
Nested ==
    pc = "running" =>
        \A n \in 0 .. frame_count - 1 : \A m \in 0 .. n - 1 : frames[m].slots < frames[n].slots

\* And within what the calls below it may use.
Share == UINT8_MAX - 1
WithinShares ==
    FitsWindows(Program) /\ pc = "running" =>
        \A n \in 0 .. frame_count - 1 : frames[n].slots <= n * Share

WInv == IInv /\ Nested /\ WithinShares /\ CalleeInSlotZero

\* Where the windows begin.
LEMMA Bottoms ==
  ASSUME IInv, Nested, pc = "running"
  PROVE  /\ frame_count \in Nat /\ frame_count >= 1
         /\ \A n \in 0 .. frame_count - 1 : frames[n].slots \in Slots /\ frames[n].slots <= frame.slots
         /\ \A n \in 0 .. frame_count - 2 : frames[n].slots < frame.slots
<1>1. /\ frame_count \in 1 .. VM_FRAMES_MAX /\ VM_FRAMES_MAX \in Nat
      /\ frames \in [0 .. VM_FRAMES_MAX - 1 -> CallFrame] /\ frame.slots \in Nat
      /\ stack_top \in 1 .. VM_STACK_MAX /\ frame.slots < stack_top
  BY CodeFacts, FramesAssumption DEF IInv, FramesTyped, CallFrame, StackInUse
<1>2. \A n \in 0 .. frame_count - 2 : frames[n].slots < frame.slots
  BY <1>1 DEF Nested, frame
<1>3. ASSUME NEW n \in 0 .. frame_count - 1
      PROVE  frames[n].slots \in Nat /\ frames[n].slots <= frame.slots
  <2>1. n \in 0 .. VM_FRAMES_MAX - 1 /\ (n = frame_count - 1 \/ n \in 0 .. frame_count - 2)
    BY <1>1
  <2>2. frames[n].slots \in Nat
    BY <1>1, <2>1 DEF CallFrame
  <2>3. CASE n = frame_count - 1
    BY <1>1, <2>2, <2>3 DEF frame
  <2>4. CASE n \in 0 .. frame_count - 2
    BY <1>1, <1>2, <2>2, <2>4
  <2>5. QED
    BY <2>1, <2>2, <2>3, <2>4
<1>4. \A n \in 0 .. frame_count - 1 : frames[n].slots \in Slots
  BY <1>1, <1>3, StackNotEmpty DEF Slots
<1>5. QED
  BY <1>1, <1>2, <1>3, <1>4

\* The calls that go on after a step are as they were, with what they stand on.
LEMMA OldCalls ==
  ASSUME IInv, Nested, Step, NEW n \in 0 .. frame_count - 1, n <= frame_count' - 1
  PROVE  /\ frames'[n].slots = frames[n].slots /\ frames'[n].function = frames[n].function
         /\ stack'[frames[n].slots] = stack[frames[n].slots]
<1>1. pc = "running" /\ (Stays \/ Enters \/ Leaves)
  BY StepShape
<1>2. /\ frame_count \in Nat /\ frame.slots \in Nat
      /\ frames[n].slots \in Slots /\ frames[n].slots <= frame.slots
      /\ n \in 0 .. frame_count - 2 => frames[n].slots < frame.slots
  BY <1>1, Bottoms, CodeFacts DEF CallFrame
<1>3. CASE Stays
  <2>1. frames[n].slots < frame.slots + 1
    BY <1>2, StackNotEmpty DEF Slots
  <2>2. QED
    BY <1>1, <1>2, <1>3, <2>1, GotoShape DEF Stays, SameCalls, KeepsBelow
<1>4. CASE Enters
  <2>1. PICK next \in Nat, first \in Nat, f \in DOMAIN Program : EntersAt(next, first, f)
    BY <1>4 DEF Enters
  <2>2. /\ frame_count < VM_FRAMES_MAX /\ stack' = stack
        /\ frames' = [frames EXCEPT ![frame_count - 1].ip = next,
                                    ![frame_count] = Frame(Program[f], first)]
    BY <1>4, <2>1 DEF Enters, EntersAt
  <2>3. frames'[n].slots = frames[n].slots /\ frames'[n].function = frames[n].function
    BY <1>1, <2>2, EnterShape
  <2>4. QED
    BY <2>2, <2>3
<1>5. CASE Leaves
  <2>1. n \in 0 .. frame_count - 2
    BY <1>2, <1>5 DEF Leaves
  <2>2. QED
    BY <1>1, <1>2, <1>5, <2>1, GotoShape DEF Leaves, KeepsBelow
<1>6. QED
  BY <1>1, <1>3, <1>4, <1>5

\* A call that begins stands on the function that is called, above its caller and
\* within the share of the stack that is left to it.
LEMMA NewCall ==
  ASSUME WInv, Step, frame_count' > frame_count
  PROVE  /\ pc = "running" /\ frame_count' = frame_count + 1
         /\ frames'[frame_count].slots \in Nat
         /\ frames'[frame_count].slots > frame.slots
         /\ FitsWindows(Program) => frames'[frame_count].slots <= frame_count * Share
         /\ \E f \in DOMAIN Program : /\ stack'[frames'[frame_count].slots] = Function(f)
                                      /\ frames'[frame_count].function = Program[f]
<1>1. pc = "running" /\ frame_count \in Nat /\ frame_count >= 1
  BY StepShape, Bottoms DEF WInv
<1>2. Enters
  BY <1>1, StepShape DEF WInv, Stays, SameCalls, Leaves
<1>3. PICK next \in Nat, first \in Nat, f \in DOMAIN Program : EntersAt(next, first, f)
  BY <1>2 DEF Enters
<1>4. frames'[frame_count].slots = first /\ frames'[frame_count].function = Program[f]
  BY <1>1, <1>2, <1>3, EnterShape DEF WInv, Enters, EntersAt
<1>5. ASSUME FitsWindows(Program)
      PROVE  first <= frame_count * Share
  <2>1. /\ first < frame.slots + fun.height[ip] /\ frame.slots \in Nat
        /\ fun \in Functions /\ ip \in DOMAIN fun.height /\ fun.height[ip] \in Nat
    BY <1>1, <1>3, CodeFacts DEF WInv, EntersAt, CallFrame
  <2>2. fun.height[ip] <= UINT8_MAX
    BY <1>5, <2>1 DEF FitsWindows, Functions
  <2>3. frame.slots <= (frame_count - 1) * Share
    BY <1>1, <1>5 DEF WInv, WithinShares, frame
  <2>4. Share \in Nat /\ UINT8_MAX = Share + 1
    BY ByteAssumption DEF Share
  <2>5. first <= (frame_count - 1) * Share + Share
    <3>1. (frame_count - 1) * Share \in Int
      BY <1>1, <2>4
    <3>2. QED
      BY <2>1, <2>2, <2>3, <2>4, <3>1
  <2>6. (frame_count - 1) * Share + Share = frame_count * Share
    BY <1>1, <2>4
  <2>7. QED
    BY <2>5, <2>6
<1>6. QED
  BY <1>1, <1>2, <1>3, <1>4, <1>5 DEF Enters, EntersAt

\* When there may be one more call than before, a call is the new one or an old
\* one, and those below it are old.
LEMMA OneMoreCall ==
  ASSUME NEW old \in Nat, NEW new \in Nat, new <= old + 1, NEW n \in 0 .. new - 1
  PROVE  /\ n = old => new > old
         /\ n # old => n \in 0 .. old - 1 /\ n <= new - 1
         /\ \A m \in 0 .. n - 1 : m \in 0 .. new - 1 /\ m # old /\ m \in 0 .. old - 1
OBVIOUS

\* The steps of a script keep the three.
LEMMA StepWInv ==
  ASSUME WInv, Step
  PROVE  WInv'
<1>0. IInv'
  BY NextIInv DEF WInv, Next
<1>1. pc = "running" /\ frame_count \in Nat /\ frame_count >= 1
  BY StepShape, Bottoms DEF WInv
<1>2. frame_count' \in Nat /\ frame_count' <= frame_count + 1
  BY <1>1, StepShape DEF WInv, Stays, SameCalls, Enters, Leaves
<1>3. ASSUME NEW n \in 0 .. frame_count' - 1, n # frame_count
      PROVE  /\ n \in 0 .. frame_count - 1
             /\ frames'[n].slots = frames[n].slots /\ frames'[n].function = frames[n].function
             /\ stack'[frames[n].slots] = stack[frames[n].slots]
  <2>1. n \in 0 .. frame_count - 1 /\ n <= frame_count' - 1
    BY <1>1, <1>2, <1>3, OneMoreCall
  <2>2. QED
    BY <2>1, OldCalls DEF WInv
<1>4. Nested'
  <2>1. ASSUME NEW n \in 0 .. frame_count' - 1, NEW m \in 0 .. n - 1
        PROVE  frames'[m].slots < frames'[n].slots
    <3>1. m \in 0 .. frame_count' - 1 /\ m # frame_count /\ m \in 0 .. frame_count - 1
      BY <1>1, <1>2, <2>1, OneMoreCall
    <3>2. frames'[m].slots = frames[m].slots
      BY <1>3, <3>1
    <3>3. CASE n = frame_count
      <4>1. frames[m].slots <= frame.slots /\ frames[m].slots \in Slots
        BY <1>1, <3>1, Bottoms DEF WInv
      <4>2. frame_count' > frame_count
        BY <1>1, <1>2, <2>1, <3>3, OneMoreCall
      <4>3. frames'[n].slots > frame.slots /\ frames'[n].slots \in Nat /\ frame.slots \in Nat
        BY <1>1, <3>3, <4>2, NewCall, CodeFacts DEF WInv, CallFrame
      <4>4. QED
        BY <3>2, <4>1, <4>3, StackNotEmpty DEF Slots
    <3>4. CASE n # frame_count
      BY <1>1, <1>3, <2>1, <3>2, <3>4 DEF WInv, Nested
    <3>5. QED
      BY <3>3, <3>4
  <2>2. QED
    BY <2>1 DEF Nested
<1>5. WithinShares'
  <2>1. ASSUME FitsWindows(Program), NEW n \in 0 .. frame_count' - 1
        PROVE  frames'[n].slots <= n * Share
    <3>1. CASE n = frame_count
      <4>1. frame_count' > frame_count
        BY <1>1, <1>2, <2>1, <3>1, OneMoreCall
      <4>2. QED
        BY <2>1, <3>1, <4>1, NewCall
    <3>2. CASE n # frame_count
      BY <1>1, <1>3, <2>1, <3>2 DEF WInv, WithinShares
    <3>3. QED
      BY <3>1, <3>2
  <2>2. QED
    BY <2>1 DEF WithinShares
<1>6. CalleeInSlotZero'
  <2>1. ASSUME NEW n \in 0 .. frame_count' - 1
        PROVE  \E f \in DOMAIN Program : /\ stack'[frames'[n].slots] = Function(f)
                                         /\ frames'[n].function = Program[f]
    <3>1. CASE n = frame_count
      <4>1. frame_count' > frame_count
        BY <1>1, <1>2, <2>1, <3>1, OneMoreCall
      <4>2. QED
        BY <3>1, <4>1, NewCall
    <3>2. CASE n # frame_count
      BY <1>1, <1>3, <2>1, <3>2 DEF WInv, CalleeInSlotZero
    <3>3. QED
      BY <3>1, <3>2
  <2>2. QED
    BY <2>1 DEF CalleeInSlotZero
<1>7. QED
  BY <1>0, <1>4, <1>5, <1>6 DEF WInv

\* A script begins with one call, at the bottom of the stack.
LEMMA InterpretWInv ==
  ASSUME WInv, NEW script \in Scripts, Interpret(script)
  PROVE  WInv'
<1>1. IInv'
  BY NextIInv DEF WInv, Next
<1>2. /\ stack' = [stack EXCEPT ![0] = Function(script)]
      /\ frames' = [frames EXCEPT ![0] = Frame(Program[script], 0)] /\ frame_count' = 1
      /\ script \in DOMAIN Program
  BY DEF Interpret, Scripts
<1>3. /\ stack \in [Slots -> Value] /\ 0 \in Slots
      /\ frames \in [0 .. VM_FRAMES_MAX - 1 -> CallFrame] /\ 0 \in 0 .. VM_FRAMES_MAX - 1
  BY StackNotEmpty, FramesAssumption DEF WInv, IInv, StackTyped, FramesTyped, Slots
<1>4. frames'[0].slots = 0 /\ frames'[0].function = Program[script] /\ stack'[0] = Function(script)
  BY <1>2, <1>3 DEF Frame
<1>5. \A n \in 0 .. frame_count' - 1 : n = 0
  BY <1>2
<1>6. Nested'
  BY <1>5 DEF Nested
<1>7. WithinShares'
  <2>1. 0 <= 0 * Share
    BY ByteAssumption DEF Share
  <2>2. QED
    BY <1>4, <1>5, <2>1 DEF WithinShares
<1>8. CalleeInSlotZero'
  BY <1>2, <1>4, <1>5 DEF CalleeInSlotZero
<1>9. QED
  BY <1>1, <1>6, <1>7, <1>8 DEF WInv

LEMMA WindowsInvariant == Spec => []WInv
<1>1. Init => WInv
  BY InitIInv DEF Init, WInv, Nested, WithinShares, CalleeInSlotZero
<1>2. WInv /\ [Next]_vars => WInv'
  <2>1. ASSUME WInv, CompileError
        PROVE  WInv'
    <3>1. IInv' /\ pc' # "running"
      BY <2>1, NextIInv DEF WInv, Next, CompileError, BeginInterpret
    <3>2. QED
      BY <3>1 DEF WInv, Nested, WithinShares, CalleeInSlotZero
  <2>2. ASSUME WInv, UNCHANGED vars
        PROVE  WInv'
    <3>1. IInv' /\ UNCHANGED <<pc, frame_count, frames, stack>>
      BY <2>2, NextIInv DEF WInv, vars
    <3>2. QED
      BY <2>2, <3>1 DEF WInv, Nested, WithinShares, CalleeInSlotZero
  <2>3. QED
    BY <2>1, <2>2, StepWInv, InterpretWInv DEF Next
<1>3. QED
  BY <1>1, <1>2, PTL DEF Spec

\* Slot 0 of every window holds the function that is called until it returns.
THEOREM CalleeInSlotZeroHolds == Spec => []CalleeInSlotZero
<1>1. WInv => CalleeInSlotZero
  BY DEF WInv
<1>2. QED
  BY <1>1, WindowsInvariant, PTL

\* Two frames are enough for a slot to remain while a script runs: every call
\* but the first gives its slot 0 to its caller's share.
LEMMA RoomForOne ==
  ASSUME WInv, pc = "running", FitsWindows(Program), VM_FRAMES_MAX >= 2
  PROVE  stack_top + 1 <= VM_STACK_MAX
<1>1. /\ stack_top = frame.slots + fun.height[ip] /\ frame.slots \in Nat
      /\ fun \in Functions /\ ip \in DOMAIN fun.height /\ fun.height[ip] \in Nat
      /\ frame_count \in 1 .. VM_FRAMES_MAX /\ VM_FRAMES_MAX \in Nat
  BY CodeFacts, FramesAssumption DEF WInv, CallFrame
<1>2. fun.height[ip] <= UINT8_MAX
  BY <1>1 DEF FitsWindows, Functions
<1>3. frame.slots <= (frame_count - 1) * Share
  BY <1>1 DEF WInv, WithinShares, frame
<1>4. Share \in Nat /\ UINT8_MAX = Share + 1
  BY ByteAssumption DEF Share
<1>5. \A a, b, c \in Nat : a <= b => a * c \in Nat /\ a * c <= b * c
  OBVIOUS
<1>6. (frame_count - 1) * Share <= (VM_FRAMES_MAX - 1) * Share
  BY <1>1, <1>4, <1>5
<1>7. (VM_FRAMES_MAX - 1) * Share + Share + VM_FRAMES_MAX = VM_STACK_MAX
  BY <1>1, <1>4 DEF VM_STACK_MAX
<1>8. (frame_count - 1) * Share \in Int /\ (VM_FRAMES_MAX - 1) * Share \in Int
  BY <1>1, <1>4
<1>9. QED
  BY <1>1, <1>2, <1>3, <1>4, <1>6, <1>7, <1>8

\* A program no call of which needs more than UINT8_MAX slots never leaves the
\* stack, although vm_push never looks: two frames are enough for that, and the
\* limit on the depth of calls is what keeps it.
THEOREM StackFitsHolds == Spec => []StackFits
<1>1. Init => StackFits
  BY StackNotEmpty DEF Init, StackFits
<1>2. WInv /\ StackFits /\ [Next]_vars => StackFits'
  <2>1. ASSUME WInv, Step, FitsWindows(Program), VM_FRAMES_MAX >= 2
        PROVE  stack_top' <= VM_STACK_MAX
    <3>1. pc = "running" /\ RisesByOne
      BY <2>1, StepShape DEF WInv, Stays, Enters, Leaves
    <3>2. stack_top \in Nat /\ stack_top' \in Nat
      <4>1. IInv'
        BY <2>1, NextIInv DEF WInv, Next
      <4>2. QED
        BY <2>1, <4>1 DEF WInv, IInv, StackTyped
    <3>3. QED
      BY <2>1, <3>1, <3>2, RoomForOne, StackNotEmpty DEF RisesByOne
  <2>2. ASSUME NEW script \in Scripts, Interpret(script)
        PROVE  stack_top' <= VM_STACK_MAX
    BY <2>2, StackNotEmpty DEF Interpret
  <2>3. ASSUME CompileError
        PROVE  stack_top' <= VM_STACK_MAX
    BY <2>3, StackNotEmpty DEF CompileError
  <2>4. ASSUME StackFits, UNCHANGED vars
        PROVE  StackFits'
    BY <2>4 DEF vars, StackFits
  <2>5. QED
    BY <2>1, <2>2, <2>3, <2>4 DEF Next, StackFits
<1>3. QED
  BY <1>1, <1>2, WindowsInvariant, PTL DEF Spec
-----------------------------------------------------------------------------
(* Constants. *)

\* An error that replaces a value of the stack ends the script.
LEMMA ErrorReported ==
  ASSUME IInv, pc = "running", PopAndPush(1, Error)
  PROVE  pc' = "idle" /\ result' = "RUNTIME_ERROR"
<1> DEFINE new_stack == [stack EXCEPT ![stack_top - 1] = Error]
<1>1. stack \in [Slots -> Value] /\ stack_top \in 1 .. VM_STACK_MAX
  BY DEF IInv, StackTyped, StackInUse
<1>2. EndIteration(new_stack, stack_top - 1 + 1)
  BY DEF PopAndPush, Error, Undefined
<1>3. stack_top - 1 + 1 = stack_top /\ stack_top - 1 \in Slots
  BY <1>1, StackNotEmpty DEF Slots
<1>4. new_stack[stack_top - 1].type = "ERROR"
  BY <1>1, <1>3 DEF Error
<1> HIDE DEF new_stack
<1>5. EndIteration(new_stack, stack_top)
  BY <1>2, <1>3
<1>6. QED
  BY <1>1, <1>4, <1>5 DEF EndIteration

\* A constant never changes in a step after which the script goes on.
THEOREM ConstantsKeptHolds == Spec => ConstantsKept
<1> DEFINE Kept == \A n \in Strings :
              IsConst(n) /\ globals'[n] # globals[n] => pc' = "idle" /\ result' = "RUNTIME_ERROR"
<1>1. ASSUME IInv, DeclGlobal
      PROVE  Kept
  <2>1. /\ pc = "running" /\ answer' = <<"set", globals[Name] = Absent>>
        /\ \E b : globals' = [globals EXCEPT ![Name] = b]
        /\ answer'[2] \/ PopAndPush(1, Error)
    BY <1>1 DEF DeclGlobal, Fetch, G!Set, G!Answer
  <2>2. DOMAIN globals = Strings
    BY <1>1 DEF IInv, GoodGlobals
  <2>3. CASE globals[Name] = Absent
    <3>1. \A n \in Strings : globals'[n] # globals[n] => n = Name
      BY <2>1, <2>2
    <3>2. QED
      BY <2>3, <3>1 DEF IsConst
  <2>4. CASE globals[Name] # Absent
    <3>1. PopAndPush(1, Error)
      BY <2>1, <2>4
    <3>2. QED
      BY <1>1, <2>1, <3>1, ErrorReported
  <2>5. QED
    BY <2>3, <2>4
<1>2. ASSUME IInv, SetGlobal
      PROVE  Kept
  <2>1. G!Update(Name, Peek(0)) /\ DOMAIN globals = Strings
    BY <1>2 DEF SetGlobal, IInv, GoodGlobals
  <2>2. \/ UNCHANGED globals
        \/ ~globals[Name].read_only /\ globals' = [globals EXCEPT ![Name].value = Peek(0)]
    BY <2>1 DEF G!Update
  <2>3. \A n \in Strings : globals'[n] # globals[n] => n = Name /\ ~globals[Name].read_only
    BY <2>1, <2>2
  <2>4. QED
    BY <2>3 DEF IsConst
<1>3. ASSUME Next, ~DeclGlobal, ~SetGlobal
      PROVE  UNCHANGED globals
  <2>1. CASE CompileError \/ \E script \in Scripts : Interpret(script)
    BY <2>1 DEF CompileError, Interpret, global_vars
  <2>2. CASE Return \/ Pop \/ Jump \/ GetLocal \/ SetLocal \/ Constant \/ Literal
    BY <2>2 DEF Return, Pop, Jump, GetLocal, SetLocal, Constant, Literal, Simple, global_vars
  <2>3. CASE Unary \/ Binary \/ SubscriptGet \/ SubscriptSet \/ MakeArray \/ GetGlobal
    BY <2>3 DEF Unary, Binary, SubscriptGet, SubscriptSet, MakeArray, GetGlobal, G!Get,
                Simple, global_vars
  <2>4. CASE CallNative \/ CallFunction \/ CallRefused
    BY <2>4 DEF CallNative, CallFunction, CallRefused, Simple, global_vars
  <2>5. QED
    BY <1>3, <2>1, <2>2, <2>3, <2>4 DEF Next, Step
<1>4. IInv /\ [Next]_vars => [Kept]_vars
  BY <1>1, <1>2, <1>3 DEF vars
<1>5. QED
  BY <1>4, Invariant, PTL DEF Spec, ConstantsKept
-----------------------------------------------------------------------------
(* The machine as main and the prompt run it. *)

LEMMA StepIsRunning ==
  ASSUME Step
  PROVE  pc = "running"
  BY DEF Step, Fetch, Return, Pop, Jump, DeclGlobal, GetGlobal, SetGlobal, GetLocal, SetLocal,
         Constant, Literal, Unary, Binary, SubscriptGet, SubscriptSet, CallNative, CallFunction,
         CallRefused, MakeArray, Simple

\* What main and the prompt do to the machine: nothing, or a step of its own.
LEMMA ReplStepIsVMStep ==
  ASSUME [ReplNext]_repl_vars
  PROVE  [Next]_vars
<1>1. CASE Main
  BY <1>1 DEF Main, StartPrompt, CannotRead, OnlyPrint, HasRun, Leave, Show
<1>2. CASE RunSource \/ ReadLine
  BY <1>2 DEF RunSource, ReadLine, Given, Next
<1>3. CASE Exit
  BY <1>3 DEF Exit
<1>4. CASE Iterate
  BY <1>4 DEF Iterate, Next
<1>5. CASE UNCHANGED repl_vars
  BY <1>5 DEF repl_vars
<1>6. QED
  BY <1>1, <1>2, <1>3, <1>4, <1>5 DEF ReplNext

\* Whatever the command line and the lines given at the prompt, the machine does
\* what VM says, and no more.
THEOREM RunsTheMachine == ReplSpec => Spec
<1>1. ReplInit => Init
  BY DEF ReplInit
<1>2. [ReplNext]_repl_vars => [Next]_vars
  BY ReplStepIsVMStep
<1>3. QED
  BY <1>1, <1>2, PTL DEF ReplSpec, Spec

\* So the prompt goes on safely after any line, whether it failed or not: windows
\* match, errors stay errors, and the stack is kept.
THEOREM SafeAtThePrompt ==
  ReplSpec => [](TypeOK /\ WindowsMatch /\ CalleeInSlotZero /\ ErrorsDoNotEscape /\ StackFits)
  BY RunsTheMachine, TypeCorrect, WindowsMatchHolds, CalleeInSlotZeroHolds,
     ErrorsDoNotEscapeHolds, StackFitsHolds, PTL

-----------------------------------------------------------------------------
(***************************************************************************)
(* The exit status.                                                        *)
(***************************************************************************)

EndedWell == arguments = "source" => result = "OK"

\* The machine rests unless it was given something, and main knows what came of it.
ExitInv ==
  /\ mode \notin {"interpreting", "once"} => pc = "idle"
  /\ mode = "start" => verdict = "OK"
  /\ mode \in {"reading", "interpreting"} => arguments = "none" /\ verdict = "OK"
  /\ mode = "once" => arguments = "source"
  /\ mode = "leaving" => arguments # "file" /\ (verdict = "OK" <=> EndedWell)
  /\ mode = "ended" => (status = 0 <=> arguments # "file" /\ EndedWell)

LEMMA ExitInvStep ==
  ASSUME ExitInv, [ReplNext]_repl_vars, mode = "start" => result = "OK"
  PROVE  ExitInv'
<1>1. CASE StartPrompt
  BY <1>1 DEF StartPrompt, Turn, ExitInv, EndedWell, vars
<1>2. CASE RunSource
  BY <1>2 DEF RunSource, Turn, ExitInv, EndedWell
<1>3. CASE CannotRead
  BY <1>3 DEF CannotRead, Turn, ExitInv, EndedWell, vars
<1>4. CASE OnlyPrint
  BY <1>4 DEF OnlyPrint, Turn, ExitInv, EndedWell, vars
<1>5. CASE HasRun
  BY <1>5 DEF HasRun, Turn, ExitInv, EndedWell, vars
<1>6. CASE Leave
  BY <1>6 DEF Leave, Turn, ExitInv, EndedWell, vars
<1>7. CASE ReadLine
  BY <1>7 DEF ReadLine, Turn, ExitInv, EndedWell
<1>8. CASE Show
  BY <1>8 DEF Show, Turn, ExitInv, EndedWell, vars
<1>9. CASE Exit
  BY <1>9 DEF Exit, Turn, ExitInv, EndedWell, vars
<1>10. CASE Iterate
  <2>1. mode \in {"interpreting", "once"}
    BY <1>10, StepIsRunning DEF Iterate, ExitInv
  <2>2. UNCHANGED main_vars
    BY <1>10 DEF Iterate
  <2>3. QED
    BY <2>1, <2>2 DEF main_vars, ExitInv
<1>11. CASE UNCHANGED repl_vars
  BY <1>11 DEF repl_vars, main_vars, vars, ExitInv, EndedWell
<1>12. QED
  BY <1>1, <1>2, <1>3, <1>4, <1>5, <1>6, <1>7, <1>8, <1>9, <1>10, <1>11 DEF ReplNext, Main

\* Nothing has run when main starts.
LEMMA StartsWell ==
  ASSUME ExitInv, mode = "start" => result = "OK", [ReplNext]_repl_vars
  PROVE  (mode = "start" => result = "OK")'
<1>1. CASE mode' = "start"
  <2>1. UNCHANGED repl_vars \/ Iterate
    BY <1>1 DEF ReplNext, Main, StartPrompt, RunSource, CannotRead, OnlyPrint, HasRun, Leave,
                ReadLine, Show, Exit, Turn
  <2>2. CASE UNCHANGED repl_vars
    BY <2>2 DEF repl_vars, main_vars, vars
  <2>3. CASE Iterate
    BY <1>1, <2>3, StepIsRunning DEF Iterate, main_vars, ExitInv
  <2>4. QED
    BY <2>1, <2>2, <2>3
<1>2. QED
  BY <1>1

\* The exit status is 0 if and only if the one script main was given compiled and
\* ran to its end without an error; a session at the prompt always ends with 0.
THEOREM ExitTellsHolds == ReplSpec => []ExitTells
<1>1. ReplInit => ExitInv /\ (mode = "start" => result = "OK")
  BY DEF ReplInit, Init, ExitInv
<1>2. ExitInv /\ (mode = "start" => result = "OK") /\ [ReplNext]_repl_vars
      => (ExitInv /\ (mode = "start" => result = "OK"))'
  BY ExitInvStep, StartsWell
<1>3. ExitInv => ExitTells
  BY DEF ExitInv, ExitTells, EndedWell
<1>4. QED
  BY <1>1, <1>2, <1>3, PTL DEF ReplSpec
=============================================================================
