----------------------------- MODULE ArraysProofs -----------------------------
(***************************************************************************)
(* That value_equal is right whenever it answers, that value_print prints  *)
(* every array once and never runs out of the C stack, and that value_equal*)
(* runs out of it only on arrays nested deeper than the C stack, which     *)
(* circular ones always are.                                               *)
(***************************************************************************)
EXTENDS Arrays, FiniteSetTheorems, TLAPS

\* The arrays, whatever is done with them.
Heap ==
    /\ arrays \in Seq(ValueArray) /\ Len(arrays) <= MaxArrays
    /\ \A a \in DOMAIN arrays : Count(a) <= MaxCount /\ Count(a) <= arrays[a].capacity

\* The calls of a comparison compare different arrays of one length ...
EqualFrames(calls) ==
    /\ calls \in Seq(EqualCall)
    /\ \A k \in 1 .. Len(calls) :
          /\ calls[k].left # calls[k].right
          /\ Count(calls[k].left) = Count(calls[k].right)
          /\ calls[k].next <= Count(calls[k].left) + 1

\* ... that were found at one place of those of the call before.
Chained(calls, r) ==
    /\ calls # <<>> => calls[1].left = r[1] /\ calls[1].right = r[2]
    /\ \A k \in 1 .. Len(calls) - 1 :
          HoldBoth(calls[k].left, calls[k].right, calls[k + 1].left, calls[k + 1].right)

Paired(calls) == {<<calls[k].left, calls[k].right>> : k \in 1 .. Len(calls)}

\* Nothing that was looked at, in arrays that are settled or being compared,
\* differs under rel.
Settled(seen, calls, rel) ==
    /\ \A a, b \in DOMAIN arrays : <<a, b>> \in seen =>
          /\ Count(a) = Count(b)
          /\ \A i \in 1 .. Count(a) : Alike(Items(a)[i], Items(b)[i], rel)
    /\ \A k \in 1 .. Len(calls) : \A i \in 1 .. calls[k].next - 1 :
          Alike(Items(calls[k].left)[i], Items(calls[k].right)[i], rel)

\* Who takes the first two arrays for alike takes all that are compared for it.
Followed(calls, r) ==
    \A alike \in SUBSET Pairs :
        Bisimulation(alike) /\ Alike(r[1], r[2], alike) => Paired(calls) \subseteq alike

Comparing(calls, r) ==
    /\ r \in Seq(DOMAIN arrays) /\ Len(r) = 2
    /\ EqualFrames(calls) /\ Chained(calls, r) /\ Followed(calls, r)

EqualInv ==
    work = "equal" =>
        /\ stack # <<>> /\ Comparing(stack, roots)
        /\ \E seen \in SUBSET Pairs : Settled(seen, stack, seen \cup Paired(stack))

\* The arrays printed up to item next of each call are tracked.
PrintFrames(calls, tracked) ==
    /\ calls \in Seq(PrintCall)
    /\ \A k \in 1 .. Len(calls) :
          /\ calls[k].next <= Count(calls[k].array) + 1
          /\ Tracked(calls[k].array, tracked)

Done(a, n, tracked) ==
    \A i \in 1 .. n : Items(a)[i] \in DOMAIN arrays => Tracked(Items(a)[i], tracked)

\* Below the limit, what a tracked array holds is tracked, but for the items
\* that a call has still to print.
Complete(calls, tracked) ==
    /\ \A k \in 1 .. Len(calls) : Done(calls[k].array, calls[k].next - 1, tracked)
    /\ \A j \in 1 .. Len(tracked) :
          \/ \E k \in 1 .. Len(calls) : calls[k].array = tracked[j]
          \/ Done(tracked[j], Count(tracked[j]), tracked)

Once(tracked, root) ==
    /\ tracked \in Seq(DOMAIN arrays) /\ Len(tracked) <= PRINT_MAX_COLLECTIONS
    /\ \A j, k \in 1 .. Len(tracked) : tracked[j] = tracked[k] => j = k
    /\ \A k \in 1 .. Len(tracked) : tracked[k] \in Reach(root)

Printing(calls, tracked, r) ==
    /\ r \in Seq(DOMAIN arrays) /\ Len(r) = 1
    /\ PrintFrames(calls, tracked) /\ Once(tracked, r[1])
    /\ Len(calls) <= Len(tracked)
    /\ \/ Len(tracked) = PRINT_MAX_COLLECTIONS
       \/ Tracked(r[1], tracked) /\ Complete(calls, tracked)

PrintInv == work = "print" => stack # <<>> /\ Printing(stack, objects, roots)

Idle == work = "idle" => roots = <<>> /\ objects = <<>>

\* Only a walk that has an answer gives one; only a print tracks.
Quiet ==
    /\ answer # "none" => work = "done"
    /\ work \in {"equal", "crashed"} => objects = <<>>

Inv ==
    /\ TypeOK
    /\ EqualInv /\ PrintInv /\ Idle /\ Quiet
    /\ EqualIsBisimilar /\ OverflowsOnlyOnDeep /\ PrintsAllOnce
-----------------------------------------------------------------------------
(* Values and calls.                                                       *)

LEMMA ArrayValues ==
    ASSUME Heap
    PROVE  /\ DOMAIN arrays \subseteq Ids
           /\ \A a \in DOMAIN arrays :
                 /\ Items(a) \in Seq(Values) /\ Count(a) \in Nat /\ arrays[a].capacity \in Nat
                 /\ a \notin Scalars /\ a \notin Natives
                 /\ arrays[a] = [values |-> Items(a), capacity |-> arrays[a].capacity]
<1>1. DOMAIN arrays = 1 .. Len(arrays) /\ Len(arrays) \in Nat
    BY DEF Heap
<1>2. DOMAIN arrays \subseteq Ids
    BY <1>1, BoundsAssumption DEF Heap, Ids
<1>3. \A a \in DOMAIN arrays : arrays[a] \in ValueArray
    BY <1>1 DEF Heap
<1> QED BY <1>2, <1>3, ScalarsAssumption DEF ValueArray, Items, Count

LEMMA ItemIs ==
    ASSUME Heap, NEW a \in DOMAIN arrays, NEW i \in 1 .. Count(a)
    PROVE  /\ Items(a)[i] \in Values
           /\ Items(a)[i] \in DOMAIN arrays => Holds(a, Items(a)[i])
<1>1. Items(a) \in Seq(Values) /\ i \in DOMAIN Items(a)
    BY ArrayValues DEF Count
<1> QED BY <1>1 DEF Holds

LEMMA AppendIs ==
    ASSUME NEW S, NEW s \in Seq(S), NEW e \in S
    PROVE  /\ Append(s, e) \in Seq(S) /\ Append(s, e) # <<>>
           /\ Len(Append(s, e)) = Len(s) + 1
           /\ \A k \in 1 .. Len(s) : Append(s, e)[k] = s[k]
           /\ Append(s, e)[Len(s) + 1] = e
OBVIOUS

LEMMA FrontIs ==
    ASSUME NEW S, NEW s \in Seq(S), NEW n \in 1 .. Len(s)
    PROVE  /\ SubSeq(s, 1, n - 1) \in Seq(S) /\ Len(SubSeq(s, 1, n - 1)) = n - 1
           /\ \A k \in 1 .. n - 1 : SubSeq(s, 1, n - 1)[k] = s[k]
OBVIOUS

LEMMA ExceptIs ==
    ASSUME NEW S, NEW s \in Seq(S), NEW k, NEW e \in S
    PROVE  [s EXCEPT ![k] = e] \in Seq(S) /\ Len([s EXCEPT ![k] = e]) = Len(s)
<1> DEFINE n == Len(s)
<1>1. n \in Nat /\ s \in [1 .. n -> S]
    OBVIOUS
<1> HIDE DEF n
<1>2. [s EXCEPT ![k] = e] \in [1 .. n -> S]
    BY <1>1
<1>3. PICK t : t = [s EXCEPT ![k] = e]
    OBVIOUS
<1>4. t \in Seq(S) /\ Len(t) = n
    BY <1>1, <1>2, <1>3
<1> QED BY <1>3, <1>4 DEF n

\* The call on the top, and those below it.
LEMMA CallersAre ==
    ASSUME NEW S, stack \in Seq(S), stack # <<>>
    PROVE  /\ Len(stack) \in Nat \ {0} /\ call \in S /\ call = stack[Len(stack)]
           /\ Callers \in Seq(S) /\ Len(Callers) = Len(stack) - 1
           /\ \A k \in 1 .. Len(stack) - 1 : Callers[k] = stack[k]
           /\ (Callers = <<>> <=> Len(stack) = 1)
<1> DEFINE n == Len(stack)
<1>1. n \in Nat \ {0} /\ n \in 1 .. n /\ stack[n] \in S
    OBVIOUS
<1> HIDE DEF n
<1>2. stack \in Seq(S) /\ Len(stack) = n
    BY DEF n
<1>3. /\ SubSeq(stack, 1, n - 1) \in Seq(S) /\ Len(SubSeq(stack, 1, n - 1)) = n - 1
      /\ \A k \in 1 .. n - 1 : SubSeq(stack, 1, n - 1)[k] = stack[k]
    BY <1>1, <1>2, FrontIs
<1>4. Callers = SubSeq(stack, 1, n - 1)
    BY DEF Callers, n
<1>5. Callers = <<>> <=> Len(Callers) = 0
    BY <1>3, <1>4
<1> QED BY <1>1, <1>3, <1>4, <1>5 DEF call, n

LEMMA GoneOnIs ==
    ASSUME NEW S, NEW T, stack \in Seq(S), stack # <<>>, S \subseteq T,
           [call EXCEPT !.next = @ + 1] \in T
    PROVE  /\ GoneOn \in Seq(T) /\ GoneOn # <<>> /\ Len(GoneOn) = Len(stack)
           /\ \A k \in 1 .. Len(stack) - 1 : GoneOn[k] = stack[k]
           /\ GoneOn[Len(stack)] = [call EXCEPT !.next = @ + 1]
<1>1. /\ Len(stack) \in Nat \ {0}
      /\ Callers \in Seq(S) /\ Len(Callers) = Len(stack) - 1
      /\ \A k \in 1 .. Len(stack) - 1 : Callers[k] = stack[k]
    BY CallersAre
<1>2. Callers \in Seq(T)
    BY <1>1
<1> HIDE DEF Callers
<1>3. PICK top \in T : top = [call EXCEPT !.next = @ + 1]
    OBVIOUS
<1>4. GoneOn = Append(Callers, top)
    BY <1>3 DEF GoneOn
<1> QED BY <1>1, <1>2, <1>3, <1>4

LEMMA GoneOnLength ==
    ASSUME NEW S, stack \in Seq(S), stack # <<>>
    PROVE  Len(GoneOn) = Len(stack)
<1>1. /\ Len(stack) \in Nat \ {0}
      /\ Callers \in Seq(S) /\ Len(Callers) = Len(stack) - 1
    BY CallersAre
<1> HIDE DEF Callers
<1>2. PICK top : top = [call EXCEPT !.next = @ + 1]
    OBVIOUS
<1>3. GoneOn = Append(Callers, top) /\ Callers \in Seq(S \cup {top})
    BY <1>1, <1>2 DEF GoneOn
<1>4. Len(GoneOn) = Len(Callers) + 1
    BY <1>3, AppendIs
<1> QED BY <1>1, <1>4
-----------------------------------------------------------------------------
(* Comparing.                                                              *)

LEMMA AlikeGrows ==
    ASSUME NEW v, NEW w, NEW R, NEW T, R \subseteq T, Alike(v, w, R)
    PROVE  Alike(v, w, T)
BY DEF Alike

LEMMA SettledGrows ==
    ASSUME NEW seen, NEW calls, NEW R, NEW T, R \subseteq T, Settled(seen, calls, R)
    PROVE  Settled(seen, calls, T)
BY AlikeGrows DEF Settled

LEMMA PairedIn ==
    ASSUME NEW calls, EqualFrames(calls)
    PROVE  Paired(calls) \subseteq Pairs
<1>1. ASSUME NEW k \in 1 .. Len(calls)
      PROVE  <<calls[k].left, calls[k].right>> \in Pairs
    <2>1. calls[k] \in EqualCall /\ calls[k].left # calls[k].right
        BY DEF EqualFrames
    <2> QED BY <2>1 DEF EqualCall, Pairs
<1> QED BY <1>1 DEF Paired

\* What a call of value_equal on v and w can count on.
Ready(v, w, calls, r) ==
    /\ Comparing(calls, r)
    /\ v \in Values /\ w \in Values
    /\ calls = <<>> => r[1] = v /\ r[2] = w
    /\ calls # <<>> => HoldBoth(calls[Len(calls)].left, calls[Len(calls)].right, v, w)
    /\ \A alike \in SUBSET Pairs :
          Bisimulation(alike) /\ Alike(r[1], r[2], alike) => Alike(v, w, alike)
    /\ \E seen \in SUBSET Pairs : \A rel \in SUBSET Pairs :
          seen \cup Paired(calls) \subseteq rel /\ Alike(v, w, rel) => Settled(seen, calls, rel)

\* The comparison begins on two arrays.
LEMMA ReadyToBegin ==
    ASSUME Heap, NEW a \in DOMAIN arrays, NEW b \in DOMAIN arrays
    PROVE  Ready(a, b, <<>>, <<a, b>>)
<1>1. Comparing(<<>>, <<a, b>>)
    BY DEF Comparing, EqualFrames, Chained, Followed, Paired
<1>2. \A rel \in SUBSET Pairs : Settled({}, <<>>, rel)
    BY DEF Settled
<1>3. {} \in SUBSET Pairs
    OBVIOUS
<1>4. \E seen \in SUBSET Pairs : \A rel \in SUBSET Pairs :
          seen \cup Paired(<<>>) \subseteq rel /\ Alike(a, b, rel) => Settled(seen, <<>>, rel)
    BY <1>2, <1>3
<1> QED BY <1>1, <1>4 DEF Ready, Values

\* The comparison goes on with the next item of the last call.
LEMMA ReadyToGoOn ==
    ASSUME Heap, work = "equal", EqualInv, call.next <= Count(call.left)
    PROVE  Ready(Items(call.left)[call.next], Items(call.right)[call.next], GoneOn, roots)
<1> DEFINE n == Len(stack)
           v == Items(call.left)[call.next]
           w == Items(call.right)[call.next]
<1>1. stack # <<>> /\ Comparing(stack, roots)
    BY DEF EqualInv
<1>2. stack \in Seq(EqualCall) /\ EqualFrames(stack) /\ Chained(stack, roots) /\ Followed(stack, roots)
    BY <1>1 DEF Comparing, EqualFrames
<1>3. n \in Nat \ {0} /\ call = stack[n] /\ call \in EqualCall
    BY <1>1, <1>2, CallersAre
<1>4. /\ call.left \in DOMAIN arrays /\ call.right \in DOMAIN arrays /\ call.next \in 1 .. MaxCount + 1
      /\ call.left # call.right /\ Count(call.left) = Count(call.right)
    BY <1>2, <1>3 DEF EqualFrames, EqualCall
<1>5. Count(call.left) \in Nat /\ Count(call.left) <= MaxCount
    BY <1>4, ArrayValues DEF Heap
<1>6. call.next \in 1 .. Count(call.left) /\ call.next + 1 \in 1 .. MaxCount + 1
    BY <1>4, <1>5, BoundsAssumption
<1>7. [call EXCEPT !.next = @ + 1] = [left |-> call.left, right |-> call.right, next |-> call.next + 1]
    BY <1>3 DEF EqualCall
<1>8. [call EXCEPT !.next = @ + 1] \in EqualCall
    BY <1>4, <1>6, <1>7 DEF EqualCall
<1>9. /\ GoneOn \in Seq(EqualCall) /\ GoneOn # <<>> /\ Len(GoneOn) = n
      /\ \A k \in 1 .. n - 1 : GoneOn[k] = stack[k]
      /\ GoneOn[n] = [left |-> call.left, right |-> call.right, next |-> call.next + 1]
    BY <1>1, <1>2, <1>7, <1>8, GoneOnIs
<1> HIDE DEF n
<1>10. \A k \in 1 .. n : /\ GoneOn[k].left = stack[k].left /\ GoneOn[k].right = stack[k].right
                         /\ k < n => GoneOn[k].next = stack[k].next
    <2> SUFFICES ASSUME NEW k \in 1 .. n
                 PROVE  /\ GoneOn[k].left = stack[k].left /\ GoneOn[k].right = stack[k].right
                        /\ k < n => GoneOn[k].next = stack[k].next
        OBVIOUS
    <2>1. CASE k = n
        BY <1>3, <1>9, <2>1
    <2>2. CASE k # n
        <3>1. k \in 1 .. n - 1
            BY <1>3, <2>2
        <3> QED BY <1>9, <3>1
    <2> QED BY <2>1, <2>2
<1>11. Len(stack) = n
    BY DEF n
<1>12. EqualFrames(GoneOn)
    <2> SUFFICES ASSUME NEW k \in 1 .. n
                 PROVE  /\ GoneOn[k].left # GoneOn[k].right
                        /\ Count(GoneOn[k].left) = Count(GoneOn[k].right)
                        /\ GoneOn[k].next <= Count(GoneOn[k].left) + 1
        BY <1>9 DEF EqualFrames
    <2>1. /\ stack[k].left # stack[k].right
          /\ Count(stack[k].left) = Count(stack[k].right)
          /\ stack[k].next <= Count(stack[k].left) + 1
        BY <1>2, <1>11 DEF EqualFrames
    <2>2. CASE k < n
        BY <1>10, <2>1, <2>2
    <2>3. CASE k = n
        BY <1>5, <1>6, <1>9, <1>4, <2>3
    <2> QED BY <1>3, <2>2, <2>3
<1>13. Chained(GoneOn, roots)
    <2>1. 1 \in 1 .. n /\ \A k \in 1 .. n - 1 : k \in 1 .. n /\ k + 1 \in 1 .. n
        BY <1>3
    <2> QED BY <1>1, <1>2, <1>9, <1>10, <1>11, <2>1 DEF Chained
<1>14. Paired(GoneOn) = Paired(stack)
    BY <1>9, <1>10, <1>11 DEF Paired
<1>15. Followed(GoneOn, roots)
    BY <1>2, <1>14 DEF Followed
<1>16. Comparing(GoneOn, roots)
    BY <1>1, <1>12, <1>13, <1>15 DEF Comparing
<1>17. v \in Values /\ w \in Values /\ HoldBoth(call.left, call.right, v, w)
    <2>1. call.next \in DOMAIN Items(call.left) /\ call.next \in DOMAIN Items(call.right)
        BY <1>4, <1>6, ArrayValues DEF Count
    <2>2. HoldBoth(call.left, call.right, v, w)
        BY <2>1 DEF HoldBoth
    <2> QED BY <1>4, <1>6, <2>2, ItemIs
<1>18. ASSUME NEW alike \in SUBSET Pairs, Bisimulation(alike), Alike(roots[1], roots[2], alike)
       PROVE  Alike(v, w, alike)
    <2>1. Paired(stack) \subseteq alike
        BY <1>2, <1>18 DEF Followed
    <2>2. <<call.left, call.right>> \in alike
        BY <1>3, <1>11, <2>1 DEF Paired
    <2> QED BY <1>4, <1>6, <1>18, <2>2 DEF Bisimulation
<1>19. PICK seen \in SUBSET Pairs : Settled(seen, stack, seen \cup Paired(stack))
    BY DEF EqualInv
<1>20. ASSUME NEW rel \in SUBSET Pairs, seen \cup Paired(GoneOn) \subseteq rel, Alike(v, w, rel)
       PROVE  Settled(seen, GoneOn, rel)
    <2>1. Settled(seen, stack, rel)
        BY <1>14, <1>19, <1>20, SettledGrows
    <2>2. ASSUME NEW k \in 1 .. n, NEW i \in 1 .. GoneOn[k].next - 1
          PROVE  Alike(Items(GoneOn[k].left)[i], Items(GoneOn[k].right)[i], rel)
        <3>1. CASE k < n
            BY <1>10, <1>11, <2>1, <2>2, <3>1 DEF Settled
        <3>2. CASE k = n /\ i = call.next
            BY <1>9, <1>20, <3>2
        <3>3. CASE k = n /\ i # call.next
            <4>1. i \in 1 .. stack[n].next - 1
                BY <1>3, <1>4, <1>9, <2>2, <3>3
            <4> QED BY <1>3, <1>9, <1>11, <2>1, <3>3, <4>1 DEF Settled
        <3> QED BY <1>3, <3>1, <3>2, <3>3
    <2> QED BY <1>9, <2>1, <2>2 DEF Settled
<1>21. \E settled \in SUBSET Pairs : \A rel \in SUBSET Pairs :
           settled \cup Paired(GoneOn) \subseteq rel /\ Alike(v, w, rel)
              => Settled(settled, GoneOn, rel)
    BY <1>20
<1>22. GoneOn[Len(GoneOn)].left = call.left /\ GoneOn[Len(GoneOn)].right = call.right
    BY <1>9
<1> HIDE DEF v, w
<1>23. Ready(v, w, GoneOn, roots)
    BY <1>9, <1>16, <1>17, <1>18, <1>21, <1>22 DEF Ready
<1> QED BY <1>23 DEF v, w

AreAlike(r) == \E alike \in SUBSET Pairs : Bisimulation(alike) /\ Alike(r[1], r[2], alike)

LEMMA SameAnswers ==
    ASSUME NEW v, NEW w, NEW r, Ready(v, w, <<>>, r), Same(v, w)
    PROVE  AreAlike(r)
<1>1. r[1] = v /\ r[2] = w
    BY DEF Ready
<1>2. Bisimulation({})
    BY DEF Bisimulation
<1>3. Alike(r[1], r[2], {})
    BY <1>1 DEF Alike, Same
<1>4. {} \in SUBSET Pairs
    OBVIOUS
<1> QED BY <1>2, <1>3, <1>4 DEF AreAlike

LEMMA SameGoesOn ==
    ASSUME NEW v, NEW w, NEW calls, NEW r, Ready(v, w, calls, r), Same(v, w)
    PROVE  /\ Comparing(calls, r)
           /\ \E seen \in SUBSET Pairs : Settled(seen, calls, seen \cup Paired(calls))
<1>1. Comparing(calls, r) /\ Paired(calls) \subseteq Pairs
    BY PairedIn DEF Ready, Comparing
<1>2. PICK seen \in SUBSET Pairs : \A rel \in SUBSET Pairs :
          seen \cup Paired(calls) \subseteq rel /\ Alike(v, w, rel) => Settled(seen, calls, rel)
    BY DEF Ready
<1>3. Alike(v, w, seen \cup Paired(calls))
    BY DEF Alike, Same
<1>4. seen \cup Paired(calls) \in SUBSET Pairs
    BY <1>1
<1> QED BY <1>1, <1>2, <1>3, <1>4

LEMMA DifferentAnswers ==
    ASSUME NEW v, NEW w, NEW calls, NEW r, Ready(v, w, calls, r), Different(v, w)
    PROVE  ~AreAlike(r)
<1> SUFFICES ASSUME NEW alike \in SUBSET Pairs, Bisimulation(alike), Alike(r[1], r[2], alike)
             PROVE  FALSE
    BY DEF AreAlike
<1>1. Alike(v, w, alike)
    BY DEF Ready
<1>2. <<v, w>> \in alike
    BY <1>1 DEF Alike, Different, Same
<1>3. v \in DOMAIN arrays /\ w \in DOMAIN arrays
    BY <1>2 DEF Pairs
<1>4. Count(v) = Count(w)
    BY <1>2, <1>3 DEF Bisimulation
<1> QED BY <1>3, <1>4 DEF Different

\* The call on two arrays that are neither.
Descent(v, w, calls) == Append(calls, [left |-> v, right |-> w, next |-> 1])

LEMMA Descends ==
    ASSUME Heap, NEW v, NEW w, NEW calls, NEW r, Ready(v, w, calls, r),
           ~Same(v, w), ~Different(v, w)
    PROVE  LET new == Descent(v, w, calls)
           IN  /\ new # <<>> /\ Comparing(new, r)
               /\ \E seen \in SUBSET Pairs : Settled(seen, new, seen \cup Paired(new))
<1> DEFINE new == Descent(v, w, calls)
           n == Len(calls)
           top == [left |-> v, right |-> w, next |-> 1]
<1>1. v \in DOMAIN arrays /\ w \in DOMAIN arrays /\ Count(v) = Count(w)
    BY DEF Different
<1>2. v # w /\ Count(v) \in Nat
    BY <1>1, ArrayValues DEF Same
<1>3. calls \in Seq(EqualCall) /\ EqualFrames(calls) /\ Chained(calls, r) /\ Followed(calls, r)
    BY DEF Ready, Comparing, EqualFrames
<1>4. top \in EqualCall
    BY <1>1, BoundsAssumption DEF EqualCall
<1>5. n \in Nat
    BY <1>3
<1> HIDE DEF n, top
<1>6. /\ new \in Seq(EqualCall) /\ new # <<>> /\ Len(new) = n + 1
      /\ \A k \in 1 .. n : new[k] = calls[k]
      /\ new[n + 1] = top
    BY <1>3, <1>4, AppendIs DEF Descent, n, top
<1>7. top.left = v /\ top.right = w /\ top.next = 1
    BY DEF top
<1>8. \A k \in 1 .. n + 1 : k \in 1 .. n \/ k = n + 1
    BY <1>5
<1>9. Len(calls) = n
    BY DEF n
<1> HIDE DEF new
<1>10. EqualFrames(new)
    <2>1. ASSUME NEW k \in 1 .. n + 1
          PROVE  /\ new[k].left # new[k].right
                 /\ Count(new[k].left) = Count(new[k].right)
                 /\ new[k].next <= Count(new[k].left) + 1
        <3>1. CASE k \in 1 .. n
            BY <1>3, <1>6, <1>9, <3>1 DEF EqualFrames
        <3>2. CASE k = n + 1
            BY <1>1, <1>2, <1>6, <1>7, <3>2
        <3> QED BY <1>8, <3>1, <3>2
    <2> QED BY <1>6, <2>1 DEF EqualFrames
<1>11. Chained(new, r)
    <2>1. new[1].left = r[1] /\ new[1].right = r[2]
        <3>1. CASE n = 0
            BY <1>3, <1>6, <1>7, <1>9, <3>1 DEF Ready
        <3>2. CASE n # 0
            <4>1. 1 \in 1 .. n /\ calls # <<>>
                BY <1>5, <1>9, <3>2
            <4> QED BY <1>3, <1>6, <4>1 DEF Chained
        <3> QED BY <3>1, <3>2
    <2>2. ASSUME NEW k \in 1 .. n
          PROVE  HoldBoth(new[k].left, new[k].right, new[k + 1].left, new[k + 1].right)
        <3>1. CASE k = n
            <4>1. calls # <<>>
                BY <1>5, <1>9, <2>2
            <4>2. HoldBoth(calls[n].left, calls[n].right, v, w)
                BY <1>1, <1>9, <4>1 DEF Ready
            <4> QED BY <1>6, <1>7, <2>2, <3>1, <4>2
        <3>2. CASE k # n
            <4>1. k \in 1 .. n - 1 /\ k + 1 \in 1 .. n
                BY <1>5, <3>2
            <4> QED BY <1>3, <1>6, <1>9, <4>1 DEF Chained
        <3> QED BY <3>1, <3>2
    <2>3. 1 .. Len(new) - 1 = 1 .. n
        BY <1>5, <1>6
    <2> QED BY <2>1, <2>2, <2>3 DEF Chained
<1>12. Paired(new) = Paired(calls) \cup {<<v, w>>}
    <2>1. Paired(new) = {<<new[k].left, new[k].right>> : k \in 1 .. n + 1}
        BY <1>6 DEF Paired
    <2>2. Paired(calls) = {<<calls[k].left, calls[k].right>> : k \in 1 .. n}
        BY <1>9 DEF Paired
    <2>3. n + 1 \in 1 .. n + 1 /\ \A k \in 1 .. n : k \in 1 .. n + 1
        BY <1>5
    <2> QED BY <1>6, <1>7, <1>8, <2>1, <2>2, <2>3
<1>13. Followed(new, r)
    <2> SUFFICES ASSUME NEW alike \in SUBSET Pairs, Bisimulation(alike), Alike(r[1], r[2], alike)
                 PROVE  Paired(new) \subseteq alike
        BY DEF Followed
    <2>1. Paired(calls) \subseteq alike
        BY <1>3 DEF Followed
    <2>2. Alike(v, w, alike)
        BY DEF Ready
    <2>3. <<v, w>> \in alike
        BY <2>2 DEF Alike, Same
    <2> QED BY <1>12, <2>1, <2>3
<1>14. Comparing(new, r)
    BY <1>10, <1>11, <1>13 DEF Comparing, Ready
<1>15. PICK seen \in SUBSET Pairs : \A rel \in SUBSET Pairs :
          seen \cup Paired(calls) \subseteq rel /\ Alike(v, w, rel) => Settled(seen, calls, rel)
    BY DEF Ready
<1>16. PICK rel \in SUBSET Pairs : rel = seen \cup Paired(new)
    BY <1>10, PairedIn
<1>17. Settled(seen, calls, rel)
    <2>1. <<v, w>> \in rel /\ seen \cup Paired(calls) \subseteq rel
        BY <1>12, <1>16
    <2>2. Alike(v, w, rel)
        BY <2>1 DEF Alike
    <2> QED BY <1>15, <2>1, <2>2
<1>18. Settled(seen, new, rel)
    <2>1. ASSUME NEW k \in 1 .. n + 1, NEW i \in 1 .. new[k].next - 1
          PROVE  Alike(Items(new[k].left)[i], Items(new[k].right)[i], rel)
        <3>1. CASE k \in 1 .. n
            BY <1>6, <1>9, <1>17, <2>1, <3>1 DEF Settled
        <3>2. CASE k = n + 1
            <4>1. i \in 1 .. 1 - 1
                BY <1>6, <1>7, <2>1, <3>2
            <4> QED BY <4>1
        <3> QED BY <1>8, <3>1, <3>2
    <2> QED BY <1>6, <1>17, <2>1 DEF Settled
<1> QED BY <1>6, <1>14, <1>16, <1>18 DEF new

\* All the items of the two arrays of the last call are alike.
LEMMA ReturnSettles ==
    ASSUME Heap, stack # <<>>, Comparing(stack, roots), call.next > Count(call.left),
           NEW seen \in SUBSET Pairs, Settled(seen, stack, seen \cup Paired(stack))
    PROVE  LET rest == Callers
           IN  /\ Comparing(rest, roots)
               /\ \E more \in SUBSET Pairs : /\ Settled(more, rest, more \cup Paired(rest))
                                             /\ <<call.left, call.right>> \in more
<1> DEFINE rest == Callers
           n == Len(stack)
           more == seen \cup {<<call.left, call.right>>}
<1>1. /\ stack \in Seq(EqualCall) /\ EqualFrames(stack) /\ Chained(stack, roots)
      /\ Followed(stack, roots) /\ roots \in Seq(DOMAIN arrays) /\ Len(roots) = 2
    BY DEF Comparing, EqualFrames
<1>2. n \in Nat \ {0} /\ call = stack[n] /\ call \in EqualCall
    BY <1>1, CallersAre
<1>3. /\ rest \in Seq(EqualCall) /\ Len(rest) = n - 1
      /\ \A k \in 1 .. n - 1 : rest[k] = stack[k]
    BY <1>1, CallersAre
<1>4. Len(stack) = n
    OBVIOUS
<1> HIDE DEF rest, n
<1>5. \A k \in 1 .. n - 1 : k \in 1 .. n
    BY <1>2
<1>6. /\ call.left \in DOMAIN arrays /\ call.right \in DOMAIN arrays /\ call.next \in Nat
      /\ call.left # call.right /\ Count(call.left) = Count(call.right)
      /\ Count(call.left) \in Nat
    <2>1. call.left \in DOMAIN arrays /\ call.right \in DOMAIN arrays /\ call.next \in Nat
        BY <1>2, BoundsAssumption DEF EqualCall
    <2>2. call.left # call.right /\ Count(call.left) = Count(call.right)
        BY <1>1, <1>2, <1>4 DEF EqualFrames
    <2> QED BY <2>1, <2>2, ArrayValues
<1>7. EqualFrames(rest)
    BY <1>1, <1>3, <1>4, <1>5 DEF EqualFrames
<1>8. Chained(rest, roots)
    <2>1. rest # <<>> => 1 \in 1 .. n - 1
        BY <1>2, <1>3
    <2>2. \A k \in 1 .. (n - 1) - 1 : k \in 1 .. n - 1 /\ k + 1 \in 1 .. n - 1
        BY <1>2
    <2> QED BY <1>1, <1>3, <1>4, <2>1, <2>2 DEF Chained
<1>9. Paired(stack) = Paired(rest) \cup {<<call.left, call.right>>}
    <2>1. Paired(stack) = {<<stack[k].left, stack[k].right>> : k \in 1 .. n}
        BY <1>4 DEF Paired
    <2>2. Paired(rest) = {<<rest[k].left, rest[k].right>> : k \in 1 .. n - 1}
        BY <1>3 DEF Paired
    <2>3. n \in 1 .. n /\ \A k \in 1 .. n : k \in 1 .. n - 1 \/ k = n
        BY <1>2
    <2> QED BY <1>2, <1>3, <1>5, <2>1, <2>2, <2>3
<1>10. Followed(rest, roots)
    BY <1>1, <1>9 DEF Followed
<1>11. more \in SUBSET Pairs /\ <<call.left, call.right>> \in more
    BY <1>6 DEF Pairs
<1>12. seen \cup Paired(stack) = more \cup Paired(rest)
    BY <1>9
<1> DEFINE rel == more \cup Paired(rest)
<1>13. Settled(seen, stack, rel)
    BY <1>12
<1> HIDE DEF rel
<1>14. \A i \in 1 .. Count(call.left) : Alike(Items(call.left)[i], Items(call.right)[i], rel)
    <2>1. \A i \in 1 .. Count(call.left) : i \in 1 .. call.next - 1
        BY <1>6
    <2>2. n \in 1 .. Len(stack)
        BY <1>2, <1>4
    <2> QED BY <1>2, <1>13, <2>1, <2>2 DEF Settled
<1>15. Settled(more, rest, rel)
    <2>1. ASSUME NEW a \in DOMAIN arrays, NEW b \in DOMAIN arrays, <<a, b>> \in more
          PROVE  /\ Count(a) = Count(b)
                 /\ \A i \in 1 .. Count(a) : Alike(Items(a)[i], Items(b)[i], rel)
        <3>1. CASE <<a, b>> \in seen
            BY <1>13, <3>1 DEF Settled
        <3>2. CASE a = call.left /\ b = call.right
            BY <1>6, <1>14, <3>2
        <3> QED BY <2>1, <3>1, <3>2
    <2>2. ASSUME NEW k \in 1 .. n - 1, NEW i \in 1 .. rest[k].next - 1
          PROVE  Alike(Items(rest[k].left)[i], Items(rest[k].right)[i], rel)
        BY <1>3, <1>4, <1>5, <1>13, <2>2 DEF Settled
    <2> HIDE DEF more
    <2> QED BY <1>3, <2>1, <2>2 DEF Settled
<1>16. Comparing(rest, roots)
    BY <1>1, <1>7, <1>8, <1>10 DEF Comparing
<1> HIDE DEF more
<1> QED BY <1>11, <1>15, <1>16 DEF rel, rest

\* The first call has compared all items.
LEMMA ReturnAnswers ==
    ASSUME Heap, stack # <<>>, Callers = <<>>, Comparing(stack, roots), call.next > Count(call.left),
           NEW seen \in SUBSET Pairs, Settled(seen, stack, seen \cup Paired(stack))
    PROVE  AreAlike(roots)
<1>1. PICK more \in SUBSET Pairs : /\ Settled(more, <<>>, more \cup Paired(<<>>))
                                   /\ <<call.left, call.right>> \in more
    BY ReturnSettles
<1>2. Paired(<<>>) = {}
    BY DEF Paired
<1>3. Settled(more, <<>>, more)
    BY <1>1, <1>2
<1>4. Bisimulation(more)
    BY <1>3 DEF Settled, Bisimulation
<1>5. stack \in Seq(EqualCall) /\ Chained(stack, roots)
    BY DEF Comparing, EqualFrames
<1>6. call = stack[1]
    BY <1>5, CallersAre
<1>7. call.left = roots[1] /\ call.right = roots[2]
    BY <1>5, <1>6 DEF Chained
<1> QED BY <1>1, <1>4, <1>7 DEF AreAlike, Alike
-----------------------------------------------------------------------------
(* More arrays in a row than there are.                                    *)

\* A way from array to array that is longer than there are arrays comes to one
\* of them again.
LEMMA LongWay ==
    ASSUME Heap, NEW most \in Nat, Len(arrays) <= most,
           NEW m \in Nat, m > most, NEW way \in [1 .. m -> DOMAIN arrays],
           \A k \in 1 .. m - 1 : Holds(way[k], way[k + 1])
    PROVE  Circular(way[1])
<1>1. /\ IsFiniteSet(1 .. m) /\ Cardinality(1 .. m) = m
      /\ IsFiniteSet(DOMAIN arrays) /\ Cardinality(DOMAIN arrays) < m
    <2>1. Len(arrays) \in Nat /\ DOMAIN arrays = 1 .. Len(arrays) /\ Len(arrays) < m
        BY DEF Heap
    <2>2. m > 0
        OBVIOUS
    <2>3. IsFiniteSet(1 .. m) /\ Cardinality(1 .. m) = m
        BY <2>2, FS_Interval
    <2>4. PICK n \in Nat : n = Len(arrays)
        BY <2>1
    <2>5. IsFiniteSet(1 .. n) /\ Cardinality(1 .. n) = n
        <3>1. n \in Int /\ 1 \in Int /\ (1 > n => n = 0) /\ n - 1 + 1 = n
            OBVIOUS
        <3> QED BY ONLY <3>1, FS_Interval
    <2> QED BY <2>1, <2>3, <2>4, <2>5
<1>2. PICK x, y \in 1 .. m : x # y /\ way[x] = way[y]
    BY <1>1, FS_PigeonHole
<1>3. PICK i, j \in 1 .. m : i < j /\ way[i] = way[j]
    BY <1>2
<1> DEFINE endless == {way[k] : k \in 1 .. j}
<1>4. endless \in SUBSET DOMAIN arrays /\ way[1] \in endless
    BY <1>3
<1>5. ASSUME NEW k \in 1 .. j
      PROVE  \E c \in endless : Holds(way[k], c)
    <2>1. CASE k < j
        <3>1. k \in 1 .. m - 1 /\ k + 1 \in 1 .. j
            BY <1>3, <2>1
        <3> QED BY <3>1
    <2>2. CASE k = j
        <3>1. i \in 1 .. m - 1 /\ i + 1 \in 1 .. j
            BY <1>3
        <3>2. Holds(way[i], way[i + 1])
            BY <3>1
        <3>3. way[i + 1] \in endless
            BY <3>1
        <3>4. way[k] = way[i]
            BY <1>3, <2>2
        <3> HIDE DEF endless
        <3> QED BY <3>2, <3>3, <3>4
    <2>3. k < j \/ k = j
        BY <1>3
    <2> QED BY ONLY <2>1, <2>2, <2>3
<1>6. \A b \in endless : \E c \in endless : Holds(b, c)
    BY <1>5
<1> HIDE DEF endless
<1> QED BY <1>4, <1>6 DEF Circular

\* A comparison that the C stack has no room for.
LEMMA LongComparison ==
    ASSUME Heap, NEW calls, NEW r, Comparing(calls, r), Len(calls) = MaxDepth + 1
    PROVE  /\ DeepTogether(r[1], r[2])
           /\ Len(arrays) <= MaxDepth => Circular(r[1]) /\ Circular(r[2])
<1> DEFINE m == MaxDepth + 1
           left == [k \in 1 .. m |-> calls[k].left]
           right == [k \in 1 .. m |-> calls[k].right]
<1>1. calls \in Seq(EqualCall) /\ EqualFrames(calls) /\ Chained(calls, r)
    BY DEF Comparing, EqualFrames
<1>2. m \in Nat /\ m >= 1 /\ m = Len(calls) /\ m - 1 = MaxDepth /\ MaxDepth \in Nat
    BY DepthAssumption
<1>3. left \in [1 .. m -> DOMAIN arrays] /\ right \in [1 .. m -> DOMAIN arrays]
    <2>1. ASSUME NEW k \in 1 .. m
          PROVE  calls[k].left \in DOMAIN arrays /\ calls[k].right \in DOMAIN arrays
        <3>1. calls[k] \in EqualCall
            BY <1>1, <1>2
        <3> QED BY <3>1 DEF EqualCall
    <2> HIDE DEF m
    <2> QED BY <2>1
<1>4. calls # <<>> /\ 1 \in 1 .. m
    BY <1>1, <1>2
<1>5. left[1] = r[1] /\ right[1] = r[2]
    <2>1. calls[1].left = r[1] /\ calls[1].right = r[2]
        BY <1>1, <1>4, Zenon DEF Chained
    <2> HIDE DEF m
    <2> QED BY <1>4, <2>1
<1>6. \A k \in 1 .. m - 1 : HoldBoth(left[k], right[k], left[k + 1], right[k + 1])
    <2>1. \A k \in 1 .. m - 1 : k \in 1 .. m /\ k + 1 \in 1 .. m
        BY <1>2
    <2> HIDE DEF m
    <2> QED BY <1>1, <1>2, <2>1 DEF Chained
<1>7. \A k \in 1 .. m : left[k] # right[k]
    <2> HIDE DEF m
    <2> QED BY <1>1, <1>2 DEF EqualFrames
<1> HIDE DEF left, right
<1>8. \A k \in 1 .. m - 1 : Holds(left[k], left[k + 1]) /\ Holds(right[k], right[k + 1])
    BY <1>6 DEF HoldBoth, Holds
<1>9. DeepTogether(r[1], r[2])
    <2>1. left \in WaysDown(r[1]) /\ right \in WaysDown(r[2])
        BY <1>2, <1>3, <1>5, <1>8 DEF WaysDown
    <2> QED BY <1>2, <1>6, <1>7, <2>1 DEF DeepTogether
<1>10. ASSUME Len(arrays) <= MaxDepth
       PROVE  Circular(r[1]) /\ Circular(r[2])
    <2>1. m > MaxDepth
        BY <1>2
    <2> HIDE DEF m
    <2>2. Circular(left[1])
        BY <1>2, <1>3, <1>8, <1>10, <2>1, LongWay
    <2>3. Circular(right[1])
        BY <1>2, <1>3, <1>8, <1>10, <2>1, LongWay
    <2> QED BY <1>5, <2>2, <2>3
<1> QED BY <1>9, <1>10
-----------------------------------------------------------------------------
(* Printing.                                                               *)

\* What a call of value_rprinter on v can count on.
ReadyToPrint(v, calls, tracked, r) ==
    /\ v \in Values
    /\ r \in Seq(DOMAIN arrays) /\ Len(r) = 1
    /\ PrintFrames(calls, tracked) /\ Once(tracked, r[1])
    /\ Len(calls) <= Len(tracked)
    /\ v \in DOMAIN arrays => v \in Reach(r[1])
    /\ \/ Len(tracked) = PRINT_MAX_COLLECTIONS
       \/ /\ calls = <<>> => tracked = <<>> /\ v = r[1]
          /\ calls # <<>> => Tracked(r[1], tracked)
          \* all is complete once v is tracked
          /\ \A now \in Seq(DOMAIN arrays) :
                /\ \A j \in 1 .. Len(tracked) : Tracked(tracked[j], now)
                /\ v \in DOMAIN arrays => Tracked(v, now)
                => /\ \A k \in 1 .. Len(calls) : Done(calls[k].array, calls[k].next - 1, now)
                   /\ \A j \in 1 .. Len(tracked) :
                         \/ \E k \in 1 .. Len(calls) : calls[k].array = tracked[j]
                         \/ Done(tracked[j], Count(tracked[j]), now)

LEMMA ReachHolds ==
    ASSUME NEW root, NEW a \in Reach(root), NEW b \in DOMAIN arrays, Holds(a, b)
    PROVE  b \in Reach(root)
BY DEF Reach, Closed

LEMMA DoneGrows ==
    ASSUME NEW a, NEW n, NEW tracked, NEW now,
           \A j \in DOMAIN tracked : Tracked(tracked[j], now), Done(a, n, tracked)
    PROVE  Done(a, n, now)
BY DEF Done, Tracked

LEMMA ReadyToBeginPrint ==
    ASSUME Heap, NEW a \in DOMAIN arrays
    PROVE  ReadyToPrint(a, <<>>, <<>>, <<a>>)
<1>1. PrintFrames(<<>>, <<>>)
    BY DEF PrintFrames
<1>2. Once(<<>>, a)
    BY DepthAssumption DEF Once
<1>3. a \in Reach(a)
    BY DEF Reach
<1>4. <<a>> \in Seq(DOMAIN arrays) /\ Len(<<a>>) = 1 /\ <<a>>[1] = a
    OBVIOUS
<1>5. Len(<<>>) <= Len(<<>>) /\ \A k \in 1 .. Len(<<>>) : FALSE
    OBVIOUS
<1> QED BY <1>1, <1>2, <1>3, <1>4, <1>5 DEF ReadyToPrint, Values

LEMMA ReadyToGoOnPrinting ==
    ASSUME Heap, work = "print", PrintInv, call.next <= Count(call.array)
    PROVE  ReadyToPrint(Items(call.array)[call.next], GoneOn, objects, roots)
<1> DEFINE n == Len(stack)
           v == Items(call.array)[call.next]
<1>1. /\ stack # <<>> /\ Printing(stack, objects, roots)
      /\ stack \in Seq(PrintCall) /\ PrintFrames(stack, objects) /\ Once(objects, roots[1])
      /\ roots \in Seq(DOMAIN arrays) /\ Len(roots) = 1 /\ n <= Len(objects)
      /\ objects \in Seq(DOMAIN arrays)
    <2>1. stack # <<>> /\ Printing(stack, objects, roots)
        BY DEF PrintInv
    <2>2. /\ PrintFrames(stack, objects) /\ Once(objects, roots[1])
          /\ roots \in Seq(DOMAIN arrays) /\ Len(roots) = 1 /\ n <= Len(objects)
        BY <2>1 DEF Printing
    <2>3. stack \in Seq(PrintCall)
        BY <2>2 DEF PrintFrames
    <2>4. objects \in Seq(DOMAIN arrays)
        BY <2>2 DEF Once
    <2> QED BY <2>1, <2>2, <2>3, <2>4
<1>2. n \in Nat \ {0} /\ call = stack[n] /\ call \in PrintCall
    BY <1>1, CallersAre
<1>3. call.array \in DOMAIN arrays /\ call.next \in 1 .. MaxCount + 1
    BY <1>2 DEF PrintCall
<1>4. Count(call.array) \in Nat /\ Count(call.array) <= MaxCount
    BY <1>3, ArrayValues DEF Heap
<1>5. call.next \in 1 .. Count(call.array) /\ call.next + 1 \in 1 .. MaxCount + 1
    BY <1>3, <1>4, BoundsAssumption
<1>6. [call EXCEPT !.next = @ + 1] = [array |-> call.array, next |-> call.next + 1]
    BY <1>2 DEF PrintCall
<1>7. [call EXCEPT !.next = @ + 1] \in PrintCall
    BY <1>3, <1>5, <1>6 DEF PrintCall
<1>8. /\ GoneOn \in Seq(PrintCall) /\ GoneOn # <<>> /\ Len(GoneOn) = n
      /\ \A k \in 1 .. n - 1 : GoneOn[k] = stack[k]
      /\ GoneOn[n] = [array |-> call.array, next |-> call.next + 1]
    BY <1>1, <1>6, <1>7, GoneOnIs
<1>9. Len(stack) = n
    OBVIOUS
<1> HIDE DEF n
<1>10. \A k \in 1 .. n : k \in 1 .. n - 1 \/ k = n
    BY <1>2
<1>11. \A k \in 1 .. n : GoneOn[k].array = stack[k].array
    BY <1>2, <1>8, <1>10
<1>12. PrintFrames(GoneOn, objects)
    <2>1. ASSUME NEW k \in 1 .. n
          PROVE  GoneOn[k].next <= Count(GoneOn[k].array) + 1
        <3>1. CASE k \in 1 .. n - 1
            BY <1>1, <1>8, <1>9, <3>1 DEF PrintFrames
        <3>2. CASE k = n
            BY <1>4, <1>5, <1>8, <3>2
        <3> QED BY <1>10, <3>1, <3>2
    <2> QED BY <1>1, <1>8, <1>9, <1>11, <2>1 DEF PrintFrames
<1>13. v \in Values /\ (v \in DOMAIN arrays => Holds(call.array, v))
    BY <1>3, <1>5, ItemIs
<1>14. v \in DOMAIN arrays => v \in Reach(roots[1])
    <2>1. Tracked(call.array, objects)
        BY <1>1, <1>2, <1>9 DEF PrintFrames
    <2>2. call.array \in Reach(roots[1])
        BY <1>1, <2>1 DEF Tracked, Once
    <2> QED BY <1>13, <2>2, ReachHolds
<1>15. ASSUME Len(objects) # PRINT_MAX_COLLECTIONS
       PROVE  /\ Tracked(roots[1], objects)
              /\ \A now \in Seq(DOMAIN arrays) :
                    /\ \A j \in 1 .. Len(objects) : Tracked(objects[j], now)
                    /\ v \in DOMAIN arrays => Tracked(v, now)
                    => /\ \A k \in 1 .. Len(GoneOn) : Done(GoneOn[k].array, GoneOn[k].next - 1, now)
                       /\ \A j \in 1 .. Len(objects) :
                             \/ \E k \in 1 .. Len(GoneOn) : GoneOn[k].array = objects[j]
                             \/ Done(objects[j], Count(objects[j]), now)
    <2>1. Tracked(roots[1], objects) /\ Complete(stack, objects)
        BY <1>1, <1>15 DEF Printing
    <2>2. ASSUME NEW now \in Seq(DOMAIN arrays),
                 \A j \in 1 .. Len(objects) : Tracked(objects[j], now),
                 v \in DOMAIN arrays => Tracked(v, now)
          PROVE  /\ \A k \in 1 .. n : Done(GoneOn[k].array, GoneOn[k].next - 1, now)
                 /\ \A j \in 1 .. Len(objects) :
                       \/ \E k \in 1 .. n : GoneOn[k].array = objects[j]
                       \/ Done(objects[j], Count(objects[j]), now)
        <3>0. \A j \in DOMAIN objects : Tracked(objects[j], now)
            BY <1>1, <2>2
        <3>1. ASSUME NEW k \in 1 .. n
              PROVE  Done(stack[k].array, stack[k].next - 1, now)
            BY <1>9, <2>1, <3>0, DoneGrows DEF Complete
        <3>2. Done(call.array, call.next, now)
            <4>1. Done(call.array, call.next - 1, now)
                BY <1>2, <3>1
            <4>2. ASSUME NEW i \in 1 .. call.next, Items(call.array)[i] \in DOMAIN arrays
                  PROVE  Tracked(Items(call.array)[i], now)
                <5>1. CASE i = call.next
                    BY <2>2, <4>2, <5>1
                <5>2. CASE i # call.next
                    <6>1. i \in 1 .. call.next - 1
                        BY <1>3, <5>2
                    <6> QED BY <4>1, <4>2, <6>1 DEF Done
                <5> QED BY <5>1, <5>2
            <4> QED BY <4>2 DEF Done
        <3>3. ASSUME NEW k \in 1 .. n
              PROVE  Done(GoneOn[k].array, GoneOn[k].next - 1, now)
            <4>1. CASE k \in 1 .. n - 1
                BY <1>8, <3>1, <4>1
            <4>2. CASE k = n
                <5>1. GoneOn[n].array = call.array /\ GoneOn[n].next - 1 = call.next
                    BY <1>3, <1>8
                <5> QED BY <3>2, <4>2, <5>1
            <4> QED BY <1>10, <4>1, <4>2
        <3>4. ASSUME NEW j \in 1 .. Len(objects)
              PROVE  \/ \E k \in 1 .. n : GoneOn[k].array = objects[j]
                     \/ Done(objects[j], Count(objects[j]), now)
            <4>1. \/ \E k \in 1 .. n : stack[k].array = objects[j]
                  \/ Done(objects[j], Count(objects[j]), objects)
                BY <1>9, <2>1 DEF Complete
            <4> QED BY <1>11, <3>0, <4>1, DoneGrows
        <3> QED BY <3>3, <3>4
    <2> QED BY <1>8, <2>1, <2>2
<1> HIDE DEF v
<1>16. ReadyToPrint(v, GoneOn, objects, roots)
    BY <1>1, <1>8, <1>9, <1>12, <1>13, <1>14, <1>15 DEF ReadyToPrint
<1> QED BY <1>16 DEF v

\* The value is written, or [...] for it.
LEMMA WrittenGoesOn ==
    ASSUME NEW v, NEW calls, NEW tracked, NEW r, ReadyToPrint(v, calls, tracked, r), Heap,
           calls # <<>>, v \in Scalars \/ Tracked(v, tracked) \/ Len(tracked) = PRINT_MAX_COLLECTIONS
    PROVE  Printing(calls, tracked, r)
<1>1. /\ r \in Seq(DOMAIN arrays) /\ Len(r) = 1
      /\ PrintFrames(calls, tracked) /\ Once(tracked, r[1]) /\ Len(calls) <= Len(tracked)
    BY DEF ReadyToPrint
<1>2. ASSUME Len(tracked) # PRINT_MAX_COLLECTIONS
      PROVE  Tracked(r[1], tracked) /\ Complete(calls, tracked)
    <2>1. tracked \in Seq(DOMAIN arrays)
        BY <1>1 DEF Once
    <2>2. \A j \in 1 .. Len(tracked) : Tracked(tracked[j], tracked)
        BY <2>1 DEF Tracked
    <2>3. v \in DOMAIN arrays => Tracked(v, tracked)
        BY <1>2, ArrayValues
    <2> QED BY <1>2, <2>1, <2>2, <2>3 DEF ReadyToPrint, Complete
<1> QED BY <1>1, <1>2 DEF Printing

LEMMA WrittenEnds ==
    ASSUME NEW v, NEW tracked, NEW r, ReadyToPrint(v, <<>>, tracked, r), Heap,
           v \in Scalars \/ Tracked(v, tracked) \/ Len(tracked) = PRINT_MAX_COLLECTIONS
    PROVE  Len(tracked) = PRINT_MAX_COLLECTIONS
<1> SUFFICES ASSUME Len(tracked) # PRINT_MAX_COLLECTIONS
             PROVE  FALSE
    OBVIOUS
<1>1. tracked = <<>> /\ v = r[1] /\ r \in Seq(DOMAIN arrays) /\ Len(r) = 1
    BY DEF ReadyToPrint
<1>2. v \in DOMAIN arrays
    BY <1>1
<1>3. ~Tracked(v, tracked)
    BY <1>1 DEF Tracked
<1> QED BY <1>2, <1>3, ArrayValues

\* The array is tracked and its items are to be printed.
LEMMA Enters ==
    ASSUME NEW v, NEW calls, NEW tracked, NEW r, ReadyToPrint(v, calls, tracked, r), Heap,
           v \notin Scalars, ~Tracked(v, tracked), Len(tracked) < PRINT_MAX_COLLECTIONS
    PROVE  LET new == Append(calls, [array |-> v, next |-> 1])
           IN  new # <<>> /\ Printing(new, Append(tracked, v), r) /\ Len(calls) < MaxDepth
<1> DEFINE top == [array |-> v, next |-> 1]
           new == Append(calls, top)
           now == Append(tracked, v)
           n == Len(calls)
           m == Len(tracked)
<1>1. /\ r \in Seq(DOMAIN arrays) /\ Len(r) = 1
      /\ PrintFrames(calls, tracked) /\ Once(tracked, r[1]) /\ n <= m
      /\ calls \in Seq(PrintCall) /\ tracked \in Seq(DOMAIN arrays)
    BY DEF ReadyToPrint, PrintFrames, Once
<1>2. n \in Nat /\ m \in Nat /\ Len(calls) = n /\ Len(tracked) = m
    BY <1>1
<1>3. v \in DOMAIN arrays /\ Count(v) \in Nat /\ v \in Reach(r[1])
    BY ArrayValues DEF ReadyToPrint, Values
<1>4. top \in PrintCall /\ top.array = v /\ top.next = 1
    BY <1>3, BoundsAssumption DEF PrintCall
<1> HIDE DEF n, m, top
<1>5. /\ new \in Seq(PrintCall) /\ new # <<>> /\ Len(new) = n + 1
      /\ \A k \in 1 .. n : new[k] = calls[k]
      /\ new[n + 1] = top
    BY <1>1, <1>2, <1>4, AppendIs
<1>6. /\ now \in Seq(DOMAIN arrays) /\ Len(now) = m + 1
      /\ \A k \in 1 .. m : now[k] = tracked[k]
      /\ now[m + 1] = v
    BY <1>1, <1>2, <1>3, AppendIs
<1>7. /\ \A k \in 1 .. n + 1 : k \in 1 .. n \/ k = n + 1
      /\ \A k \in 1 .. m + 1 : k \in 1 .. m \/ k = m + 1
      /\ m + 1 \in 1 .. m + 1 /\ \A k \in 1 .. m : k \in 1 .. m + 1
      /\ n + 1 \in 1 .. n + 1 /\ \A k \in 1 .. n : k \in 1 .. n + 1
    BY <1>2
<1> HIDE DEF new, now
<1>8. Tracked(v, now) /\ \A j \in 1 .. m : Tracked(tracked[j], now)
    BY <1>6, <1>7 DEF Tracked
<1>9. \A w : Tracked(w, tracked) => Tracked(w, now)
    BY <1>1, <1>2, <1>8 DEF Tracked
<1>10. PrintFrames(new, now)
    <2>1. ASSUME NEW k \in 1 .. n + 1
          PROVE  new[k].next <= Count(new[k].array) + 1 /\ Tracked(new[k].array, now)
        <3>1. CASE k \in 1 .. n
            BY <1>1, <1>2, <1>5, <1>9, <3>1 DEF PrintFrames
        <3>2. CASE k = n + 1
            BY <1>3, <1>4, <1>5, <1>8, <3>2
        <3> QED BY <1>7, <3>1, <3>2
    <2> QED BY <1>5, <2>1 DEF PrintFrames
<1>11. Once(now, r[1])
    <2>1. ASSUME NEW j \in 1 .. m + 1, NEW k \in 1 .. m + 1, now[j] = now[k]
          PROVE  j = k
        <3>1. \A i \in 1 .. m : tracked[i] # v
            BY <1>1, <1>2 DEF Tracked
        <3> QED BY <1>1, <1>2, <1>6, <1>7, <2>1, <3>1 DEF Once
    <2>2. ASSUME NEW k \in 1 .. m + 1
          PROVE  now[k] \in Reach(r[1])
        BY <1>1, <1>2, <1>3, <1>6, <1>7 DEF Once
    <2>3. m + 1 <= PRINT_MAX_COLLECTIONS
        BY <1>2, DepthAssumption
    <2> QED BY <1>6, <2>1, <2>2, <2>3 DEF Once
<1>12. Tracked(r[1], now) /\ Complete(new, now)
    <2>1. m # PRINT_MAX_COLLECTIONS
        BY <1>2, DepthAssumption
    <2>2. Tracked(r[1], now)
        <3>1. CASE calls = <<>>
            BY <1>2, <1>8, <2>1, <3>1 DEF ReadyToPrint
        <3>2. CASE calls # <<>>
            BY <1>2, <1>9, <2>1, <3>2 DEF ReadyToPrint
        <3> QED BY <3>1, <3>2
    <2>3. /\ \A k \in 1 .. n : Done(calls[k].array, calls[k].next - 1, now)
          /\ \A j \in 1 .. m : \/ \E k \in 1 .. n : calls[k].array = tracked[j]
                               \/ Done(tracked[j], Count(tracked[j]), now)
        BY <1>2, <1>6, <1>8, <2>1 DEF ReadyToPrint
    <2>4. ASSUME NEW k \in 1 .. n + 1
          PROVE  Done(new[k].array, new[k].next - 1, now)
        <3>1. CASE k \in 1 .. n
            BY <1>5, <2>3, <3>1
        <3>2. CASE k = n + 1
            <4>1. new[k].next - 1 = 0
                BY <1>4, <1>5, <3>2
            <4> QED BY <4>1 DEF Done
        <3> QED BY <1>7, <3>1, <3>2
    <2>5. ASSUME NEW j \in 1 .. m + 1
          PROVE  \/ \E k \in 1 .. n + 1 : new[k].array = now[j]
                 \/ Done(now[j], Count(now[j]), now)
        <3>1. CASE j \in 1 .. m
            BY <1>5, <1>6, <1>7, <2>3, <3>1
        <3>2. CASE j = m + 1
            BY <1>4, <1>5, <1>6, <1>7, <3>2
        <3> QED BY <1>7, <3>1, <3>2
    <2> QED BY <1>5, <1>6, <2>2, <2>4, <2>5 DEF Complete
<1>13. Len(new) <= Len(now) /\ n < MaxDepth
    BY <1>1, <1>2, <1>5, <1>6, DepthAssumption
<1>14. Printing(new, now, r)
    BY <1>1, <1>10, <1>11, <1>12, <1>13 DEF Printing
<1> QED BY <1>2, <1>5, <1>13, <1>14 DEF new, now, top

\* The items of the last call are printed.
LEMMA PrintedGoesOn ==
    ASSUME Heap, stack # <<>>, Printing(stack, objects, roots), call.next > Count(call.array)
    PROVE  LET rest == Callers
           IN  /\ Printing(rest, objects, roots)
               /\ rest = <<>> => \/ Len(objects) = PRINT_MAX_COLLECTIONS
                                 \/ \A b \in Reach(roots[1]) :
                                       \E k \in DOMAIN objects : objects[k] = b
<1> DEFINE rest == Callers
           n == Len(stack)
<1>1. /\ stack \in Seq(PrintCall) /\ PrintFrames(stack, objects) /\ Once(objects, roots[1])
      /\ roots \in Seq(DOMAIN arrays) /\ Len(roots) = 1 /\ n <= Len(objects)
      /\ objects \in Seq(DOMAIN arrays) /\ Len(objects) \in Nat
    <2>1. PrintFrames(stack, objects) /\ Once(objects, roots[1])
        BY DEF Printing
    <2>2. roots \in Seq(DOMAIN arrays) /\ Len(roots) = 1 /\ n <= Len(objects)
        BY DEF Printing
    <2>3. stack \in Seq(PrintCall)
        BY <2>1 DEF PrintFrames
    <2>4. objects \in Seq(DOMAIN arrays)
        BY <2>1 DEF Once
    <2>5. Len(objects) \in Nat
        BY <2>4
    <2> QED BY <2>1, <2>2, <2>3, <2>4, <2>5
<1>2. n \in Nat \ {0} /\ call = stack[n] /\ call \in PrintCall
    BY <1>1, CallersAre
<1>3. /\ rest \in Seq(PrintCall) /\ Len(rest) = n - 1
      /\ \A k \in 1 .. n - 1 : rest[k] = stack[k]
      /\ (rest = <<>> <=> n = 1)
    BY <1>1, CallersAre
<1>4. Len(stack) = n
    OBVIOUS
<1> HIDE DEF rest, n
<1>5. /\ \A k \in 1 .. n - 1 : k \in 1 .. n
      /\ \A k \in 1 .. n : k \in 1 .. n - 1 \/ k = n
      /\ n \in 1 .. n
    BY <1>2
<1>6. PrintFrames(rest, objects)
    BY <1>1, <1>3, <1>4, <1>5 DEF PrintFrames
<1>7. ASSUME Len(objects) # PRINT_MAX_COLLECTIONS
      PROVE  Tracked(roots[1], objects) /\ Complete(rest, objects)
    <2>1. Tracked(roots[1], objects) /\ Complete(stack, objects)
        BY <1>7 DEF Printing
    <2>2. Done(call.array, Count(call.array), objects)
        <3>1. Done(call.array, call.next - 1, objects)
            BY <1>2, <1>4, <1>5, <2>1 DEF Complete
        <3>2. call.array \in DOMAIN arrays /\ call.next \in Nat
            BY <1>2, BoundsAssumption DEF PrintCall
        <3>3. Count(call.array) \in Nat
            BY <3>2, ArrayValues
        <3>4. \A i \in 1 .. Count(call.array) : i \in 1 .. call.next - 1
            BY <3>2, <3>3
        <3> QED BY <3>1, <3>4 DEF Done
    <2>3. ASSUME NEW j \in 1 .. Len(objects)
          PROVE  \/ \E k \in 1 .. n - 1 : rest[k].array = objects[j]
                 \/ Done(objects[j], Count(objects[j]), objects)
        <3>1. \/ \E k \in 1 .. n : stack[k].array = objects[j]
              \/ Done(objects[j], Count(objects[j]), objects)
            BY <1>4, <2>1 DEF Complete
        <3>2. CASE \E k \in 1 .. n : stack[k].array = objects[j]
            <4>1. PICK k \in 1 .. n : stack[k].array = objects[j]
                BY <3>2
            <4>2. CASE k = n
                BY <1>2, <2>2, <4>1, <4>2
            <4>3. CASE k \in 1 .. n - 1
                BY <1>3, <4>1, <4>3
            <4> QED BY <1>5, <4>2, <4>3
        <3> QED BY <3>1, <3>2
    <2>4. \A k \in 1 .. n - 1 : Done(rest[k].array, rest[k].next - 1, objects)
        BY <1>3, <1>4, <1>5, <2>1 DEF Complete
    <2> QED BY <1>3, <2>1, <2>3, <2>4 DEF Complete
<1>8. Printing(rest, objects, roots)
    <2>1. Len(rest) <= Len(objects)
        BY <1>1, <1>2, <1>3
    <2> QED BY <1>1, <1>6, <1>7, <2>1 DEF Printing
<1>9. ASSUME rest = <<>>, Len(objects) # PRINT_MAX_COLLECTIONS, NEW b \in Reach(roots[1])
      PROVE  \E k \in DOMAIN objects : objects[k] = b
    <2> DEFINE T == {objects[k] : k \in DOMAIN objects}
    <2>1. T \in SUBSET DOMAIN arrays /\ DOMAIN objects = 1 .. Len(objects)
        BY <1>1
    <2>2. roots[1] \in T
        BY <1>7, <1>9 DEF Tracked
    <2>3. ASSUME NEW j \in DOMAIN objects, NEW c \in DOMAIN arrays, Holds(objects[j], c)
          PROVE  c \in T
        <3>1. ~ \E k \in 1 .. Len(rest) : rest[k].array = objects[j]
            BY <1>3, <1>9
        <3>2. Done(objects[j], Count(objects[j]), objects)
            BY <1>7, <1>9, <2>1, <3>1 DEF Complete
        <3>3. PICK i \in DOMAIN Items(objects[j]) : Items(objects[j])[i] = c
            BY <2>3 DEF Holds
        <3>4. objects[j] \in DOMAIN arrays
            BY <2>1
        <3>5. i \in 1 .. Count(objects[j])
            BY <3>3, <3>4, ArrayValues DEF Count
        <3>6. Tracked(c, objects)
            BY <3>2, <3>3, <3>5 DEF Done
        <3> QED BY <3>6 DEF Tracked
    <2>4. Closed(T)
        BY <2>3 DEF Closed
    <2> HIDE DEF T
    <2>5. b \in T
        BY <2>1, <2>2, <2>4 DEF Reach
    <2> QED BY <2>5 DEF T
<1> QED BY <1>8, <1>9 DEF rest
-----------------------------------------------------------------------------
(* Steps that leave the arrays alone.                                      *)

LEMMA FrozenValues ==
    ASSUME arrays' = arrays
    PROVE  /\ \A a : Items(a)' = Items(a) /\ Count(a)' = Count(a)
           /\ \A a, b : Holds(a, b)' <=> Holds(a, b)
           /\ \A a, b, c, d : HoldBoth(a, b, c, d)' <=> HoldBoth(a, b, c, d)
           /\ Values' = Values /\ ValueArray' = ValueArray
           /\ EqualCall' = EqualCall /\ PrintCall' = PrintCall
           /\ Pairs' = Pairs
<1>1. \A a : Items(a)' = Items(a) /\ Count(a)' = Count(a)
    BY DEF Items, Count
<1>2. \A a, b : Holds(a, b)' <=> Holds(a, b)
    BY <1>1 DEF Holds
<1>3. \A a, b, c, d : HoldBoth(a, b, c, d)' <=> HoldBoth(a, b, c, d)
    BY <1>1 DEF HoldBoth
<1>4. Values' = Values /\ ValueArray' = ValueArray
    BY DEF Values, ValueArray
<1> QED BY <1>1, <1>2, <1>3, <1>4 DEF EqualCall, PrintCall, Pairs

LEMMA FrozenDepth ==
    ASSUME arrays' = arrays
    PROVE  /\ \A a, b : DeepTogether(a, b)' <=> DeepTogether(a, b)
           /\ \A a : Circular(a)' <=> Circular(a)
           /\ DeepTogether(roots[1], roots[2])' <=> DeepTogether(roots'[1], roots'[2])
           /\ Circular(roots[1])' <=> Circular(roots'[1])
           /\ Circular(roots[2])' <=> Circular(roots'[2])
<1>1. \A a : WaysDown(a)' = WaysDown(a)
    BY FrozenValues DEF WaysDown
<1>2. \A a, b : DeepTogether(a, b)' <=> DeepTogether(a, b)
    BY <1>1, FrozenValues DEF DeepTogether
<1>3. \A a : Circular(a)' <=> Circular(a)
    BY FrozenValues DEF Circular
<1>4. /\ WaysDown(roots[1])' = WaysDown(roots'[1])
      /\ WaysDown(roots[2])' = WaysDown(roots'[2])
    BY FrozenValues DEF WaysDown
<1>5. DeepTogether(roots[1], roots[2])' <=> DeepTogether(roots'[1], roots'[2])
    BY <1>4, FrozenValues DEF DeepTogether
<1>6. /\ Circular(roots[1])' <=> Circular(roots'[1])
      /\ Circular(roots[2])' <=> Circular(roots'[2])
    BY FrozenValues DEF Circular
<1> QED BY <1>2, <1>3, <1>5, <1>6

LEMMA FrozenHeap ==
    ASSUME arrays' = arrays, Heap
    PROVE  Heap'
BY FrozenValues DEF Heap

LEMMA FrozenComparing ==
    ASSUME arrays' = arrays
    PROVE  /\ \A R : Bisimulation(R)' <=> Bisimulation(R)
           /\ \A calls, r : Comparing(calls, r) => Comparing(calls, r)'
           /\ \A seen, calls, rel : Settled(seen, calls, rel) => Settled(seen, calls, rel)'
<1>1. \A v, w, R : Alike(v, w, R)' <=> Alike(v, w, R)
    BY DEF Alike
<1>2. \A R : Bisimulation(R)' <=> Bisimulation(R)
    BY <1>1, FrozenValues DEF Bisimulation
<1>3. \A calls : EqualFrames(calls) => EqualFrames(calls)'
    BY FrozenValues DEF EqualFrames
<1>4. \A calls, r : Chained(calls, r) => Chained(calls, r)'
    BY FrozenValues DEF Chained
<1>5. \A calls, r : Followed(calls, r) => Followed(calls, r)'
    BY <1>1, <1>2, FrozenValues DEF Followed, Paired
<1>6. \A calls, r : Comparing(calls, r) => Comparing(calls, r)'
    BY <1>3, <1>4, <1>5 DEF Comparing
<1>7. \A seen, calls, rel : Settled(seen, calls, rel) => Settled(seen, calls, rel)'
    BY <1>1, FrozenValues DEF Settled
<1> QED BY <1>2, <1>6, <1>7

LEMMA FrozenPrinting ==
    ASSUME arrays' = arrays
    PROVE  /\ \A a : Reach(a)' = Reach(a)
           /\ \A calls, tracked, r : Printing(calls, tracked, r) => Printing(calls, tracked, r)'
<1>1. \A S : Closed(S)' <=> Closed(S)
    BY FrozenValues DEF Closed
<1>2. \A a : Reach(a)' = Reach(a)
    BY <1>1 DEF Reach
<1>3. \A a, n, tracked : Done(a, n, tracked)' <=> Done(a, n, tracked)
    BY FrozenValues DEF Done, Tracked
<1>4. \A calls, tracked : Complete(calls, tracked) => Complete(calls, tracked)'
    BY <1>3, FrozenValues DEF Complete
<1>5. \A calls, tracked : PrintFrames(calls, tracked) => PrintFrames(calls, tracked)'
    BY FrozenValues DEF PrintFrames, Tracked
<1>6. \A tracked, root : Once(tracked, root) => Once(tracked, root)'
    BY <1>2 DEF Once
<1> QED BY <1>2, <1>4, <1>5, <1>6 DEF Printing, Tracked

\* The comparison goes on.
LEMMA KeepsComparing ==
    ASSUME Heap, arrays' = arrays, NEW calls, NEW r, stack' = calls, roots' = r,
           work' = "equal", answer' = "none", objects' = <<>>,
           calls # <<>>, Len(calls) <= MaxDepth, Comparing(calls, r),
           \E seen \in SUBSET Pairs : Settled(seen, calls, seen \cup Paired(calls))
    PROVE  Inv'
<1>1. Heap' /\ Comparing(calls, r)'
    BY FrozenHeap, FrozenComparing
<1>2. \E seen \in SUBSET (Pairs') : Settled(seen, calls, seen \cup Paired(calls))'
    BY FrozenComparing, FrozenValues DEF Paired
<1>3. Comparing(stack, roots)'
    BY <1>1 DEF Comparing, EqualFrames, Chained, Followed, Paired
<1>4. (\E seen \in SUBSET Pairs : Settled(seen, stack, seen \cup Paired(stack)))'
    <2>1. PICK seen \in SUBSET (Pairs') : Settled(seen, calls, seen \cup Paired(calls))'
        BY <1>2
    <2>2. Paired(stack)' = Paired(calls)
        BY DEF Paired
    <2>3. Settled(seen, stack, seen \cup Paired(stack))'
        BY <2>1, <2>2 DEF Settled, Paired
    <2> QED BY <2>1, <2>3
<1>5. EqualInv'
    BY <1>3, <1>4 DEF EqualInv
<1>6. TypeOK'
    BY <1>1, <1>3 DEF TypeOK, Heap, Comparing, EqualFrames
<1>7. PrintInv' /\ Idle' /\ Quiet' /\ EqualIsBisimilar' /\ OverflowsOnlyOnDeep'
    BY DEF PrintInv, Idle, Quiet, EqualIsBisimilar, OverflowsOnlyOnDeep
<1>8. PrintsAllOnce'
    BY DepthAssumption DEF PrintsAllOnce
<1> QED BY <1>5, <1>6, <1>7, <1>8 DEF Inv

\* The comparison has its answer.
LEMMA EndsComparing ==
    ASSUME Heap, arrays' = arrays, NEW r \in Seq(DOMAIN arrays), Len(r) = 2,
           stack' = <<>>, roots' = r, work' = "done", objects' = <<>>,
           \/ answer' = "true" /\ AreAlike(r)
           \/ answer' = "false" /\ ~AreAlike(r)
    PROVE  Inv'
<1>1. Heap'
    BY FrozenHeap
<1>2. TypeOK'
    BY <1>1, DepthAssumption DEF TypeOK, Heap
<1>3. EqualInv' /\ PrintInv' /\ Idle' /\ Quiet' /\ OverflowsOnlyOnDeep'
    BY DEF EqualInv, PrintInv, Idle, Quiet, OverflowsOnlyOnDeep
<1>4. PrintsAllOnce'
    <2>1. Len(roots') = 2
        OBVIOUS
    <2>2. \A j, k \in DOMAIN objects' : objects'[j] = objects'[k] => j = k
        OBVIOUS
    <2>3. \A k \in DOMAIN objects' : Len(roots') = 1 /\ objects'[k] \in Reach(roots[1])'
        OBVIOUS
    <2>4. Len(objects') <= PRINT_MAX_COLLECTIONS
        BY DepthAssumption
    <2>5. ~(work' = "done" /\ Len(roots') = 1)
        BY <2>1
    <2> QED BY <2>2, <2>3, <2>4, <2>5 DEF PrintsAllOnce
<1>5. AreAlike(r)' <=> AreAlike(r)
    BY FrozenComparing, FrozenValues DEF AreAlike, Alike
<1>6. EqualIsBisimilar'
    BY <1>5 DEF EqualIsBisimilar, AreAlike, Alike
<1> QED BY <1>2, <1>3, <1>4, <1>6 DEF Inv

\* The C stack is full.
LEMMA Crashes ==
    ASSUME Heap, arrays' = arrays, NEW calls \in Seq(EqualCall), NEW r \in Seq(DOMAIN arrays),
           Len(r) = 2, calls # <<>>, Len(calls) <= MaxDepth,
           stack' = calls, roots' = r, work' = "crashed", objects' = <<>>, answer' = "none",
           DeepTogether(r[1], r[2]),
           Len(arrays) <= MaxDepth => Circular(r[1]) /\ Circular(r[2])
    PROVE  Inv'
<1>1. Heap'
    BY FrozenHeap
<1>2. TypeOK'
    BY <1>1, FrozenValues DEF TypeOK, Heap
<1>3. EqualInv' /\ PrintInv' /\ Idle' /\ Quiet' /\ EqualIsBisimilar'
    BY DEF EqualInv, PrintInv, Idle, Quiet, EqualIsBisimilar
<1>4. PrintsAllOnce'
    BY DepthAssumption DEF PrintsAllOnce
<1>5. OverflowsOnlyOnDeep'
    BY FrozenDepth DEF OverflowsOnlyOnDeep
<1> QED BY <1>2, <1>3, <1>4, <1>5 DEF Inv

\* A call of value_equal.
LEMMA EqualKeepsInv ==
    ASSUME Heap, NEW v, NEW w, NEW calls, NEW r, Ready(v, w, calls, r), Equal(v, w, calls),
           roots' = r, objects' = <<>>, Len(calls) <= MaxDepth,
           calls # <<>> => work = "equal"
    PROVE  Inv'
<1>1. /\ arrays' = arrays /\ Comparing(calls, r) /\ r \in Seq(DOMAIN arrays) /\ Len(r) = 2
      /\ calls \in Seq(EqualCall)
    BY DEF Equal, Ready, Comparing, EqualFrames
<1>2. CASE Same(v, w) /\ EndEqual(calls)
    <2>1. CASE calls = <<>>
        <3>1. AreAlike(r)
            BY <1>2, <2>1, SameAnswers
        <3> QED BY <1>1, <1>2, <2>1, <3>1, EndsComparing DEF EndEqual, Return
    <2>2. CASE calls # <<>>
        <3>1. \E seen \in SUBSET Pairs : Settled(seen, calls, seen \cup Paired(calls))
            BY <1>2, SameGoesOn
        <3>2. stack' = calls /\ work' = "equal" /\ answer' = "none"
            BY <1>2, <2>2 DEF EndEqual, Return
        <3> QED BY <1>1, <2>2, <3>1, <3>2, KeepsComparing
    <2> QED BY <2>1, <2>2
<1>3. CASE Different(v, w) /\ Return(<<>>) /\ answer' = "false"
    <2>1. ~AreAlike(r)
        BY <1>3, DifferentAnswers
    <2> QED BY <1>1, <1>3, <2>1, EndsComparing DEF Return
<1>4. CASE /\ ~Same(v, w) /\ ~Different(v, w)
           /\ Call(calls, [left |-> v, right |-> w, next |-> 1], "equal")
           /\ answer' = "none"
    <2> DEFINE new == Descent(v, w, calls)
    <2>1. /\ new # <<>> /\ Comparing(new, r)
          /\ \E seen \in SUBSET Pairs : Settled(seen, new, seen \cup Paired(new))
        BY <1>4, Descends
    <2>2. [left |-> v, right |-> w, next |-> 1] \in EqualCall
        BY <1>4, BoundsAssumption DEF Different, EqualCall
    <2>3. Len(new) = Len(calls) + 1 /\ Len(calls) \in Nat
        BY <1>1, <2>2, AppendIs DEF Descent
    <2>4. CASE Len(calls) < MaxDepth /\ stack' = new /\ work' = "equal"
        <3>1. Len(new) <= MaxDepth
            BY <2>3, <2>4, DepthAssumption
        <3> HIDE DEF new
        <3> QED BY <1>1, <1>4, <2>1, <2>4, <3>1, KeepsComparing
    <2>5. CASE Len(calls) = MaxDepth /\ stack' = calls /\ work' = "crashed"
        <3>1. Len(new) = MaxDepth + 1
            BY <2>3, <2>5
        <3>2. /\ DeepTogether(r[1], r[2])
              /\ Len(arrays) <= MaxDepth => Circular(r[1]) /\ Circular(r[2])
            BY <2>1, <3>1, LongComparison
        <3>3. calls # <<>>
            BY <2>5, DepthAssumption
        <3> QED BY <1>1, <1>4, <2>5, <3>2, <3>3, Crashes
    <2> QED BY <1>4, <2>4, <2>5 DEF Call, Descent
<1> QED BY <1>2, <1>3, <1>4 DEF Equal

\* The printing goes on.
LEMMA KeepsPrinting ==
    ASSUME Heap, arrays' = arrays, NEW calls, NEW tracked, NEW r,
           stack' = calls, roots' = r, objects' = tracked,
           work' = "print", answer' = "none",
           calls # <<>>, Len(calls) <= MaxDepth, Printing(calls, tracked, r)
    PROVE  Inv'
<1>1. Heap' /\ Printing(calls, tracked, r)'
    BY FrozenHeap, FrozenPrinting
<1>2. Printing(stack, objects, roots)'
    BY <1>1 DEF Printing, PrintFrames, Once, Complete, Done, Tracked
<1>3. PrintInv'
    BY <1>2 DEF PrintInv
<1>4. TypeOK'
    <2>1. PrintFrames(calls, tracked) /\ Once(tracked, r[1]) /\ r \in Seq(DOMAIN arrays)
        BY DEF Printing
    <2>2. calls \in Seq(PrintCall) /\ tracked \in Seq(DOMAIN arrays)
        BY <2>1 DEF PrintFrames, Once
    <2>3. \A k \in DOMAIN calls : calls[k].next <= Count(calls[k].array) + 1
        BY <2>1, <2>2 DEF PrintFrames
    <2>4. stack' \in Seq(PrintCall')
        BY <2>2, FrozenValues
    <2>5. (\A k \in DOMAIN stack : stack[k].next <= Count(stack[k].array) + 1)'
        BY <2>3 DEF Count, Items
    <2>6. roots' \in Seq(DOMAIN arrays') /\ objects' \in Seq(DOMAIN arrays')
        BY <2>1, <2>2
    <2>7. Len(stack') <= MaxDepth /\ stack' # <<>>
        OBVIOUS
    <2>8. (work \in {"equal", "crashed"} => stack \in Seq(EqualCall))'
        OBVIOUS
    <2>9. (work = "equal" => \A k \in DOMAIN stack :
                /\ Count(stack[k].left) = Count(stack[k].right)
                /\ stack[k].next <= Count(stack[k].left) + 1)'
        OBVIOUS
    <2>10. (work \in {"idle", "done"} <=> stack = <<>>)'
        BY <2>7
    <2>11. work' \in {"idle", "equal", "print", "done", "crashed"}
           /\ answer' \in {"true", "false", "none"}
        OBVIOUS
    <2> QED BY <1>1, <2>4, <2>5, <2>6, <2>7, <2>8, <2>9, <2>10, <2>11 DEF TypeOK, Heap
<1>5. EqualInv' /\ Idle' /\ Quiet' /\ EqualIsBisimilar' /\ OverflowsOnlyOnDeep'
    BY DEF EqualInv, Idle, Quiet, EqualIsBisimilar, OverflowsOnlyOnDeep
<1>6. PrintsAllOnce'
    BY <1>2 DEF PrintsAllOnce, Printing, Once
<1> QED BY <1>3, <1>4, <1>5, <1>6 DEF Inv

\* All is printed.
LEMMA EndsPrinting ==
    ASSUME Heap, arrays' = arrays, NEW tracked, NEW r \in Seq(DOMAIN arrays), Len(r) = 1,
           stack' = <<>>, roots' = r, objects' = tracked,
           work' = "done", answer' = "none", Once(tracked, r[1]),
           \/ Len(tracked) = PRINT_MAX_COLLECTIONS
           \/ \A b \in Reach(r[1]) : \E k \in DOMAIN tracked : tracked[k] = b
    PROVE  Inv'
<1>1. Heap'
    BY FrozenHeap
<1>2. TypeOK'
    BY <1>1, DepthAssumption DEF TypeOK, Heap, Once
<1>3. EqualInv' /\ PrintInv' /\ Idle' /\ Quiet' /\ EqualIsBisimilar' /\ OverflowsOnlyOnDeep'
    BY DEF EqualInv, PrintInv, Idle, Quiet, EqualIsBisimilar, OverflowsOnlyOnDeep
<1>4. \A a : Reach(a)' = Reach(a)
    BY FrozenPrinting
<1>5. Reach(roots[1])' = Reach(r[1])
    <2>1. Reach(r[1])' = Reach(r[1])
        BY <1>4
    <2>2. Reach(roots[1])' = Reach(r[1])'
        BY DEF Reach
    <2> QED BY <2>1, <2>2
<1>6. PrintsAllOnce'
    BY <1>5 DEF PrintsAllOnce, Once
<1> QED BY <1>2, <1>3, <1>6 DEF Inv

\* A call of value_rprinter.
LEMMA PrintKeepsInv ==
    ASSUME Heap, NEW v, NEW calls, NEW tracked, NEW r, ReadyToPrint(v, calls, tracked, r),
           PrintValue(v, calls, tracked), roots' = r, Len(calls) <= MaxDepth,
           calls # <<>> => work = "print"
    PROVE  Inv'
<1>1. /\ arrays' = arrays /\ answer' = "none" /\ r \in Seq(DOMAIN arrays) /\ Len(r) = 1
      /\ Once(tracked, r[1]) /\ calls \in Seq(PrintCall)
    BY DEF PrintValue, ReadyToPrint, PrintFrames
<1>2. CASE /\ v \in Scalars \/ Tracked(v, tracked) \/ Len(tracked) = PRINT_MAX_COLLECTIONS
           /\ Return(calls)
           /\ objects' = tracked
    <2>1. CASE calls = <<>>
        <3>1. Len(tracked) = PRINT_MAX_COLLECTIONS
            BY <1>2, <2>1, WrittenEnds
        <3> QED BY <1>1, <1>2, <2>1, <3>1, EndsPrinting DEF Return
    <2>2. CASE calls # <<>>
        <3>1. Printing(calls, tracked, r)
            BY <1>2, <2>2, WrittenGoesOn
        <3>2. stack' = calls /\ work' = "print"
            BY <1>2, <2>2 DEF Return
        <3> QED BY <1>1, <1>2, <2>2, <3>1, <3>2, KeepsPrinting
    <2> QED BY <2>1, <2>2
<1>3. CASE /\ v \notin Scalars /\ ~Tracked(v, tracked) /\ Len(tracked) < PRINT_MAX_COLLECTIONS
           /\ objects' = Append(tracked, v)
           /\ Call(calls, [array |-> v, next |-> 1], "print")
    <2> DEFINE new == Append(calls, [array |-> v, next |-> 1])
    <2>1. new # <<>> /\ Printing(new, Append(tracked, v), r) /\ Len(calls) < MaxDepth
        BY <1>3, Enters
    <2>2. v \in DOMAIN arrays
        BY <1>3 DEF ReadyToPrint, Values
    <2>3. [array |-> v, next |-> 1] \in PrintCall
        BY <2>2, BoundsAssumption DEF PrintCall
    <2>4. Len(new) = Len(calls) + 1 /\ Len(calls) \in Nat
        BY <1>1, <2>3, AppendIs
    <2>5. Len(new) <= MaxDepth
        BY <2>1, <2>4, DepthAssumption
    <2>6. stack' = new /\ work' = "print"
        BY <1>3, <2>1, <2>4, DepthAssumption DEF Call
    <2> HIDE DEF new
    <2> QED BY <1>1, <1>3, <2>1, <2>5, <2>6, KeepsPrinting
<1> QED BY <1>2, <1>3 DEF PrintValue
-----------------------------------------------------------------------------
(* The steps.                                                              *)

LEMMA InitInv == Init => Inv
<1> SUFFICES ASSUME Init PROVE Inv
    OBVIOUS
<1>1. TypeOK
    BY DepthAssumption, BoundsAssumption DEF Init, TypeOK
<1>2. EqualInv /\ PrintInv /\ Idle /\ Quiet /\ EqualIsBisimilar /\ OverflowsOnlyOnDeep
    BY DEF Init, EqualInv, PrintInv, Idle, Quiet, EqualIsBisimilar, OverflowsOnlyOnDeep
<1>3. PrintsAllOnce
    BY DepthAssumption DEF Init, PrintsAllOnce
<1> QED BY <1>1, <1>2, <1>3 DEF Inv

\* What holds when no walk is on.
LEMMA Resting ==
    ASSUME Inv, work = "idle"
    PROVE  stack = <<>> /\ roots = <<>> /\ objects = <<>> /\ answer = "none"
BY DEF Inv, TypeOK, Idle, Quiet

LEMMA HeapOfInv ==
    ASSUME Inv
    PROVE  Heap
BY DEF Inv, TypeOK, Heap

LEMMA RestKeepsInv ==
    ASSUME Heap', work' = "idle", stack' = <<>>, roots' = <<>>, objects' = <<>>, answer' = "none"
    PROVE  Inv'
<1>1. TypeOK'
    BY DepthAssumption DEF Heap, TypeOK
<1>2. EqualInv' /\ PrintInv' /\ Idle' /\ Quiet' /\ EqualIsBisimilar' /\ OverflowsOnlyOnDeep'
    BY DEF EqualInv, PrintInv, Idle, Quiet, EqualIsBisimilar, OverflowsOnlyOnDeep
<1>3. PrintsAllOnce'
    BY DepthAssumption DEF PrintsAllOnce
<1> QED BY <1>1, <1>2, <1>3 DEF Inv

LEMMA ChangeKeepsInv ==
    ASSUME Inv, Change, Heap'
    PROVE  Inv'
BY Resting, RestKeepsInv DEF Change, walk_vars

\* An array that is put in the place of another, or after all of them, is as it
\* has to be.
LEMMA ReplacedHeap ==
    ASSUME Heap, NEW a \in DOMAIN arrays, NEW values \in Seq(Values), NEW capacity \in Nat,
           arrays' = [arrays EXCEPT ![a] = [values |-> values, capacity |-> capacity]],
           Len(values) <= MaxCount, Len(values) <= capacity
    PROVE  Heap'
<1>1. DOMAIN arrays' = DOMAIN arrays /\ arrays \in Seq(ValueArray)
    BY DEF Heap
<1>2. Values' = Values /\ ValueArray' = ValueArray
    BY <1>1 DEF Values, ValueArray
<1>3. [values |-> values, capacity |-> capacity] \in ValueArray
    BY DEF ValueArray
<1>4. arrays' \in Seq(ValueArray) /\ Len(arrays') = Len(arrays)
    BY <1>1, <1>3
<1>5. \A b \in DOMAIN arrays : arrays'[b] = IF b = a THEN [values |-> values, capacity |-> capacity]
                                                     ELSE arrays[b]
    BY <1>1
<1>6. \A b \in DOMAIN arrays' : (Count(b) <= MaxCount /\ Count(b) <= arrays[b].capacity)'
    BY <1>1, <1>5 DEF Heap, Count, Items
<1> QED BY <1>2, <1>4, <1>6 DEF Heap

LEMMA AppendedHeap ==
    ASSUME Heap, Len(arrays) < MaxArrays, NEW n \in 0 .. MaxCount, NEW values \in [1 .. n -> Values],
           arrays' = Append(arrays, [values |-> values, capacity |-> n])
    PROVE  Heap'
<1> DEFINE new == [values |-> values, capacity |-> n]
<1>1. /\ arrays \in Seq(ValueArray) /\ Len(arrays) \in Nat /\ DOMAIN arrays = 1 .. Len(arrays)
      /\ n \in Nat
    BY BoundsAssumption DEF Heap
<1>2. DOMAIN arrays' = 1 .. Len(arrays) + 1 /\ Len(arrays') = Len(arrays) + 1
    BY <1>1
<1>3. DOMAIN arrays \subseteq DOMAIN arrays'
    BY <1>1, <1>2
<1>4. Values \subseteq Values'
    BY <1>3 DEF Values
<1>5. values \in Seq(Values) /\ Len(values) = n
    BY <1>1
<1>6. values \in Seq(Values')
    BY <1>4, <1>5
<1>7. new \in ValueArray'
    BY <1>1, <1>6 DEF ValueArray
<1>8. ValueArray \subseteq ValueArray'
    <2>1. Seq(Values) \subseteq Seq(Values')
        BY <1>4
    <2> QED BY <2>1 DEF ValueArray
<1> HIDE DEF new
<1>9. arrays' = Append(arrays, new)
    BY DEF new
<1>10. arrays \in Seq(ValueArray')
    BY <1>1, <1>8
<1>11. arrays' \in Seq(ValueArray')
    BY <1>7, <1>9, <1>10, AppendIs
<1>12. /\ \A b \in 1 .. Len(arrays) : arrays'[b] = arrays[b]
       /\ arrays'[Len(arrays) + 1] = new
    BY <1>7, <1>9, <1>10, AppendIs
<1>13. \A b \in DOMAIN arrays' : (Count(b) <= MaxCount /\ Count(b) <= arrays[b].capacity)'
    <2> SUFFICES ASSUME NEW b \in DOMAIN arrays'
                 PROVE  Len(arrays'[b].values) <= MaxCount
                        /\ Len(arrays'[b].values) <= arrays'[b].capacity
        BY DEF Count, Items
    <2>1. CASE b \in 1 .. Len(arrays)
        BY <1>1, <1>12, <2>1 DEF Heap, Count, Items
    <2>2. CASE b = Len(arrays) + 1
        BY <1>1, <1>5, <1>12, <2>2 DEF new
    <2> QED BY <1>1, <1>2, <2>1, <2>2
<1>14. Len(arrays') <= MaxArrays
    BY <1>1, <1>2, BoundsAssumption
<1> QED BY <1>11, <1>13, <1>14 DEF Heap

LEMMA MakeKeepsInv ==
    ASSUME Inv, Make
    PROVE  Inv'
<1>1. PICK n \in 0 .. MaxCount : \E values \in [1 .. n -> Values] :
          arrays' = Append(arrays, [values |-> values, capacity |-> n])
    BY DEF Make
<1>2. PICK values \in [1 .. n -> Values] :
          arrays' = Append(arrays, [values |-> values, capacity |-> n])
    BY <1>1
<1>3. Heap'
    BY <1>2, HeapOfInv, AppendedHeap DEF Make
<1> QED BY <1>3, ChangeKeepsInv DEF Make

LEMMA PushKeepsInv ==
    ASSUME Inv, NEW a \in DOMAIN arrays, NEW v \in Values, Push(a, v)
    PROVE  Inv'
<1>1. Heap /\ Items(a) \in Seq(Values) /\ Count(a) \in Nat /\ arrays[a].capacity \in Nat
    BY HeapOfInv, ArrayValues
<1>2. Count(a) <= arrays[a].capacity /\ Count(a) < MaxCount
    BY <1>1 DEF Heap, Push
<1>3. Grown(a) \in Nat /\ Count(a) + 1 <= Grown(a)
    BY <1>1, <1>2, CapacityAssumption DEF Grown
<1>4. Append(Items(a), v) \in Seq(Values) /\ Len(Append(Items(a), v)) = Count(a) + 1
    BY <1>1, AppendIs DEF Count
<1>5. Count(a) + 1 <= MaxCount
    BY <1>1, <1>2, BoundsAssumption
<1>6. PICK values \in Seq(Values) : values = Append(Items(a), v)
    BY <1>4
<1>7. PICK capacity \in Nat : capacity = Grown(a)
    BY <1>3
<1>8. arrays' = [arrays EXCEPT ![a] = [values |-> values, capacity |-> capacity]]
    BY <1>6, <1>7 DEF Push
<1>9. Len(values) <= MaxCount /\ Len(values) <= capacity
    BY <1>3, <1>4, <1>5, <1>6, <1>7
<1>10. Heap'
    BY <1>1, <1>8, <1>9, ReplacedHeap
<1> QED BY <1>10, ChangeKeepsInv DEF Push

\* A change of the values alone.
LEMMA ValuesChanged ==
    ASSUME Inv, Change, NEW a \in DOMAIN arrays, NEW values \in Seq(Values),
           arrays' = [arrays EXCEPT ![a].values = values], Len(values) <= Count(a)
    PROVE  Inv'
<1>1. /\ Heap /\ Count(a) \in Nat /\ arrays[a].capacity \in Nat
      /\ arrays[a] = [values |-> Items(a), capacity |-> arrays[a].capacity]
    BY HeapOfInv, ArrayValues
<1>2. [arrays[a] EXCEPT !.values = values] = [values |-> values, capacity |-> arrays[a].capacity]
    BY <1>1
<1>3. arrays' = [arrays EXCEPT ![a] = [values |-> values, capacity |-> arrays[a].capacity]]
    BY <1>2
<1>4. Count(a) <= MaxCount /\ Count(a) <= arrays[a].capacity
    BY <1>1 DEF Heap
<1>5. Len(values) \in Nat
    OBVIOUS
<1>6. Len(values) <= MaxCount /\ Len(values) <= arrays[a].capacity
    BY <1>1, <1>4, <1>5, BoundsAssumption
<1>7. Heap'
    BY <1>1, <1>3, <1>6, ReplacedHeap
<1> QED BY <1>7, ChangeKeepsInv

LEMMA PopKeepsInv ==
    ASSUME Inv, NEW a \in DOMAIN arrays, Pop(a)
    PROVE  Inv'
<1>1. Items(a) \in Seq(Values) /\ Count(a) \in Nat
    BY HeapOfInv, ArrayValues
<1>2. Count(a) \in 1 .. Len(Items(a))
    BY <1>1 DEF Pop, Count
<1>3. /\ SubSeq(Items(a), 1, Count(a) - 1) \in Seq(Values)
      /\ Len(SubSeq(Items(a), 1, Count(a) - 1)) = Count(a) - 1
    BY <1>1, <1>2, FrontIs
<1>4. PICK values \in Seq(Values) : values = SubSeq(Items(a), 1, Count(a) - 1)
    BY <1>3
<1>5. Len(values) <= Count(a)
    BY <1>1, <1>3, <1>4
<1>6. Change /\ arrays' = [arrays EXCEPT ![a].values = values]
    BY <1>4 DEF Pop
<1> QED BY <1>5, <1>6, ValuesChanged

LEMMA SetKeepsInv ==
    ASSUME Inv, NEW a \in DOMAIN arrays, NEW v \in Values, NEW i \in -MaxCount .. MaxCount,
           Set(a, i, v)
    PROVE  Inv'
<1> DEFINE k == IF i < 0 THEN i + Count(a) + 1 ELSE i + 1
<1>1. /\ Items(a) \in Seq(Values) /\ Count(a) \in Nat /\ DOMAIN Items(a) = 1 .. Count(a)
      /\ arrays[a] = [values |-> Items(a), capacity |-> arrays[a].capacity]
    BY HeapOfInv, ArrayValues DEF Count
<1>2. PICK values : values = [Items(a) EXCEPT ![k] = v]
    OBVIOUS
<1> HIDE DEF k
<1>3. values \in Seq(Values) /\ Len(values) = Count(a)
    BY <1>1, <1>2, ExceptIs DEF Count
<1>5. arrays' = [arrays EXCEPT ![a].values[k] = v]
    BY DEF Set, k
<1>6. arrays' = [arrays EXCEPT ![a].values = values]
    BY <1>2, <1>5 DEF Items
<1>7. Len(values) <= Count(a)
    BY <1>1, <1>3
<1> QED BY <1>3, <1>6, <1>7, ValuesChanged DEF Set

LEMMA BeginEqualKeepsInv ==
    ASSUME Inv, NEW a \in DOMAIN arrays, NEW b \in DOMAIN arrays, BeginEqual(a, b)
    PROVE  Inv'
<1>1. Heap /\ Ready(a, b, <<>>, <<a, b>>)
    BY HeapOfInv, ReadyToBegin
<1>2. Equal(a, b, <<>>) /\ roots' = <<a, b>> /\ objects' = <<>>
    BY Resting DEF BeginEqual
<1>3. Len(<<>>) <= MaxDepth
    BY DepthAssumption
<1> QED BY <1>1, <1>2, <1>3, EqualKeepsInv

LEMMA BeginPrintKeepsInv ==
    ASSUME Inv, NEW a \in DOMAIN arrays, BeginPrint(a)
    PROVE  Inv'
<1>1. Heap /\ ReadyToPrint(a, <<>>, <<>>, <<a>>)
    BY HeapOfInv, ReadyToBeginPrint
<1>2. Len(<<>>) <= MaxDepth
    BY DepthAssumption
<1> QED BY <1>1, <1>2, PrintKeepsInv DEF BeginPrint

LEMMA EqualItemKeepsInv ==
    ASSUME Inv, EqualItem
    PROVE  Inv'
<1>1. Heap /\ EqualInv /\ work = "equal" /\ call.next <= Count(call.left)
    BY HeapOfInv DEF Inv, EqualItem
<1>2. Ready(Items(call.left)[call.next], Items(call.right)[call.next], GoneOn, roots)
    BY <1>1, ReadyToGoOn
<1>3. stack # <<>> /\ Comparing(stack, roots) /\ Len(stack) <= MaxDepth
    BY <1>1 DEF EqualInv, Inv, TypeOK
<1>4. Len(GoneOn) = Len(stack)
    BY <1>1, <1>3, GoneOnLength DEF Comparing, EqualFrames
<1>5. Equal(Items(call.left)[call.next], Items(call.right)[call.next], GoneOn)
    BY DEF EqualItem
<1>6. roots' = roots /\ objects' = <<>>
    BY <1>1 DEF EqualItem, Inv, Quiet
<1>7. Len(GoneOn) <= MaxDepth
    BY <1>3, <1>4
<1> QED BY <1>1, <1>2, <1>5, <1>6, <1>7, EqualKeepsInv

LEMMA EqualReturnKeepsInv ==
    ASSUME Inv, EqualReturn
    PROVE  Inv'
<1>1. Heap /\ stack # <<>> /\ Comparing(stack, roots) /\ Len(stack) <= MaxDepth
    BY HeapOfInv DEF Inv, EqualReturn, EqualInv, TypeOK
<1>2. call.next > Count(call.left)
    BY DEF EqualReturn
<1>3. PICK seen \in SUBSET Pairs : Settled(seen, stack, seen \cup Paired(stack))
    BY DEF Inv, EqualInv, EqualReturn
<1>4. /\ arrays' = arrays /\ roots' = roots /\ objects' = <<>> /\ stack' = Callers
      /\ work' = IF Callers = <<>> THEN "done" ELSE "equal"
      /\ answer' = IF Callers = <<>> THEN "true" ELSE "none"
    BY DEF EqualReturn, EndEqual, Return, Inv, Quiet
<1>5. roots \in Seq(DOMAIN arrays) /\ Len(roots) = 2 /\ stack \in Seq(EqualCall)
    BY <1>1 DEF Comparing, EqualFrames
<1>6. CASE Callers = <<>>
    <2>1. AreAlike(roots)
        BY <1>1, <1>2, <1>3, <1>6, ReturnAnswers
    <2> QED BY <1>1, <1>4, <1>5, <1>6, <2>1, EndsComparing
<1>7. CASE Callers # <<>>
    <2>1. /\ Comparing(Callers, roots)
          /\ \E more \in SUBSET Pairs : Settled(more, Callers, more \cup Paired(Callers))
        BY <1>1, <1>2, <1>3, ReturnSettles
    <2>2. Len(Callers) <= MaxDepth
        BY <1>1, <1>5, CallersAre, DepthAssumption
    <2> HIDE DEF Callers
    <2> QED BY <1>1, <1>4, <1>7, <2>1, <2>2, KeepsComparing
<1> QED BY <1>6, <1>7

LEMMA PrintItemKeepsInv ==
    ASSUME Inv, PrintItem
    PROVE  Inv'
<1>1. Heap /\ PrintInv /\ work = "print" /\ call.next <= Count(call.array)
    BY HeapOfInv DEF Inv, PrintItem
<1>2. ReadyToPrint(Items(call.array)[call.next], GoneOn, objects, roots)
    BY <1>1, ReadyToGoOnPrinting
<1>3. stack # <<>> /\ Printing(stack, objects, roots) /\ Len(stack) <= MaxDepth
    BY <1>1 DEF PrintInv, Inv, TypeOK
<1>4. Len(GoneOn) = Len(stack)
    BY <1>1, <1>3, GoneOnLength DEF Printing, PrintFrames
<1>5. PrintValue(Items(call.array)[call.next], GoneOn, objects) /\ roots' = roots
    BY DEF PrintItem
<1>6. Len(GoneOn) <= MaxDepth
    BY <1>3, <1>4
<1> QED BY <1>1, <1>2, <1>5, <1>6, PrintKeepsInv

LEMMA PrintReturnKeepsInv ==
    ASSUME Inv, PrintReturn
    PROVE  Inv'
<1>1. Heap /\ stack # <<>> /\ Printing(stack, objects, roots) /\ Len(stack) <= MaxDepth
    BY HeapOfInv DEF Inv, PrintReturn, PrintInv, TypeOK
<1>2. call.next > Count(call.array)
    BY DEF PrintReturn
<1>3. /\ Printing(Callers, objects, roots)
      /\ Callers = <<>> => \/ Len(objects) = PRINT_MAX_COLLECTIONS
                           \/ \A b \in Reach(roots[1]) : \E k \in DOMAIN objects : objects[k] = b
    BY <1>1, <1>2, PrintedGoesOn
<1>4. /\ arrays' = arrays /\ roots' = roots /\ objects' = objects /\ stack' = Callers
      /\ work' = IF Callers = <<>> THEN "done" ELSE "print"
      /\ answer' = "none"
    BY DEF PrintReturn, Return, Inv, Quiet
<1>5. roots \in Seq(DOMAIN arrays) /\ Len(roots) = 1 /\ Once(objects, roots[1])
    BY <1>1 DEF Printing
<1>6. CASE Callers = <<>>
    BY <1>1, <1>3, <1>4, <1>5, <1>6, EndsPrinting
<1>7. CASE Callers # <<>>
    <2>1. stack \in Seq(PrintCall)
        BY <1>1 DEF Printing, PrintFrames
    <2>2. Len(Callers) <= MaxDepth
        BY <1>1, <2>1, CallersAre, DepthAssumption
    <2> HIDE DEF Callers
    <2> QED BY <1>1, <1>3, <1>4, <1>7, <2>2, KeepsPrinting
<1> QED BY <1>6, <1>7

LEMMA GoOnKeepsInv ==
    ASSUME Inv, GoOn
    PROVE  Inv'
<1>1. stack = <<>>
    BY DEF Inv, TypeOK, GoOn
<1>2. Heap'
    BY HeapOfInv, FrozenHeap DEF GoOn
<1> QED BY <1>1, <1>2, RestKeepsInv DEF GoOn

LEMMA StutterKeepsInv ==
    ASSUME Inv, UNCHANGED vars
    PROVE  Inv'
<1>1. arrays' = arrays /\ work' = work /\ roots' = roots /\ stack' = stack
      /\ answer' = answer /\ objects' = objects
    BY DEF vars, walk_vars
<1>2. TypeOK'
    BY <1>1, FrozenValues DEF Inv, TypeOK
<1>3. EqualInv'
    <2>1. CASE work = "equal"
        <3>1. /\ Heap /\ stack # <<>> /\ Comparing(stack, roots) /\ Len(stack) <= MaxDepth
              /\ \E seen \in SUBSET Pairs : Settled(seen, stack, seen \cup Paired(stack))
            BY <2>1, HeapOfInv DEF Inv, EqualInv, TypeOK
        <3>2. answer = "none" /\ objects = <<>>
            BY <2>1 DEF Inv, TypeOK, Quiet
        <3> QED BY <1>1, <2>1, <3>1, <3>2, KeepsComparing DEF Inv
    <2> QED BY <1>1, <2>1 DEF EqualInv
<1>4. PrintInv'
    <2>1. CASE work = "print"
        <3>1. Heap /\ stack # <<>> /\ Printing(stack, objects, roots) /\ Len(stack) <= MaxDepth
            BY <2>1, HeapOfInv DEF Inv, PrintInv, TypeOK
        <3>2. answer = "none"
            BY <2>1 DEF Inv, TypeOK, Quiet
        <3> QED BY <1>1, <2>1, <3>1, <3>2, KeepsPrinting DEF Inv
    <2> QED BY <1>1, <2>1 DEF PrintInv
<1>5. Idle' /\ Quiet'
    BY <1>1 DEF Inv, Idle, Quiet
<1>6. EqualIsBisimilar'
    BY <1>1, FrozenValues DEF Inv, EqualIsBisimilar, Bisimulation, Alike
<1>7. OverflowsOnlyOnDeep'
    BY <1>1, FrozenDepth DEF Inv, OverflowsOnlyOnDeep
<1>8. PrintsAllOnce'
    BY <1>1, FrozenValues DEF Inv, PrintsAllOnce, Reach, Closed
<1> QED BY <1>2, <1>3, <1>4, <1>5, <1>6, <1>7, <1>8 DEF Inv

LEMMA StepKeepsInv == Inv /\ [Next]_vars => Inv'
<1> SUFFICES ASSUME Inv, [Next]_vars PROVE Inv'
    OBVIOUS
<1>1. CASE Make
    BY <1>1, MakeKeepsInv
<1>2. ASSUME NEW a \in DOMAIN arrays, NEW v \in Values, Push(a, v)
      PROVE  Inv'
    BY <1>2, PushKeepsInv
<1>3. ASSUME NEW a \in DOMAIN arrays, NEW v \in Values, NEW i \in -MaxCount .. MaxCount, Set(a, i, v)
      PROVE  Inv'
    BY <1>3, SetKeepsInv
<1>4. ASSUME NEW a \in DOMAIN arrays, Pop(a)
      PROVE  Inv'
    BY <1>4, PopKeepsInv
<1>5. ASSUME NEW a \in DOMAIN arrays, NEW b \in DOMAIN arrays, BeginEqual(a, b)
      PROVE  Inv'
    BY <1>5, BeginEqualKeepsInv
<1>6. ASSUME NEW a \in DOMAIN arrays, BeginPrint(a)
      PROVE  Inv'
    BY <1>6, BeginPrintKeepsInv
<1>7. CASE Walk
    BY <1>7, EqualItemKeepsInv, EqualReturnKeepsInv, PrintItemKeepsInv, PrintReturnKeepsInv DEF Walk
<1>8. CASE GoOn
    BY <1>8, GoOnKeepsInv
<1>9. CASE UNCHANGED vars
    BY <1>9, StutterKeepsInv
<1> QED BY <1>1, <1>2, <1>3, <1>4, <1>5, <1>6, <1>7, <1>8, <1>9 DEF Next

LEMMA Invariant == Spec => []Inv
BY InitInv, StepKeepsInv, PTL DEF Spec
-----------------------------------------------------------------------------
(* The theorems.                                                           *)

\* value_array_push never writes past the memory of an array, and no walk of
\* value_equal or value_print reads an item that is not there.
THEOREM TypeCorrect == Spec => []TypeOK
<1>1. Inv => TypeOK
    BY DEF Inv
<1> QED BY <1>1, Invariant, PTL

\* Whatever arrays hold whatever others, an answer of value_equal is the one
\* that the items call for.
THEOREM EqualIsBisimilarHolds == Spec => []EqualIsBisimilar
<1>1. Inv => EqualIsBisimilar
    BY DEF Inv
<1> QED BY <1>1, Invariant, PTL

\* Whatever the C stack has room for, and however many arrays there are:
\* value_print never runs out of it if there is room for what it tracks, and
\* value_equal does only on two arrays nested deeper than that at the same places,
\* which are circular if there are no more arrays than calls.
THEOREM OverflowsOnlyOnDeepHolds == Spec => []OverflowsOnlyOnDeep
<1>1. Inv => OverflowsOnlyOnDeep
    BY DEF Inv
<1> QED BY <1>1, Invariant, PTL

\* value_print prints the items of each array that can be reached, once, unless
\* it comes to its limit.
THEOREM PrintsAllOnceHolds == Spec => []PrintsAllOnce
<1>1. Inv => PrintsAllOnce
    BY DEF Inv
<1> QED BY <1>1, Invariant, PTL
=============================================================================
