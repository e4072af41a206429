--------------------------- MODULE HashtableProofs ---------------------------
(***************************************************************************)
(* Theorems about Hashtable, for every set of keys, hash function, minimal *)
(* size and bound.  The inductive invariant follows the load factor through*)
(* the loop of adjust_capacity: after i iterations the new array holds at  *)
(* most i entries, and the new size leaves room for all of the old array.  *)
(***************************************************************************)
EXTENDS Hashtable, FiniteSetTheorems, TLAPS

\* The counters, the loop index and both arrays keep the types of their C declarations,
\* in every state between and inside calls.  TypeOK is inductive.
THEOREM TypeCorrect == Spec => []TypeOK
<1> USE HashAssumption, KeyAssumption, ValueAssumption, SizeAssumption, MaxAssumption
<1>1. Init => TypeOK
  BY DEF Init, TypeOK, EmptyEntry, Entry
<1>2. TypeOK /\ [Next]_vars => TypeOK'
  <2> SUFFICES ASSUME TypeOK, [Next]_vars PROVE TypeOK'
    OBVIOUS
  <2> USE DEF TypeOK
  <2>1. ASSUME NEW k \in Keys, NEW v \in Values, NEW ro \in BOOLEAN, BeginSet(k, v, ro)
        PROVE  TypeOK'
    <3>1. GrownCapacity \in Nat
      BY DEF GrownCapacity, GROW_FACTOR
    <3>2. EmptyEntry \in Entry /\ call' \in Entry /\ call'.key \in Keys
      BY <2>1 DEF BeginSet, EmptyEntry, Entry
    <3>3. CASE Overloaded
      BY <2>1, <3>1, <3>2, <3>3 DEF BeginSet
    <3>4. CASE ~Overloaded
      BY <2>1, <3>2, <3>4 DEF BeginSet
    <3>5. QED
      BY <3>3, <3>4
  <2>2. ASSUME NEW k \in Keys, NEW v \in Values, Update(k, v)
        PROVE  TypeOK'
    <3>1. entries' \in [0 .. capacity - 1 -> Entry]
      <4>1. PICK b \in 0 .. capacity - 1 :
               \/ entries' = entries
               \/ entries' = [entries EXCEPT ![b].value = v]
        BY <2>2 DEF Update
      <4>2. [entries[b] EXCEPT !.value = v] \in Entry
        BY DEF Entry
      <4>3. QED
        BY <4>1, <4>2
    <3>2. QED
      BY <2>2, <3>1 DEF Update, set_vars
  <2>3. ASSUME NEW k \in Keys, Get(k)
        PROVE  TypeOK'
    BY <2>3 DEF Get, table_vars, set_vars
  <2>4. ASSUME NEW k \in Keys, Delete(k)
        PROVE  TypeOK'
    <3>1. entries' \in [0 .. capacity - 1 -> Entry]
      <4>1. \/ entries' = entries
            \/ \E b \in 0 .. capacity - 1 :
                  entries' = [entries EXCEPT ![b].key = NoKey, ![b].value = Mark]
        BY <2>4 DEF Delete
      <4>2. ASSUME NEW b \in 0 .. capacity - 1
            PROVE  [entries EXCEPT ![b].key = NoKey, ![b].value = Mark]
                      \in [0 .. capacity - 1 -> Entry]
        BY DEF Entry
      <4>3. QED
        BY <4>1, <4>2
    <3>2. QED
      BY <2>4, <3>1 DEF Delete, set_vars
  <2>5. CASE Rehash
    <3>1. i \in 0 .. capacity - 1 /\ entries[i] \in Entry
      BY <2>5 DEF Rehash
    <3>2. fresh' \in [0 .. new_capacity - 1 -> Entry]
      BY <2>5, <3>1 DEF Rehash
    <3>3. QED
      BY <2>5, <3>2 DEF Rehash
  <2>6. CASE Install
    BY <2>6 DEF Install
  <2>7. CASE Insert
    BY <2>7 DEF Insert, EmptyEntry, Entry
  <2>8. CASE UNCHANGED vars
    BY <2>8 DEF vars
  <2>9. QED
    BY <2>1, <2>2, <2>3, <2>4, <2>5, <2>6, <2>7, <2>8 DEF Next
<1>3. QED
  BY <1>1, <1>2, PTL DEF Spec

-----------------------------------------------------------------------------
\* Writing a used entry in a bucket: the buckets in use and their number.
LEMMA UseBucket ==
  ASSUME NEW cap \in Nat, NEW E \in [0 .. cap - 1 -> Entry],
         NEW b \in 0 .. cap - 1, NEW e \in Entry, ~IsEmpty(e)
  PROVE  /\ Cardinality(Used(E, cap)) \in Nat
         /\ Cardinality(Used([E EXCEPT ![b] = e], cap))
               = IF IsEmpty(E[b]) THEN Cardinality(Used(E, cap)) + 1
                                  ELSE Cardinality(Used(E, cap))
<1>1. IsFiniteSet(Used(E, cap))
  <2>1. Used(E, cap) \in SUBSET (0 .. cap - 1)
    BY DEF Used
  <2>2. IsFiniteSet(0 .. cap - 1)
    BY FS_Interval
  <2>3. QED
    BY <2>1, <2>2, FS_Subset
<1>2. Used([E EXCEPT ![b] = e], cap) = Used(E, cap) \cup {b}
  BY DEF Used
<1>3. IsEmpty(E[b]) <=> b \notin Used(E, cap)
  BY DEF Used
<1>4. Cardinality(Used(E, cap)) \in Nat
  BY <1>1, FS_CardinalityType
<1>5. Cardinality(Used(E, cap) \cup {b})
         = IF b \in Used(E, cap) THEN Cardinality(Used(E, cap)) ELSE Cardinality(Used(E, cap)) + 1
  BY <1>1, FS_AddElement
<1>6. CASE IsEmpty(E[b])
  BY <1>2, <1>3, <1>4, <1>5, <1>6
<1>7. CASE ~IsEmpty(E[b])
  BY <1>2, <1>3, <1>4, <1>5, <1>7
<1>8. QED
  BY <1>6, <1>7

\* A new array has no bucket in use.
LEMMA NewArray ==
  ASSUME NEW n \in Nat
  PROVE  Cardinality(Used([b \in 0 .. n - 1 |-> EmptyEntry], n)) = 0
<1>1. Used([b \in 0 .. n - 1 |-> EmptyEntry], n) = {}
  BY DEF Used, IsEmpty, EmptyEntry
<1>2. QED
  BY <1>1, FS_EmptySet

\* An array under the load factor has an empty bucket.
LEMMA RoomLeft ==
  ASSUME NEW cap \in Nat, cap > 0, NEW E,
         4 * Cardinality(Used(E, cap)) <= 3 * cap
  PROVE  \E b \in 0 .. cap - 1 : IsEmpty(E[b])
<1> SUFFICES ASSUME \A b \in 0 .. cap - 1 : ~IsEmpty(E[b]) PROVE FALSE
  OBVIOUS
<1>1. Used(E, cap) = 0 .. cap - 1
  BY DEF Used
<1>2. Cardinality(0 .. cap - 1) = cap
  BY FS_Interval
<1>3. QED
  BY <1>1, <1>2

-----------------------------------------------------------------------------
\* Linear probing visits every bucket of the array, each at one distance.
LEMMA BucketIn ==
  ASSUME NEW cap \in Nat, cap > 0, NEW k \in Keys, NEW d \in 0 .. cap - 1
  PROVE  Bucket(k, cap, d) \in 0 .. cap - 1
<1>1. Hash[k] \in Nat
  BY HashAssumption
<1>2. Hash[k] % cap \in 0 .. cap - 1
  BY <1>1
<1>3. QED
  BY <1>2 DEF Bucket

LEMMA BucketInjective ==
  ASSUME NEW cap \in Nat, cap > 0, NEW k \in Keys,
         NEW d \in 0 .. cap - 1, NEW e \in 0 .. cap - 1,
         Bucket(k, cap, d) = Bucket(k, cap, e)
  PROVE  d = e
<1>1. Hash[k] \in Nat
  BY HashAssumption
<1>2. Hash[k] % cap \in 0 .. cap - 1
  BY <1>1
<1>3. QED
  BY <1>2 DEF Bucket

LEMMA BucketOnto ==
  ASSUME NEW cap \in Nat, cap > 0, NEW k \in Keys, NEW b \in 0 .. cap - 1
  PROVE  \E d \in 0 .. cap - 1 : Bucket(k, cap, d) = b
<1>1. Hash[k] \in Nat
  BY HashAssumption
<1>2. Hash[k] % cap \in 0 .. cap - 1
  BY <1>1
<1>3. CASE Hash[k] % cap <= b
  <2>1. b - (Hash[k] % cap) \in 0 .. cap - 1
    BY <1>2, <1>3
  <2>2. Bucket(k, cap, b - (Hash[k] % cap)) = b
    BY <1>2, <1>3 DEF Bucket
  <2>3. QED
    BY <2>1, <2>2
<1>4. CASE Hash[k] % cap > b
  <2>1. b + cap - (Hash[k] % cap) \in 0 .. cap - 1
    BY <1>2, <1>4
  <2>2. Bucket(k, cap, b + cap - (Hash[k] % cap)) = b
    BY <1>2, <1>4 DEF Bucket
  <2>3. QED
    BY <2>1, <2>2
<1>5. QED
  BY <1>2, <1>3, <1>4

\* What find_entry answers in a well formed array: the bucket of the key, or a
\* bucket without a key when no bucket holds this one; and every bucket the
\* probe passed on its way is in use.
LEMMA FindEntry ==
  ASSUME NEW cap \in Nat, cap > 0, NEW E \in [0 .. cap - 1 -> Entry],
         PathClosed(E, cap), NEW k \in Keys, NEW b \in 0 .. cap - 1,
         Finds(E, cap, k, b)
  PROVE  /\ \/ E[b].key = k
            \/ /\ E[b].key = NoKey
               /\ \A c \in 0 .. cap - 1 : E[c].key # k
         /\ \E d \in 0 .. cap - 1 :
               /\ b = Bucket(k, cap, d)
               /\ \A c \in 0 .. d - 1 : ~IsEmpty(E[Bucket(k, cap, c)])
<1>1. PICK d \in 0 .. cap - 1 :
         /\ Stops(E, cap, k, d)
         /\ \/ /\ E[Bucket(k, cap, d)].key = k \/ \A c \in 0 .. d - 1 : ~IsTombstone(E[Bucket(k, cap, c)])
               /\ b = Bucket(k, cap, d)
            \/ /\ E[Bucket(k, cap, d)].key # k
               /\ \E c \in 0 .. d - 1 :
                     /\ IsTombstone(E[Bucket(k, cap, c)])
                     /\ b = Bucket(k, cap, c)
  BY DEF Finds
<1>2. \A c \in 0 .. d - 1 : /\ ~IsEmpty(E[Bucket(k, cap, c)])
                            /\ E[Bucket(k, cap, c)].key # k
  BY <1>1 DEF Stops
<1>3. CASE E[Bucket(k, cap, d)].key = k
  BY <1>1, <1>2, <1>3
<1>4. CASE E[Bucket(k, cap, d)].key # k
  <2>1. IsEmpty(E[Bucket(k, cap, d)])
    BY <1>1, <1>4 DEF Stops
  <2>2. ASSUME NEW c \in 0 .. cap - 1, E[c].key = k
        PROVE  FALSE
    <3>1. PICK e \in 0 .. cap - 1 : Bucket(k, cap, e) = c
      BY BucketOnto
    <3>2. e > d
      BY <1>2, <1>4, <2>2, <3>1
    <3>3. c \in Live(E, cap)
      BY <2>2, KeyAssumption DEF Live, IsLive
    <3>4. ~IsEmpty(E[Bucket(k, cap, d)])
      BY <2>2, <3>1, <3>2, <3>3 DEF PathClosed
    <3>5. QED
      BY <2>1, <3>4
  <2>3. PICK c \in 0 .. d : /\ b = Bucket(k, cap, c)
                            /\ E[b].key = NoKey
    BY <1>1, <1>4, <2>1 DEF IsEmpty, IsTombstone
  <2>4. c \in 0 .. cap - 1 /\ \A c0 \in 0 .. c - 1 : ~IsEmpty(E[Bucket(k, cap, c0)])
    BY <1>2, <2>3
  <2>5. QED
    BY <2>2, <2>3, <2>4
<1>5. QED
  BY <1>3, <1>4

\* Writing an entry where find_entry says keeps the array well formed.
LEMMA WriteKeeps ==
  ASSUME NEW cap \in Nat, cap > 0, NEW E \in [0 .. cap - 1 -> Entry],
         PathClosed(E, cap), UniqueIn(E, cap),
         NEW e \in Entry, e.key \in Keys, NEW b \in 0 .. cap - 1,
         Finds(E, cap, e.key, b)
  PROVE  /\ PathClosed([E EXCEPT ![b] = e], cap)
         /\ UniqueIn([E EXCEPT ![b] = e], cap)
<1> DEFINE F == [E EXCEPT ![b] = e]
           k == e.key
<1>1. /\ \/ E[b].key = k
         \/ /\ E[b].key = NoKey
            /\ \A c \in 0 .. cap - 1 : E[c].key # k
      /\ \E d \in 0 .. cap - 1 :
            /\ b = Bucket(k, cap, d)
            /\ \A c \in 0 .. d - 1 : ~IsEmpty(E[Bucket(k, cap, c)])
  BY FindEntry
<1>2. /\ F[b] = e /\ e.key = k /\ k \in Keys /\ F \in [0 .. cap - 1 -> Entry]
      /\ \A c \in 0 .. cap - 1 : c # b => F[c] = E[c]
  OBVIOUS
<1>3. k # NoKey /\ ~IsEmpty(e)
  BY KeyAssumption DEF IsEmpty
<1>4. \A c \in 0 .. cap - 1 : ~IsEmpty(E[c]) => ~IsEmpty(F[c])
  BY <1>2, <1>3
<1> HIDE DEF F, k
<1>5. PathClosed(F, cap)
  <2> SUFFICES ASSUME NEW c \in Live(F, cap), NEW d \in 0 .. cap - 1,
                      Bucket(F[c].key, cap, d) = c, NEW c0 \in 0 .. d - 1
               PROVE  ~IsEmpty(F[Bucket(F[c].key, cap, c0)])
    BY DEF PathClosed
  <2>1. c \in 0 .. cap - 1 /\ F[c].key \in Keys
    BY <1>2 DEF Live, IsLive, Entry
  <2>2. c0 \in 0 .. cap - 1 /\ Bucket(F[c].key, cap, c0) \in 0 .. cap - 1
    <3>1. c0 \in 0 .. cap - 1
      OBVIOUS
    <3>2. QED
      BY <2>1, <3>1, BucketIn
  <2>3. CASE c = b
    <3>1. PICK d1 \in 0 .. cap - 1 :
             /\ b = Bucket(k, cap, d1)
             /\ \A c1 \in 0 .. d1 - 1 : ~IsEmpty(E[Bucket(k, cap, c1)])
      BY <1>1
    <3>2. d1 = d
      BY <1>2, <2>3, <3>1, BucketInjective
    <3>3. ~IsEmpty(E[Bucket(k, cap, c0)])
      BY <3>1, <3>2
    <3>4. F[c].key = k
      BY <1>2, <2>3
    <3>5. QED
      BY <1>4, <2>2, <3>3, <3>4
  <2>4. CASE c # b
    <3>1. F[c] = E[c]
      BY <1>2, <2>1, <2>4
    <3>2. c \in Live(E, cap)
      BY <3>1 DEF Live
    <3>3. ~IsEmpty(E[Bucket(F[c].key, cap, c0)])
      BY <3>1, <3>2 DEF PathClosed
    <3>4. QED
      BY <1>4, <2>2, <3>3
  <2>5. QED
    BY <2>3, <2>4
<1>6. UniqueIn(F, cap)
  <2> SUFFICES ASSUME NEW c \in Live(F, cap), NEW d \in Live(F, cap), F[c].key = F[d].key
               PROVE  c = d
    BY DEF UniqueIn
  <2>1. c \in 0 .. cap - 1 /\ d \in 0 .. cap - 1
    BY DEF Live
  <2>2. \A x \in 0 .. cap - 1 : x # b /\ x \in Live(F, cap) => x \in Live(E, cap)
    BY <1>2 DEF Live
  <2>3. \A x \in 0 .. cap - 1 : x # b /\ x \in Live(F, cap) => F[x].key # k
    <3> SUFFICES ASSUME NEW x \in 0 .. cap - 1, x # b, x \in Live(F, cap), E[x].key = k
                 PROVE  FALSE
      BY <1>2
    <3>1. E[b].key = k
      BY <1>1
    <3>2. b \in Live(E, cap)
      BY <1>3, <3>1 DEF Live, IsLive
    <3>3. QED
      BY <2>2, <3>1, <3>2 DEF UniqueIn
  <2>4. CASE c = b \/ d = b
    BY <1>2, <2>1, <2>3, <2>4
  <2>5. CASE c # b /\ d # b
    BY <1>2, <2>1, <2>2, <2>5 DEF UniqueIn
  <2>6. QED
    BY <2>4, <2>5
<1>7. QED
  BY <1>5, <1>6 DEF F

\* Emptying no bucket and adding no key keeps an array well formed.
LEMMA FewerKeysKeeps ==
  ASSUME NEW cap \in Nat, NEW E, NEW F, PathClosed(E, cap), UniqueIn(E, cap),
         \A c \in 0 .. cap - 1 :
            /\ IsEmpty(F[c]) <=> IsEmpty(E[c])
            /\ IsLive(F[c]) => IsLive(E[c]) /\ F[c].key = E[c].key,
         \A k \in Keys, d \in 0 .. cap - 1 : Bucket(k, cap, d) \in 0 .. cap - 1,
         \A c \in 0 .. cap - 1 : IsLive(E[c]) => E[c].key \in Keys
  PROVE  PathClosed(F, cap) /\ UniqueIn(F, cap)
<1>1. \A c \in Live(F, cap) :
         c \in Live(E, cap) /\ F[c].key = E[c].key /\ E[c].key \in Keys
  BY DEF Live
<1>2. PathClosed(F, cap)
  <2> SUFFICES ASSUME NEW c \in Live(F, cap), NEW d \in 0 .. cap - 1,
                      Bucket(F[c].key, cap, d) = c, NEW c0 \in 0 .. d - 1
               PROVE  ~IsEmpty(F[Bucket(F[c].key, cap, c0)])
    BY DEF PathClosed
  <2>1. c0 \in 0 .. cap - 1
    OBVIOUS
  <2>2. c \in Live(E, cap) /\ F[c].key = E[c].key /\ F[c].key \in Keys
    BY <1>1
  <2>3. Bucket(F[c].key, cap, c0) \in 0 .. cap - 1
    BY <2>1, <2>2
  <2>4. ~IsEmpty(E[Bucket(F[c].key, cap, c0)])
    BY <2>2 DEF PathClosed
  <2>5. QED
    BY <2>3, <2>4
<1>3. UniqueIn(F, cap)
  BY <1>1 DEF UniqueIn
<1>4. QED
  BY <1>2, <1>3

\* Between a hashtable_set and the next, calls empty no bucket, add no key and
\* leave the counters alone.
LEMMA OtherCalls ==
  ASSUME TypeOK,
         NEW k \in Keys, (\E v \in Values : Update(k, v)) \/ Get(k) \/ Delete(k)
  PROVE  /\ UNCHANGED <<capacity, count, count_with_tombstones, set_vars>>
         /\ pc = "idle"
         /\ \A c \in 0 .. capacity - 1 :
               /\ IsEmpty(entries'[c]) <=> IsEmpty(entries[c])
               /\ IsLive(entries'[c]) => IsLive(entries[c]) /\ entries'[c].key = entries[c].key
<1>1. CASE Get(k)
  BY <1>1 DEF Get, table_vars
<1>2. ASSUME NEW v \in Values, Update(k, v)
      PROVE  \A c \in 0 .. capacity - 1 :
               /\ IsEmpty(entries'[c]) <=> IsEmpty(entries[c])
               /\ IsLive(entries'[c]) => IsLive(entries[c]) /\ entries'[c].key = entries[c].key
  <2>1. CASE entries' = entries
    BY <2>1
  <2>2. ASSUME NEW b \in 0 .. capacity - 1, IsLive(entries[b]),
               entries' = [entries EXCEPT ![b].value = v]
        PROVE  \A c \in 0 .. capacity - 1 :
                  /\ IsEmpty(entries'[c]) <=> IsEmpty(entries[c])
                  /\ IsLive(entries'[c]) => IsLive(entries[c]) /\ entries'[c].key = entries[c].key
    BY <2>2 DEF TypeOK, IsLive, IsEmpty, Entry
  <2>3. QED
    BY <1>2, <2>1, <2>2 DEF Update
<1>3. ASSUME Delete(k)
      PROVE  \A c \in 0 .. capacity - 1 :
               /\ IsEmpty(entries'[c]) <=> IsEmpty(entries[c])
               /\ IsLive(entries'[c]) => IsLive(entries[c]) /\ entries'[c].key = entries[c].key
  <2>1. CASE entries' = entries
    BY <2>1
  <2>2. ASSUME NEW b \in 0 .. capacity - 1, IsLive(entries[b]),
               entries' = [entries EXCEPT ![b].key = NoKey, ![b].value = Mark]
        PROVE  \A c \in 0 .. capacity - 1 :
                  /\ IsEmpty(entries'[c]) <=> IsEmpty(entries[c])
                  /\ IsLive(entries'[c]) => IsLive(entries[c]) /\ entries'[c].key = entries[c].key
    BY <2>2, ValueAssumption DEF TypeOK, IsLive, IsEmpty, Entry
  <2>3. QED
    BY <1>3, <2>1, <2>2 DEF Delete
<1>4. ASSUME NEW v \in Values, Update(k, v)
      PROVE  UNCHANGED <<capacity, count, count_with_tombstones, set_vars>> /\ pc = "idle"
  BY <1>4 DEF Update
<1>5. ASSUME Delete(k)
      PROVE  UNCHANGED <<capacity, count, count_with_tombstones, set_vars>> /\ pc = "idle"
  BY <1>5 DEF Delete
<1>6. QED
  BY <1>1, <1>2, <1>3, <1>4, <1>5

-----------------------------------------------------------------------------
(***************************************************************************)
(* The inductive invariant.                                                *)
(***************************************************************************)

\* The arrays are well formed; while the loop of adjust_capacity runs, the new
\* array has no tombstone and holds keys of the first i old entries only.
ArraysInv ==
    /\ PathClosed(entries, capacity) /\ UniqueIn(entries, capacity)
    /\ pc = "rehash" =>
          /\ PathClosed(fresh, new_capacity) /\ UniqueIn(fresh, new_capacity)
          /\ \A b \in 0 .. new_capacity - 1 :
                /\ ~IsTombstone(fresh[b])
                /\ IsLive(fresh[b]) => \E j \in 0 .. i - 1 : entries[j].key = fresh[b].key

\* The sizes: the new array has room for every old entry under its load factor.
SizeInv ==
    /\ capacity = 0 \/ capacity >= MIN_SIZE
    /\ pc = "insert" => capacity > 0
    /\ pc = "rehash" => /\ i <= capacity
                        /\ new_capacity > 0 /\ new_capacity >= MIN_SIZE
                        /\ 4 * (capacity + 1) <= 3 * new_capacity

\* The counter: it counts the buckets in use, of the array being filled.
CountInv ==
    /\ pc \in {"idle", "insert"} => count_with_tombstones = Cardinality(Used(entries, capacity))
    /\ pc = "rehash" => count_with_tombstones = Cardinality(Used(fresh, new_capacity))

\* The load factor at each point of hashtable_set.
LoadInv ==
    /\ pc = "idle" => 4 * count_with_tombstones <= 3 * capacity
    /\ pc = "insert" => 4 * (count_with_tombstones + 1) <= 3 * capacity
    /\ pc = "rehash" => count_with_tombstones <= i

IInv == TypeOK /\ ArraysInv /\ SizeInv /\ CountInv /\ LoadInv

LEMMA InitIInv == Init => IInv
<1> SUFFICES ASSUME Init PROVE IInv
  OBVIOUS
<1>1. TypeOK
  BY HashAssumption, KeyAssumption, ValueAssumption, SizeAssumption DEF Init, TypeOK, EmptyEntry, Entry
<1>2. capacity = 0 /\ pc = "idle" /\ count_with_tombstones = 0
  BY DEF Init
<1>3. Live(entries, capacity) = {} /\ Used(entries, capacity) = {}
  BY <1>2 DEF Live, Used
<1>4. ArraysInv
  BY <1>2, <1>3 DEF ArraysInv, PathClosed, UniqueIn
<1>5. SizeInv
  BY <1>2 DEF SizeInv
<1>6. CountInv
  BY <1>2, <1>3, FS_EmptySet DEF CountInv
<1>7. LoadInv
  BY <1>2 DEF LoadInv
<1>8. QED
  BY <1>1, <1>4, <1>5, <1>6, <1>7 DEF IInv

LEMMA BeginSetKeeps ==
  ASSUME IInv, TypeOK', NEW k \in Keys, NEW v \in Values, NEW ro \in BOOLEAN, BeginSet(k, v, ro)
  PROVE  IInv'
<1> USE SizeAssumption
<1>1. entries' = entries /\ capacity' = capacity /\ pc = "idle"
  BY DEF BeginSet
<1>2. CASE Overloaded
  <2>1. /\ pc' = "rehash" /\ i' = 0 /\ count_with_tombstones' = 0
        /\ new_capacity' = GrownCapacity
        /\ fresh' = [b \in 0 .. GrownCapacity - 1 |-> EmptyEntry]
    BY <1>2 DEF BeginSet, Overloaded
  <2>2. /\ GrownCapacity \in Nat /\ GrownCapacity > 0 /\ GrownCapacity >= MIN_SIZE
        /\ 4 * (capacity + 1) <= 3 * GrownCapacity
    BY DEF IInv, SizeInv, TypeOK, GrownCapacity, GROW_FACTOR
  <2>3. SizeInv'
    BY <1>1, <2>1, <2>2 DEF IInv, SizeInv, TypeOK
  <2>4. CountInv'
    BY <2>1, <2>2, NewArray DEF CountInv
  <2>5. LoadInv'
    BY <2>1 DEF LoadInv
  <2>6. \A b \in 0 .. GrownCapacity - 1 : ~IsTombstone(fresh'[b]) /\ ~IsLive(fresh'[b])
    BY <2>1 DEF IsTombstone, IsLive, EmptyEntry
  <2>7. Live(fresh', new_capacity') = {}
    BY <2>1, <2>6 DEF Live
  <2>8. PathClosed(fresh', new_capacity') /\ UniqueIn(fresh', new_capacity')
    BY <2>7 DEF PathClosed, UniqueIn
  <2>9. ArraysInv'
    BY <1>1, <2>1, <2>6, <2>8 DEF IInv, ArraysInv
  <2>10. QED
    BY <2>3, <2>4, <2>5, <2>9 DEF IInv
<1>3. CASE ~Overloaded
  <2>1. pc' = "insert" /\ count_with_tombstones' = count_with_tombstones
    BY <1>3 DEF BeginSet, Overloaded
  <2>2. ArraysInv'
    BY <1>1, <2>1 DEF IInv, ArraysInv
  <2>3. CountInv'
    BY <1>1, <2>1 DEF IInv, CountInv
  <2>4. 4 * (count_with_tombstones + 1) <= 3 * capacity
    BY <1>3 DEF Overloaded, IInv, TypeOK
  <2>5. SizeInv'
    BY <1>1, <2>1, <2>4 DEF IInv, SizeInv, TypeOK
  <2>6. LoadInv'
    BY <1>1, <2>1, <2>4 DEF LoadInv
  <2>7. QED
    BY <2>2, <2>3, <2>5, <2>6 DEF IInv
<1>4. QED
  BY <1>2, <1>3

LEMMA OtherCallsKeep ==
  ASSUME IInv, TypeOK',
         NEW k \in Keys, (\E v \in Values : Update(k, v)) \/ Get(k) \/ Delete(k)
  PROVE  IInv'
<1>1. /\ capacity' = capacity /\ count_with_tombstones' = count_with_tombstones
      /\ pc = "idle" /\ pc' = "idle"
      /\ \A c \in 0 .. capacity - 1 :
            /\ IsEmpty(entries'[c]) <=> IsEmpty(entries[c])
            /\ IsLive(entries'[c]) => IsLive(entries[c]) /\ entries'[c].key = entries[c].key
  BY OtherCalls DEF IInv, set_vars
<1>2. \A kk \in Keys, d \in 0 .. capacity - 1 : Bucket(kk, capacity, d) \in 0 .. capacity - 1
  BY BucketIn DEF IInv, TypeOK
<1>3. \A c \in 0 .. capacity - 1 : IsLive(entries[c]) => entries[c].key \in Keys
  BY DEF IInv, TypeOK, IsLive, Entry
<1>4. capacity \in Nat /\ PathClosed(entries, capacity) /\ UniqueIn(entries, capacity)
  BY DEF IInv, TypeOK, ArraysInv
<1>5. PathClosed(entries', capacity) /\ UniqueIn(entries', capacity)
  BY <1>1, <1>2, <1>3, <1>4, FewerKeysKeeps
<1>6. Used(entries', capacity) = Used(entries, capacity)
  BY <1>1 DEF Used
<1>7. ArraysInv'
  BY <1>1, <1>5 DEF ArraysInv
<1>8. SizeInv'
  BY <1>1 DEF IInv, SizeInv
<1>9. CountInv'
  BY <1>1, <1>6 DEF IInv, CountInv
<1>10. LoadInv'
  BY <1>1 DEF IInv, LoadInv
<1>11. QED
  BY <1>7, <1>8, <1>9, <1>10 DEF IInv

\* The keys of the new array are those of entries the loop has passed, so the one
\* it moves next is not among them: find_entry answers an empty bucket.
LEMMA RehashIntoEmpty ==
  ASSUME IInv, pc = "rehash", i \in 0 .. capacity - 1, IsLive(entries[i]),
         NEW b \in 0 .. new_capacity - 1, Finds(fresh, new_capacity, entries[i].key, b)
  PROVE  IsEmpty(fresh[b])
<1>1. /\ entries[i] \in Entry /\ entries[i].key \in Keys
      /\ new_capacity \in Nat /\ new_capacity > 0 /\ fresh \in [0 .. new_capacity - 1 -> Entry]
      /\ PathClosed(fresh, new_capacity)
  BY DEF IInv, TypeOK, SizeInv, ArraysInv, IsLive, Entry
<1>2. fresh[b].key # entries[i].key
  <2> SUFFICES ASSUME fresh[b].key = entries[i].key PROVE FALSE
    OBVIOUS
  <2>1. IsLive(fresh[b])
    BY DEF IsLive
  <2>2. PICK j \in 0 .. i - 1 : entries[j].key = fresh[b].key
    BY <2>1 DEF IInv, ArraysInv
  <2>3. i \in Live(entries, capacity) /\ j \in Live(entries, capacity)
    <3>1. j \in 0 .. capacity - 1
      BY DEF IInv, TypeOK
    <3>2. IsLive(entries[j])
      BY <2>1, <2>2 DEF IsLive
    <3>3. QED
      BY <3>1, <3>2 DEF Live
  <2>4. i = j
    BY <2>2, <2>3 DEF IInv, ArraysInv, UniqueIn
  <2>5. QED
    BY <2>2, <2>4 DEF IInv, TypeOK
<1>3. fresh[b].key = NoKey
  BY <1>1, <1>2, FindEntry
<1>4. ~IsTombstone(fresh[b])
  BY DEF IInv, ArraysInv
<1>5. QED
  BY <1>3, <1>4 DEF IsEmpty, IsTombstone

LEMMA RehashKeeps ==
  ASSUME IInv, TypeOK', Rehash
  PROVE  IInv'
<1>1. /\ pc = "rehash" /\ pc' = "rehash" /\ i \in 0 .. capacity - 1 /\ i' = i + 1
      /\ UNCHANGED <<entries, capacity, new_capacity>>
      /\ entries[i] \in Entry
      /\ new_capacity \in Nat /\ new_capacity > 0 /\ fresh \in [0 .. new_capacity - 1 -> Entry]
      /\ count_with_tombstones \in Nat
  BY DEF Rehash, IInv, TypeOK, SizeInv
<1>2. SizeInv'
  BY <1>1 DEF IInv, SizeInv, TypeOK
<1>3. PathClosed(fresh, new_capacity) /\ UniqueIn(fresh, new_capacity)
  BY <1>1 DEF IInv, ArraysInv
<1>4. CASE IsLive(entries[i])
  <2>1. PICK b \in 0 .. new_capacity - 1 :
           /\ Finds(fresh, new_capacity, entries[i].key, b)
           /\ fresh' = [fresh EXCEPT ![b] = entries[i]]
    BY <1>4 DEF Rehash
  <2>2. count_with_tombstones' = count_with_tombstones + 1
    BY <1>4 DEF Rehash
  <2>3. entries[i].key \in Keys /\ ~IsEmpty(entries[i])
    BY <1>1, <1>4 DEF IsLive, IsEmpty, Entry
  <2>4. PathClosed(fresh', new_capacity) /\ UniqueIn(fresh', new_capacity)
    BY <1>1, <1>3, <2>1, <2>3, WriteKeeps
  <2>5. IsEmpty(fresh[b])
    BY <1>1, <1>4, <2>1, RehashIntoEmpty
  <2>7. Cardinality(Used(fresh', new_capacity)) = Cardinality(Used(fresh, new_capacity)) + 1
    BY <1>1, <2>1, <2>3, <2>5, UseBucket
  <2>8. CountInv'
    BY <1>1, <2>2, <2>7 DEF IInv, CountInv
  <2>9. LoadInv'
    BY <1>1, <2>2 DEF IInv, LoadInv
  <2>10. ASSUME NEW c \in 0 .. new_capacity - 1
         PROVE  /\ ~IsTombstone(fresh'[c])
                /\ IsLive(fresh'[c]) => \E j \in 0 .. i' - 1 : entries'[j].key = fresh'[c].key
    <3>1. CASE c = b
      <4>1. fresh'[c] = entries[i]
        BY <1>1, <2>1, <3>1
      <4>2. i \in 0 .. i' - 1
        BY <1>1
      <4>3. QED
        BY <1>1, <1>4, <4>1, <4>2 DEF IsTombstone, IsLive
    <3>2. CASE c # b
      <4>1. fresh'[c] = fresh[c]
        BY <1>1, <2>1, <3>2
      <4>2. /\ ~IsTombstone(fresh[c])
            /\ IsLive(fresh[c]) => \E j \in 0 .. i - 1 : entries[j].key = fresh[c].key
        BY <1>1 DEF IInv, ArraysInv
      <4>3. QED
        BY <1>1, <4>1, <4>2
    <3>3. QED
      BY <3>1, <3>2
  <2>11. ArraysInv'
    BY <1>1, <2>4, <2>10 DEF IInv, ArraysInv
  <2>12. QED
    BY <1>2, <2>8, <2>9, <2>11 DEF IInv
<1>5. CASE ~IsLive(entries[i])
  <2>1. fresh' = fresh /\ count_with_tombstones' = count_with_tombstones
    BY <1>5 DEF Rehash
  <2>2. CountInv'
    BY <1>1, <2>1 DEF IInv, CountInv
  <2>3. LoadInv'
    BY <1>1, <2>1 DEF IInv, LoadInv
  <2>4. \A c \in 0 .. new_capacity - 1 :
           /\ ~IsTombstone(fresh[c])
           /\ IsLive(fresh[c]) => \E j \in 0 .. i' - 1 : entries[j].key = fresh[c].key
    BY <1>1 DEF IInv, ArraysInv
  <2>5. ArraysInv'
    BY <1>1, <1>3, <2>1, <2>4 DEF IInv, ArraysInv
  <2>6. QED
    BY <1>2, <2>2, <2>3, <2>5 DEF IInv
<1>6. QED
  BY <1>4, <1>5

LEMMA InstallKeeps ==
  ASSUME IInv, TypeOK', Install
  PROVE  IInv'
<1>1. /\ pc = "rehash" /\ pc' = "insert" /\ i = capacity
      /\ entries' = fresh /\ capacity' = new_capacity
      /\ count_with_tombstones' = count_with_tombstones
  BY DEF Install
<1>2. ArraysInv'
  BY <1>1 DEF IInv, ArraysInv
<1>3. SizeInv'
  BY <1>1 DEF IInv, SizeInv
<1>4. CountInv'
  BY <1>1 DEF IInv, CountInv
<1>5. 4 * (count_with_tombstones + 1) <= 3 * new_capacity
  BY <1>1 DEF IInv, TypeOK, SizeInv, LoadInv
<1>6. LoadInv'
  BY <1>1, <1>5 DEF LoadInv
<1>7. QED
  BY <1>2, <1>3, <1>4, <1>6 DEF IInv

LEMMA InsertKeeps ==
  ASSUME IInv, TypeOK', Insert
  PROVE  IInv'
<1>1. /\ pc = "insert" /\ pc' = "idle" /\ capacity' = capacity
      /\ capacity \in Nat /\ capacity > 0 /\ entries \in [0 .. capacity - 1 -> Entry]
      /\ call \in Entry /\ call.key \in Keys /\ count_with_tombstones \in Nat
  BY DEF Insert, IInv, TypeOK, SizeInv
<1>2. PICK b \in 0 .. capacity - 1 :
         /\ Finds(entries, capacity, call.key, b)
         /\ entries' = [entries EXCEPT ![b] = call]
         /\ count_with_tombstones' = IF IsEmpty(entries[b]) THEN count_with_tombstones + 1
                                                            ELSE count_with_tombstones
  BY DEF Insert
<1>3. ~IsEmpty(call)
  BY <1>1, KeyAssumption DEF IsEmpty
<1>4. PathClosed(entries', capacity) /\ UniqueIn(entries', capacity)
  BY <1>1, <1>2, WriteKeeps DEF IInv, ArraysInv
<1>5. ArraysInv'
  BY <1>1, <1>4 DEF ArraysInv
<1>6. SizeInv'
  BY <1>1 DEF IInv, SizeInv
<1>7. count_with_tombstones = Cardinality(Used(entries, capacity))
  BY <1>1 DEF IInv, CountInv
<1>8. Cardinality(Used(entries', capacity)) = count_with_tombstones'
  <2>1. CASE IsEmpty(entries[b])
    BY <1>1, <1>2, <1>3, <1>7, <2>1, UseBucket
  <2>2. CASE ~IsEmpty(entries[b])
    BY <1>1, <1>2, <1>3, <1>7, <2>2, UseBucket
  <2>3. QED
    BY <2>1, <2>2
<1>9. CountInv'
  BY <1>1, <1>8 DEF CountInv
<1>10. count_with_tombstones' <= count_with_tombstones + 1
  BY <1>1, <1>2
<1>11. LoadInv'
  <2>1. 4 * (count_with_tombstones + 1) <= 3 * capacity
    BY <1>1 DEF IInv, LoadInv
  <2>2. capacity \in Nat /\ count_with_tombstones \in Nat /\ count_with_tombstones' \in Nat
    BY <1>1 DEF TypeOK
  <2>3. \A m, n, c \in Nat : m <= n + 1 /\ 4 * (n + 1) <= 3 * c => 4 * m <= 3 * c
    OBVIOUS
  <2>4. QED
    BY <1>1, <1>10, <2>1, <2>2, <2>3 DEF LoadInv
<1>12. QED
  BY <1>5, <1>6, <1>9, <1>11 DEF IInv

LEMMA StutterKeeps == IInv /\ UNCHANGED vars => IInv'
  BY DEF IInv, TypeOK, ArraysInv, SizeInv, CountInv, LoadInv, vars

LEMMA Invariance == Spec => []IInv
<1>1. IInv /\ TypeOK' /\ [Next]_vars => IInv'
  <2> SUFFICES ASSUME IInv, TypeOK', [Next]_vars PROVE IInv'
    OBVIOUS
  <2>1. ASSUME NEW k \in Keys, NEW v \in Values, NEW ro \in BOOLEAN, BeginSet(k, v, ro)
        PROVE  IInv'
    BY <2>1, BeginSetKeeps
  <2>2. ASSUME NEW k \in Keys, (\E v \in Values : Update(k, v)) \/ Get(k) \/ Delete(k)
        PROVE  IInv'
    BY <2>2, OtherCallsKeep
  <2>3. CASE Rehash
    BY <2>3, RehashKeeps
  <2>4. CASE Install
    BY <2>4, InstallKeeps
  <2>5. CASE Insert
    BY <2>5, InsertKeeps
  <2>6. CASE UNCHANGED vars
    BY <2>6, StutterKeeps
  <2>7. QED
    BY <2>1, <2>2, <2>3, <2>4, <2>5, <2>6 DEF Next
<1>2. QED
  BY InitIInv, <1>1, TypeCorrect, PTL DEF Spec

-----------------------------------------------------------------------------
\* find_entry always ends: some bucket is empty in every array it is given.
THEOREM ProbeEndsHolds == Spec => []ProbeEnds
<1>1. IInv => ProbeEnds
  <2> SUFFICES ASSUME IInv PROVE ProbeEnds
    OBVIOUS
  <2>1. ASSUME pc # "rehash", capacity > 0
        PROVE  \E b \in 0 .. capacity - 1 : IsEmpty(entries[b])
    <3>1. 4 * Cardinality(Used(entries, capacity)) <= 3 * capacity
      BY <2>1 DEF IInv, TypeOK, CountInv, LoadInv
    <3>2. QED
      BY <2>1, <3>1, RoomLeft DEF IInv, TypeOK
  <2>2. ASSUME pc = "rehash" PROVE \E b \in 0 .. new_capacity - 1 : IsEmpty(fresh[b])
    <3>1. 4 * Cardinality(Used(fresh, new_capacity)) <= 3 * new_capacity
      BY <2>2 DEF IInv, TypeOK, SizeInv, CountInv, LoadInv
    <3>2. QED
      BY <2>2, <3>1, RoomLeft DEF IInv, TypeOK, SizeInv
  <2>3. QED
    BY <2>1, <2>2 DEF ProbeEnds
<1>2. QED
  BY <1>1, Invariance, PTL

\* Every live entry is reachable by the probe of its key, for every hash function.
THEOREM ReachableHolds == Spec => []Reachable
<1>1. IInv => Reachable
  BY DEF IInv, ArraysInv, Reachable
<1>2. QED
  BY <1>1, Invariance, PTL

\* No key ever has two entries, for every hash function.
THEOREM UniqueKeysHolds == Spec => []UniqueKeys
<1>1. IInv => UniqueKeys
  BY DEF IInv, ArraysInv, UniqueKeys
<1>2. QED
  BY <1>1, Invariance, PTL

\* The growth counter is exact between calls and the load factor holds.
THEOREM LoadBoundedHolds == Spec => []LoadBounded
<1>1. IInv => LoadBounded
  BY DEF IInv, CountInv, LoadInv, LoadBounded
<1>2. QED
  BY <1>1, Invariance, PTL
-----------------------------------------------------------------------------
(***************************************************************************)
(* Hashtable implements the map of GlobalTable, and its shortcut for an    *)
(* empty table is sound.  The inductive invariant, which says that keys    *)
(* stay reachable and single, is strengthened with what adjust_capacity    *)
(* owes its caller: the entries the loop has passed are in the new array,  *)
(* and nothing else is.                                                    *)
(***************************************************************************)

\* What the loop of adjust_capacity has moved.
MovedInv ==
    pc = "rehash" =>
        /\ \A b \in 0 .. new_capacity - 1 :
              IsLive(fresh[b]) => \E j \in 0 .. i - 1 : entries[j] = fresh[b]
        /\ \A j \in 0 .. i - 1 :
              IsLive(entries[j]) => \E b \in 0 .. new_capacity - 1 : fresh[b] = entries[j]

\* count is never below the number of keys in the array being filled.
CountedInv ==
    /\ pc # "rehash" => Cardinality(Live(entries, capacity)) <= count
    /\ pc = "rehash" => Cardinality(Live(fresh, new_capacity)) <= count

MapInv == IInv /\ MovedInv /\ CountedInv

-----------------------------------------------------------------------------
LEMMA LiveFinite ==
  ASSUME NEW cap \in Nat, NEW E
  PROVE  IsFiniteSet(Live(E, cap)) /\ Cardinality(Live(E, cap)) \in Nat
<1>1. Live(E, cap) \in SUBSET (0 .. cap - 1)
  BY DEF Live
<1>2. IsFiniteSet(0 .. cap - 1)
  BY FS_Interval
<1>3. IsFiniteSet(Live(E, cap))
  BY <1>1, <1>2, FS_Subset
<1>4. QED
  BY <1>3, FS_CardinalityType

\* Writing an entry that has a key: the number of keys.
LEMMA LiveBucket ==
  ASSUME NEW cap \in Nat, NEW E \in [0 .. cap - 1 -> Entry],
         NEW b \in 0 .. cap - 1, NEW e \in Entry, IsLive(e)
  PROVE  Cardinality(Live([E EXCEPT ![b] = e], cap))
            = IF IsLive(E[b]) THEN Cardinality(Live(E, cap)) ELSE Cardinality(Live(E, cap)) + 1
<1>1. Live([E EXCEPT ![b] = e], cap) = Live(E, cap) \cup {b}
  BY DEF Live
<1>2. IsLive(E[b]) <=> b \in Live(E, cap)
  BY DEF Live
<1>3. IsFiniteSet(Live(E, cap))
  BY LiveFinite
<1>4. Cardinality(Live(E, cap) \cup {b})
         = IF b \in Live(E, cap) THEN Cardinality(Live(E, cap)) ELSE Cardinality(Live(E, cap)) + 1
  BY <1>3, FS_AddElement
<1>5. QED
  BY <1>1, <1>2, <1>4

\* Fewer keys, smaller number.
LEMMA FewerLive ==
  ASSUME NEW cap \in Nat, NEW E, NEW F, Live(F, cap) \subseteq Live(E, cap)
  PROVE  Cardinality(Live(F, cap)) <= Cardinality(Live(E, cap))
<1>1. IsFiniteSet(Live(E, cap))
  BY LiveFinite
<1>2. QED
  BY <1>1, FS_Subset

-----------------------------------------------------------------------------
LEMMA InitMapInv == Init => MapInv
<1> SUFFICES ASSUME Init PROVE MapInv
  OBVIOUS
<1>1. capacity = 0 /\ pc = "idle" /\ count = 0
  BY DEF Init
<1>2. Live(entries, capacity) = {}
  BY <1>1 DEF Live
<1>3. Cardinality(Live(entries, capacity)) <= count
  BY <1>1, <1>2, FS_EmptySet
<1>4. QED
  BY <1>1, <1>3, InitIInv DEF MapInv, MovedInv, CountedInv

LEMMA BeginSetMap ==
  ASSUME MapInv, IInv', NEW k \in Keys, NEW v \in Values, NEW ro \in BOOLEAN, BeginSet(k, v, ro)
  PROVE  MapInv'
<1>1. entries' = entries /\ capacity' = capacity /\ pc = "idle"
  BY DEF BeginSet
<1>2. CASE Overloaded
  <2>1. /\ pc' = "rehash" /\ i' = 0 /\ count' = 0 /\ new_capacity' = GrownCapacity
        /\ fresh' = [b \in 0 .. GrownCapacity - 1 |-> EmptyEntry]
    BY <1>2 DEF BeginSet, Overloaded
  <2>2. \A b \in 0 .. new_capacity' - 1 : ~IsLive(fresh'[b])
    BY <2>1 DEF IsLive, EmptyEntry
  <2>3. Live(fresh', new_capacity') = {}
    BY <2>2 DEF Live
  <2>4. Cardinality(Live(fresh', new_capacity')) = 0 /\ count' = 0
    BY <2>1, <2>3, FS_EmptySet
  <2>5. MovedInv'
    <3>1. \A j \in 0 .. i' - 1 : FALSE
      BY <2>1
    <3>2. QED
      BY <2>2, <3>1 DEF MovedInv
  <2>6. QED
    BY <2>1, <2>4, <2>5 DEF MapInv, CountedInv
<1>3. CASE ~Overloaded
  <2>1. pc' = "insert" /\ count' = count
    BY <1>3 DEF BeginSet, Overloaded
  <2>2. QED
    BY <1>1, <2>1 DEF MapInv, MovedInv, CountedInv
<1>4. QED
  BY <1>2, <1>3

LEMMA OtherCallsMap ==
  ASSUME MapInv, IInv',
         NEW k \in Keys, (\E v \in Values : Update(k, v)) \/ Get(k) \/ Delete(k)
  PROVE  MapInv'
<1>1. /\ capacity' = capacity /\ count' = count /\ pc = "idle" /\ pc' = "idle"
      /\ \A c \in 0 .. capacity - 1 : IsLive(entries'[c]) => IsLive(entries[c])
  BY OtherCalls DEF MapInv, IInv, set_vars
<1>2. Live(entries', capacity) \subseteq Live(entries, capacity)
  BY <1>1 DEF Live
<1>3. capacity \in Nat /\ count \in Nat
  BY DEF MapInv, IInv, TypeOK
<1>4. Cardinality(Live(entries', capacity)) <= Cardinality(Live(entries, capacity))
  BY <1>2, <1>3, FewerLive
<1>5. Cardinality(Live(entries, capacity)) <= count
  BY <1>1 DEF MapInv, CountedInv
<1>6. Cardinality(Live(entries, capacity)) \in Nat /\ Cardinality(Live(entries', capacity)) \in Nat
  BY <1>3, LiveFinite
<1>7. Cardinality(Live(entries', capacity')) <= count'
  BY <1>1, <1>3, <1>4, <1>5, <1>6
<1>8. QED
  BY <1>1, <1>7 DEF MapInv, MovedInv, CountedInv

LEMMA RehashMap ==
  ASSUME MapInv, IInv', Rehash
  PROVE  MapInv'
<1>1. /\ pc = "rehash" /\ pc' = "rehash" /\ i \in 0 .. capacity - 1 /\ i' = i + 1
      /\ UNCHANGED <<entries, capacity, new_capacity>>
      /\ entries[i] \in Entry /\ new_capacity \in Nat /\ fresh \in [0 .. new_capacity - 1 -> Entry]
      /\ count \in Nat /\ i \in Nat
  BY DEF Rehash, MapInv, IInv, TypeOK, SizeInv
<1>2. /\ \A b \in 0 .. new_capacity - 1 :
            IsLive(fresh[b]) => \E j \in 0 .. i - 1 : entries[j] = fresh[b]
      /\ \A j \in 0 .. i - 1 :
            IsLive(entries[j]) => \E b \in 0 .. new_capacity - 1 : fresh[b] = entries[j]
  BY <1>1 DEF MapInv, MovedInv
<1>3. \A j \in 0 .. i' - 1 : j = i \/ j \in 0 .. i - 1
  BY <1>1
<1>4. i \in 0 .. i' - 1 /\ \A j \in 0 .. i - 1 : j \in 0 .. i' - 1
  BY <1>1
<1>5. Cardinality(Live(fresh, new_capacity)) <= count
  BY <1>1 DEF MapInv, CountedInv
<1>6. CASE IsLive(entries[i])
  <2>1. PICK b \in 0 .. new_capacity - 1 :
           /\ Finds(fresh, new_capacity, entries[i].key, b)
           /\ fresh' = [fresh EXCEPT ![b] = entries[i]]
    BY <1>6 DEF Rehash
  <2>2. count' = count + 1
    BY <1>6 DEF Rehash
  <2>3. IsEmpty(fresh[b])
    BY <1>1, <1>6, <2>1, RehashIntoEmpty DEF MapInv
  <2>4. ~IsLive(fresh[b])
    BY <2>3 DEF IsEmpty, IsLive
  <2>5. fresh'[b] = entries[i] /\ \A c \in 0 .. new_capacity - 1 : c # b => fresh'[c] = fresh[c]
    BY <1>1, <2>1
  <2>6. \A c \in 0 .. new_capacity - 1 :
           IsLive(fresh'[c]) => \E j \in 0 .. i' - 1 : entries[j] = fresh'[c]
    BY <1>2, <1>4, <2>5
  <2>7. ASSUME NEW j \in 0 .. i' - 1, IsLive(entries[j])
        PROVE  \E c \in 0 .. new_capacity - 1 : fresh'[c] = entries[j]
    <3>1. CASE j = i
      BY <2>5, <3>1
    <3>2. CASE j \in 0 .. i - 1
      <4>1. PICK c \in 0 .. new_capacity - 1 : fresh[c] = entries[j]
        BY <1>2, <2>7, <3>2
      <4>2. c # b
        BY <2>4, <2>7, <4>1
      <4>3. QED
        BY <2>5, <4>1, <4>2
    <3>3. QED
      BY <1>3, <3>1, <3>2
  <2>8. MovedInv'
    BY <1>1, <2>6, <2>7 DEF MovedInv
  <2>9. Cardinality(Live(fresh', new_capacity)) = Cardinality(Live(fresh, new_capacity)) + 1
    BY <1>1, <1>6, <2>1, <2>4, LiveBucket
  <2>10. Cardinality(Live(fresh, new_capacity)) \in Nat
    BY <1>1, LiveFinite
  <2>11. Cardinality(Live(fresh', new_capacity')) <= count'
    BY <1>1, <1>5, <2>2, <2>9, <2>10
  <2>12. QED
    BY <1>1, <2>8, <2>11 DEF MapInv, CountedInv
<1>7. CASE ~IsLive(entries[i])
  <2>1. fresh' = fresh /\ count' = count
    BY <1>7 DEF Rehash
  <2>2. \A c \in 0 .. new_capacity - 1 :
           IsLive(fresh[c]) => \E j \in 0 .. i' - 1 : entries[j] = fresh[c]
    BY <1>2, <1>4
  <2>3. \A j \in 0 .. i' - 1 :
           IsLive(entries[j]) => \E c \in 0 .. new_capacity - 1 : fresh[c] = entries[j]
    BY <1>2, <1>3, <1>7
  <2>4. MovedInv'
    BY <1>1, <2>1, <2>2, <2>3 DEF MovedInv
  <2>5. QED
    BY <1>1, <1>5, <2>1, <2>4 DEF MapInv, CountedInv
<1>8. QED
  BY <1>6, <1>7

LEMMA InstallMap ==
  ASSUME MapInv, IInv', Install
  PROVE  MapInv'
<1>1. /\ pc = "rehash" /\ pc' = "insert" /\ entries' = fresh /\ capacity' = new_capacity
      /\ count' = count
  BY DEF Install
<1>2. QED
  BY <1>1 DEF MapInv, MovedInv, CountedInv

LEMMA InsertMap ==
  ASSUME MapInv, IInv', Insert
  PROVE  MapInv'
<1>1. /\ pc = "insert" /\ pc' = "idle" /\ capacity' = capacity
      /\ capacity \in Nat /\ entries \in [0 .. capacity - 1 -> Entry]
      /\ call \in Entry /\ call.key \in Keys /\ count \in Nat
  BY DEF Insert, MapInv, IInv, TypeOK
<1>2. PICK b \in 0 .. capacity - 1 :
         /\ entries' = [entries EXCEPT ![b] = call]
         /\ count' = IF IsLive(entries[b]) THEN count ELSE count + 1
  BY DEF Insert
<1>3. IsLive(call)
  BY <1>1, KeyAssumption DEF IsLive
<1>4. Cardinality(Live(entries', capacity))
         = IF IsLive(entries[b]) THEN Cardinality(Live(entries, capacity))
                                 ELSE Cardinality(Live(entries, capacity)) + 1
  BY <1>1, <1>2, <1>3, LiveBucket
<1>5. Cardinality(Live(entries, capacity)) <= count
  BY <1>1 DEF MapInv, CountedInv
<1>6. Cardinality(Live(entries, capacity)) \in Nat
  BY <1>1, LiveFinite
<1>7. Cardinality(Live(entries', capacity')) <= count'
  BY <1>1, <1>2, <1>4, <1>5, <1>6
<1>8. QED
  BY <1>1, <1>7 DEF MapInv, MovedInv, CountedInv

LEMMA MapInvariance == Spec => []MapInv
<1>1. MapInv /\ IInv' /\ [Next]_vars => MapInv'
  <2> SUFFICES ASSUME MapInv, IInv', [Next]_vars PROVE MapInv'
    OBVIOUS
  <2>1. ASSUME NEW k \in Keys, NEW v \in Values, NEW ro \in BOOLEAN, BeginSet(k, v, ro)
        PROVE  MapInv'
    BY <2>1, BeginSetMap
  <2>2. ASSUME NEW k \in Keys, (\E v \in Values : Update(k, v)) \/ Get(k) \/ Delete(k)
        PROVE  MapInv'
    BY <2>2, OtherCallsMap
  <2>3. CASE Rehash
    BY <2>3, RehashMap
  <2>4. CASE Install
    BY <2>4, InstallMap
  <2>5. CASE Insert
    BY <2>5, InsertMap
  <2>6. CASE UNCHANGED vars
    BY <2>6 DEF vars, MapInv, MovedInv, CountedInv
  <2>7. QED
    BY <2>1, <2>2, <2>3, <2>4, <2>5, <2>6 DEF Next
<1>2. QED
  BY InitMapInv, <1>1, Invariance, PTL DEF Spec
-----------------------------------------------------------------------------
\* The answer "not there" that is given when count is 0 is right: count is never
\* below the number of keys.
THEOREM ShortcutSoundHolds == Spec => []ShortcutSound
<1>1. MapInv => ShortcutSound
  BY DEF MapInv, CountedInv, ShortcutSound
<1>2. QED
  BY <1>1, MapInvariance, PTL

-----------------------------------------------------------------------------
(***************************************************************************)
(* The map the buckets stand for.                                          *)
(***************************************************************************)

LEMMA BindingIs ==
  ASSUME NEW cap, NEW E, UniqueIn(E, cap), NEW b \in Live(E, cap)
  PROVE  BindingIn(E, cap, E[b].key) = [value |-> E[b].value, read_only |-> E[b].read_only]
<1> DEFINE c == CHOOSE c \in Live(E, cap) : E[c].key = E[b].key
<1>1. c \in Live(E, cap) /\ E[c].key = E[b].key
  OBVIOUS
<1>2. c = b
  BY <1>1 DEF UniqueIn
<1>3. BindingIn(E, cap, E[b].key) = [value |-> E[c].value, read_only |-> E[c].read_only]
  BY DEF BindingIn
<1>4. QED
  BY <1>2, <1>3

LEMMA NoBinding ==
  ASSUME NEW cap, NEW E, NEW k, \A b \in Live(E, cap) : E[b].key # k
  PROVE  BindingIn(E, cap, k) = Absent
  BY DEF BindingIn

\* Arrays with the same entries stand for the same map.
LEMMA SameBindings ==
  ASSUME NEW cap, NEW E, UniqueIn(E, cap), NEW n, NEW F, UniqueIn(F, n),
         \A b \in Live(E, cap) : \E c \in Live(F, n) : F[c] = E[b],
         \A c \in Live(F, n) : \E b \in Live(E, cap) : F[c] = E[b],
         NEW k
  PROVE  BindingIn(E, cap, k) = BindingIn(F, n, k)
<1>1. CASE \E b \in Live(E, cap) : E[b].key = k
  <2>1. PICK b \in Live(E, cap) : E[b].key = k
    BY <1>1
  <2>2. PICK c \in Live(F, n) : F[c] = E[b]
    BY <2>1
  <2>3. BindingIn(E, cap, E[b].key) = [value |-> E[b].value, read_only |-> E[b].read_only]
    BY BindingIs
  <2>4. BindingIn(F, n, F[c].key) = [value |-> F[c].value, read_only |-> F[c].read_only]
    BY BindingIs
  <2>5. QED
    BY <2>1, <2>2, <2>3, <2>4
<1>2. CASE ~\E b \in Live(E, cap) : E[b].key = k
  <2>1. \A c \in Live(F, n) : F[c].key # k
    BY <1>2
  <2>2. QED
    BY <1>2, <2>1, NoBinding
<1>3. QED
  BY <1>1, <1>2

\* A change of one bucket changes the binding of one key: the one that was there,
\* or the one that is.
LEMMA OtherBindings ==
  ASSUME NEW cap, NEW E, UniqueIn(E, cap), NEW F, UniqueIn(F, cap),
         NEW b \in 0 .. cap - 1, \A c \in 0 .. cap - 1 : c # b => F[c] = E[c],
         NEW k, IsLive(E[b]) => E[b].key # k, IsLive(F[b]) => F[b].key # k
  PROVE  BindingIn(F, cap, k) = BindingIn(E, cap, k)
<1>1. CASE \E c \in Live(E, cap) : E[c].key = k
  <2>1. PICK c \in Live(E, cap) : E[c].key = k
    BY <1>1
  <2>2. c # b /\ c \in 0 .. cap - 1
    BY <2>1 DEF Live
  <2>3. c \in Live(F, cap) /\ F[c] = E[c]
    BY <2>1, <2>2 DEF Live
  <2>4. BindingIn(E, cap, E[c].key) = [value |-> E[c].value, read_only |-> E[c].read_only]
    BY BindingIs
  <2>5. BindingIn(F, cap, F[c].key) = [value |-> F[c].value, read_only |-> F[c].read_only]
    BY <2>3, BindingIs
  <2>6. QED
    BY <2>1, <2>3, <2>4, <2>5
<1>2. CASE ~\E c \in Live(E, cap) : E[c].key = k
  <2>1. \A c \in Live(F, cap) : F[c].key # k
    BY <1>2 DEF Live
  <2>2. QED
    BY <1>2, <2>1, NoBinding
<1>3. QED
  BY <1>1, <1>2

\* What find_entry says of a key is what the map says.
LEMMA FoundBinding ==
  ASSUME IInv, capacity > 0, NEW k \in Keys, NEW b \in 0 .. capacity - 1,
         Finds(entries, capacity, k, b)
  PROVE  /\ IsLive(entries[b]) => /\ entries[b].key = k
                                  /\ Binding(k) = [value |-> entries[b].value,
                                                   read_only |-> entries[b].read_only]
                                  /\ Binding(k) # Absent
         /\ ~IsLive(entries[b]) => Binding(k) = Absent
<1>1. capacity \in Nat /\ entries \in [0 .. capacity - 1 -> Entry]
      /\ PathClosed(entries, capacity) /\ UniqueIn(entries, capacity)
  BY DEF IInv, TypeOK, ArraysInv
<1>2. \/ entries[b].key = k
      \/ entries[b].key = NoKey /\ \A c \in 0 .. capacity - 1 : entries[c].key # k
  BY <1>1, FindEntry
<1>3. CASE IsLive(entries[b])
  <2>1. entries[b].key = k /\ b \in Live(entries, capacity)
    BY <1>2, <1>3 DEF IsLive, Live
  <2>2. Binding(k) = [value |-> entries[b].value, read_only |-> entries[b].read_only]
    BY <1>1, <2>1, BindingIs DEF Binding
  <2>3. [value |-> entries[b].value, read_only |-> entries[b].read_only]
           \in [value : Values, read_only : BOOLEAN]
    BY <1>1 DEF Entry
  <2>4. QED
    BY <1>3, <2>1, <2>2, <2>3, AbsentAssumption
<1>4. CASE ~IsLive(entries[b])
  <2>1. \A c \in Live(entries, capacity) : entries[c].key # k
    BY <1>2, <1>4, KeyAssumption DEF IsLive, Live
  <2>2. QED
    BY <1>4, <2>1, NoBinding DEF Binding
<1>5. QED
  BY <1>3, <1>4

-----------------------------------------------------------------------------
(***************************************************************************)
(* Every step of Hashtable is a call of the map or leaves it as it is.     *)
(***************************************************************************)
Table == [k \in Keys |-> Binding(k)]

LEMMA InitMap == Init => Abstract!Init
<1> SUFFICES ASSUME Init PROVE Abstract!Init
  OBVIOUS
<1>1. Live(entries, capacity) = {}
  BY DEF Init, Live
<1>2. \A k \in Keys : Binding(k) = Absent
  BY <1>1, NoBinding DEF Binding
<1>3. answer = Abstract!Answer("init", TRUE)
  BY DEF Init, Answer, Abstract!Answer
<1>4. QED
  BY <1>2, <1>3 DEF Abstract!Init

\* Growing is invisible: neither the loop nor the new array changes the map.
LEMMA GrowingKeepsMap ==
  ASSUME MapInv, MapInv',
         \/ \E k \in Keys, v \in Values, ro \in BOOLEAN : BeginSet(k, v, ro)
         \/ Rehash
         \/ Install
  PROVE  UNCHANGED <<Table, answer>>
<1>1. CASE \/ \E k \in Keys, v \in Values, ro \in BOOLEAN : BeginSet(k, v, ro)
           \/ Rehash
  <2>1. UNCHANGED <<entries, capacity, answer>>
    BY <1>1 DEF BeginSet, Rehash
  <2>2. QED
    BY <2>1 DEF Table, Binding
<1>2. CASE Install
  <2>1. /\ pc = "rehash" /\ i = capacity /\ entries' = fresh /\ capacity' = new_capacity
        /\ answer' = answer
    BY <1>2 DEF Install
  <2>2. UniqueIn(entries, capacity) /\ UniqueIn(fresh, new_capacity) /\ capacity \in Nat
    BY <2>1 DEF MapInv, IInv, TypeOK, ArraysInv
  <2>3. \A b \in Live(entries, capacity) : \E c \in Live(fresh, new_capacity) : fresh[c] = entries[b]
    BY <2>1 DEF MapInv, MovedInv, Live
  <2>4. \A c \in Live(fresh, new_capacity) : \E b \in Live(entries, capacity) : fresh[c] = entries[b]
    BY <2>1 DEF MapInv, MovedInv, Live
  <2>5. \A k \in Keys : BindingIn(entries, capacity, k) = BindingIn(fresh, new_capacity, k)
    BY <2>2, <2>3, <2>4, SameBindings
  <2>6. QED
    BY <2>1, <2>5 DEF Table, Binding
<1>3. QED
  BY <1>1, <1>2

\* The map after a change of the bucket b that find_entry answered for k: the
\* binding of k alone may be another.
LEMMA TableChange ==
  ASSUME IInv, IInv', capacity' = capacity, capacity > 0, NEW k \in Keys,
         NEW b \in 0 .. capacity - 1, Finds(entries, capacity, k, b),
         \A c \in 0 .. capacity - 1 : c # b => entries'[c] = entries[c],
         IsLive(entries'[b]) => entries'[b].key = k
  PROVE  Table' = [Table EXCEPT ![k] = BindingIn(entries', capacity, k)]
<1>1. UniqueIn(entries, capacity) /\ UniqueIn(entries', capacity)
  BY DEF IInv, ArraysInv
<1>2. IsLive(entries[b]) => entries[b].key = k
  BY FoundBinding
<1>3. ASSUME NEW n \in Keys, n # k
      PROVE  BindingIn(entries', capacity, n) = Binding(n)
  <2>1. (IsLive(entries[b]) => entries[b].key # n) /\ (IsLive(entries'[b]) => entries'[b].key # n)
    BY <1>2, <1>3
  <2>2. BindingIn(entries', capacity, n) = BindingIn(entries, capacity, n)
    BY <1>1, <2>1, OtherBindings
  <2>3. QED
    BY <2>2 DEF Binding
<1>4. QED
  BY <1>3 DEF Table, Binding

LEMMA InsertIsSet ==
  ASSUME MapInv, MapInv', Insert
  PROVE  Abstract!Set(call.key, call.value, call.read_only)
<1>1. /\ capacity' = capacity /\ capacity \in Nat /\ capacity > 0
      /\ entries \in [0 .. capacity - 1 -> Entry]
      /\ call \in Entry /\ call.key \in Keys
      /\ IInv /\ IInv'
  BY DEF Insert, MapInv, IInv, TypeOK, SizeInv
<1>2. PICK b \in 0 .. capacity - 1 :
         /\ Finds(entries, capacity, call.key, b)
         /\ entries' = [entries EXCEPT ![b] = call]
         /\ answer' = Answer("set", ~IsLive(entries[b]))
  BY DEF Insert
<1>3. entries'[b] = call /\ \A c \in 0 .. capacity - 1 : c # b => entries'[c] = entries[c]
  BY <1>1, <1>2
<1>4. PICK k \in Keys : k = call.key
  BY <1>1
<1>5. Table' = [Table EXCEPT ![k] = BindingIn(entries', capacity, k)]
  BY <1>1, <1>2, <1>3, <1>4, TableChange
<1>6. BindingIn(entries', capacity, k) = [value |-> call.value, read_only |-> call.read_only]
  <2>1. UniqueIn(entries', capacity)
    BY <1>1 DEF IInv, ArraysInv
  <2>2. b \in Live(entries', capacity) /\ entries'[b].key = k
    BY <1>3, <1>4, KeyAssumption DEF Live, IsLive
  <2>3. BindingIn(entries', capacity, entries'[b].key)
           = [value |-> entries'[b].value, read_only |-> entries'[b].read_only]
    BY <2>1, <2>2, BindingIs
  <2>4. QED
    BY <1>3, <2>2, <2>3
<1>7. ~IsLive(entries[b]) <=> Table[k] = Absent
  BY <1>1, <1>2, <1>4, FoundBinding DEF Table
<1>8. QED
  BY <1>2, <1>4, <1>5, <1>6, <1>7 DEF Abstract!Set, Abstract!Answer, Answer, Table

LEMMA UpdateIsUpdate ==
  ASSUME MapInv, MapInv', NEW k \in Keys, NEW v \in Values, Update(k, v)
  PROVE  Abstract!Update(k, v)
<1>1. /\ capacity' = capacity /\ capacity \in Nat /\ capacity > 0
      /\ entries \in [0 .. capacity - 1 -> Entry]
      /\ IInv /\ IInv'
  BY DEF Update, MapInv, IInv, TypeOK
<1>2. PICK b \in 0 .. capacity - 1 :
         /\ Finds(entries, capacity, k, b)
         /\ \/ /\ ~IsLive(entries[b])
               /\ answer' = Answer("update", "MISS")
               /\ UNCHANGED entries
            \/ /\ IsLive(entries[b]) /\ entries[b].read_only
               /\ answer' = Answer("update", "READ_ONLY")
               /\ UNCHANGED entries
            \/ /\ IsLive(entries[b]) /\ ~entries[b].read_only
               /\ entries' = [entries EXCEPT ![b].value = v]
               /\ answer' = Answer("update", "SUCCESS")
  BY DEF Update
<1>3. UNCHANGED entries => UNCHANGED Table
  BY <1>1 DEF Table, Binding
<1>4. CASE ~IsLive(entries[b])
  <2>1. Table[k] = Absent
    BY <1>1, <1>2, <1>4, FoundBinding DEF Table
  <2>2. QED
    BY <1>2, <1>3, <1>4, <2>1 DEF Abstract!Update, Abstract!Answer, Answer, Table
<1>5. CASE IsLive(entries[b])
  <2>1. /\ entries[b].key = k /\ Table[k] # Absent
        /\ Table[k] = [value |-> entries[b].value, read_only |-> entries[b].read_only]
    BY <1>1, <1>2, <1>5, FoundBinding DEF Table
  <2>2. CASE entries[b].read_only
    BY <1>2, <1>3, <1>5, <2>1, <2>2 DEF Abstract!Update, Abstract!Answer, Answer, Table
  <2>3. CASE ~entries[b].read_only
    <3>1. entries' = [entries EXCEPT ![b].value = v] /\ answer' = Answer("update", "SUCCESS")
      BY <1>2, <1>5, <2>3
    <3>2. /\ entries'[b] = [entries[b] EXCEPT !.value = v]
          /\ \A c \in 0 .. capacity - 1 : c # b => entries'[c] = entries[c]
      BY <1>1, <3>1
    <3>3. /\ entries'[b].key = k /\ entries'[b].value = v
          /\ entries'[b].read_only = entries[b].read_only
      BY <1>1, <2>1, <3>2 DEF Entry
    <3>4. Table' = [Table EXCEPT ![k] = BindingIn(entries', capacity, k)]
      BY <1>1, <1>2, <3>2, <3>3, TableChange
    <3>5. b \in Live(entries', capacity) /\ UniqueIn(entries', capacity)
      BY <1>1, <3>3, KeyAssumption DEF Live, IsLive, IInv, ArraysInv
    <3>6. BindingIn(entries', capacity, entries'[b].key)
             = [value |-> entries'[b].value, read_only |-> entries'[b].read_only]
      BY <3>5, BindingIs
    <3>7. Table' = [Table EXCEPT ![k] = [value |-> v, read_only |-> entries[b].read_only]]
      BY <3>3, <3>4, <3>6
    <3>8. [value |-> v, read_only |-> entries[b].read_only] = [Table[k] EXCEPT !.value = v]
      BY <2>1
    <3>9. Table' = [Table EXCEPT ![k].value = v]
      BY <3>7, <3>8
    <3>10. ~Table[k].read_only
      BY <2>1, <2>3
    <3>11. QED
      BY <2>1, <3>1, <3>9, <3>10 DEF Abstract!Update, Abstract!Answer, Answer, Table
  <2>4. QED
    BY <2>2, <2>3
<1>6. QED
  BY <1>4, <1>5

\* With count at 0 no key is in the table: the answer without a probe is right.
LEMMA NothingCounted ==
  ASSUME MapInv, pc = "idle", count = 0, NEW k
  PROVE  Binding(k) = Absent
<1>1. IsFiniteSet(Live(entries, capacity)) /\ Cardinality(Live(entries, capacity)) \in Nat
  BY LiveFinite DEF MapInv, IInv, TypeOK
<1>2. Cardinality(Live(entries, capacity)) = 0
  BY <1>1 DEF MapInv, CountedInv
<1>3. Live(entries, capacity) = {}
  BY <1>1, <1>2, FS_EmptySet
<1>4. QED
  BY <1>3, NoBinding DEF Binding

LEMMA GetIsGet ==
  ASSUME MapInv, NEW k \in Keys, Get(k)
  PROVE  Abstract!Get(k)
<1>1. UNCHANGED <<entries, capacity>> /\ pc = "idle"
  BY DEF Get, table_vars
<1>2. UNCHANGED Table
  BY <1>1 DEF Table, Binding
<1>3. CASE count = 0
  <2>1. Table[k] = Absent
    BY <1>1, <1>3, NothingCounted DEF Table
  <2>2. QED
    BY <1>2, <1>3, <2>1 DEF Get, Abstract!Get, Abstract!Answer, Answer, Table
<1>4. CASE count # 0
  <2>1. PICK b \in 0 .. capacity - 1 :
           /\ Finds(entries, capacity, k, b)
           /\ answer' = Answer("get", IF IsLive(entries[b]) THEN entries[b].value ELSE Absent)
    BY <1>4 DEF Get
  <2>2. capacity > 0 /\ IInv
    BY <2>1 DEF MapInv, IInv, TypeOK
  <2>3. /\ IsLive(entries[b]) => Table[k].value = entries[b].value /\ Table[k] # Absent
        /\ ~IsLive(entries[b]) => Table[k] = Absent
    BY <2>1, <2>2, FoundBinding DEF Table
  <2>4. QED
    BY <1>2, <2>1, <2>3 DEF Abstract!Get, Abstract!Answer, Answer, Table
<1>5. QED
  BY <1>3, <1>4

LEMMA DeleteIsDelete ==
  ASSUME MapInv, MapInv', NEW k \in Keys, Delete(k)
  PROVE  Abstract!Delete(k)
<1>1. capacity' = capacity /\ pc = "idle"
  BY DEF Delete
<1>2. ASSUME UNCHANGED entries, answer' = Answer("delete", FALSE), Table[k] = Absent
      PROVE  Abstract!Delete(k)
  <2>1. UNCHANGED Table
    BY <1>1, <1>2 DEF Table, Binding
  <2>2. Table = [Table EXCEPT ![k] = Absent]
    BY <1>2 DEF Table
  <2>3. QED
    BY <1>2, <2>1, <2>2 DEF Abstract!Delete, Abstract!Answer, Answer, Table
<1>3. CASE count = 0
  <2>1. Table[k] = Absent
    BY <1>1, <1>3, NothingCounted DEF Table
  <2>2. QED
    BY <1>2, <1>3, <2>1 DEF Delete
<1>4. CASE count # 0
  <2>1. PICK b \in 0 .. capacity - 1 :
           /\ Finds(entries, capacity, k, b)
           /\ \/ /\ ~IsLive(entries[b])
                 /\ answer' = Answer("delete", FALSE)
                 /\ UNCHANGED entries
              \/ /\ IsLive(entries[b])
                 /\ entries' = [entries EXCEPT ![b].key = NoKey, ![b].value = Mark]
                 /\ answer' = Answer("delete", TRUE)
    BY <1>4 DEF Delete
  <2>2. /\ capacity \in Nat /\ capacity > 0 /\ IInv /\ IInv'
        /\ entries \in [0 .. capacity - 1 -> Entry]
    BY <2>1 DEF MapInv, IInv, TypeOK
  <2>3. CASE ~IsLive(entries[b])
    <3>1. Table[k] = Absent
      BY <2>1, <2>2, <2>3, FoundBinding DEF Table
    <3>2. QED
      BY <1>2, <2>1, <2>3, <3>1
  <2>4. CASE IsLive(entries[b])
    <3>1. entries[b].key = k /\ Table[k] # Absent
      BY <2>1, <2>2, <2>4, FoundBinding DEF Table
    <3>2. entries' = [entries EXCEPT ![b].key = NoKey, ![b].value = Mark] /\ answer' = Answer("delete", TRUE)
      BY <2>1, <2>4
    <3>3. /\ entries'[b].key = NoKey
          /\ \A c \in 0 .. capacity - 1 : c # b => entries'[c] = entries[c]
      BY <2>2, <3>2 DEF Entry
    <3>4. ~IsLive(entries'[b])
      BY <3>3 DEF IsLive
    <3>5. Table' = [Table EXCEPT ![k] = BindingIn(entries', capacity, k)]
      BY <1>1, <2>1, <2>2, <3>3, <3>4, TableChange
    <3>6. \A c \in Live(entries', capacity) : entries'[c].key # k
      <4> SUFFICES ASSUME NEW c \in Live(entries', capacity), entries'[c].key = k PROVE FALSE
        OBVIOUS
      <4>1. c \in 0 .. capacity - 1 /\ c # b
        BY <3>4 DEF Live
      <4>2. c \in Live(entries, capacity) /\ entries[c].key = k
        BY <3>3, <4>1 DEF Live
      <4>3. b \in Live(entries, capacity)
        BY <2>4 DEF Live
      <4>4. QED
        BY <2>2, <3>1, <4>1, <4>2, <4>3 DEF IInv, ArraysInv, UniqueIn
    <3>7. BindingIn(entries', capacity, k) = Absent
      BY <3>6, NoBinding
    <3>8. QED
      BY <3>1, <3>2, <3>5, <3>7 DEF Abstract!Delete, Abstract!Answer, Answer, Table
  <2>5. QED
    BY <2>3, <2>4
<1>5. QED
  BY <1>3, <1>4

\* The hash table implements the map of GlobalTable: every call answers and changes
\* exactly what the map would, and growing is invisible.
THEOREM ImplementsMapHolds == Spec => ImplementsMap
<1>1. ASSUME MapInv, MapInv', [Next]_vars
      PROVE  [Abstract!Next]_<<Table, answer>>
  <2>1. ASSUME NEW k \in Keys, NEW v \in Values, NEW ro \in BOOLEAN, BeginSet(k, v, ro)
        PROVE  UNCHANGED <<Table, answer>>
    BY <1>1, <2>1, GrowingKeepsMap
  <2>2. ASSUME NEW k \in Keys, NEW v \in Values, Update(k, v)
        PROVE  Abstract!Next
    BY <1>1, <2>2, UpdateIsUpdate DEF Abstract!Next
  <2>3. ASSUME NEW k \in Keys, Get(k)
        PROVE  Abstract!Next
    BY <1>1, <2>3, GetIsGet DEF Abstract!Next
  <2>4. ASSUME NEW k \in Keys, Delete(k)
        PROVE  Abstract!Next
    BY <1>1, <2>4, DeleteIsDelete DEF Abstract!Next
  <2>5. CASE Rehash \/ Install
    BY <1>1, <2>5, GrowingKeepsMap
  <2>6. CASE Insert
    <3>1. Abstract!Set(call.key, call.value, call.read_only)
      BY <1>1, <2>6, InsertIsSet
    <3>2. call.key \in Keys /\ call.value \in Values /\ call.read_only \in BOOLEAN
      BY <1>1, <2>6 DEF MapInv, IInv, TypeOK, Insert, Entry
    <3>3. QED
      BY <3>1, <3>2 DEF Abstract!Next
  <2>7. CASE UNCHANGED vars
    BY <2>7 DEF vars, Table, Binding
  <2>8. QED
    BY <1>1, <2>1, <2>2, <2>3, <2>4, <2>5, <2>6, <2>7 DEF Next
<1>2. MapInv /\ MapInv' /\ [Next]_vars => [Abstract!Next]_(Abstract!vars)
  BY <1>1 DEF Abstract!vars, Table
<1>3. QED
  BY <1>2, InitMap, MapInvariance, PTL DEF Spec, ImplementsMap, Abstract!Spec
=============================================================================
