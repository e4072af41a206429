---------------------------- MODULE StringSetProofs ----------------------------
(***************************************************************************)
(* Theorems about StringSet, for every set of strings, hash function,      *)
(* minimal size and bound.  StringSet makes the steps of Hashtable, so     *)
(* what HashtableProofs shows of the one holds for the other; what is left *)
(* to show is about the search by characters.                              *)
(***************************************************************************)
EXTENDS StringSet, FiniteSetTheorems, TLAPS

\* What is proved of the hash table, about the set of strings.
TableP == INSTANCE HashtableProofs
    WITH Keys <- Objects, Hash <- [o \in Objects |-> HashOf[Chars[o]]],
         Values <- BOOLEAN, Null <- FALSE, Mark <- TRUE, NoKey <- NULL, Absent <- NULL,
         entries <- AsEntries(entries, capacity), fresh <- AsEntries(fresh, new_capacity),
         call <- [key |-> call, value |-> FALSE, read_only |-> FALSE]

LEMMA TableAssumptions ==
  /\ [o \in Objects |-> HashOf[Chars[o]]] \in [Objects -> Nat]
  /\ NULL \notin Objects
  /\ FALSE \in BOOLEAN /\ TRUE \in BOOLEAN /\ FALSE # TRUE
  /\ NULL \notin BOOLEAN \cup [value : BOOLEAN, read_only : BOOLEAN]
  /\ MIN_SIZE \in Nat /\ MIN_SIZE >= 2
  /\ MaxCapacity \in Nat /\ MaxCount \in Nat
<1>1. \A o \in Objects : HashOf[Chars[o]] \in Nat
  BY CharsAssumption, HashOfAssumption
<1>2. QED
  BY <1>1, NullAssumption, MinSizeAssumption, BoundAssumption

LEMMA EntryType ==
  /\ EmptyEntry \in SetEntry /\ [string |-> NULL, tombstone |-> TRUE] \in SetEntry
  /\ \A e \in SetEntry : e.string \in Objects \cup {NULL} /\ e.tombstone \in BOOLEAN
  BY DEF EmptyEntry, SetEntry

\* Writing the pointer of one entry.
LEMMA WriteType ==
  ASSUME NEW cap, NEW E \in [0 .. cap - 1 -> SetEntry], NEW b \in 0 .. cap - 1,
         NEW s \in Objects \cup {NULL}
  PROVE  [E EXCEPT ![b].string = s] \in [0 .. cap - 1 -> SetEntry]
<1>1. [E[b] EXCEPT !.string = s] \in SetEntry
  <2>1. \A e \in SetEntry : [e EXCEPT !.string = s] \in SetEntry
    BY DEF SetEntry
  <2>2. QED
    BY <2>1
<1>2. QED
  BY <1>1

\* The types of the C declarations, in every state between and inside calls.
THEOREM TypeCorrect == Spec => []TypeOK
<1> USE CharsAssumption, HashOfAssumption, NullAssumption, MinSizeAssumption, BoundAssumption
<1>1. Init => TypeOK
  BY DEF Init, TypeOK, SetEntry
<1>2. TypeOK /\ [Next]_vars => TypeOK'
  <2> SUFFICES ASSUME TypeOK, [Next]_vars PROVE TypeOK'
    OBVIOUS
  <2> USE DEF TypeOK
  <2>1. ASSUME NEW c \in Contents, Reuse(c)
        PROVE  TypeOK'
    BY <2>1 DEF Reuse, set_vars, add_vars
  <2>2. ASSUME NEW o \in Objects, Allocate(o)
        PROVE  TypeOK'
    <3>1. GrownCapacity \in Nat /\ EmptyEntry \in SetEntry
      BY EntryType DEF GrownCapacity
    <3>2. UNCHANGED <<entries, capacity, forgotten, made>> /\ registered' = registered \cup {o} /\ call' = o
      BY <2>2 DEF Allocate
    <3>3. o # NULL
      OBVIOUS
    <3>4. CASE Overloaded
      BY <2>2, <3>1, <3>2, <3>3, <3>4 DEF Allocate
    <3>5. CASE ~Overloaded
      BY <2>2, <3>2, <3>3, <3>5 DEF Allocate
    <3>6. QED
      BY <3>4, <3>5
  <2>3. ASSUME NEW o \in Objects, Delete(o)
        PROVE  TypeOK'
    <3>1. entries' \in [0 .. capacity - 1 -> SetEntry]
      <4>1. \/ entries' = entries
            \/ \E b \in 0 .. capacity - 1 :
                  entries' = [entries EXCEPT ![b] = [string |-> NULL, tombstone |-> TRUE]]
        BY <2>3 DEF Delete
      <4>2. QED
        BY <4>1, EntryType
    <3>2. QED
      BY <2>3, <3>1 DEF Delete, add_vars
  <2>4. CASE Rehash
    <3>1. IsLive(entries[i]) => entries[i].string \in Objects \cup {NULL}
      <4>1. i \in 0 .. capacity - 1
        BY <2>4 DEF Rehash
      <4>2. QED
        BY <4>1, EntryType
    <3>2. fresh' \in [0 .. new_capacity - 1 -> SetEntry]
      <4>1. CASE ~IsLive(entries[i])
        BY <2>4, <4>1 DEF Rehash
      <4>2. CASE IsLive(entries[i])
        <5>1. PICK b \in 0 .. new_capacity - 1 :
                 fresh' = [fresh EXCEPT ![b].string = entries[i].string]
          BY <2>4, <4>2 DEF Rehash
        <5>2. [fresh EXCEPT ![b].string = entries[i].string] \in [0 .. new_capacity - 1 -> SetEntry]
          BY <3>1, <4>2, WriteType
        <5>3. QED
          BY <5>1, <5>2
      <4>3. QED
        BY <4>1, <4>2
    <3>3. /\ i' = i + 1 /\ i' \in Nat
          /\ UNCHANGED <<entries, capacity, pc, call, new_capacity, registered, forgotten, made>>
      BY <2>4 DEF Rehash, vm_vars
    <3>4. count' \in Nat /\ count_with_tombstones' \in Nat
      <4>1. \/ count' = count + 1 /\ count_with_tombstones' = count_with_tombstones + 1
            \/ count' = count /\ count_with_tombstones' = count_with_tombstones
        BY <2>4 DEF Rehash
      <4>2. QED
        BY <4>1
    <3>5. QED
      BY <3>2, <3>3, <3>4
  <2>5. CASE Install
    BY <2>5 DEF Install, vm_vars
  <2>6. CASE Insert
    <3>1. entries' \in [0 .. capacity - 1 -> SetEntry]
      <4>1. PICK b \in 0 .. capacity - 1 : entries' = [entries EXCEPT ![b].string = call]
        BY <2>6 DEF Insert
      <4>2. [entries EXCEPT ![b].string = call] \in [0 .. capacity - 1 -> SetEntry]
        BY WriteType
      <4>3. QED
        BY <4>1, <4>2
    <3>2. count' \in Nat /\ count_with_tombstones' \in Nat
      <4>1. \/ count' = count
            \/ count' = count + 1
        BY <2>6 DEF Insert
      <4>2. \/ count_with_tombstones' = count_with_tombstones
            \/ count_with_tombstones' = count_with_tombstones + 1
        BY <2>6 DEF Insert
      <4>3. QED
        BY <4>1, <4>2
    <3>3. /\ UNCHANGED <<capacity, fresh, new_capacity, i, registered, forgotten>>
          /\ pc' = "idle" /\ call' = NULL
          /\ made' = <<Chars[call], call>>
      BY <2>6 DEF Insert
    <3>4. made' \in (Contents \cup {NULL}) \X (Objects \cup {NULL})
      <4>1. call \in Objects
        BY <2>6 DEF Insert
      <4>2. Chars[call] \in Contents
        BY <4>1
      <4>3. QED
        BY <3>3, <4>1, <4>2
    <3>5. QED
      BY <3>1, <3>2, <3>3, <3>4
  <2>7. CASE UNCHANGED vars
    BY <2>7 DEF vars
  <2>8. QED
    BY <2>1, <2>2, <2>3, <2>4, <2>5, <2>6, <2>7 DEF Next
<1>3. QED
  BY <1>1, <1>2, PTL DEF Spec

-----------------------------------------------------------------------------
(***************************************************************************)
(* The set of strings is a hash table.                                     *)
(***************************************************************************)

LEMMA SameState ==
  ASSUME NEW e \in SetEntry
  PROVE  /\ AsEntry(e) \in TableP!Entry
         /\ TableP!IsEmpty(AsEntry(e)) <=> IsEmpty(e)
         /\ TableP!IsTombstone(AsEntry(e)) <=> IsTombstone(e)
         /\ TableP!IsLive(AsEntry(e)) <=> IsLive(e)
  BY DEF SetEntry, AsEntry, IsEmpty, IsTombstone, IsLive,
         TableP!Entry, TableP!IsEmpty, TableP!IsTombstone, TableP!IsLive

LEMMA SameBucket ==
  ASSUME NEW o \in Objects, NEW cap, NEW d
  PROVE  TableP!Bucket(o, cap, d) = Bucket(Chars[o], cap, d)
  BY DEF Bucket, TableP!Bucket

LEMMA BucketIn ==
  ASSUME NEW cap \in Nat, cap > 0, NEW c \in Contents, NEW d \in 0 .. cap - 1
  PROVE  Bucket(c, cap, d) \in 0 .. cap - 1
<1>1. HashOf[c] % cap \in 0 .. cap - 1
  BY HashOfAssumption
<1>2. QED
  BY <1>1 DEF Bucket

LEMMA AsEntriesAt ==
  ASSUME NEW cap \in Nat, NEW E \in [0 .. cap - 1 -> SetEntry], NEW b \in 0 .. cap - 1
  PROVE  /\ AsEntries(E, cap)[b] = AsEntry(E[b]) /\ AsEntry(E[b]).key = E[b].string
         /\ E[b] \in SetEntry
  BY DEF AsEntries, AsEntry

\* Both modules find the same bucket.
LEMMA SameFinds ==
  ASSUME NEW cap \in Nat, cap > 0, NEW E \in [0 .. cap - 1 -> SetEntry],
         NEW o \in Objects, NEW b \in 0 .. cap - 1, Finds(E, cap, o, b)
  PROVE  TableP!Finds(AsEntries(E, cap), cap, o, b)
<1> DEFINE B(d) == Bucket(Chars[o], cap, d)
           A == AsEntries(E, cap)
<1>1. \A d \in 0 .. cap - 1 : TableP!Bucket(o, cap, d) = B(d) /\ B(d) \in 0 .. cap - 1
  BY SameBucket, BucketIn, CharsAssumption
<1>2. PICK d \in 0 .. cap - 1 :
        /\ \/ IsEmpty(E[B(d)])
           \/ E[B(d)].string = o
        /\ \A c \in 0 .. d - 1 : ~IsEmpty(E[B(c)]) /\ E[B(c)].string # o
        /\ \/ /\ E[B(d)].string = o \/ \A c \in 0 .. d - 1 : ~IsTombstone(E[B(c)])
              /\ b = B(d)
           \/ /\ E[B(d)].string # o
              /\ \E c \in 0 .. d - 1 :
                    /\ IsTombstone(E[B(c)])
                    /\ \A c0 \in 0 .. c - 1 : ~IsTombstone(E[B(c0)])
                    /\ b = B(c)
  BY DEF Finds, Stops
<1>3. \A c \in 0 .. d - 1 : /\ c \in 0 .. cap - 1
                            /\ \A c0 \in 0 .. c - 1 : c0 \in 0 .. cap - 1
  OBVIOUS
<1> HIDE DEF B
<1>4. ASSUME NEW e \in 0 .. cap - 1
      PROVE  /\ A[B(e)].key = E[B(e)].string
             /\ TableP!IsEmpty(A[B(e)]) <=> IsEmpty(E[B(e)])
             /\ TableP!IsTombstone(A[B(e)]) <=> IsTombstone(E[B(e)])
  <2>1. /\ A[B(e)] = AsEntry(E[B(e)]) /\ AsEntry(E[B(e)]).key = E[B(e)].string
        /\ E[B(e)] \in SetEntry
    BY <1>1, AsEntriesAt
  <2> HIDE DEF A
  <2>2. QED
    BY <2>1, SameState
<1> HIDE DEF A
<1>5. TableP!Stops(A, cap, o, d)
  BY <1>1, <1>2, <1>3, <1>4 DEF TableP!Stops
<1>6. \/ /\ A[TableP!Bucket(o, cap, d)].key = o
            \/ \A c \in 0 .. d - 1 : ~TableP!IsTombstone(A[TableP!Bucket(o, cap, c)])
         /\ b = TableP!Bucket(o, cap, d)
      \/ /\ A[TableP!Bucket(o, cap, d)].key # o
         /\ \E c \in 0 .. d - 1 :
               /\ TableP!IsTombstone(A[TableP!Bucket(o, cap, c)])
               /\ \A c0 \in 0 .. c - 1 : ~TableP!IsTombstone(A[TableP!Bucket(o, cap, c0)])
               /\ b = TableP!Bucket(o, cap, c)
  BY <1>1, <1>2, <1>3, <1>4
<1>7. TableP!Finds(A, cap, o, b)
  BY <1>5, <1>6 DEF TableP!Finds
<1>8. QED
  BY <1>7 DEF A

\* Writing a string in a bucket, and making it a tombstone.
LEMMA AsString ==
  ASSUME NEW e, NEW o \in Objects, e.string = o
  PROVE  AsEntry(e) = [key |-> o, value |-> FALSE, read_only |-> FALSE]
  BY NullAssumption DEF AsEntry

LEMMA SameTombstone ==
  ASSUME NEW cap \in Nat, NEW E \in [0 .. cap - 1 -> SetEntry], NEW b \in 0 .. cap - 1
  PROVE  AsEntries([E EXCEPT ![b] = [string |-> NULL, tombstone |-> TRUE]], cap)
            = [AsEntries(E, cap) EXCEPT ![b] = [key |-> NULL, value |-> TRUE, read_only |-> FALSE]]
<1> DEFINE F == [E EXCEPT ![b] = [string |-> NULL, tombstone |-> TRUE]]
<1>1. F[b] = [string |-> NULL, tombstone |-> TRUE] /\ \A c \in 0 .. cap - 1 : c # b => F[c] = E[c]
  OBVIOUS
<1>2. AsEntry(F[b]) = [key |-> NULL, value |-> TRUE, read_only |-> FALSE]
  BY <1>1 DEF AsEntry
<1> HIDE DEF F
<1>3. AsEntries(F, cap) = [AsEntries(E, cap) EXCEPT ![b] = [key |-> NULL, value |-> TRUE, read_only |-> FALSE]]
  BY <1>1, <1>2 DEF AsEntries
<1>4. QED
  BY <1>3 DEF F

\* The other buckets are left alone.
LEMMA Written ==
  ASSUME NEW cap, NEW E \in [0 .. cap - 1 -> SetEntry], NEW b \in 0 .. cap - 1, NEW o
  PROVE  /\ [E EXCEPT ![b].string = o][b].string = o
         /\ \A c \in 0 .. cap - 1 : c # b => [E EXCEPT ![b].string = o][c] = E[c]
<1>1. [E EXCEPT ![b].string = o][b] = [E[b] EXCEPT !.string = o] /\ E[b] \in SetEntry
  OBVIOUS
<1>2. [E EXCEPT ![b].string = o][b].string = o
  BY <1>1 DEF SetEntry
<1>3. QED
  BY <1>2

\* A field of an entry.
LEMMA OneField ==
  ASSUME NEW k, NEW v, NEW k0, NEW v0, NEW ro
  PROVE  /\ [[key |-> k0, value |-> v0, read_only |-> ro] EXCEPT !.key = k]
               = [key |-> k, value |-> v0, read_only |-> ro]
         /\ [[key |-> k, value |-> v0, read_only |-> ro] EXCEPT !.value = v]
               = [key |-> k, value |-> v, read_only |-> ro]
  OBVIOUS

LEMMA SameEmptyArray ==
  ASSUME NEW n \in Nat
  PROVE  AsEntries([b \in 0 .. n - 1 |-> EmptyEntry], n) = [b \in 0 .. n - 1 |-> TableP!EmptyEntry]
<1>1. AsEntry(EmptyEntry) = TableP!EmptyEntry
  BY DEF AsEntry, EmptyEntry, TableP!EmptyEntry
<1>2. QED
  BY <1>1 DEF AsEntries

LEMMA SameNoArray == AsEntries(<<>>, 0) = <<>>
<1>1. 0 .. 0 - 1 = {}
  OBVIOUS
<1>2. QED
  BY <1>1 DEF AsEntries

-----------------------------------------------------------------------------
LEMMA InitIsTable == Init => TableP!Init
<1> SUFFICES ASSUME Init PROVE TableP!Init
  OBVIOUS
<1>1. AsEntries(entries, capacity) = <<>> /\ AsEntries(fresh, new_capacity) = <<>>
  BY SameNoArray DEF Init
<1>2. QED
  BY <1>1 DEF Init, TableP!Init, TableP!EmptyEntry, TableP!Answer

LEMMA AllocateIsTable ==
  ASSUME TypeOK, TypeOK', NEW o \in Objects, Allocate(o)
  PROVE  TableP!BeginSet(o, FALSE, FALSE)
<1>1. UNCHANGED <<entries, capacity, answer>> /\ pc = "idle" /\ count <= MaxCount /\ call' = o
  BY DEF Allocate
<1>2. UNCHANGED AsEntries(entries, capacity)
  BY <1>1 DEF AsEntries
<1>3. Overloaded <=> TableP!Overloaded
  BY DEF Overloaded, TableP!Overloaded
<1>4. GrownCapacity = TableP!GrownCapacity
  BY DEF GrownCapacity, TableP!GrownCapacity, TableP!GROW_FACTOR
<1>5. CASE ~Overloaded
  <2>1. pc' = "insert" /\ UNCHANGED <<count, count_with_tombstones, fresh, new_capacity, i>>
    BY <1>5 DEF Allocate, Overloaded
  <2>2. UNCHANGED AsEntries(fresh, new_capacity)
    BY <2>1 DEF AsEntries
  <2>3. QED
    BY <1>1, <1>2, <1>3, <1>5, <2>1, <2>2 DEF TableP!BeginSet
<1>6. CASE Overloaded
  <2>1. /\ GrownCapacity <= MaxCapacity /\ pc' = "rehash" /\ new_capacity' = GrownCapacity
        /\ fresh' = [b \in 0 .. GrownCapacity - 1 |-> EmptyEntry]
        /\ i' = 0 /\ count' = 0 /\ count_with_tombstones' = 0
    BY <1>6 DEF Allocate, Overloaded
  <2>2. GrownCapacity \in Nat
    BY MinSizeAssumption DEF GrownCapacity, TypeOK
  <2>3. AsEntries(fresh', new_capacity') = [b \in 0 .. GrownCapacity - 1 |-> TableP!EmptyEntry]
    BY <2>1, <2>2, SameEmptyArray
  <2>4. QED
    BY <1>1, <1>2, <1>3, <1>4, <1>6, <2>1, <2>3 DEF TableP!BeginSet
<1>7. QED
  BY <1>5, <1>6

LEMMA RehashIsTable ==
  ASSUME TypeOK, TypeOK', Rehash
  PROVE  TableP!Rehash
<1> DEFINE A == AsEntries(entries, capacity)
           F == AsEntries(fresh, new_capacity)
<1>1. /\ pc = "rehash" /\ i < capacity /\ i \in 0 .. capacity - 1 /\ i' = i + 1
      /\ UNCHANGED <<entries, capacity, pc, call, new_capacity, answer>>
      /\ capacity \in Nat /\ new_capacity \in Nat
      /\ entries \in [0 .. capacity - 1 -> SetEntry] /\ fresh \in [0 .. new_capacity - 1 -> SetEntry]
  BY DEF Rehash, TypeOK
<1>2. A' = A
  BY <1>1
<1>3. /\ A[i] = AsEntry(entries[i]) /\ A[i].key = entries[i].string
      /\ entries[i] \in SetEntry
  BY <1>1, AsEntriesAt
<1>4. TableP!IsLive(A[i]) <=> IsLive(entries[i])
  BY <1>3, SameState
<1>5. CASE IsLive(entries[i])
  <2>1. PICK b \in 0 .. new_capacity - 1 :
           /\ Finds(fresh, new_capacity, entries[i].string, b)
           /\ fresh' = [fresh EXCEPT ![b].string = entries[i].string]
    BY <1>5 DEF Rehash
  <2>2. count' = count + 1 /\ count_with_tombstones' = count_with_tombstones + 1
    BY <1>5 DEF Rehash
  <2>3. entries[i].string \in Objects /\ new_capacity > 0
    BY <1>1, <1>3, <1>5, EntryType DEF IsLive
  <2>4. TableP!Finds(F, new_capacity, A[i].key, b)
    BY <1>1, <1>3, <2>1, <2>3, SameFinds
  <2>5. A[i] = [key |-> entries[i].string, value |-> FALSE, read_only |-> FALSE]
    BY <1>3, <1>5 DEF AsEntry, IsLive
  <2>6. AsEntries([fresh EXCEPT ![b].string = entries[i].string], new_capacity)
           = [F EXCEPT ![b] = [key |-> entries[i].string, value |-> FALSE, read_only |-> FALSE]]
    <3>1. PICK o \in Objects : o = entries[i].string
      BY <2>3
    <3>2. PICK E : E = [fresh EXCEPT ![b].string = o]
      OBVIOUS
    <3>3. E[b].string = o /\ \A c \in 0 .. new_capacity - 1 : c # b => E[c] = fresh[c]
      BY <1>1, <3>2, Written
    <3>4. AsEntries(E, new_capacity) = [AsEntries(fresh, new_capacity) EXCEPT ![b] = AsEntry(E[b])]
      BY <1>1, <3>3 DEF AsEntries
    <3>5. AsEntry(E[b]) = [key |-> o, value |-> FALSE, read_only |-> FALSE]
      BY <3>3, AsString
    <3>6. QED
      BY <3>1, <3>2, <3>4, <3>5, Zenon DEF F
  <2>7. AsEntries(fresh', new_capacity') = [F EXCEPT ![b] = A[i]]
    BY <1>1, <2>1, <2>5, <2>6
  <2>8. QED
    BY <1>1, <1>2, <1>4, <1>5, <2>2, <2>4, <2>7 DEF TableP!Rehash
<1>6. CASE ~IsLive(entries[i])
  <2>1. UNCHANGED <<fresh, count, count_with_tombstones>>
    BY <1>6 DEF Rehash
  <2>2. F' = F
    BY <1>1, <2>1
  <2>3. QED
    BY <1>1, <1>2, <1>4, <1>6, <2>1, <2>2 DEF TableP!Rehash
<1>7. QED
  BY <1>5, <1>6

LEMMA InstallIsTable ==
  ASSUME TypeOK, TypeOK', Install
  PROVE  TableP!Install
<1>1. AsEntries(entries', capacity') = AsEntries(fresh, new_capacity)
  BY DEF Install
<1>2. AsEntries(fresh', new_capacity') = <<>>
  BY SameNoArray DEF Install
<1>3. QED
  BY <1>1, <1>2 DEF Install, TableP!Install

LEMMA InsertIsTable ==
  ASSUME TypeOK, TypeOK', Insert
  PROVE  TableP!Insert
<1> DEFINE A == AsEntries(entries, capacity)
           e == [key |-> call, value |-> FALSE, read_only |-> FALSE]
<1>1. /\ pc = "insert" /\ pc' = "idle" /\ call' = NULL /\ capacity' = capacity /\ capacity \in Nat
      /\ UNCHANGED <<fresh, new_capacity, i>>
      /\ entries \in [0 .. capacity - 1 -> SetEntry] /\ call \in Objects
  BY DEF Insert, TypeOK
<1>2. PICK b \in 0 .. capacity - 1 :
        /\ Finds(entries, capacity, call, b)
        /\ count' = IF IsLive(entries[b]) THEN count ELSE count + 1
        /\ count_with_tombstones' = IF IsEmpty(entries[b]) THEN count_with_tombstones + 1
                                                           ELSE count_with_tombstones
        /\ entries' = [entries EXCEPT ![b].string = call]
        /\ answer' = <<"set", ~IsLive(entries[b])>>
  BY DEF Insert
<1>3. A[b] = AsEntry(entries[b]) /\ entries[b] \in SetEntry
  BY <1>1, AsEntriesAt
<1>4. /\ TableP!IsLive(A[b]) <=> IsLive(entries[b])
      /\ TableP!IsEmpty(A[b]) <=> IsEmpty(entries[b])
  BY <1>3, SameState
<1>5. TableP!Finds(A, capacity, call, b)
  BY <1>1, <1>2, SameFinds
<1>6. AsEntries(entries', capacity') = [A EXCEPT ![b] = e]
  <2>1. PICK o \in Objects : o = call
    BY <1>1
  <2>2. PICK E : E = [entries EXCEPT ![b].string = o]
    OBVIOUS
  <2>3. E[b].string = o /\ \A c \in 0 .. capacity - 1 : c # b => E[c] = entries[c]
    BY <1>1, <2>2, Written
  <2>4. AsEntries(E, capacity) = [AsEntries(entries, capacity) EXCEPT ![b] = AsEntry(E[b])]
    BY <1>1, <2>3 DEF AsEntries
  <2>5. AsEntry(E[b]) = [key |-> o, value |-> FALSE, read_only |-> FALSE]
    BY <2>3, AsString
  <2>6. QED
    BY <1>1, <1>2, <2>1, <2>2, <2>4, <2>5, Zenon DEF A, e
<1>7. UNCHANGED AsEntries(fresh, new_capacity)
  BY <1>1 DEF AsEntries
<1>8. e' = TableP!EmptyEntry /\ e.key = call
  BY <1>1 DEF TableP!EmptyEntry
<1>9. answer' = TableP!Answer("set", ~TableP!IsLive(A[b]))
  BY <1>2, <1>4 DEF TableP!Answer
<1> HIDE DEF A
<1>10. QED
  BY <1>1, <1>2, <1>4, <1>5, <1>6, <1>7, <1>8, <1>9 DEF TableP!Insert, A

LEMMA DeleteIsTable ==
  ASSUME TypeOK, TypeOK', NEW o \in Objects, Delete(o)
  PROVE  TableP!Delete(o)
<1> DEFINE A == AsEntries(entries, capacity)
<1>1. /\ pc = "idle" /\ capacity \in Nat /\ entries \in [0 .. capacity - 1 -> SetEntry]
      /\ UNCHANGED <<capacity, count, count_with_tombstones, pc, call, fresh, new_capacity, i>>
  BY DEF Delete, TypeOK, add_vars
<1>2. UNCHANGED AsEntries(fresh, new_capacity)
  BY <1>1 DEF AsEntries
<1>3. UNCHANGED entries => AsEntries(entries', capacity') = A
  BY <1>1
<1>4. CASE count = 0
  <2>1. answer' = <<"delete", FALSE>> /\ UNCHANGED entries
    BY <1>4 DEF Delete
  <2>2. QED
    BY <1>1, <1>2, <1>3, <1>4, <2>1 DEF TableP!Delete, TableP!Answer, TableP!set_vars
<1>5. CASE count # 0
  <2>1. PICK b \in 0 .. capacity - 1 :
           /\ Finds(entries, capacity, o, b)
           /\ \/ /\ ~IsLive(entries[b])
                 /\ answer' = <<"delete", FALSE>>
                 /\ UNCHANGED entries
              \/ /\ IsLive(entries[b])
                 /\ entries' = [entries EXCEPT ![b] = [string |-> NULL, tombstone |-> TRUE]]
                 /\ answer' = <<"delete", TRUE>>
    BY <1>5 DEF Delete
  <2>2. A[b] = AsEntry(entries[b]) /\ entries[b] \in SetEntry
    BY <1>1, AsEntriesAt
  <2>3. TableP!IsLive(A[b]) <=> IsLive(entries[b])
    BY <2>2, SameState
  <2>4. TableP!Finds(A, capacity, o, b)
    BY <1>1, <2>1, SameFinds
  <2>5. entries' = [entries EXCEPT ![b] = [string |-> NULL, tombstone |-> TRUE]]
           => AsEntries(entries', capacity')
                 = [A EXCEPT ![b] = [key |-> NULL, value |-> TRUE, read_only |-> FALSE]]
    BY <1>1, SameTombstone
  <2>6. PICK k0, v0, ro : A[b] = [key |-> k0, value |-> v0, read_only |-> ro] /\ ro = FALSE
    BY <2>2 DEF AsEntry
  <2>7. PICK T : A \in [0 .. capacity - 1 -> T]
    <3>1. A \in [0 .. capacity - 1 -> {AsEntry(entries[c]) : c \in 0 .. capacity - 1}]
      BY DEF AsEntries
    <3>2. QED
      BY <3>1
  <2> HIDE DEF A
  <2>8. [A EXCEPT ![b] = [key |-> NULL, value |-> TRUE, read_only |-> FALSE]]
           = [A EXCEPT ![b].key = NULL, ![b].value = TRUE]
    <3>1. PICK S, B : S = 0 .. capacity - 1 /\ b \in S /\ B = A /\ B \in [S -> T]
      BY <2>7
    <3>2. PICK v : v = TRUE
      OBVIOUS
    <3>3. [B EXCEPT ![b] = [key |-> NULL, value |-> v, read_only |-> ro]]
             = [B EXCEPT ![b].key = NULL, ![b].value = v]
      <4>1. PICK r, s, t : /\ r = [key |-> k0, value |-> v0, read_only |-> ro]
                           /\ s = [key |-> NULL, value |-> v0, read_only |-> ro]
                           /\ t = [key |-> NULL, value |-> v, read_only |-> ro]
        OBVIOUS
      <4>2. B[b] = r /\ [B[b] EXCEPT !.key = NULL] = s /\ [s EXCEPT !.value = v] = t
        BY <2>6, <3>1, <4>1, OneField
      <4>3. B \in [S -> T] /\ b \in S
        BY <3>1
      <4>4. PICK C : C = [B EXCEPT ![b] = s]
        OBVIOUS
      <4>5. [B EXCEPT ![b].key = NULL] = [B EXCEPT ![b] = [B[b] EXCEPT !.key = NULL]]
        OBVIOUS
      <4>6. C = [B EXCEPT ![b].key = NULL] /\ C[b] = s
        <5>1. C = [B EXCEPT ![b].key = NULL]
          BY <4>2, <4>4, <4>5, Zenon
        <5>2. C[b] = s
          BY <4>3, <4>4
        <5>3. QED
          BY <5>1, <5>2
      <4>7. [C EXCEPT ![b].value = v] = [C EXCEPT ![b] = [C[b] EXCEPT !.value = v]]
        OBVIOUS
      <4>8. [C EXCEPT ![b].value = v] = [C EXCEPT ![b] = t]
        BY <4>2, <4>6, <4>7, Zenon
      <4>9. [C EXCEPT ![b] = t] = [B EXCEPT ![b] = t]
        BY <4>3, <4>4
      <4>10. [C EXCEPT ![b].value = v] = [B EXCEPT ![b] = t]
        BY <4>8, <4>9, Zenon
      <4>11. [[B EXCEPT ![b].key = NULL] EXCEPT ![b].value = v] = [B EXCEPT ![b] = t]
        BY <4>6, <4>10, Zenon
      <4>12. [B EXCEPT ![b].key = NULL, ![b].value = v] = [[B EXCEPT ![b].key = NULL] EXCEPT ![b].value = v]
        BY <4>3
      <4>13. QED
        BY <4>1, <4>11, <4>12, Zenon
    <3>4. QED
      BY <2>6, <3>1, <3>2, <3>3, Zenon
  <2>9. QED
    BY <1>1, <1>2, <1>3, <1>5, <2>1, <2>3, <2>4, <2>5, <2>8
       DEF TableP!Delete, TableP!Answer, TableP!set_vars, A
<1>6. QED
  BY <1>4, <1>5

LEMMA SameSpec == TableP!Spec => Table!Spec
<1>1. TableP!Init => Table!Init
  BY DEF TableP!Init, Table!Init, TableP!EmptyEntry, Table!EmptyEntry, TableP!Answer, Table!Answer
<1>2. [TableP!Next]_(TableP!vars) => [Table!Next]_(Table!vars)
  BY DEF TableP!Next, Table!Next, TableP!vars, Table!vars, TableP!BeginSet, Table!BeginSet, TableP!Rehash, Table!Rehash,
    TableP!Install, Table!Install, TableP!Insert, Table!Insert, TableP!Update, Table!Update, TableP!Get, Table!Get,
    TableP!Delete, Table!Delete, TableP!Finds, Table!Finds, TableP!Stops, Table!Stops, TableP!Bucket, Table!Bucket,
    TableP!IsEmpty, Table!IsEmpty, TableP!IsTombstone, Table!IsTombstone, TableP!IsLive, Table!IsLive,
    TableP!EmptyEntry, Table!EmptyEntry, TableP!Answer, Table!Answer, TableP!table_vars, Table!table_vars,
    TableP!set_vars, Table!set_vars, TableP!Overloaded, Table!Overloaded, TableP!GrownCapacity, Table!GrownCapacity,
    TableP!GROW_FACTOR, Table!GROW_FACTOR
<1>3. QED
  BY <1>1, <1>2, PTL DEF TableP!Spec, Table!Spec

-----------------------------------------------------------------------------
LEMMA StepIsTable ==
  ASSUME TypeOK, TypeOK', [Next]_vars
  PROVE  [TableP!Next]_(TableP!vars)
<1>1. ASSUME UNCHANGED <<set_vars, add_vars, answer>>
      PROVE  UNCHANGED TableP!vars
  BY <1>1 DEF set_vars, add_vars, TableP!vars
<1>2. ASSUME NEW c \in Contents, Reuse(c)
      PROVE  UNCHANGED TableP!vars
  BY <1>1, <1>2 DEF Reuse
<1>3. ASSUME NEW o \in Objects, Allocate(o)
      PROVE  TableP!Next
  <2>1. TableP!BeginSet(o, FALSE, FALSE)
    BY <1>3, AllocateIsTable
  <2>2. QED
    BY <2>1 DEF TableP!Next
<1>4. ASSUME NEW o \in Objects, Delete(o)
      PROVE  TableP!Next
  <2>1. TableP!Delete(o)
    BY <1>4, DeleteIsTable
  <2>2. QED
    BY <2>1 DEF TableP!Next
<1>5. CASE Rehash
  BY <1>5, RehashIsTable DEF TableP!Next
<1>6. CASE Install
  BY <1>6, InstallIsTable DEF TableP!Next
<1>7. CASE Insert
  BY <1>7, InsertIsTable DEF TableP!Next
<1>8. CASE UNCHANGED vars
  <2>1. UNCHANGED <<set_vars, add_vars, answer>>
    BY <1>8 DEF vars, set_vars, add_vars
  <2>2. QED
    BY <1>1, <2>1
<1>9. QED
  BY <1>2, <1>3, <1>4, <1>5, <1>6, <1>7, <1>8 DEF Next

LEMMA IsTable == Spec => TableP!Spec
<1>1. TypeOK /\ TypeOK' /\ [Next]_vars => [TableP!Next]_(TableP!vars)
  BY StepIsTable
<1>2. QED
  BY <1>1, InitIsTable, TypeCorrect, PTL DEF Spec, TableP!Spec

\* The set of strings makes the steps of the hash table, whatever strings are
\* allocated and deleted.
THEOREM ImplementsTableHolds == Spec => ImplementsTable
  BY IsTable, SameSpec DEF ImplementsTable

\* What was proved of the table holds of the set: the search of find_entry ends.
THEOREM SearchEnds == Spec => []TableP!ProbeEnds
<1>1. TableP!Spec => []TableP!ProbeEnds
  BY TableAssumptions, TableP!ProbeEndsHolds
<1>2. QED
  BY <1>1, IsTable

-----------------------------------------------------------------------------
(***************************************************************************)
(* The pool of strings.                                                    *)
(***************************************************************************)
Known == Interned \cup ({call} \ {NULL})

PoolInv ==
    /\ registered \ forgotten = Known
    /\ \A o, n \in Known : Chars[o] = Chars[n] => o = n
    /\ call # NULL => call \notin Interned

\* The map of the table binds the strings that are interned.
LEMMA InternedIsBound ==
  ASSUME NEW o \in Objects
  PROVE  /\ TableP!Table[o] # NULL <=> TableP!Binding(o) # NULL
         /\ TypeOK => (o \in Interned <=> TableP!Binding(o) # NULL)
<1>1. TableP!Table[o] = TableP!Binding(o)
  BY DEF TableP!Table
<1>2. ASSUME TypeOK
      PROVE  o \in Interned <=> TableP!Binding(o) # NULL
  <2> DEFINE A == AsEntries(entries, capacity)
             Bound == \E b \in TableP!Live(A, capacity) : A[b].key = o
  <2>1. capacity \in Nat /\ entries \in [0 .. capacity - 1 -> SetEntry]
    BY <1>2 DEF TypeOK
  <2>2. \A b \in 0 .. capacity - 1 : /\ A[b].key = entries[b].string
                                     /\ TableP!IsLive(A[b]) <=> IsLive(entries[b])
    <3> SUFFICES ASSUME NEW b \in 0 .. capacity - 1
                 PROVE  A[b].key = entries[b].string /\ (TableP!IsLive(A[b]) <=> IsLive(entries[b]))
      OBVIOUS
    <3>1. A[b] = AsEntry(entries[b]) /\ A[b].key = entries[b].string /\ entries[b] \in SetEntry
      BY <2>1, AsEntriesAt
    <3>2. QED
      BY <3>1, SameState
  <2> HIDE DEF A
  <2>3. o \in Interned <=> Bound
    BY <2>2 DEF Interned, TableP!Live
  <2>4. Bound => TableP!BindingIn(A, capacity, o) \in [value : BOOLEAN, read_only : BOOLEAN]
    <3> SUFFICES ASSUME Bound
                 PROVE  TableP!BindingIn(A, capacity, o) \in [value : BOOLEAN, read_only : BOOLEAN]
      OBVIOUS
    <3> DEFINE c == CHOOSE b \in TableP!Live(A, capacity) : A[b].key = o
    <3>1. c \in TableP!Live(A, capacity)
      OBVIOUS
    <3>2. c \in 0 .. capacity - 1
      BY <3>1 DEF TableP!Live
    <3>3. A[c] = AsEntry(entries[c])
      BY <2>1, <3>2, AsEntriesAt DEF A
    <3>4. A[c].value \in BOOLEAN /\ A[c].read_only \in BOOLEAN
      BY <3>3 DEF AsEntry
    <3>5. TableP!BindingIn(A, capacity, o) = [value |-> A[c].value, read_only |-> A[c].read_only]
      BY DEF TableP!BindingIn
    <3>6. QED
      BY <3>4, <3>5
  <2>5. ~Bound => TableP!BindingIn(A, capacity, o) = NULL
    BY DEF TableP!BindingIn
  <2>6. TableP!Binding(o) = TableP!BindingIn(A, capacity, o)
    BY DEF TableP!Binding, A
  <2>7. QED
    BY <2>3, <2>4, <2>5, <2>6, NullAssumption
<1>3. QED
  BY <1>1, <1>2

LEMMA InternedObjects == TypeOK => Interned \subseteq Objects
  BY EntryType DEF TypeOK, Interned, IsLive

InternedIsMap ==
    /\ Interned \subseteq Objects
    /\ \A o \in Objects : o \in Interned <=> TableP!Binding(o) # NULL

LEMMA InternedInBoth == (TypeOK => InternedIsMap) /\ (TypeOK' => InternedIsMap')
<1>1. TypeOK => InternedIsMap
  BY InternedObjects, InternedIsBound DEF InternedIsMap
<1>2. TypeOK' => InternedIsMap'
  BY <1>1, PTL
<1>3. QED
  BY <1>1, <1>2

\* stringset_has_cstr answers the string of the pool that has the characters.
LEMMA SearchAnswers ==
  ASSUME TypeOK, TableP!MapInv, pc = "idle", NEW c \in Contents, NEW o, HasCstr(c, o)
  PROVE  /\ o # NULL => o \in Interned /\ Chars[o] = c
         /\ o = NULL => \A n \in Interned : Chars[n] # c
<1>1. CASE count = 0
  <2>1. \A n \in Objects : TableP!Binding(n) = NULL
    BY <1>1, TableAssumptions, TableP!NothingCounted
  <2>2. \A n \in Objects : n \notin Interned
    BY <2>1, InternedIsBound
  <2>3. Interned = {}
    BY <2>2, InternedObjects
  <2>4. QED
    BY <1>1, <2>3 DEF HasCstr
<1>2. CASE count # 0
  <2>1. PICK d \in 0 .. capacity - 1 : SearchStops(c, d) /\ o = entries[Bucket(c, capacity, d)].string
    BY <1>2 DEF HasCstr
  <2>2. capacity \in Nat /\ capacity > 0 /\ entries \in [0 .. capacity - 1 -> SetEntry]
    BY <2>1 DEF TypeOK
  <2>3. Bucket(c, capacity, d) \in 0 .. capacity - 1
    BY <2>1, <2>2, BucketIn
  <2>4. CASE o # NULL
    BY <2>1, <2>3, <2>4 DEF SearchStops, IsEmpty, Same, Interned, IsLive
  <2>5. CASE o = NULL
    <3>1. IsEmpty(entries[Bucket(c, capacity, d)])
      BY <2>1, <2>5 DEF SearchStops, Same, IsLive
    <3> SUFFICES ASSUME NEW n \in Interned, Chars[n] = c PROVE FALSE
      BY <2>5
    <3>2. PICK b \in 0 .. capacity - 1 : IsLive(entries[b]) /\ entries[b].string = n
      BY DEF Interned
    <3>3. n \in Objects
      BY InternedObjects
    <3>4. PICK e \in 0 .. capacity - 1 : TableP!Bucket(n, capacity, e) = b
      BY <2>2, <3>2, <3>3, TableAssumptions, TableP!BucketOnto
    <3>5. Bucket(c, capacity, e) = b
      BY <3>3, <3>4, SameBucket
    <3>6. CASE e < d
      <4>1. ~Same(entries[Bucket(c, capacity, e)], c)
        BY <2>1, <3>6 DEF SearchStops
      <4>2. QED
        BY <3>2, <3>5, <4>1 DEF Same
    <3>7. CASE e = d
      BY <3>1, <3>2, <3>5, <3>7 DEF IsEmpty, IsLive
    <3>8. CASE d < e
      <4> DEFINE A == AsEntries(entries, capacity)
      <4>1. TableP!PathClosed(A, capacity)
        BY DEF TableP!MapInv, TableP!IInv, TableP!ArraysInv
      <4>2. A[b] = AsEntry(entries[b]) /\ A[b].key = n /\ entries[b] \in SetEntry
        BY <2>2, <3>2, AsEntriesAt
      <4>3. b \in TableP!Live(A, capacity)
        BY <3>2, <4>2, SameState DEF TableP!Live
      <4>4. A[Bucket(c, capacity, d)] = AsEntry(entries[Bucket(c, capacity, d)])
            /\ entries[Bucket(c, capacity, d)] \in SetEntry
        BY <2>2, <2>3, AsEntriesAt
      <4>5. TableP!IsEmpty(A[Bucket(c, capacity, d)])
        BY <3>1, <4>4, SameState
      <4> HIDE DEF A
      <4>6. d \in 0 .. e - 1
        BY <3>8
      <4>7. ~TableP!IsEmpty(A[TableP!Bucket(n, capacity, d)])
        BY <3>4, <4>1, <4>2, <4>3, <4>6 DEF TableP!PathClosed
      <4>8. TableP!Bucket(n, capacity, d) = Bucket(c, capacity, d)
        BY <3>3, SameBucket
      <4>9. QED
        BY <4>5, <4>7, <4>8
    <3>9. QED
      BY <3>6, <3>7, <3>8
  <2>6. QED
    BY <2>4, <2>5
<1>3. QED
  BY <1>1, <1>2

-----------------------------------------------------------------------------
\* What each action does to the pool, from what it does to the map of the table.
LEMMA InitPool == Init => PoolInv /\ Pool!Init
<1> SUFFICES ASSUME Init PROVE PoolInv /\ Pool!Init
  OBVIOUS
<1>1. Interned = {} /\ call = NULL /\ registered = {} /\ forgotten = {} /\ made = <<NULL, NULL>>
  BY DEF Init, Interned
<1>2. QED
  BY <1>1 DEF PoolInv, Known, Pool!Init

\* Growing the set does not change the pool.
LEMMA GrowingKeepsPool ==
  ASSUME TypeOK, TypeOK', TableP!MapInv, TableP!MapInv', Rehash \/ Install
  PROVE  UNCHANGED <<Interned, call, registered, forgotten, made>>
<1>1. UNCHANGED <<call, registered, forgotten, made>>
  BY DEF Rehash, Install, vm_vars
<1>2. TableP!Rehash \/ TableP!Install
  BY RehashIsTable, InstallIsTable
<1>3. TableP!Table' = TableP!Table
  BY <1>2, TableAssumptions, TableP!GrowingKeepsMap
<1>4. \A o \in Objects : TableP!Binding(o)' = TableP!Binding(o)
  BY <1>3 DEF TableP!Table
<1>5. \A o \in Objects : /\ o \in Interned <=> TableP!Binding(o) # NULL
                         /\ o \in Interned' <=> TableP!Binding(o)' # NULL
  BY InternedInBoth DEF InternedIsMap
<1>6. Interned \subseteq Objects /\ Interned' \subseteq Objects
  BY InternedInBoth DEF InternedIsMap
<1>7. Interned' = Interned
  BY <1>4, <1>5, <1>6
<1>8. QED
  BY <1>1, <1>7

LEMMA InsertAdds ==
  ASSUME TypeOK, TypeOK', TableP!MapInv, TableP!MapInv', Insert
  PROVE  /\ Interned' = Interned \cup {call} /\ call \in Objects
         /\ call' = NULL /\ made' = <<Chars[call], call>> /\ UNCHANGED <<registered, forgotten>>
<1>1. call' = NULL /\ made' = <<Chars[call], call>> /\ UNCHANGED <<registered, forgotten>> /\ call \in Objects
  BY DEF Insert, TypeOK
<1>2. TableP!Insert
  BY InsertIsTable
<1>3. TableP!Abstract!Set(call, FALSE, FALSE)
  BY <1>2, TableAssumptions, TableP!InsertIsSet
<1>4. TableP!Table' = [TableP!Table EXCEPT ![call] = [value |-> FALSE, read_only |-> FALSE]]
  BY <1>3 DEF TableP!Abstract!Set, TableP!Table
<1>5. \A o \in Objects : TableP!Binding(o)' =
         IF o = call THEN [value |-> FALSE, read_only |-> FALSE] ELSE TableP!Binding(o)
  BY <1>4 DEF TableP!Table
<1>6. NULL # [value |-> FALSE, read_only |-> FALSE]
  <2>1. [value |-> FALSE, read_only |-> FALSE] \in [value : BOOLEAN, read_only : BOOLEAN]
    OBVIOUS
  <2>2. QED
    BY <2>1, NullAssumption
<1>7. \A o \in Objects : /\ o \in Interned <=> TableP!Binding(o) # NULL
                         /\ o \in Interned' <=> TableP!Binding(o)' # NULL
  BY InternedInBoth DEF InternedIsMap
<1>8. Interned \subseteq Objects /\ Interned' \subseteq Objects
  BY InternedInBoth DEF InternedIsMap
<1>9. Interned' = Interned \cup {call}
  BY <1>1, <1>5, <1>6, <1>7, <1>8
<1>10. QED
  BY <1>1, <1>9

LEMMA DeleteRemoves ==
  ASSUME TypeOK, TypeOK', TableP!MapInv, TableP!MapInv', NEW o \in Objects, Delete(o)
  PROVE  /\ Interned' = Interned \ {o} /\ call' = NULL /\ call = NULL
         /\ forgotten' = forgotten \cup {o} /\ UNCHANGED <<registered, made>>
<1>1. call' = NULL /\ call = NULL /\ forgotten' = forgotten \cup {o} /\ UNCHANGED <<registered, made>>
  BY DEF Delete, TypeOK, add_vars
<1>2. TableP!Delete(o)
  BY DeleteIsTable
<1>3. TableP!Abstract!Delete(o)
  BY <1>2, TableAssumptions, TableP!DeleteIsDelete
<1>4. TableP!Table' = [TableP!Table EXCEPT ![o] = NULL]
  BY <1>3 DEF TableP!Abstract!Delete, TableP!Table
<1>5. \A n \in Objects : TableP!Binding(n)' = IF n = o THEN NULL ELSE TableP!Binding(n)
  BY <1>4 DEF TableP!Table
<1>6. \A n \in Objects : /\ n \in Interned <=> TableP!Binding(n) # NULL
                         /\ n \in Interned' <=> TableP!Binding(n)' # NULL
  BY InternedInBoth DEF InternedIsMap
<1>7. Interned \subseteq Objects /\ Interned' \subseteq Objects
  BY InternedInBoth DEF InternedIsMap
<1>8. Interned' = Interned \ {o}
  BY <1>5, <1>6, <1>7
<1>9. QED
  BY <1>1, <1>8

LEMMA AllocateSearches ==
  ASSUME TypeOK, TableP!MapInv, NEW o \in Objects, Allocate(o)
  PROVE  /\ Interned' = Interned /\ call = NULL /\ call' = o
         /\ \A n \in Interned : Chars[n] # Chars[o]
         /\ o \notin registered /\ registered' = registered \cup {o}
         /\ UNCHANGED <<forgotten, made>>
<1>1. /\ UNCHANGED <<entries, capacity, forgotten, made>> /\ call' = o /\ pc = "idle" /\ call = NULL
      /\ o \notin registered /\ registered' = registered \cup {o} /\ HasCstr(Chars[o], NULL)
  BY DEF Allocate, TypeOK
<1>2. PICK c \in Contents : c = Chars[o]
  BY CharsAssumption
<1>3. HasCstr(c, NULL)
  BY <1>1, <1>2
<1>4. \A n \in Interned : Chars[n] # c
  BY <1>1, <1>3, SearchAnswers
<1>5. Interned' = Interned
  BY <1>1 DEF Interned
<1>6. QED
  BY <1>1, <1>2, <1>4, <1>5

LEMMA PoolInvariance == Spec => [](TypeOK /\ TableP!MapInv /\ PoolInv)
<1>1. ASSUME TypeOK, TypeOK', TableP!MapInv, TableP!MapInv', PoolInv, [Next]_vars
      PROVE  PoolInv'
  <2> USE <1>1
  <2>1. ASSUME UNCHANGED <<Interned, call, registered, forgotten>>
        PROVE  PoolInv'
    BY <2>1 DEF PoolInv, Known
  <2>2. ASSUME NEW c \in Contents, Reuse(c)
        PROVE  PoolInv'
    <3>1. UNCHANGED <<Interned, call, registered, forgotten>>
      BY <2>2 DEF Reuse, set_vars, add_vars, Interned
    <3>2. QED
      BY <2>1, <3>1
  <2>3. ASSUME NEW o \in Objects, Allocate(o)
        PROVE  PoolInv'
    <3>1. /\ Interned' = Interned /\ call = NULL /\ call' = o
          /\ \A n \in Interned : Chars[n] # Chars[o]
          /\ o \notin registered /\ registered' = registered \cup {o} /\ forgotten' = forgotten
      BY <2>3, AllocateSearches
    <3>2. o # NULL /\ o \notin forgotten
      BY <3>1, NullAssumption DEF TypeOK
    <3>3. Known' = Known \cup {o} /\ Known = Interned
      BY <3>1, <3>2 DEF Known
    <3>4. QED
      BY <3>1, <3>2, <3>3 DEF PoolInv
  <2>4. ASSUME NEW o \in Objects, Delete(o)
        PROVE  PoolInv'
    <3>1. /\ Interned' = Interned \ {o} /\ call' = NULL /\ call = NULL
          /\ forgotten' = forgotten \cup {o} /\ registered' = registered
      BY <2>4, DeleteRemoves
    <3>2. QED
      BY <3>1 DEF PoolInv, Known
  <2>5. CASE Rehash \/ Install
    BY <2>1, <2>5, GrowingKeepsPool
  <2>6. CASE Insert
    <3>1. /\ Interned' = Interned \cup {call} /\ call \in Objects /\ call' = NULL
          /\ UNCHANGED <<registered, forgotten>>
      BY <2>6, InsertAdds
    <3>2. Known' = Known
      BY <3>1, NullAssumption DEF Known
    <3>3. QED
      BY <3>1, <3>2 DEF PoolInv
  <2>7. CASE UNCHANGED vars
    <3>1. UNCHANGED <<Interned, call, registered, forgotten>>
      BY <2>7 DEF vars, Interned
    <3>2. QED
      BY <2>1, <3>1
  <2>8. QED
    BY <2>2, <2>3, <2>4, <2>5, <2>6, <2>7 DEF Next
<1>2. TableP!Spec => []TableP!MapInv
  BY TableAssumptions, TableP!MapInvariance
<1>3. QED
  BY <1>1, <1>2, IsTable, InitPool, TypeCorrect, PTL DEF Spec

\* Two strings with the same characters are one object, so that comparing pointers
\* compares strings, for every hash function.
THEOREM DeduplicatedHolds == Spec => []Deduplicated
<1>1. PoolInv => Deduplicated
  BY DEF PoolInv, Deduplicated
<1>2. QED
  BY <1>1, PoolInvariance, PTL

\* No string is lost when the array grows or a bucket is used again.
THEOREM StaysInternedHolds == Spec => []StaysInterned
<1>1. PoolInv => StaysInterned
  BY DEF PoolInv, StaysInterned, Known
<1>2. QED
  BY <1>1, PoolInvariance, PTL

\* string_new answers the one string of the pool that has the characters, and makes
\* one only if there is none.
THEOREM ImplementsPoolHolds == Spec => ImplementsPool
<1>1. ASSUME TypeOK, TypeOK', TableP!MapInv, TableP!MapInv', PoolInv, [Next]_vars
      PROVE  [Pool!Next]_<<Interned, made>>
  <2> USE <1>1
  <2>1. ASSUME NEW c \in Contents, Reuse(c)
        PROVE  Pool!Next
    <3>1. PICK o \in Objects : HasCstr(c, o) /\ made' = <<c, o>>
      BY <2>1 DEF Reuse
    <3>2. pc = "idle" /\ Interned' = Interned
      BY <2>1 DEF Reuse, set_vars, Interned
    <3>3. o # NULL
      BY NullAssumption
    <3>4. o \in Interned /\ Chars[o] = c
      BY <3>1, <3>2, <3>3, SearchAnswers
    <3>5. Pool!Make(c)
      BY <3>1, <3>2, <3>4 DEF Pool!Make, Pool!Known
    <3>6. QED
      BY <3>5 DEF Pool!Next
  <2>2. ASSUME NEW o \in Objects, Allocate(o)
        PROVE  UNCHANGED <<Interned, made>>
    BY <2>2, AllocateSearches
  <2>3. ASSUME NEW o \in Objects, Delete(o)
        PROVE  Pool!Next
    <3>1. Interned' = Interned \ {o} /\ made' = made
      BY <2>3, DeleteRemoves
    <3>2. QED
      BY <3>1 DEF Pool!Next, Pool!Forget
  <2>4. CASE Rehash \/ Install
    BY <2>4, GrowingKeepsPool
  <2>5. CASE Insert
    <3>1. Interned' = Interned \cup {call} /\ call \in Objects /\ made' = <<Chars[call], call>>
      BY <2>5, InsertAdds
    <3>2. \A o \in Interned : Chars[o] # Chars[call]
      BY <3>1, NullAssumption DEF PoolInv, Known
    <3>3. Chars[call] \in Contents
      BY <3>1, CharsAssumption
    <3>4. Pool!Make(Chars[call])
      BY <3>1, <3>2 DEF Pool!Make, Pool!Known
    <3>5. QED
      BY <3>3, <3>4 DEF Pool!Next
  <2>6. CASE UNCHANGED vars
    BY <2>6 DEF vars, Interned
  <2>7. QED
    BY <2>1, <2>2, <2>3, <2>4, <2>5, <2>6 DEF Next
<1>2. (TypeOK /\ TableP!MapInv /\ PoolInv) /\ (TypeOK /\ TableP!MapInv /\ PoolInv)' /\ [Next]_vars
         => [Pool!Next]_(Pool!vars)
  BY <1>1 DEF Pool!vars
<1>3. QED
  BY <1>2, InitPool, PoolInvariance, PTL DEF Spec, ImplementsPool, Pool!Spec

=============================================================================
