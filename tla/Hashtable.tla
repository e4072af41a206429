------------------------------ MODULE Hashtable ------------------------------
(***************************************************************************)
(* src/src/hashtable.c: open addressing with linear probing, tombstones    *)
(* and doubling.  It holds the global variables of the virtual machine.    *)
(*                                                                         *)
(* A call is one step, except hashtable_set: the loop of adjust_capacity   *)
(* that re-inserts every live entry into the new array is one step per     *)
(* iteration ("Rehash"), so that its loop invariant can be stated, checked *)
(* and proved.  The table serves no other call meanwhile: pc is not "idle".*)
(***************************************************************************)
EXTENDS Integers, FiniteSets

CONSTANTS
    Keys,         \* interned strings; equal strings are the same object
    Hash,         \* key->hash, a natural number for every key
    Values,       \* what a Value can be; contains Null and Mark
    Null,         \* make_null(): an empty bucket holds it
    Mark,         \* make_bool(true): a tombstone holds it
    NoKey,        \* the NULL pointer in Entry.key
    Absent,       \* the NULL pointer hashtable_get returns
    MIN_SIZE,     \* HASHTABLE_MIN_SIZE
    MaxCapacity,  \* bound: a call that would grow past it is not made
    MaxCount      \* bound: no key is set once count is past it (hashtable_delete
                  \* never decrements count, so setting and deleting one key
                  \* over and over drives it up)

ASSUME HashAssumption == Hash \in [Keys -> Nat]
ASSUME KeyAssumption == NoKey \notin Keys
ASSUME ValueAssumption == Null \in Values /\ Mark \in Values /\ Null # Mark
\* A NULL pointer is neither a value nor a binding.
ASSUME AbsentAssumption == Absent \notin Values \cup [value : Values, read_only : BOOLEAN]
\* With one bucket the load factor would leave no empty one.
ASSUME SizeAssumption == MIN_SIZE \in Nat /\ MIN_SIZE >= 2
ASSUME MaxAssumption == MaxCapacity \in Nat /\ MaxCount \in Nat

VARIABLES
    entries,                \* table->entries, a function on 0 .. capacity - 1
    capacity,
    count,
    count_with_tombstones,
    pc,                     \* "idle", or where hashtable_set is
    call,                   \* the entry the hashtable_set under way will write
    fresh,                  \* adjust_capacity: the new array,
    new_capacity,           \*   its size,
    i,                      \*   and the loop index
    answer                  \* the last call and what it returned

table_vars == <<entries, capacity, count, count_with_tombstones>>
set_vars == <<pc, call, fresh, new_capacity, i>>
vars == <<entries, capacity, count, count_with_tombstones,
          pc, call, fresh, new_capacity, i, answer>>

GROW_FACTOR == 2

Entry == [key : Keys \cup {NoKey}, value : Values, read_only : BOOLEAN]

\* A new bucket.  The C code leaves read_only uninitialised here; no operation
\* reads it before hashtable_set or adjust_capacity has written it.
EmptyEntry == [key |-> NoKey, value |-> Null, read_only |-> FALSE]

\* Mutant: find_entry does not look at the value, and stops at a tombstone.
HasNoKey(e) == e.key = NoKey
IsEmpty(e) == e.key = NoKey /\ e.value = Null
IsTombstone(e) == e.key = NoKey /\ e.value # Null
IsLive(e) == e.key # NoKey

\* The bucket reached after d steps of the probe of k in an array of cap buckets.
Bucket(k, cap, d) ==
    LET start == Hash[k] % cap
    IN  IF start + d < cap THEN start + d ELSE start + d - cap

\* The probe of k stops at distance d: the key itself or an empty bucket.
Stops(E, cap, k, d) ==
    /\ \/ IsEmpty(E[Bucket(k, cap, d)])
       \/ E[Bucket(k, cap, d)].key = k
    /\ \A c \in 0 .. d - 1 :
          /\ ~IsEmpty(E[Bucket(k, cap, c)])
          /\ E[Bucket(k, cap, c)].key # k

\* find_entry returns bucket b: the key's own bucket, or the first tombstone met
\* on the way to an empty bucket, or that empty bucket.  If the probe never
\* stops the C loop spins for ever and no b satisfies this.
Finds(E, cap, k, b) ==
    \E d \in 0 .. cap - 1 :
        /\ Stops(E, cap, k, d)
        /\ \/ /\ E[Bucket(k, cap, d)].key = k \/ \A c \in 0 .. d - 1 : ~IsTombstone(E[Bucket(k, cap, c)])
              /\ b = Bucket(k, cap, d)
           \/ /\ E[Bucket(k, cap, d)].key # k
              /\ \E c \in 0 .. d - 1 :
                    /\ IsTombstone(E[Bucket(k, cap, c)])
                    /\ \A c0 \in 0 .. c - 1 : ~IsTombstone(E[Bucket(k, cap, c0)])
                    /\ b = Bucket(k, cap, c)

Answer(name, result) == <<name, result>>

Init ==
    /\ entries = <<>>
    /\ capacity = 0
    /\ count = 0
    /\ count_with_tombstones = 0
    /\ pc = "idle"
    /\ call = EmptyEntry
    /\ answer = Answer("init", TRUE)
    /\ fresh = <<>>
    /\ new_capacity = 0
    /\ i = 0
-----------------------------------------------------------------------------
\* Mutant: the table grows only when it is full.
OverloadedWhenFull == count_with_tombstones + 1 > capacity

\* (count_with_tombstones + 1) > capacity * HASHTABLE_MAX_LOAD, which is 3/4
Overloaded == 4 * (count_with_tombstones + 1) > 3 * capacity

GrownCapacity == IF capacity < MIN_SIZE THEN MIN_SIZE ELSE capacity * GROW_FACTOR

\* hashtable_set(k, v, ro) is called.
BeginSet(k, v, ro) ==
    /\ pc = "idle" /\ count <= MaxCount
    /\ call' = [key |-> k, value |-> v, read_only |-> ro]
    /\ \/ /\ ~Overloaded
          /\ pc' = "insert"
          /\ UNCHANGED <<count, count_with_tombstones, fresh, new_capacity, i>>
       \/ /\ Overloaded
          /\ GrownCapacity <= MaxCapacity
          /\ pc' = "rehash"
          /\ new_capacity' = GrownCapacity
          /\ fresh' = [b \in 0 .. GrownCapacity - 1 |-> EmptyEntry]
          /\ i' = 0
          /\ count' = 0
          /\ count_with_tombstones' = 0
    /\ UNCHANGED <<entries, capacity, answer>>

\* Mutant: the loop counts the buckets it fills and leaves count at 0.
RehashWithoutCount ==
    /\ pc = "rehash" /\ i < capacity
    /\ i' = i + 1
    /\ \/ /\ IsLive(entries[i])
          /\ \E b \in 0 .. new_capacity - 1 :
                /\ Finds(fresh, new_capacity, entries[i].key, b)
                /\ fresh' = [fresh EXCEPT ![b] = entries[i]]
          /\ count_with_tombstones' = count_with_tombstones + 1
       \/ /\ ~IsLive(entries[i])
          /\ UNCHANGED <<fresh, count_with_tombstones>>
    /\ UNCHANGED <<entries, capacity, count, pc, call, new_capacity, answer>>

\* One iteration of the loop of adjust_capacity.
Rehash ==
    /\ pc = "rehash" /\ i < capacity
    /\ i' = i + 1
    /\ \/ /\ IsLive(entries[i])
          /\ \E b \in 0 .. new_capacity - 1 :
                /\ Finds(fresh, new_capacity, entries[i].key, b)
                /\ fresh' = [fresh EXCEPT ![b] = entries[i]]
          /\ count' = count + 1
          /\ count_with_tombstones' = count_with_tombstones + 1
       \/ /\ ~IsLive(entries[i])
          /\ UNCHANGED <<fresh, count, count_with_tombstones>>
    /\ UNCHANGED <<entries, capacity, pc, call, new_capacity, answer>>

\* Mutant: the array is replaced, its size is not.
InstallWithoutSize ==
    /\ pc = "rehash" /\ i = capacity
    /\ entries' = fresh
    /\ pc' = "insert"
    /\ fresh' = <<>> /\ new_capacity' = 0 /\ i' = 0
    /\ UNCHANGED <<capacity, count, count_with_tombstones, call, answer>>

\* The loop has ended: the new array replaces the old one.
Install ==
    /\ pc = "rehash" /\ i = capacity
    /\ entries' = fresh
    /\ capacity' = new_capacity
    /\ pc' = "insert"
    /\ fresh' = <<>> /\ new_capacity' = 0 /\ i' = 0
    /\ UNCHANGED <<count, count_with_tombstones, call, answer>>

\* Mutants: the bucket of every new key is counted, that of a reused tombstone
\* again; and no bucket is counted at all.
InsertCounting(buckets) ==
    /\ pc = "insert"
    /\ \E b \in 0 .. capacity - 1 :
          /\ Finds(entries, capacity, call.key, b)
          /\ count' = IF IsLive(entries[b]) THEN count ELSE count + 1
          /\ count_with_tombstones' = IF b \in buckets THEN count_with_tombstones + 1
                                                        ELSE count_with_tombstones
          /\ entries' = [entries EXCEPT ![b] = call]
          /\ answer' = Answer("set", ~IsLive(entries[b]))
    /\ pc' = "idle"
    /\ call' = EmptyEntry
    /\ UNCHANGED <<capacity, fresh, new_capacity, i>>
InsertCountingTombstones == InsertCounting({b \in 0 .. capacity - 1 : ~IsLive(entries[b])})
InsertCountingNothing == InsertCounting({})

\* The rest of hashtable_set: count the key and write the entry.
Insert ==
    /\ pc = "insert"
    /\ \E b \in 0 .. capacity - 1 :
          /\ Finds(entries, capacity, call.key, b)
          /\ count' = IF IsLive(entries[b]) THEN count ELSE count + 1
          /\ count_with_tombstones' = IF IsEmpty(entries[b]) THEN count_with_tombstones + 1
                                                             ELSE count_with_tombstones
          /\ entries' = [entries EXCEPT ![b] = call]
          /\ answer' = Answer("set", ~IsLive(entries[b]))
    /\ pc' = "idle"
    /\ call' = EmptyEntry
    /\ UNCHANGED <<capacity, fresh, new_capacity, i>>

\* Mutant: read_only is not looked at.
UpdateReadOnly(k, v) ==
    /\ pc = "idle" /\ capacity > 0
    /\ \E b \in 0 .. capacity - 1 :
          /\ Finds(entries, capacity, k, b)
          /\ \/ /\ ~IsLive(entries[b])
                /\ answer' = Answer("update", "MISS")
                /\ UNCHANGED entries
             \/ /\ IsLive(entries[b])
                /\ entries' = [entries EXCEPT ![b].value = v]
                /\ answer' = Answer("update", "SUCCESS")
    /\ UNCHANGED <<capacity, count, count_with_tombstones, set_vars>>

\* hashtable_update.  find_entry divides by capacity: the caller must have set a
\* key before (vm_init registers the standard functions first).
Update(k, v) ==
    /\ pc = "idle" /\ capacity > 0
    /\ \E b \in 0 .. capacity - 1 :
          /\ Finds(entries, capacity, k, b)
          /\ \/ /\ ~IsLive(entries[b])
                /\ answer' = Answer("update", "MISS")
                /\ UNCHANGED entries
             \/ /\ IsLive(entries[b]) /\ entries[b].read_only
                /\ answer' = Answer("update", "READ_ONLY")
                /\ UNCHANGED entries
             \/ /\ IsLive(entries[b]) /\ ~entries[b].read_only
                /\ entries' = [entries EXCEPT ![b].value = v]
                /\ answer' = Answer("update", "SUCCESS")
    /\ UNCHANGED <<capacity, count, count_with_tombstones, set_vars>>

Get(k) ==
    /\ pc = "idle"
    /\ \/ /\ count = 0
          /\ answer' = Answer("get", Absent)
       \/ /\ count # 0
          /\ \E b \in 0 .. capacity - 1 :
                /\ Finds(entries, capacity, k, b)
                /\ answer' = Answer("get", IF IsLive(entries[b]) THEN entries[b].value ELSE Absent)
    /\ UNCHANGED <<table_vars, set_vars>>

\* Mutant: a deleted entry becomes an empty bucket.
DeleteWithoutTombstone(k) ==
    /\ pc = "idle" /\ count # 0
    /\ \E b \in 0 .. capacity - 1 :
          /\ Finds(entries, capacity, k, b) /\ IsLive(entries[b])
          /\ entries' = [entries EXCEPT ![b] = EmptyEntry]
          /\ answer' = Answer("delete", TRUE)
    /\ UNCHANGED <<capacity, count, count_with_tombstones, set_vars>>

\* hashtable_delete leaves both counters alone.
Delete(k) ==
    /\ pc = "idle"
    /\ \/ /\ count = 0
          /\ answer' = Answer("delete", FALSE)
          /\ UNCHANGED entries
       \/ /\ count # 0
          /\ \E b \in 0 .. capacity - 1 :
                /\ Finds(entries, capacity, k, b)
                /\ \/ /\ ~IsLive(entries[b])
                      /\ answer' = Answer("delete", FALSE)
                      /\ UNCHANGED entries
                   \/ /\ IsLive(entries[b])
                      /\ entries' = [entries EXCEPT ![b].key = NoKey, ![b].value = Mark]
                      /\ answer' = Answer("delete", TRUE)
    /\ UNCHANGED <<capacity, count, count_with_tombstones, set_vars>>

Next ==
    \/ \E k \in Keys :
          \/ \E v \in Values, ro \in BOOLEAN : BeginSet(k, v, ro)
          \/ \E v \in Values : Update(k, v)
          \/ Get(k)
          \/ Delete(k)
    \/ Rehash
    \/ Install
    \/ Insert

\* hashtable_set runs to its end once called; nothing obliges anyone to call it.
Fairness == WF_vars(Rehash \/ Install \/ Insert)

Spec == Init /\ [][Next]_vars
FairSpec == Spec /\ Fairness
-----------------------------------------------------------------------------
(***************************************************************************)
(* Properties.                                                             *)
(***************************************************************************)
Used(E, cap) == {b \in 0 .. cap - 1 : ~IsEmpty(E[b])}
Live(E, cap) == {b \in 0 .. cap - 1 : IsLive(E[b])}

\* Every variable has the type its C declaration gives it.
TypeOK ==
    /\ capacity \in Nat /\ new_capacity \in Nat
    /\ entries \in [0 .. capacity - 1 -> Entry]
    /\ count \in Nat
    /\ count_with_tombstones \in Nat
    /\ pc \in {"idle", "rehash", "insert"}
    /\ call \in Entry /\ (pc # "idle" => call.key \in Keys)
    /\ fresh \in [0 .. new_capacity - 1 -> Entry]
    /\ i \in Nat

\* find_entry ends for every key an operation can look up: some bucket is empty,
\* although deletions never make one (comment "Unreachable", hashtable.c:38), in
\* the array the calls use and in the one adjust_capacity is filling.
ProbeEnds ==
    /\ pc # "rehash" /\ capacity > 0 => \E b \in 0 .. capacity - 1 : IsEmpty(entries[b])
    /\ pc = "rehash" => \E b \in 0 .. new_capacity - 1 : IsEmpty(fresh[b])

\* A key stays reachable: no bucket on the probe path to a live entry is empty,
\* whatever was deleted, reused or re-inserted in between.
PathClosed(E, cap) ==
    \A b \in Live(E, cap), d \in 0 .. cap - 1 :
        Bucket(E[b].key, cap, d) = b =>
            \A c \in 0 .. d - 1 : ~IsEmpty(E[Bucket(E[b].key, cap, c)])
Reachable == PathClosed(entries, capacity)

\* A key has one entry.  Reusing an earlier tombstone must not hide an entry
\* of the same key further down the path.
UniqueIn(E, cap) == \A b, c \in Live(E, cap) : E[b].key = E[c].key => b = c
UniqueKeys == UniqueIn(entries, capacity)

\* Between calls the counter that triggers growth counts the buckets in use,
\* tombstones included, and leaves a quarter of the array empty.
LoadBounded ==
    pc = "idle" =>
        /\ count_with_tombstones = Cardinality(Used(entries, capacity))
        /\ 4 * count_with_tombstones <= 3 * capacity

\* hashtable_get and hashtable_delete answer "not there" without probing when
\* count is 0: then no key is in the table.  (count is not the number of keys:
\* hashtable_delete does not decrement it.)
ShortcutSound == pc = "idle" => Cardinality(Live(entries, capacity)) <= count

\* The map the buckets stand for.  adjust_capacity moves every binding before
\* Install, so it is the same before and after.
BindingIn(E, cap, k) ==
    IF \E b \in Live(E, cap) : E[b].key = k
    THEN LET b == CHOOSE b \in Live(E, cap) : E[b].key = k
         IN  [value |-> E[b].value, read_only |-> E[b].read_only]
    ELSE Absent
Binding(k) == BindingIn(entries, capacity, k)

Abstract == INSTANCE GlobalTable WITH table <- [k \in Keys |-> Binding(k)]

\* The hash table implements the map of GlobalTable: every call answers and
\* changes exactly what the map would, and growing is invisible.
ImplementsMap == Abstract!Spec

\* hashtable_set returns.
SetReturns == (pc # "idle") ~> (pc = "idle")
=============================================================================
