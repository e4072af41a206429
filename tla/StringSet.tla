------------------------------- MODULE StringSet -------------------------------
(***************************************************************************)
(* src/src/stringset.c, the set of pointers to strings, and its one user:  *)
(* string_new and string_ctor of src/src/object.c, which look a string up  *)
(* by its characters and add an object only if none has them.  Comparing   *)
(* strings by their pointers rests on that.                                *)
(*                                                                         *)
(* The set is a hash table written out again, with a flag for tombstones,  *)
(* a search by pointer (find_entry) and one by characters                  *)
(* (stringset_has_cstr).  As in Hashtable an iteration of the loop of      *)
(* adjust_capacity is a step.  An object is known by its address, and its  *)
(* contents never change: the constant Chars says what an address will     *)
(* hold once it is allocated.  stringset_delete has no caller in the       *)
(* program: it is what a collector of garbage would call.                  *)
(***************************************************************************)
EXTENDS Integers, FiniteSets

CONSTANTS
    Objects,      \* ObjectString, one for every string that may be allocated
    Contents,     \* what the characters of a string can be
    Chars,        \* the contents of an object
    HashOf,       \* hash_string, for every contents
    NULL,         \* the null pointer
    MIN_SIZE,     \* HASHTABLE_MIN_SIZE
    MaxCapacity,  \* bound: a call that would grow past it is not made
    MaxCount      \* bound: no string is added once count is past it

ASSUME CharsAssumption == Chars \in [Objects -> Contents]
ASSUME HashOfAssumption == HashOf \in [Contents -> Nat]
\* NULL is no object, nor anything a table of flags holds.
ASSUME NullAssumption ==
    NULL \notin Objects \cup BOOLEAN \cup [value : BOOLEAN, read_only : BOOLEAN]
\* With one bucket the load factor would leave no empty one.
ASSUME MinSizeAssumption == MIN_SIZE \in Nat /\ MIN_SIZE >= 2
ASSUME BoundAssumption == MaxCapacity \in Nat /\ MaxCount \in Nat

VARIABLES
    entries,                \* set->entries, a function on 0 .. capacity - 1
    capacity,
    count,
    count_with_tombstones,
    pc,                     \* "idle", or where stringset_add is
    call,                   \* the string it will add, or NULL
    fresh,                  \* adjust_capacity: the new array,
    new_capacity,           \*   its size,
    i,                      \*   and the loop index
    answer,                 \* what stringset_add or stringset_delete returned
    registered,             \* vm.objects_head: the strings that were allocated
    forgotten,              \* those that were deleted from the set
    made                    \* the last contents asked for, and the string answered

set_vars == <<entries, capacity, count, count_with_tombstones>>
add_vars == <<pc, call, fresh, new_capacity, i>>
vm_vars == <<registered, forgotten, made>>
vars == <<entries, capacity, count, count_with_tombstones, pc, call, fresh, new_capacity, i,
          answer, registered, forgotten, made>>

SetEntry == [string : Objects \cup {NULL}, tombstone : BOOLEAN]
EmptyEntry == [string |-> NULL, tombstone |-> FALSE]

IsEmpty(e) == e.string = NULL /\ ~e.tombstone
IsTombstone(e) == e.string = NULL /\ e.tombstone
IsLive(e) == e.string # NULL

\* The bucket after d steps of the search for contents c in cap buckets.
Bucket(c, cap, d) ==
    LET start == HashOf[c] % cap
    IN  IF start + d < cap THEN start + d ELSE start + d - cap

\* The search of find_entry, for a pointer, stops at distance d.
Stops(E, cap, o, d) ==
    /\ \/ IsEmpty(E[Bucket(Chars[o], cap, d)])
       \/ E[Bucket(Chars[o], cap, d)].string = o
    /\ \A c \in 0 .. d - 1 :
          /\ ~IsEmpty(E[Bucket(Chars[o], cap, c)])
          /\ E[Bucket(Chars[o], cap, c)].string # o

\* Mutant: find_entry returns the first tombstone and does not look further.
FindsTombstone(E, cap, o, b) ==
    \E d \in 0 .. cap - 1 :
        /\ b = Bucket(Chars[o], cap, d)
        /\ ~IsLive(E[b]) \/ E[b].string = o
        /\ \A c \in 0 .. d - 1 : /\ IsLive(E[Bucket(Chars[o], cap, c)])
                               /\ E[Bucket(Chars[o], cap, c)].string # o

\* find_entry returns bucket b: the pointer's own, or the first tombstone on the
\* way to an empty bucket, or that bucket.
Finds(E, cap, o, b) ==
    \E d \in 0 .. cap - 1 :
        /\ Stops(E, cap, o, d)
        /\ \/ /\ \/ E[Bucket(Chars[o], cap, d)].string = o
                 \/ \A c \in 0 .. d - 1 : ~IsTombstone(E[Bucket(Chars[o], cap, c)])
              /\ b = Bucket(Chars[o], cap, d)
           \/ /\ E[Bucket(Chars[o], cap, d)].string # o
              /\ \E c \in 0 .. d - 1 :
                    /\ IsTombstone(E[Bucket(Chars[o], cap, c)])
                    /\ \A c0 \in 0 .. c - 1 : ~IsTombstone(E[Bucket(Chars[o], cap, c0)])
                    /\ b = Bucket(Chars[o], cap, c)

\* Mutants of Same: any string with the same hash will do; and only the last one
\* that was asked for is known again.
SameHash(e, c) == IsLive(e) /\ HashOf[Chars[e.string]] = HashOf[c]
SameAsLast(e, c) == IsLive(e) /\ e.string = made[2] /\ Chars[e.string] = c

\* The hash, the length and the characters are those of c.
Same(e, c) == IsLive(e) /\ Chars[e.string] = c

\* The search of stringset_has_cstr, for characters, stops at distance d.
SearchStops(c, d) ==
    /\ \/ IsEmpty(entries[Bucket(c, capacity, d)])
       \/ Same(entries[Bucket(c, capacity, d)], c)
    /\ \A p \in 0 .. d - 1 : /\ ~IsEmpty(entries[Bucket(c, capacity, p)])
                             /\ ~Same(entries[Bucket(c, capacity, p)], c)

\* stringset_has_cstr returns the pointer o, or NULL.
HasCstr(c, o) ==
    \/ count = 0 /\ o = NULL
    \/ /\ count # 0
       /\ \E d \in 0 .. capacity - 1 :
             /\ SearchStops(c, d)
             /\ o = entries[Bucket(c, capacity, d)].string

Init ==
    /\ entries = <<>> /\ capacity = 0 /\ count = 0 /\ count_with_tombstones = 0
    /\ pc = "idle" /\ call = NULL /\ fresh = <<>> /\ new_capacity = 0 /\ i = 0
    /\ answer = <<"init", TRUE>>
    /\ registered = {} /\ forgotten = {} /\ made = <<NULL, NULL>>
-----------------------------------------------------------------------------
\* string_new and string_ctor find the string in the pool.
Reuse(c) ==
    /\ pc = "idle"
    /\ \E o \in Objects : HasCstr(c, o) /\ made' = <<c, o>>
    /\ UNCHANGED <<set_vars, add_vars, answer, registered, forgotten>>

\* (count_with_tombstones + 1) > capacity * HASHTABLE_MAX_LOAD, which is 3/4
Overloaded == 4 * (count_with_tombstones + 1) > 3 * capacity
GrownCapacity == IF capacity < MIN_SIZE THEN MIN_SIZE ELSE capacity * 2

\* They do not find it, allocate an object and call stringset_add.
Allocate(o) ==
    /\ pc = "idle" /\ count <= MaxCount
    /\ o \notin registered
    /\ HasCstr(Chars[o], NULL)
    /\ registered' = registered \cup {o}
    /\ call' = o
    /\ \/ /\ ~Overloaded
          /\ pc' = "insert"
          /\ UNCHANGED <<count, count_with_tombstones, fresh, new_capacity, i>>
       \/ /\ Overloaded
          /\ GrownCapacity <= MaxCapacity
          /\ pc' = "rehash"
          /\ new_capacity' = GrownCapacity
          /\ fresh' = [b \in 0 .. GrownCapacity - 1 |-> EmptyEntry]
          /\ i' = 0 /\ count' = 0 /\ count_with_tombstones' = 0
    /\ UNCHANGED <<entries, capacity, answer, forgotten, made>>

\* One iteration of the loop of adjust_capacity: only the pointer is moved.
Rehash ==
    /\ pc = "rehash" /\ i < capacity
    /\ i' = i + 1
    /\ \/ /\ IsLive(entries[i])
          /\ \E b \in 0 .. new_capacity - 1 :
                /\ Finds(fresh, new_capacity, entries[i].string, b)
                /\ fresh' = [fresh EXCEPT ![b].string = entries[i].string]
          /\ count' = count + 1
          /\ count_with_tombstones' = count_with_tombstones + 1
       \/ /\ ~IsLive(entries[i])
          /\ UNCHANGED <<fresh, count, count_with_tombstones>>
    /\ UNCHANGED <<entries, capacity, pc, call, new_capacity, answer, vm_vars>>

\* Mutant: the array is replaced, its size is not.
InstallWithoutSize ==
    /\ pc = "rehash" /\ i = capacity
    /\ entries' = fresh
    /\ pc' = "insert"
    /\ fresh' = <<>> /\ new_capacity' = 0 /\ i' = 0
    /\ UNCHANGED <<capacity, count, count_with_tombstones, call, answer, vm_vars>>

Install ==
    /\ pc = "rehash" /\ i = capacity
    /\ entries' = fresh
    /\ capacity' = new_capacity
    /\ pc' = "insert"
    /\ fresh' = <<>> /\ new_capacity' = 0 /\ i' = 0
    /\ UNCHANGED <<count, count_with_tombstones, call, answer, vm_vars>>

\* Mutant: a bucket that was a tombstone is counted again.
InsertCountingTombstones ==
    /\ pc = "insert"
    /\ \E b \in 0 .. capacity - 1 :
          /\ Finds(entries, capacity, call, b)
          /\ entries' = [entries EXCEPT ![b].string = call]
          /\ answer' = <<"set", ~IsLive(entries[b])>>
    /\ count' = count + 1 /\ count_with_tombstones' = count_with_tombstones + 1
    /\ made' = <<Chars[call], call>>
    /\ pc' = "idle" /\ call' = NULL
    /\ UNCHANGED <<capacity, fresh, new_capacity, i, registered, forgotten>>

\* The rest of stringset_add.  A tombstone keeps its flag when it is used again;
\* nothing reads it until the string is deleted, which sets it.
Insert ==
    /\ pc = "insert"
    /\ \E b \in 0 .. capacity - 1 :
          /\ Finds(entries, capacity, call, b)
          /\ count' = IF IsLive(entries[b]) THEN count ELSE count + 1
          /\ count_with_tombstones' = IF IsEmpty(entries[b]) THEN count_with_tombstones + 1
                                                             ELSE count_with_tombstones
          /\ entries' = [entries EXCEPT ![b].string = call]
          /\ answer' = <<"set", ~IsLive(entries[b])>>
    /\ made' = <<Chars[call], call>>
    /\ pc' = "idle" /\ call' = NULL
    /\ UNCHANGED <<capacity, fresh, new_capacity, i, registered, forgotten>>

\* stringset_delete leaves both counters alone.
Delete(o) ==
    /\ pc = "idle"
    /\ o \in registered
    /\ forgotten' = forgotten \cup {o}
    /\ \/ /\ count = 0
          /\ answer' = <<"delete", FALSE>>
          /\ UNCHANGED entries
       \/ /\ count # 0
          /\ \E b \in 0 .. capacity - 1 :
                /\ Finds(entries, capacity, o, b)
                /\ \/ /\ ~IsLive(entries[b])
                      /\ answer' = <<"delete", FALSE>>
                      /\ UNCHANGED entries
                   \/ /\ IsLive(entries[b])
                      /\ entries' = [entries EXCEPT ![b] = [string |-> NULL, tombstone |-> TRUE]]
                      /\ answer' = <<"delete", TRUE>>
    /\ UNCHANGED <<capacity, count, count_with_tombstones, add_vars, registered, made>>

Next ==
    \/ \E c \in Contents : Reuse(c)
    \/ \E o \in Objects : Allocate(o) \/ Delete(o)
    \/ Rehash
    \/ Install
    \/ Insert

Spec == Init /\ [][Next]_vars
-----------------------------------------------------------------------------
(***************************************************************************)
(* Properties.                                                             *)
(***************************************************************************)
Interned == {entries[b].string : b \in {b \in 0 .. capacity - 1 : IsLive(entries[b])}}

\* Every variable has the type its C declaration gives it.
TypeOK ==
    /\ capacity \in Nat /\ new_capacity \in Nat /\ i \in Nat
    /\ entries \in [0 .. capacity - 1 -> SetEntry] /\ fresh \in [0 .. new_capacity - 1 -> SetEntry]
    /\ count \in Nat /\ count_with_tombstones \in Nat
    /\ pc \in {"idle", "rehash", "insert"}
    /\ call \in Objects \cup {NULL} /\ (pc = "idle" <=> call = NULL)
    /\ registered \in SUBSET Objects /\ forgotten \in SUBSET registered
    /\ made \in (Contents \cup {NULL}) \X (Objects \cup {NULL})

\* string_equal compares pointers "because all strings are deduplicated and
\* interned" (object.c:158): two strings with the same characters are one object,
\* unless one of them was deleted from the set, which the program never does.
Deduplicated ==
    \A o, n \in registered \ forgotten : Chars[o] = Chars[n] => o = n

\* Every string stays in the pool, through growth and the reuse of buckets, until
\* it is deleted from it; one that is being added is on its way.
StaysInterned == registered \ forgotten = Interned \cup ({call} \ {NULL})

\* The set of strings is a hash table with nothing but keys: Hashtable, that of the
\* global variables, makes the same steps.  The flag of an entry that has a string
\* is not looked at.
AsEntry(e) == [key |-> e.string, value |-> e.string = NULL /\ e.tombstone, read_only |-> FALSE]
AsEntries(E, cap) == [b \in 0 .. cap - 1 |-> AsEntry(E[b])]

Table == INSTANCE Hashtable
    WITH Keys <- Objects, Hash <- [o \in Objects |-> HashOf[Chars[o]]],
         Values <- BOOLEAN, Null <- FALSE, Mark <- TRUE, NoKey <- NULL, Absent <- NULL,
         entries <- AsEntries(entries, capacity), fresh <- AsEntries(fresh, new_capacity),
         call <- [key |-> call, value |-> FALSE, read_only |-> FALSE]

ImplementsTable == Table!Spec

\* The pool of strings: string_new answers the one object that has the characters.
Pool == INSTANCE StringPool WITH pool <- Interned
ImplementsPool == Pool!Spec
=============================================================================
