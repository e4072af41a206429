------------------------------ MODULE StringPool ------------------------------
(***************************************************************************)
(* What the pool of strings of vm.h promises: string_new and string_ctor   *)
(* (src/src/object.c) answer the one object of the pool that has the given *)
(* contents, and make one only if there is none.  Nothing here speaks of   *)
(* hashes; StringSet is the detailed specification.                        *)
(***************************************************************************)
CONSTANTS
    Objects,    \* ObjectString, one for every string that may be allocated
    Contents,   \* what the characters of a string can be
    Chars,      \* the contents of an object
    NULL

VARIABLES
    pool,       \* the strings that are interned
    made        \* the last contents that were asked for, and the string that was answered

vars == <<pool, made>>

Init == pool = {} /\ made = <<NULL, NULL>>

Known(c) == {o \in pool : Chars[o] = c}

Make(c) ==
    \/ /\ \E o \in Known(c) : made' = <<c, o>>
       /\ UNCHANGED pool
    \/ /\ Known(c) = {}
       /\ \E o \in Objects : Chars[o] = c /\ made' = <<c, o>> /\ pool' = pool \cup {o}

Forget(o) == pool' = pool \ {o} /\ UNCHANGED made

Next == (\E c \in Contents : Make(c)) \/ (\E o \in Objects : Forget(o))

Spec == Init /\ [][Next]_vars
=============================================================================
