----------------------------- MODULE GlobalTable -----------------------------
(***************************************************************************)
(* What hashtable.h promises its user: a finite map from keys to a value   *)
(* and a read-only flag.  Every call is one step and its answer is kept in *)
(* "answer".  Nothing here speaks of buckets, probing or growth; Hashtable *)
(* is the detailed specification that implements this one.                 *)
(***************************************************************************)
CONSTANTS
    Keys,        \* interned strings (const ObjectString*)
    Values,      \* what a Value can be
    Absent       \* the binding of a key that is not in the table

VARIABLES
    table,       \* key -> [value, read_only] or Absent
    answer       \* the last call and what it returned

vars == <<table, answer>>

Bindings == [value : Values, read_only : BOOLEAN]

Answer(call, result) == <<call, result>>

Init ==
    /\ table = [k \in Keys |-> Absent]
    /\ answer = Answer("init", TRUE)

(***************************************************************************)
(* hashtable_set: binds the key whatever was there, and says whether the   *)
(* key is new.  The flag of an existing read-only binding is not looked at.*)
(***************************************************************************)
Set(k, v, ro) ==
    /\ table' = [table EXCEPT ![k] = [value |-> v, read_only |-> ro]]
    /\ answer' = Answer("set", table[k] = Absent)

Update(k, v) ==
    \/ /\ table[k] = Absent
       /\ answer' = Answer("update", "MISS")
       /\ UNCHANGED table
    \/ /\ table[k] # Absent /\ table[k].read_only
       /\ answer' = Answer("update", "READ_ONLY")
       /\ UNCHANGED table
    \/ /\ table[k] # Absent /\ ~table[k].read_only
       /\ table' = [table EXCEPT ![k].value = v]
       /\ answer' = Answer("update", "SUCCESS")

Get(k) ==
    /\ answer' = Answer("get", IF table[k] = Absent THEN Absent ELSE table[k].value)
    /\ UNCHANGED table

Delete(k) ==
    /\ table' = [table EXCEPT ![k] = Absent]
    /\ answer' = Answer("delete", table[k] # Absent)

Next ==
    \E k \in Keys :
        \/ \E v \in Values, ro \in BOOLEAN : Set(k, v, ro)
        \/ \E v \in Values : Update(k, v)
        \/ Get(k)
        \/ Delete(k)

Spec == Init /\ [][Next]_vars
=============================================================================
