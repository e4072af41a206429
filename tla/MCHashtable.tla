---------------------------- MODULE MCHashtable ----------------------------
(* Small instances of Hashtable for TLC. *)
EXTENDS Hashtable, TLC

CONSTANTS k1, k2, k3

MCKeys3 == {k1, k2, k3}
\* In the first array (3 buckets) all three keys hash to the last bucket, so that
\* every probe wraps round; in the grown one (6 buckets) k1 and k3 still collide.
MCHash3 == (k1 :> 2) @@ (k2 :> 5) @@ (k3 :> 8)
=============================================================================
