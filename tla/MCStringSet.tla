----------------------------- MODULE MCStringSet -----------------------------
(* A small instance of StringSet for TLC. *)
EXTENDS StringSet, TLC

CONSTANTS x1, x2, y1, y2, z1, x, y, z

MCObjects == {x1, x2, y1, y2, z1}
MCContents == {x, y, z}
\* A string that was deleted can be allocated once more.
MCChars == (x1 :> x) @@ (x2 :> x) @@ (y1 :> y) @@ (y2 :> y) @@ (z1 :> z)
\* x and y have the same hash; in the first array (3 buckets) all hash to the last
\* bucket, in the grown one (6 buckets) z is at the place after x and y.
MCHashOf == (x :> 5) @@ (y :> 5) @@ (z :> 8)
=============================================================================
