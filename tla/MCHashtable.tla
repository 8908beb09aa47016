---------------------------- MODULE MCHashtable ----------------------------
(* Five keys in a table that grows from one bucket, as the table of a      *)
(* supervisor's workers does: k1 and k2 collide at every size, k4 wraps    *)
(* around from the last bucket.                                            *)
EXTENDS Hashtable, TLC

CONSTANTS k1, k2, k3, k4, k5

MCKey == {k1, k2, k3, k4, k5}
MCHash == (k1 :> 0) @@ (k2 :> 8) @@ (k3 :> 3) @@ (k4 :> 7) @@ (k5 :> 1)
=============================================================================
