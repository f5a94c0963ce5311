--------------------------- MODULE MCBucketCache ---------------------------
(* Constants for model checking BucketMetadataCache. *)
EXTENDS BucketCacheProperties

CONSTANTS b1, b2, c1, c2, u1, d1, r1

KindByName == [r \in Request |->
    CASE r \in {c1, c2} -> "create"
      [] r = u1 -> "update"
      [] r = d1 -> "delete"
      [] OTHER -> "read"]

\* The reader asks for a bucket of its own.
BucketByName == [r \in Request |-> IF r = r1 THEN b2 ELSE b1]
=============================================================================
