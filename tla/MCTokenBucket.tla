--------------------------- MODULE MCTokenBucket ---------------------------
(* TokenBucket on small instances. *)
EXTENDS TokenBucket
=============================================================================
