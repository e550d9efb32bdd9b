--------------------------- MODULE MCLeakyBucket ---------------------------
(* LeakyBucket on small instances. *)
EXTENDS LeakyBucket
=============================================================================
