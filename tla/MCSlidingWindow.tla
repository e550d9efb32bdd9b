-------------------------- MODULE MCSlidingWindow --------------------------
(* SlidingWindow on small instances. *)
EXTENDS SlidingWindow
=============================================================================
