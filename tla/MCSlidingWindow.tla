-------------------------- MODULE MCSlidingWindow --------------------------
(* SlidingWindow for TLC: a ring that wraps twice and a window narrower
   than the clock's range. *)
EXTENDS SlidingWindow
=============================================================================
