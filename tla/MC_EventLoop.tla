-------------------------- MODULE MC_EventLoop --------------------------
(***************************************************************************)
(* EventLoop on a small instance: two other threads, three works (one can  *)
(* be in the batch, one in the vector and one still to come), one          *)
(* descriptor besides the eventfd, one timer.                              *)
(***************************************************************************)
EXTENDS EventLoop
=========================================================================
