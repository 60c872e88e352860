------------------------- MODULE MC_ThreadPool -------------------------
(***************************************************************************)
(* ThreadPool on a small instance: two workers, so that one can take what  *)
(* was posted to the other, and three tasks of two posters, so that _index *)
(* wraps around.                                                           *)
(***************************************************************************)
EXTENDS ThreadPool
=========================================================================
