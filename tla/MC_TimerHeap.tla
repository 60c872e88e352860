-------------------------- MODULE MC_TimerHeap --------------------------
(***************************************************************************)
(* TimerHeap on a small instance: four timers, one of which may repeat,    *)
(* and a clock that lets three expiry times pass.  The timers that do not  *)
(* repeat are alike, so states that differ by a renaming of them are       *)
(* checked once.                                                           *)
(***************************************************************************)
EXTENDS TimerHeap, TLC

Symmetry == Permutations(Timers \ Repeating)
=========================================================================
