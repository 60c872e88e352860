---------------------- MODULE MC_ConnectionTable ----------------------
(***************************************************************************)
(* ConnectionTable on a small instance: one descriptor number, which every *)
(* client after the first gets again, or two of them, so that one slot is  *)
(* prepared while the other is served.                                     *)
(***************************************************************************)
EXTENDS ConnectionTable
=========================================================================
