---------------------------- MODULE MC_Server ----------------------------
(***************************************************************************)
(* Server with three descriptor numbers, of which the table has two.       *)
(***************************************************************************)
EXTENDS Server
=========================================================================
