-------------------------- MODULE MC_TaskQueue --------------------------
(***************************************************************************)
(* TaskQueue on a small instance: three threads and three tasks, so that   *)
(* the queue is empty, holds one task, or more than one (the three cases   *)
(* of try_pop) while another call is at each of its steps.                 *)
(***************************************************************************)
EXTENDS TaskQueue
=========================================================================
