---------------------------- MODULE MC_Http1 ----------------------------
(***************************************************************************)
(* Http1 on a small instance: enough requests that one waits in the input  *)
(* buffer while another is answered, and a socket that holds less than a   *)
(* response, so that every response is sent in pieces.                     *)
(***************************************************************************)
EXTENDS Http1
=========================================================================
