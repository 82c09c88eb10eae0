------------------------------- MODULE MCProc -------------------------------
(* Proc on small instances. *)
EXTENDS Proc
=============================================================================
