------------------------------- MODULE MCMain -------------------------------
(* The instance of module Main that TLC checks. *)
EXTENDS Main
=============================================================================
