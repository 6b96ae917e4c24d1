------------------------------ MODULE MCRelay ------------------------------
(***************************************************************************)
(* Instances of Relay for TLC.  Readers meet only through the generation,  *)
(* which no reader changes, so one of them shows what any number can see.  *)
(***************************************************************************)
EXTENDS Relay
=============================================================================
