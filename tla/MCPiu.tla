------------------------------- MODULE MCPiu -------------------------------
(***************************************************************************)
(* Instances of Piu for TLC.                                               *)
(***************************************************************************)
EXTENDS Piu
============================================================================
